-------------------------- MODULE SearchIndexOutbox --------------------------
(***************************************************************************)
(* packages/api/src/services/search.ts: how a message mutation reaches the *)
(* Meilisearch index.  Every route writes a search_index_outbox row in the *)
(* transaction of its mutation and then calls Meilisearch itself, without  *)
(* waiting; a worker in each API process drains the rows.  The two paths   *)
(* race, and so do the workers of two processes.                           *)
(*                                                                         *)
(* A text is a version number (None: deleted, or never posted), the index  *)
(* holds one version of each message.  Meilisearch runs its tasks in the   *)
(* order it accepts them, so a write takes effect here when it is accepted;*)
(* the caller may still see an error (a timeout of waitForTask).  The      *)
(* comparisons with NOW() are the flags due and stale.                     *)
(***************************************************************************)
EXTENDS Naturals, FiniteSets

CONSTANTS
  Message,     \* messages of one app
  Request,     \* mutation requests whose direct index call may be in flight at once
  Worker,      \* API processes that run the outbox worker
  MaxRows,     \* bound on search_index_outbox rows
  MaxVersion,  \* bound on the versions of a text
  Limit,       \* rows claimed by one batch
  MaxFaults    \* bound on crashes and failures of the worker's calls

ASSUME SearchAssumption ==
  /\ MaxRows \in Nat /\ MaxVersion \in Nat \ {0}
  /\ Limit \in Nat \ {0} /\ MaxFaults \in Nat

VARIABLES
  posted,    \* messages that were ever posted
  text,      \* message.text; None once deleted_at is set
  doc,       \* what the index holds
  key,       \* key[r]: <<message_id, operation>> of row r
  status,    \* status of row r, "absent" before the insert
  due,       \* next_attempt_at <= NOW()
  stale,     \* locked_at is older than the stale lock timeout
  pc,        \* where each process is in processPendingSearchIndexOperations
  batch,     \* rows it claimed and has not finished
  cur,       \* the row it works on
  snap,      \* the text it read for that row
  call,      \* direct index call of each request
  faults,    \* crashes and failures of the worker's calls so far
  undercut,  \* history: rows whose lock ran out, or was undone, while held
  overtaken, \* history: messages whose last write or completion was of an older text
  dropped    \* history: messages whose only index call was lost

table == <<key, status, due, stale>>
worker == <<pc, batch, cur, snap>>
ghosts == <<undercut, overtaken, dropped>>
vars == <<posted, text, doc, table, worker, call, faults, ghosts>>

None == 0
Version == None .. MaxVersion
Row == 1 .. MaxRows
NoRow == 0
Operation == {"index", "update", "delete"}
NoKey == <<>>
ActiveStatus == {"pending", "processing", "failed"}

\* at: the call is to be sent, or failed and its row is to be written; queued:
\* the mutation's transaction wrote a row as well.
Call == [at : {"send", "enqueue"}, m : Message, op : Operation, v : Version, queued : BOOLEAN]
NoCall == [at |-> "none"]

Active(r) == status[r] \in ActiveStatus
MessageOf(r) == key[r][1]
OperationOf(r) == key[r][2]
Holders(r) == {w \in Worker : r \in batch[w]}

TypeOK ==
  /\ posted \subseteq Message
  /\ text \in [Message -> Version]
  /\ doc \in [Message -> Version]
  /\ key \in [Row -> (Message \X Operation) \cup {NoKey}]
  /\ status \in [Row -> ActiveStatus \cup {"absent", "completed"}]
  /\ due \in [Row -> BOOLEAN]
  /\ stale \in [Row -> BOOLEAN]
  /\ pc \in [Worker -> {"idle", "next", "apply", "complete", "fail"}]
  /\ batch \in [Worker -> SUBSET Row]
  /\ cur \in [Worker -> Row \cup {NoRow}]
  /\ snap \in [Worker -> Version]
  /\ call \in [Request -> Call \cup {NoCall}]
  /\ faults \in 0 .. MaxFaults
  /\ undercut \subseteq Row
  /\ overtaken \subseteq Message
  /\ dropped \subseteq Message
  /\ \A r \in Row : status[r] = "absent" <=> key[r] = NoKey
  /\ \A w \in Worker : /\ pc[w] = "idle" <=> batch[w] = {}
                       /\ IF pc[w] \in {"idle", "next"} THEN cur[w] = NoRow ELSE cur[w] \in batch[w]
                       /\ \A r \in batch[w] : status[r] # "absent"

\* Some messages may have been posted and indexed long ago.
Init ==
  /\ posted \in SUBSET Message
  /\ text = [m \in Message |-> IF m \in posted THEN 1 ELSE None]
  /\ doc = text
  /\ key = [r \in Row |-> NoKey]
  /\ status = [r \in Row |-> "absent"]
  /\ due = [r \in Row |-> TRUE]
  /\ stale = [r \in Row |-> FALSE]
  /\ pc = [w \in Worker |-> "idle"]
  /\ batch = [w \in Worker |-> {}]
  /\ cur = [w \in Worker |-> NoRow]
  /\ snap = [w \in Worker |-> None]
  /\ call = [q \in Request |-> NoCall]
  /\ faults = 0
  /\ undercut = {}
  /\ overtaken = {}
  /\ dropped = {}

-----------------------------------------------------------------------------
(* The outbox table.                                                       *)

\* ON CONFLICT: the active row of the key goes back to pending, even when a
\* worker holds it.
Reopen(r) ==
  /\ status' = [status EXCEPT ![r] = "pending"]
  /\ due' = [due EXCEPT ![r] = TRUE]
  /\ stale' = [stale EXCEPT ![r] = FALSE]
  /\ undercut' = IF Holders(r) # {} THEN undercut \cup {r} ELSE undercut
  /\ UNCHANGED key

Insert(r, k) ==
  /\ key' = [key EXCEPT ![r] = k]
  /\ status' = [status EXCEPT ![r] = "pending"]
  /\ UNCHANGED <<due, stale, undercut>>

ActiveRow(r, k) == Active(r) /\ key[r] = k
FirstAbsent(r) == status[r] = "absent" /\ \A s \in Row : s < r => status[s] # "absent"

\* enqueueSearchIndexOperationTx: one active row of a message and operation.
Enqueue(m, op) ==
  \/ \E r \in Row : ActiveRow(r, <<m, op>>) /\ Reopen(r)
  \/ /\ \A r \in Row : ~ActiveRow(r, <<m, op>>)
     /\ \E r \in Row : FirstAbsent(r) /\ Insert(r, <<m, op>>)

LockExpires(r) ==
  /\ status[r] = "processing"
  /\ ~stale[r]
  /\ stale' = [stale EXCEPT ![r] = TRUE]
  /\ undercut' = IF Holders(r) # {} THEN undercut \cup {r} ELSE undercut
  /\ UNCHANGED <<posted, text, doc, key, status, due, worker, call, faults, overtaken, dropped>>

BackoffElapses(r) ==
  /\ status[r] = "failed"
  /\ ~due[r]
  /\ due' = [due EXCEPT ![r] = TRUE]
  /\ UNCHANGED <<posted, text, doc, key, status, stale, worker, call, faults, ghosts>>

-----------------------------------------------------------------------------
(* The routes: one transaction, then the direct call is started.           *)

StartCall(q, m, op, v, queued) ==
  /\ call[q] = NoCall
  /\ call' = [call EXCEPT ![q] = [at |-> "send", m |-> m, op |-> op, v |-> v, queued |-> queued]]

\* Bound: rows are left for the mutation and for every call that may fail.
Room(n) ==
  n + Cardinality({q \in Request : call[q] # NoCall}) <= Cardinality({r \in Row : status[r] = "absent"})

Publish(m) ==
  /\ m \notin posted
  /\ posted' = posted \cup {m}
  /\ text' = [text EXCEPT ![m] = 1]
  /\ Enqueue(m, "index")
  /\ UNCHANGED <<doc, worker, faults, overtaken, dropped>>

\* POST /messages.
Post(q, m) == Room(2) /\ Publish(m) /\ StartCall(q, m, "index", 1, TRUE)

\* POST /threads/:id/replies leaves the index to the worker.
Reply(m) == Room(1) /\ Publish(m) /\ UNCHANGED call

\* Planted fault.  No row, as moderation does it.
EditWithoutRow(q, m) ==
  /\ text[m] # None
  /\ text[m] < MaxVersion /\ Room(2)
  /\ text' = [text EXCEPT ![m] = text[m] + 1]
  /\ StartCall(q, m, "update", text[m] + 1, TRUE)
  /\ UNCHANGED <<posted, doc, table, worker, faults, ghosts>>
\* PATCH: the UPDATE matches only a message that is not deleted.
Edit(q, m) ==
  /\ text[m] # None
  /\ text[m] < MaxVersion /\ Room(2)
  /\ text' = [text EXCEPT ![m] = text[m] + 1]
  /\ Enqueue(m, "update")
  /\ StartCall(q, m, "update", text[m] + 1, TRUE)
  /\ UNCHANGED <<posted, doc, worker, faults, overtaken, dropped>>

\* DELETE and the hard purge; both may be repeated on a deleted message.
Delete(q, m) ==
  /\ m \in posted /\ Room(2)
  /\ text' = [text EXCEPT ![m] = None]
  /\ Enqueue(m, "delete")
  /\ StartCall(q, m, "delete", None, TRUE)
  /\ UNCHANGED <<posted, doc, worker, faults, overtaken, dropped>>

\* The delete_message action of moderation writes no row.  Bound: not on a
\* message that is deleted already, where it repeats the call only.
Moderate(q, m) ==
  /\ text[m] # None /\ Room(1)
  /\ text' = [text EXCEPT ![m] = None]
  /\ StartCall(q, m, "delete", None, FALSE)
  /\ UNCHANGED <<posted, doc, table, worker, faults, ghosts>>

-----------------------------------------------------------------------------
(* The direct call, outside any transaction.                               *)

\* Meilisearch accepts a write.
Write(m, v) ==
  /\ doc' = [doc EXCEPT ![m] = v]
  /\ overtaken' = IF v = text[m] THEN overtaken \ {m} ELSE overtaken \cup {m}
  /\ dropped' = IF v = text[m] THEN dropped \ {m} ELSE dropped

CountFault == faults < MaxFaults /\ faults' = faults + 1

\* The messages that no row and no other call will bring to the index when the
\* calls of the requests in Q end without a write.
LostWith(Q) == {call[q].m : q \in {p \in Q : call[p] # NoCall /\ ~call[p].queued}}

\* indexMessage, updateMessageIndex, removeFromIndex.
CallSucceeds(q) ==
  /\ call[q] # NoCall /\ call[q].at = "send"
  /\ Write(call[q].m, call[q].v)
  /\ call' = [call EXCEPT ![q] = NoCall]
  /\ UNCHANGED <<posted, text, table, worker, faults, undercut>>

\* The call throws, whether Meilisearch accepted the write or not.
CallFails(q) ==
  /\ call[q] # NoCall /\ call[q].at = "send"
  /\ \/ Write(call[q].m, call[q].v)
     \/ UNCHANGED <<doc, overtaken, dropped>>
  /\ call' = [call EXCEPT ![q].at = "enqueue"]
  /\ UNCHANGED <<posted, text, table, worker, faults, undercut>>

\* The catch block: enqueueSearchIndexOperation writes the row.
EnqueueAfterFailure(q) ==
  /\ call[q] # NoCall /\ call[q].at = "enqueue"
  /\ Enqueue(call[q].m, call[q].op)
  /\ call' = [call EXCEPT ![q] = NoCall]
  /\ UNCHANGED <<posted, text, doc, worker, faults, overtaken, dropped>>

\* ... whose own failure is only logged.
EnqueueFails(q) ==
  /\ call[q] # NoCall /\ call[q].at = "enqueue"
  /\ call' = [call EXCEPT ![q] = NoCall]
  /\ dropped' = dropped \cup {m \in LostWith({q}) : doc[m] # text[m]}
  /\ UNCHANGED <<posted, text, doc, table, worker, faults, undercut, overtaken>>

-----------------------------------------------------------------------------
(* processPendingSearchIndexOperations, one run at a time in each process.  *)

\* Planted fault.  A stale lock is never taken over.
ClaimableNoReclaim(r) == status[r] \in {"pending", "failed"} /\ due[r]
\* Planted fault.  The lock timeout is not looked at.
ClaimableUnlocked(r) ==
  \/ status[r] \in {"pending", "failed"} /\ due[r]
  \/ status[r] = "processing"
\* The WHERE clause of the claim.
Claimable(r) ==
  \/ status[r] \in {"pending", "failed"} /\ due[r]
  \/ status[r] = "processing" /\ stale[r]

\* ORDER BY created_at LIMIT; rows are numbered in the order of their insert.
OldestOf(C, S) ==
  /\ C \subseteq S
  /\ Cardinality(C) <= Limit
  /\ \A r \in S \ C : Cardinality(C) = Limit /\ \A c \in C : c < r

Claim(w) ==
  /\ pc[w] = "idle"
  /\ \E C \in (SUBSET Row) \ {{}} :
       /\ OldestOf(C, {r \in Row : Claimable(r)})
       /\ status' = [r \in Row |-> IF r \in C THEN "processing" ELSE status[r]]
       /\ stale' = [r \in Row |-> IF r \in C THEN FALSE ELSE stale[r]]
       /\ batch' = [batch EXCEPT ![w] = C]
  /\ pc' = [pc EXCEPT ![w] = "next"]
  /\ UNCHANGED <<posted, text, doc, key, due, cur, snap, call, faults, ghosts>>

\* executeSearchIndexOperation: a delete needs no read, otherwise a missing or
\* deleted message is removed from the index.
ReadRow(w, r) ==
  /\ pc[w] = "next"
  /\ r \in batch[w]
  /\ cur' = [cur EXCEPT ![w] = r]
  /\ snap' = [snap EXCEPT ![w] = IF OperationOf(r) = "delete" THEN None ELSE text[MessageOf(r)]]
  /\ pc' = [pc EXCEPT ![w] = "apply"]
  /\ UNCHANGED <<posted, text, doc, table, batch, call, faults, ghosts>>

Apply(w) ==
  /\ pc[w] = "apply"
  /\ Write(MessageOf(cur[w]), snap[w])
  /\ pc' = [pc EXCEPT ![w] = "complete"]
  /\ UNCHANGED <<posted, text, table, batch, cur, snap, call, faults, undercut>>

\* The read, the write or waitForTask throws.
ApplyFails(w) ==
  /\ pc[w] = "apply"
  /\ CountFault
  /\ \/ Write(MessageOf(cur[w]), snap[w])
     \/ UNCHANGED <<doc, overtaken, dropped>>
  /\ pc' = [pc EXCEPT ![w] = "fail"]
  /\ UNCHANGED <<posted, text, table, batch, cur, snap, call, undercut>>

\* Planted fault.  The loop does not notice its last row.
RowDoneWithoutEnd(w) ==
  /\ batch' = [batch EXCEPT ![w] = batch[w] \ {cur[w]}]
  /\ pc' = [pc EXCEPT ![w] = "next"]
  /\ cur' = [cur EXCEPT ![w] = NoRow]
  /\ snap' = [snap EXCEPT ![w] = None]
\* The loop goes on to the next row of the batch.
RowDone(w) ==
  /\ batch' = [batch EXCEPT ![w] = batch[w] \ {cur[w]}]
  /\ pc' = [pc EXCEPT ![w] = IF batch[w] = {cur[w]} THEN "idle" ELSE "next"]
  /\ cur' = [cur EXCEPT ![w] = NoRow]
  /\ snap' = [snap EXCEPT ![w] = None]

\* An exception leaves the loop: the rest of the batch stays "processing".
Abandon(w) ==
  /\ batch' = [batch EXCEPT ![w] = {}]
  /\ pc' = [pc EXCEPT ![w] = "idle"]
  /\ cur' = [cur EXCEPT ![w] = NoRow]
  /\ snap' = [snap EXCEPT ![w] = None]

\* UPDATE ... SET status = 'completed' WHERE id = $1, whatever became of the row
\* since the read.
Complete(w) ==
  LET r == cur[w]
      m == MessageOf(r)
  IN /\ pc[w] = "complete"
     /\ status' = [status EXCEPT ![r] = "completed"]
     /\ stale' = [stale EXCEPT ![r] = FALSE]
     /\ overtaken' = IF snap[w] # text[m] /\ doc[m] # text[m] THEN overtaken \cup {m} ELSE overtaken
     /\ RowDone(w)
     /\ UNCHANGED <<posted, text, doc, key, due, call, faults, undercut, dropped>>

CompleteFails(w) ==
  /\ pc[w] = "complete"
  /\ CountFault
  /\ pc' = [pc EXCEPT ![w] = "fail"]
  /\ UNCHANGED <<posted, text, doc, table, batch, cur, snap, call, ghosts>>

\* A completed row cannot become active beside another active row of its key
\* (idx_search_index_outbox_unique_active).
BlockedByIndex(r) ==
  /\ status[r] = "completed"
  /\ \E s \in Row : s # r /\ ActiveRow(s, key[r])

MarkFailed(w) ==
  /\ pc[w] = "fail"
  /\ ~BlockedByIndex(cur[w])
  /\ status' = [status EXCEPT ![cur[w]] = "failed"]
  /\ due' = [due EXCEPT ![cur[w]] = FALSE]
  /\ stale' = [stale EXCEPT ![cur[w]] = FALSE]
  /\ RowDone(w)
  /\ UNCHANGED <<posted, text, doc, key, call, faults, ghosts>>

\* The UPDATE of the catch block throws: it breaks the unique index, or Postgres
\* does not answer.
MarkFailedFails(w) ==
  /\ pc[w] = "fail"
  /\ Abandon(w)
  /\ UNCHANGED <<posted, text, doc, table, call, faults, ghosts>>

\* A process dies with its batch and the direct calls of the requests in Q.
Crash(w) ==
  /\ CountFault
  /\ Abandon(w)
  /\ \E Q \in SUBSET Request :
       /\ call' = [q \in Request |-> IF q \in Q THEN NoCall ELSE call[q]]
       /\ dropped' = dropped \cup {m \in LostWith(Q) : doc[m] # text[m]}
  /\ UNCHANGED <<posted, text, doc, table, undercut, overtaken>>

-----------------------------------------------------------------------------
Mutation ==
  \E m \in Message :
    \/ Reply(m)
    \/ \E q \in Request : Post(q, m) \/ Edit(q, m) \/ Delete(q, m) \/ Moderate(q, m)

Direct(q) == CallSucceeds(q) \/ CallFails(q) \/ EnqueueAfterFailure(q) \/ EnqueueFails(q)

Work(w) ==
  \/ \E r \in Row : ReadRow(w, r)
  \/ Apply(w) \/ ApplyFails(w)
  \/ Complete(w) \/ CompleteFails(w)
  \/ MarkFailed(w) \/ MarkFailedFails(w)

Next ==
  \/ Mutation
  \/ \E q \in Request : Direct(q)
  \/ \E w \in Worker : Claim(w) \/ Work(w) \/ Crash(w)
  \/ \E r \in Row : LockExpires(r) \/ BackoffElapses(r)

Spec == Init /\ [][Next]_vars

\* The interval timer of the worker, Node resolving every await, and time.
Fairness ==
  /\ \A q \in Request : WF_vars(Direct(q))
  /\ \A w \in Worker : WF_vars(Claim(w) \/ Work(w))
  /\ WF_vars(\E r \in Row : LockExpires(r) \/ BackoffElapses(r))

FairSpec == Spec /\ Fairness

-----------------------------------------------------------------------------
(* Properties.                                                             *)

\* Something will still bring message m to the index: a row, or the direct call
\* of a deletion that has no row.
Carried(m) ==
  \/ \E r \in Row : Active(r) /\ MessageOf(r) = m
  \/ \E q \in Request : call[q] # NoCall /\ call[q].m = m /\ ~call[q].queued

\* The index differs from the message table only while a row or a call will
\* still repair it, after a write or a completion of an older text overtook the
\* newer one, or after a moderator's deletion lost its only call: no crash,
\* failed call, expired lock or abandoned batch alone loses a mutation.
IndexCovered ==
  \A m \in Message : doc[m] # text[m] => Carried(m) \/ m \in overtaken \cup dropped

\* A row is worked on by one process, whose claim stands, unless its lock ran
\* out under that process or a mutation set it back to pending (FOR UPDATE SKIP
\* LOCKED, locked_at and the ON CONFLICT clause).
HeldOnce ==
  \A r \in Row \ undercut :
    /\ \A w \in Holders(r) : status[r] = "processing" /\ ~stale[r]
    /\ \A v, w \in Holders(r) : v = w

\* A completed row becomes active again only when its lock was undercut while a
\* process held it: then a late failure overwrites the completion.
CompletedStays ==
  [][\A r \in Row : status[r] = "completed" /\ r \notin undercut => status'[r] = "completed"]_vars

\* After the last mutation the outbox drains and the index comes to hold what
\* the message table holds, but for the messages whose last write was overtaken
\* or dropped, whatever crashes, failed calls and stale locks came in between.
IndexConverges ==
  <>[](/\ \A r \in Row : ~Active(r)
       /\ \A m \in Message : doc[m] = text[m] \/ m \in overtaken \cup dropped)
=============================================================================
