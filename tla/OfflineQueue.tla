---------------------------- MODULE OfflineQueue ----------------------------
(***************************************************************************)
(* Sending messages through the offline queue                              *)
(* (packages/core/src/offline/OfflineQueue.ts, its IndexedDB store, the    *)
(* retries of ChatClient) and the handler that stores them                 *)
(* (packages/api/src/routes/messages.ts), for one channel.                 *)
(*                                                                         *)
(* The `sending` set allows one sendToServer for each message: its sender. *)
(* A task is a call of send, retry or processPending.  Both take one step  *)
(* per storage transaction or request.  A request lives on when its sender *)
(* has given it up: the server may store a message after the client        *)
(* stopped waiting.                                                        *)
(***************************************************************************)
EXTENDS Naturals, Sequences

CONSTANTS
    Msgs,        \* the client's messages, by clientMsgId
    Tasks,       \* slots for calls in flight
    Other,       \* a message of somebody else
    Window,      \* rows checkServerReceived looks at
    MaxTries,    \* requests of one sendToServer, all its retries counted
    MaxRetries,  \* maxRetries
    MaxLog,      \* bound: messages of the channel
    MaxReloads   \* bound: reloads of the page

ASSUME QueueAssumption ==
    /\ Other \notin Msgs
    /\ Window \in Nat \ {0} /\ MaxTries \in Nat \ {0}
    /\ MaxRetries \in Nat /\ MaxLog \in Nat /\ MaxReloads \in Nat

VARIABLES
    local,      \* status of the local message
    pending,    \* status of its entry in the pending store
    retries,    \* retryCount of the entry
    sender,     \* where sendToServer is with the message
    request,    \* what became of the sender's request
    orphan,     \* a request its sender gave up, still on its way
    task,       \* the calls
    log,        \* server: the channel's messages
    owed,       \* history: messages put into the queue and not owed
    reloads     \* history: reloads so far

stored == <<local, pending, retries>>
vars   == <<stored, sender, request, orphan, task, log, owed, reloads>>

SenderSteps == {"idle", "status", "post", "check", "storeSent", "dropPending",
                "failLocal", "failPending"}
TaskSteps   == {"idle", "addPending", "retryPending", "begin", "next", "check",
                "storeSent", "dropPending"}

Sender == [pc : SenderSteps, tries : 0 .. MaxTries]
Task   == [pc : TaskSteps, msg : Msgs \cup {Other}, left : SUBSET Msgs, count : 0 .. MaxRetries]

Resting == [pc |-> "idle", tries |-> 0]
Done    == [pc |-> "idle", msg |-> Other, left |-> {}, count |-> 0]

OnServer(m) == \E i \in DOMAIN log : log[i] = m
Latest(m)   == \E i \in DOMAIN log : log[i] = m /\ i + Window > Len(log)

SenderGoes(m, pc) == sender' = [sender EXCEPT ![m].pc = pc]
TaskGoes(t, pc)   == task' = [task EXCEPT ![t].pc = pc]
Local(m, status)  == local' = [local EXCEPT ![m] = status]

\* sendToServer: nothing happens if the message is in the `sending` set.
SendToServer(m) ==
    sender' = [sender EXCEPT ![m] = IF @.pc = "idle" THEN [pc |-> "status", tries |-> 0] ELSE @]

-----------------------------------------------------------------------------
(* The calls of the application.                                           *)

Send(t, m) ==
    /\ task[t].pc = "idle" /\ local[m] = "none"
    /\ Local(m, "sending")
    /\ task' = [task EXCEPT ![t] = [Done EXCEPT !.pc = "addPending", !.msg = m]]
    /\ UNCHANGED <<pending, retries, sender, request, orphan, log, owed, reloads>>

AddPending(t) ==
    /\ task[t].pc = "addPending"
    /\ pending' = [pending EXCEPT ![task[t].msg] = "pending"]
    /\ owed' = owed \cup {task[t].msg}
    /\ SendToServer(task[t].msg)
    /\ task' = [task EXCEPT ![t] = Done]
    /\ UNCHANGED <<local, retries, request, orphan, log, reloads>>

Retry(t, m) ==
    /\ task[t].pc = "idle" /\ pending[m] = "failed" /\ retries[m] < MaxRetries
    /\ task' = [task EXCEPT ![t] = [Done EXCEPT !.pc = "retryPending", !.msg = m,
                                                !.count = retries[m] + 1]]
    /\ UNCHANGED <<stored, sender, request, orphan, log, owed, reloads>>

\* updatePending, which does nothing when the entry is gone.
RetryPending(t) ==
    LET m == task[t].msg IN
    /\ task[t].pc = "retryPending"
    /\ \/ /\ pending[m] # "none"
          /\ pending' = [pending EXCEPT ![m] = "pending"]
          /\ retries' = [retries EXCEPT ![m] = task[t].count]
       \/ pending[m] = "none" /\ UNCHANGED <<pending, retries>>
    /\ TaskGoes(t, "begin")
    /\ UNCHANGED <<local, sender, request, orphan, log, owed, reloads>>

\* getLocalMessage, then the send.
Begin(t) ==
    /\ task[t].pc = "begin"
    /\ SendToServer(task[t].msg)
    /\ task' = [task EXCEPT ![t] = Done]
    /\ UNCHANGED <<stored, request, orphan, log, owed, reloads>>

Cancel(m) ==
    /\ pending[m] # "none"
    /\ pending' = [pending EXCEPT ![m] = "none"]
    /\ owed' = owed \ {m}
    /\ UNCHANGED <<local, retries, sender, request, orphan, task, log, reloads>>

\* processPending, at every connection: the entries to send are read once.
Process(t) ==
    /\ task[t].pc = "idle"
    /\ task' = [task EXCEPT ![t] = [Done EXCEPT !.pc = "next",
                                                !.left = {m \in Msgs : pending[m] = "pending"}]]
    /\ UNCHANGED <<stored, sender, request, orphan, log, owed, reloads>>

ProcessNext(t) ==
    /\ task[t].pc = "next"
    /\ \/ \E m \in task[t].left :
            task' = [task EXCEPT ![t] = [pc |-> "check", msg |-> m,
                                         left |-> task[t].left \ {m}, count |-> 0]]
       \/ task[t].left = {} /\ task' = [task EXCEPT ![t] = Done]
    /\ UNCHANGED <<stored, sender, request, orphan, log, owed, reloads>>

\* Planted fault.  Only what the server has is settled.
ProcessCheckOnly(t) ==
    /\ task[t].pc = "check"
    /\ \/ Latest(task[t].msg) /\ TaskGoes(t, "storeSent")
       \/ TaskGoes(t, "next")
    /\ UNCHANGED <<stored, sender, request, orphan, log, owed, reloads>>

\* checkServerReceived; the message is sent in the background if it is not
\* found, or the query fails.
ProcessCheck(t) ==
    LET m == task[t].msg IN
    /\ task[t].pc = "check"
    /\ \/ Latest(m) /\ TaskGoes(t, "storeSent") /\ UNCHANGED sender
       \/ TaskGoes(t, "next") /\ SendToServer(m)
    /\ UNCHANGED <<stored, request, orphan, log, owed, reloads>>

ProcessStoreSent(t) ==
    /\ task[t].pc = "storeSent"
    /\ Local(task[t].msg, "sent")
    /\ TaskGoes(t, "dropPending")
    /\ UNCHANGED <<pending, retries, sender, request, orphan, log, owed, reloads>>

ProcessDropPending(t) ==
    /\ task[t].pc = "dropPending"
    /\ pending' = [pending EXCEPT ![task[t].msg] = "none"]
    /\ TaskGoes(t, "next")
    /\ UNCHANGED <<local, retries, sender, request, orphan, log, owed, reloads>>

-----------------------------------------------------------------------------
(* sendToServer.                                                           *)

Status(m) ==
    /\ sender[m].pc = "status"
    /\ Local(m, "sending")
    /\ sender' = [sender EXCEPT ![m] = [pc |-> "post", tries |-> 1]]
    /\ request' = [request EXCEPT ![m] = "wire"]
    /\ UNCHANGED <<pending, retries, orphan, task, log, owed, reloads>>

Answered(m) ==
    /\ sender[m].pc = "post" /\ request[m] = "created"
    /\ request' = [request EXCEPT ![m] = "none"]
    /\ SenderGoes(m, "storeSent")
    /\ UNCHANGED <<stored, orphan, task, log, owed, reloads>>

\* A 408, 429 or 5xx is worth another request.
TryAgain(m) ==
    /\ sender[m].pc = "post" /\ request[m] = "error" /\ sender[m].tries < MaxTries
    /\ request' = [request EXCEPT ![m] = "wire"]
    /\ sender' = [sender EXCEPT ![m].tries = @ + 1]
    /\ UNCHANGED <<stored, orphan, task, log, owed, reloads>>

\* Anything else ends the attempt: another status, the last 5xx, the answer to
\* a duplicate (it is no Message and does not parse), an open circuit, a request
\* repeated too soon, or the network, which may leave the request on its way.
GiveUp(m) ==
    /\ sender[m].pc = "post"
    /\ orphan' = [orphan EXCEPT ![m] = IF request[m] \in {"wire", "insert"} THEN request[m] ELSE @]
    /\ request' = [request EXCEPT ![m] = "none"]
    /\ SenderGoes(m, "check")
    /\ UNCHANGED <<stored, task, log, owed, reloads>>

\* Planted fault.  A query that fails counts as a message found.
CheckOptimistic(m) ==
    /\ sender[m].pc = "check"
    /\ SenderGoes(m, "storeSent")
    /\ UNCHANGED <<stored, request, orphan, task, log, owed, reloads>>

Check(m) ==
    /\ sender[m].pc = "check"
    /\ \/ Latest(m) /\ SenderGoes(m, "storeSent")
       \/ SenderGoes(m, "failLocal")
    /\ UNCHANGED <<stored, request, orphan, task, log, owed, reloads>>

StoreSent(m) ==
    /\ sender[m].pc = "storeSent"
    /\ Local(m, "sent")
    /\ SenderGoes(m, "dropPending")
    /\ UNCHANGED <<pending, retries, request, orphan, task, log, owed, reloads>>

DropPending(m) ==
    /\ sender[m].pc = "dropPending"
    /\ pending' = [pending EXCEPT ![m] = "none"]
    /\ sender' = [sender EXCEPT ![m] = Resting]
    /\ UNCHANGED <<local, retries, request, orphan, task, log, owed, reloads>>

\* Planted fault.  Only the entry is marked.
FailLocalSilently(m) ==
    /\ sender[m].pc = "failLocal"
    /\ SenderGoes(m, "failPending")
    /\ UNCHANGED <<stored, request, orphan, task, log, owed, reloads>>

FailLocal(m) ==
    /\ sender[m].pc = "failLocal"
    /\ Local(m, "failed")
    /\ SenderGoes(m, "failPending")
    /\ UNCHANGED <<pending, retries, request, orphan, task, log, owed, reloads>>

\* Planted fault.  The entry is written anew if it is gone.
FailPendingAlways(m) ==
    /\ sender[m].pc = "failPending"
    /\ pending' = [pending EXCEPT ![m] = "failed"]
    /\ sender' = [sender EXCEPT ![m] = Resting]
    /\ UNCHANGED <<local, retries, request, orphan, task, log, owed, reloads>>

FailPending(m) ==
    /\ sender[m].pc = "failPending"
    /\ pending' = [pending EXCEPT ![m] = IF @ = "none" THEN "none" ELSE "failed"]
    /\ sender' = [sender EXCEPT ![m] = Resting]
    /\ UNCHANGED <<local, retries, request, orphan, task, log, owed, reloads>>

-----------------------------------------------------------------------------
(* The server's handler, for the request of a sender or an orphan; `to` is  *)
(* the request's next state.                                                *)

\* Planted fault.  The message gets an id of the server's.
HandleUnkeyed(from, to, m) ==
    \/ from = "wire" /\ to = (IF OnServer(m) THEN "duplicate" ELSE "insert") /\ UNCHANGED log
    \/ from = "insert" /\ Len(log) < MaxLog /\ to = "created" /\ log' = Append(log, m)
    \/ from \in {"wire", "insert", "created"} /\ to = "error" /\ UNCHANGED log

\* The test for an existing message is a statement of its own.
Handle(from, to, m) ==
    \/ from = "wire" /\ to = (IF OnServer(m) THEN "duplicate" ELSE "insert") /\ UNCHANGED log
    \/ from = "insert" /\ ~OnServer(m) /\ Len(log) < MaxLog /\ to = "created"
       /\ log' = Append(log, m)
    \* the primary key refuses the second of two inserts
    \/ from = "insert" /\ OnServer(m) /\ to = "error" /\ UNCHANGED log
    \* refused, lost, or an exception, be it after the commit
    \/ from \in {"wire", "insert", "created"} /\ to = "error" /\ UNCHANGED log

Serve(m) ==
    /\ \E to \in {"insert", "duplicate", "created", "error"} :
         Handle(request[m], to, m) /\ request' = [request EXCEPT ![m] = to]
    /\ UNCHANGED <<stored, sender, orphan, task, owed, reloads>>

ServeOrphan(m) ==
    /\ \E to \in {"insert", "duplicate", "created", "error"} :
         /\ Handle(orphan[m], to, m)
         /\ orphan' = [orphan EXCEPT ![m] = IF to = "insert" THEN to ELSE "none"]
    /\ UNCHANGED <<stored, sender, request, task, owed, reloads>>

\* Somebody else's message.
Commit ==
    /\ Len(log) < MaxLog
    /\ log' = Append(log, Other)
    /\ UNCHANGED <<stored, sender, request, orphan, task, owed, reloads>>

\* The page is reloaded: memory is lost, requests under way are not.
Reload ==
    /\ reloads < MaxReloads
    /\ reloads' = reloads + 1
    /\ sender' = [m \in Msgs |-> Resting] /\ task' = [t \in Tasks |-> Done]
    /\ orphan' = [m \in Msgs |-> IF request[m] \in {"wire", "insert"} THEN request[m] ELSE orphan[m]]
    /\ request' = [m \in Msgs |-> "none"]
    /\ UNCHANGED <<stored, log, owed>>

-----------------------------------------------------------------------------
Init ==
    /\ local = [m \in Msgs |-> "none"] /\ pending = [m \in Msgs |-> "none"]
    /\ retries = [m \in Msgs |-> 0]
    /\ sender = [m \in Msgs |-> Resting]
    /\ request = [m \in Msgs |-> "none"] /\ orphan = [m \in Msgs |-> "none"]
    /\ task = [t \in Tasks |-> Done]
    /\ log = <<>> /\ owed = {} /\ reloads = 0

SenderStep(m) ==
    \/ Status(m) \/ Answered(m) \/ TryAgain(m) \/ GiveUp(m) \/ Check(m)
    \/ StoreSent(m) \/ DropPending(m) \/ FailLocal(m) \/ FailPending(m)

TaskStep(t) ==
    \/ AddPending(t) \/ RetryPending(t) \/ Begin(t)
    \/ ProcessNext(t) \/ ProcessCheck(t) \/ ProcessStoreSent(t) \/ ProcessDropPending(t)

Next ==
    \/ \E m \in Msgs : SenderStep(m) \/ Serve(m) \/ ServeOrphan(m) \/ Cancel(m)
    \/ \E t \in Tasks : \/ TaskStep(t) \/ Process(t)
                        \/ \E m \in Msgs : Send(t, m) \/ Retry(t, m)
    \/ Commit \/ Reload

Spec == Init /\ [][Next]_vars

\* Every call and request goes on, the last connection is followed by
\* processPending, and the server answers.
FairSpec ==
    /\ Spec
    /\ \A m \in Msgs : WF_vars(SenderStep(m)) /\ WF_vars(Serve(m))
    /\ \A t \in Tasks : WF_vars(TaskStep(t)) /\ WF_vars(Process(t))

-----------------------------------------------------------------------------
TypeOK ==
    /\ local \in [Msgs -> {"none", "sending", "sent", "failed"}]
    /\ pending \in [Msgs -> {"none", "pending", "failed"}]
    /\ retries \in [Msgs -> 0 .. MaxRetries]
    /\ sender \in [Msgs -> Sender] /\ task \in [Tasks -> Task]
    /\ request \in [Msgs -> {"none", "wire", "insert", "created", "duplicate", "error"}]
    /\ orphan \in [Msgs -> {"none", "wire", "insert"}]
    /\ log \in Seq(Msgs \cup {Other}) /\ Len(log) <= MaxLog
    /\ owed \subseteq Msgs /\ reloads \in 0 .. MaxReloads

Saving(t, m) == task[t].pc = "addPending" /\ task[t].msg = m

Promise == INSTANCE OutgoingMessages WITH
    asked    <- {m \in Msgs : local[m] # "none"},
    accepted <- owed,
    coming   <- {m \in Msgs : \E t \in Tasks : Saving(t, m)},
    kept     <- {m \in Msgs : pending[m] # "none"},
    shown    <- {m \in Msgs : local[m] = "sent"},
    channel  <- log

\* However often a message is sent, by how many requests at once, the channel
\* has it once.
OnceOnServer == \A i, j \in DOMAIN log : log[i] = log[j] /\ log[i] # Other => i = j

\* A message is called sent, or leaves the queue uncancelled, only when the
\* server has it.
SentIsStored == \A m \in Msgs : local[m] = "sent" \/ (m \in owed /\ pending[m] = "none") => OnServer(m)

\* Senders, manual retries and processPending calls, at any number and in any
\* order, do what the application was promised: each of their steps is a step of
\* OutgoingMessages or none.  In particular an entry that was settled or
\* cancelled is never written again by a call that still works on it, and
\* nothing is sent before its entry is stored.
PromiseImplemented == Promise!Spec

AtRest(m) == sender[m].pc = "idle" /\ \A t \in Tasks : task[t].msg # m

\* As long as the page is not reloaded, a message nothing works on has its
\* outcome, and an entry kept for a manual retry belongs to a failed message.
RestIsSettled ==
    reloads = 0 =>
        \A m \in Msgs : AtRest(m) =>
            local[m] # "sending" /\ (pending[m] = "failed" => local[m] = "failed")

\* A message shown as being sent, whose entry says that it is still to be sent,
\* does not stay so: after a reload, processPending takes it up again.
GetsOutcome ==
    \A m \in Msgs : local[m] = "sending" /\ pending[m] = "pending" ~>
        local[m] # "sending" \/ pending[m] # "pending"
=============================================================================
