------------------------- MODULE OfflineQueueProofs -------------------------
(***************************************************************************)
(* Safety of OfflineQueue for any number of messages, calls, requests and   *)
(* reloads.  The invariant adds to the two properties who knows that the    *)
(* server has a message: a created request, and a sender or a task on its   *)
(* way to record it.                                                       *)
(***************************************************************************)
EXTENDS OfflineQueue, TLAPS

\* Senders and requests that act on a stored message.
SenderKnows ==
    \A m \in Msgs : /\ sender[m].pc \in {"storeSent", "dropPending"} => OnServer(m)
                    /\ request[m] = "created" => OnServer(m)

\* Tasks have a message in all steps that use one, and record only stored ones.
TaskKnows ==
    \A t \in Tasks :
        /\ task[t].pc \in {"addPending", "retryPending", "begin", "check", "storeSent", "dropPending"}
              => task[t].msg \in Msgs
        /\ task[t].pc \in {"storeSent", "dropPending"} => OnServer(task[t].msg)

IInv == TypeOK /\ OnceOnServer /\ SentIsStored /\ SenderKnows /\ TaskKnows

LEMMA DoneIsTask == Done \in Task /\ Done.pc = "idle"
  BY QueueAssumption DEF Done, Task, TaskSteps

LEMMA RestingIsSender == Resting \in Sender /\ Resting.pc = "idle"
  BY QueueAssumption DEF Resting, Sender, SenderSteps

\* The server's log only grows, and a message is appended once.
LEMMA LogGrows ==
    ASSUME TypeOK, OnceOnServer, NEW m \in Msgs \cup {Other}, log' = Append(log, m),
           m = Other \/ ~OnServer(m), Len(log) < MaxLog
    PROVE  /\ log' \in Seq(Msgs \cup {Other}) /\ Len(log') <= MaxLog
           /\ OnceOnServer'
           /\ \A n : OnServer(n) => OnServer(n)'
           /\ OnServer(m)'
  <1>1. log \in Seq(Msgs \cup {Other}) /\ Len(log) \in Nat
    BY DEF TypeOK
  <1>2. /\ Len(log') = Len(log) + 1
        /\ log' \in Seq(Msgs \cup {Other})
        /\ \A i \in 1 .. Len(log) : log'[i] = log[i]
        /\ log'[Len(log) + 1] = m
    BY <1>1
  <1>3. DOMAIN log = 1 .. Len(log) /\ DOMAIN log' = 1 .. Len(log) + 1
    BY <1>1, <1>2
  <1>4. Len(log') <= MaxLog
    BY <1>1, <1>2, QueueAssumption
  <1>5. \A n : OnServer(n) => OnServer(n)'
    BY <1>1, <1>2, <1>3 DEF OnServer
  <1>6. OnServer(m)'
    BY <1>1, <1>2, <1>3 DEF OnServer
  <1>7. ASSUME NEW i \in DOMAIN log', NEW j \in DOMAIN log', log'[i] = log'[j], log'[i] # Other
        PROVE  i = j
    <2>1. CASE i \in DOMAIN log /\ j \in DOMAIN log
      BY <1>2, <1>3, <1>7, <2>1 DEF OnceOnServer
    <2>2. CASE i = Len(log) + 1 /\ j = Len(log) + 1
      BY <2>2
    <2>3. CASE i = Len(log) + 1 /\ j \in DOMAIN log
      BY <1>2, <1>3, <1>7, <2>3 DEF OnServer
    <2>4. CASE j = Len(log) + 1 /\ i \in DOMAIN log
      BY <1>2, <1>3, <1>7, <2>4 DEF OnServer
    <2> QED
      BY <1>1, <1>3, <2>1, <2>2, <2>3, <2>4
  <1>8. OnceOnServer'
    BY <1>7 DEF OnceOnServer
  <1> QED
    BY <1>2, <1>4, <1>5, <1>6, <1>8

LEMMA InitInv == Init => IInv
  BY QueueAssumption, DoneIsTask, RestingIsSender
     DEF Init, IInv, TypeOK, OnceOnServer, SentIsStored, SenderKnows, TaskKnows, OnServer

\* While the server's log does not move, what it holds does not either.
LEMMA SameLog ==
    ASSUME IInv, UNCHANGED log
    PROVE  OnceOnServer' /\ \A m : OnServer(m)' = OnServer(m)
  BY DEF IInv, OnceOnServer, OnServer

\* The steps of a call that stays on its message.
LEMMA TaskGoesType ==
    ASSUME TypeOK, NEW t \in Tasks, NEW pc \in TaskSteps, TaskGoes(t, pc)
    PROVE  /\ task' \in [Tasks -> Task]
           /\ \A u \in Tasks : u # t => task'[u] = task[u]
           /\ task'[t].pc = pc /\ task'[t].msg = task[t].msg
  <1>1. task[t] \in Task
    BY DEF TypeOK
  <1> DEFINE r == [task[t] EXCEPT !.pc = pc]
  <1>2. r \in Task /\ r.pc = pc /\ r.msg = task[t].msg
    BY <1>1 DEF Task
  <1>3. task' = [task EXCEPT ![t] = r]
    BY DEF TaskGoes
  <1> HIDE DEF r
  <1> QED
    BY <1>2, <1>3 DEF TypeOK

\* The steps of a call that is replaced as a whole.
LEMMA TaskBecomes ==
    ASSUME TypeOK, NEW t \in Tasks, NEW r \in Task, task' = [task EXCEPT ![t] = r]
    PROVE  /\ task' \in [Tasks -> Task]
           /\ \A u \in Tasks : u # t => task'[u] = task[u]
           /\ task'[t] = r
  BY DEF TypeOK

\* The steps of a sender.
LEMMA SenderGoesType ==
    ASSUME TypeOK, NEW m \in Msgs, NEW pc \in SenderSteps, SenderGoes(m, pc)
    PROVE  /\ sender' \in [Msgs -> Sender]
           /\ \A n \in Msgs : n # m => sender'[n] = sender[n]
           /\ sender'[m].pc = pc
  <1>1. sender[m] \in Sender
    BY DEF TypeOK
  <1> DEFINE r == [sender[m] EXCEPT !.pc = pc]
  <1>2. r \in Sender /\ r.pc = pc
    BY <1>1 DEF Sender
  <1>3. sender' = [sender EXCEPT ![m] = r]
    BY DEF SenderGoes
  <1> HIDE DEF r
  <1> QED
    BY <1>2, <1>3 DEF TypeOK

\* A call that goes on keeps its message.
LEMMA KeepsMessage ==
    ASSUME IInv, NEW t \in Tasks, NEW pc \in TaskSteps, TaskGoes(t, pc)
    PROVE  \E r \in Task : /\ task' = [task EXCEPT ![t] = r]
                           /\ r.pc = pc /\ r.msg = task[t].msg /\ r.left = task[t].left
  <1> DEFINE r == [task[t] EXCEPT !.pc = pc]
  <1>1. r \in Task /\ r.pc = pc /\ r.msg = task[t].msg /\ r.left = task[t].left
    BY DEF IInv, TypeOK, Task
  <1>2. task' = [task EXCEPT ![t] = r]
    BY DEF TaskGoes
  <1> HIDE DEF r
  <1> QED BY <1>1, <1>2

\* The calls of processPending and of retry, when they begin.
LEMMA ProcessCall ==
    ASSUME IInv, NEW t \in Tasks, Process(t)
    PROVE  \E r \in Task : /\ task' = [task EXCEPT ![t] = r]
                           /\ r.pc = "next" /\ r.msg \notin Msgs /\ \A n \in r.left : pending[n] = "pending"
  <1> DEFINE L == {m \in Msgs : pending[m] = "pending"}
             r == [Done EXCEPT !.pc = "next", !.left = L]
  <1>1. Done \in Task /\ Done.msg = Other /\ Other \notin Msgs
    BY DoneIsTask, QueueAssumption DEF Done
  <1>2. L \subseteq Msgs /\ \A n \in L : pending[n] = "pending"
    OBVIOUS
  <1>3. task' = [task EXCEPT ![t] = r]
    BY DEF Process
  <1> HIDE DEF Done, L
  <1>4. r \in Task /\ r.pc = "next" /\ r.msg = Other /\ r.left = L
    BY <1>1, <1>2 DEF Task, TaskSteps
  <1> HIDE DEF r
  <1> QED BY <1>1, <1>2, <1>3, <1>4

LEMMA RetryCall ==
    ASSUME IInv, NEW t \in Tasks, NEW m \in Msgs, Retry(t, m)
    PROVE  \E r \in Task : /\ task' = [task EXCEPT ![t] = r]
                           /\ r.pc = "retryPending" /\ r.msg = m /\ r.left = {}
  <1> DEFINE r == [Done EXCEPT !.pc = "retryPending", !.msg = m, !.count = retries[m] + 1]
  <1>1. retries[m] \in 0 .. MaxRetries /\ retries[m] < MaxRetries /\ task' = [task EXCEPT ![t] = r]
    BY DEF Retry, IInv, TypeOK
  <1>2. retries[m] + 1 \in 0 .. MaxRetries
    BY <1>1, QueueAssumption
  <1>3. Done \in Task /\ Done.left = {}
    BY DoneIsTask DEF Done
  <1> HIDE DEF Done
  <1>4. r \in Task /\ r.pc = "retryPending" /\ r.msg = m /\ r.left = {}
    BY <1>2, <1>3 DEF Task, TaskSteps
  <1> HIDE DEF r
  <1> QED BY <1>1, <1>4

\* A send either finds the message under way or starts from the beginning.
LEMMA SendToServerType ==
    ASSUME TypeOK, NEW m \in Msgs, SendToServer(m)
    PROVE  /\ sender' \in [Msgs -> Sender]
           /\ \A n \in Msgs : sender'[n] = sender[n] \/ sender'[n].pc = "status"
  <1> DEFINE r == IF sender[m].pc = "idle" THEN [pc |-> "status", tries |-> 0] ELSE sender[m]
  <1>1. r \in Sender /\ (r = sender[m] \/ r.pc = "status")
    BY QueueAssumption DEF TypeOK, Sender, SenderSteps
  <1>2. sender' = [sender EXCEPT ![m] = r]
    BY DEF SendToServer
  <1> HIDE DEF r
  <1> QED
    BY <1>1, <1>2 DEF TypeOK

LEMMA SendInv ==
    ASSUME IInv, NEW t \in Tasks, NEW m \in Msgs, Send(t, m)
    PROVE  IInv'
  <1>1. OnceOnServer' /\ \A n : OnServer(n)' = OnServer(n)
    BY SameLog DEF Send
  <1>2. TypeOK'
    BY DoneIsTask, RestingIsSender, QueueAssumption
       DEF IInv, TypeOK, TaskKnows, Send, stored, Local, SenderGoes, TaskGoes, SendToServer, Task, TaskSteps, Sender, SenderSteps
  <1>3. SentIsStored' /\ SenderKnows' /\ TaskKnows'
    BY <1>1, DoneIsTask, RestingIsSender
       DEF IInv, TypeOK, SentIsStored, SenderKnows, TaskKnows, Send, stored, Local, SenderGoes, TaskGoes, SendToServer, Task, Sender, Latest, OnServer
  <1> QED
    BY <1>1, <1>2, <1>3 DEF IInv

LEMMA AddPendingInv ==
    ASSUME IInv, NEW t \in Tasks, AddPending(t)
    PROVE  IInv'
  <1>1. OnceOnServer' /\ \A n : OnServer(n)' = OnServer(n)
    BY SameLog DEF AddPending
  <1>2. TypeOK'
    BY DoneIsTask, RestingIsSender, QueueAssumption
       DEF IInv, TypeOK, TaskKnows, AddPending, stored, Local, SenderGoes, TaskGoes, SendToServer, Task, TaskSteps, Sender, SenderSteps
  <1>3. SentIsStored' /\ SenderKnows' /\ TaskKnows'
    BY <1>1, DoneIsTask, RestingIsSender, SMTT(30)
       DEF IInv, TypeOK, SentIsStored, SenderKnows, TaskKnows, AddPending, stored, Local, SenderGoes, TaskGoes, SendToServer, Task, Sender, Latest, OnServer
  <1> QED
    BY <1>1, <1>2, <1>3 DEF IInv

LEMMA RetryInv ==
    ASSUME IInv, NEW t \in Tasks, NEW m \in Msgs, Retry(t, m)
    PROVE  IInv'
  <1> DEFINE r == [Done EXCEPT !.pc = "retryPending", !.msg = m, !.count = retries[m] + 1]
  <1>1. OnceOnServer' /\ \A n : OnServer(n)' = OnServer(n)
    BY SameLog DEF Retry
  <1>2. retries[m] + 1 \in 0 .. MaxRetries
    BY QueueAssumption DEF IInv, TypeOK, Retry
  <1>3. r \in Task /\ r.pc = "retryPending" /\ r.msg = m
    BY <1>2 DEF Done, Task, TaskSteps
  <1>4. task' = [task EXCEPT ![t] = r]
    BY DEF Retry
  <1> HIDE DEF r
  <1>5. /\ task' \in [Tasks -> Task] /\ task'[t] = r
        /\ \A u \in Tasks : u # t => task'[u] = task[u]
    BY <1>3, <1>4, TaskBecomes DEF IInv
  <1>6. TypeOK'
    BY <1>5 DEF IInv, TypeOK, Retry, stored
  <1>7. SentIsStored' /\ SenderKnows' /\ TaskKnows'
    BY <1>1, <1>3, <1>5 DEF IInv, TypeOK, SentIsStored, SenderKnows, TaskKnows, Retry, stored
  <1> QED
    BY <1>1, <1>6, <1>7 DEF IInv

LEMMA RetryPendingInv ==
    ASSUME IInv, NEW t \in Tasks, RetryPending(t)
    PROVE  IInv'
  <1>1. OnceOnServer' /\ \A n : OnServer(n)' = OnServer(n)
    BY SameLog DEF RetryPending
  <1>2. /\ task' \in [Tasks -> Task]
        /\ \A u \in Tasks : u # t => task'[u] = task[u]
        /\ task'[t].pc = "begin" /\ task'[t].msg = task[t].msg
    BY TaskGoesType DEF IInv, RetryPending, TaskSteps
  <1>3. task[t].msg \in Msgs /\ task[t].count \in 0 .. MaxRetries
    BY DEF IInv, TypeOK, Task, TaskKnows, RetryPending
  <1>4. /\ pending' \in [Msgs -> {"none", "pending", "failed"}]
        /\ retries' \in [Msgs -> 0 .. MaxRetries]
        /\ \A n \in Msgs : pending'[n] = "none" => pending[n] = "none"
    BY <1>3 DEF IInv, TypeOK, RetryPending
  <1>5. TypeOK'
    BY <1>2, <1>4 DEF IInv, TypeOK, RetryPending
  <1>6. SentIsStored' /\ SenderKnows' /\ TaskKnows'
    BY <1>1, <1>2, <1>3, <1>4 DEF IInv, SentIsStored, SenderKnows, TaskKnows, RetryPending
  <1> QED
    BY <1>1, <1>5, <1>6 DEF IInv

LEMMA BeginInv ==
    ASSUME IInv, NEW t \in Tasks, Begin(t)
    PROVE  IInv'
  <1>1. OnceOnServer' /\ \A n : OnServer(n)' = OnServer(n)
    BY SameLog DEF Begin
  <1>2. TypeOK'
    BY DoneIsTask, RestingIsSender, QueueAssumption, SMTT(30)
       DEF IInv, TypeOK, TaskKnows, Begin, stored, Local, SenderGoes, TaskGoes, SendToServer, Task, TaskSteps, Sender, SenderSteps
  <1>3. SentIsStored' /\ SenderKnows' /\ TaskKnows'
    BY <1>1, DoneIsTask, RestingIsSender
       DEF IInv, TypeOK, SentIsStored, SenderKnows, TaskKnows, Begin, stored, Local, SenderGoes, TaskGoes, SendToServer, Task, Sender, Latest, OnServer
  <1> QED
    BY <1>1, <1>2, <1>3 DEF IInv

LEMMA CancelInv ==
    ASSUME IInv, NEW m \in Msgs, Cancel(m)
    PROVE  IInv'
  <1>1. OnceOnServer' /\ \A n : OnServer(n)' = OnServer(n)
    BY SameLog DEF Cancel
  <1>2. TypeOK'
    BY DoneIsTask, RestingIsSender, QueueAssumption
       DEF IInv, TypeOK, TaskKnows, Cancel, stored, Local, SenderGoes, TaskGoes, SendToServer, Task, TaskSteps, Sender, SenderSteps
  <1>3. SentIsStored' /\ SenderKnows' /\ TaskKnows'
    BY <1>1, DoneIsTask, RestingIsSender
       DEF IInv, TypeOK, SentIsStored, SenderKnows, TaskKnows, Cancel, stored, Local, SenderGoes, TaskGoes, SendToServer, Task, Sender, Latest, OnServer
  <1> QED
    BY <1>1, <1>2, <1>3 DEF IInv

LEMMA ProcessInv ==
    ASSUME IInv, NEW t \in Tasks, Process(t)
    PROVE  IInv'
  <1>1. OnceOnServer' /\ \A n : OnServer(n)' = OnServer(n)
    BY SameLog DEF Process
  <1>2. TypeOK'
    BY DoneIsTask, RestingIsSender, QueueAssumption
       DEF IInv, TypeOK, TaskKnows, Process, stored, Local, SenderGoes, TaskGoes, SendToServer, Task, TaskSteps, Sender, SenderSteps
  <1>3. SentIsStored' /\ SenderKnows' /\ TaskKnows'
    BY <1>1, DoneIsTask, RestingIsSender
       DEF IInv, TypeOK, SentIsStored, SenderKnows, TaskKnows, Process, stored, Local, SenderGoes, TaskGoes, SendToServer, Task, Sender, Latest, OnServer
  <1> QED
    BY <1>1, <1>2, <1>3 DEF IInv

LEMMA ProcessNextInv ==
    ASSUME IInv, NEW t \in Tasks, ProcessNext(t)
    PROVE  IInv'
  <1>1. OnceOnServer' /\ \A n : OnServer(n)' = OnServer(n)
    BY SameLog DEF ProcessNext
  <1>2. PICK r \in Task : /\ task' = [task EXCEPT ![t] = r]
                          /\ r.pc = "idle" \/ (r.pc = "check" /\ r.msg \in Msgs)
    <2>1. CASE task' = [task EXCEPT ![t] = Done]
      BY <2>1, DoneIsTask
    <2>2. CASE \E m \in task[t].left :
                 task' = [task EXCEPT ![t] = [pc |-> "check", msg |-> m,
                                              left |-> task[t].left \ {m}, count |-> 0]]
      <3>1. task[t].left \subseteq Msgs
        BY DEF IInv, TypeOK, Task
      <3>2. PICK m \in task[t].left :
                 task' = [task EXCEPT ![t] = [pc |-> "check", msg |-> m,
                                              left |-> task[t].left \ {m}, count |-> 0]]
        BY <2>2
      <3> DEFINE left == task[t].left \ {m}
                 q    == [pc |-> "check", msg |-> m, left |-> left, count |-> 0]
      <3>3. m \in Msgs /\ left \in SUBSET Msgs
        BY <3>1, <3>2
      <3>4. task' = [task EXCEPT ![t] = q]
        BY <3>2
      <3> HIDE DEF left
      <3>5. q \in Task /\ q.pc = "check" /\ q.msg = m
        BY <3>3, QueueAssumption DEF Task, TaskSteps
      <3> HIDE DEF q
      <3> QED
        BY <3>3, <3>4, <3>5
    <2> QED
      BY <2>1, <2>2 DEF ProcessNext
  <1>3. /\ task' \in [Tasks -> Task] /\ task'[t] = r
        /\ \A u \in Tasks : u # t => task'[u] = task[u]
    BY <1>2, TaskBecomes DEF IInv
  <1>4. TypeOK'
    BY <1>3 DEF IInv, TypeOK, ProcessNext, stored
  <1>5. SentIsStored' /\ SenderKnows' /\ TaskKnows'
    BY <1>1, <1>2, <1>3 DEF IInv, SentIsStored, SenderKnows, TaskKnows, ProcessNext, stored
  <1> QED
    BY <1>1, <1>4, <1>5 DEF IInv

LEMMA ProcessCheckInv ==
    ASSUME IInv, NEW t \in Tasks, ProcessCheck(t)
    PROVE  IInv'
  <1>1. OnceOnServer' /\ \A n : OnServer(n)' = OnServer(n)
    BY SameLog DEF ProcessCheck
  <1>2. task[t].msg \in Msgs
    BY DEF IInv, TaskKnows, ProcessCheck
  <1>3. /\ task' \in [Tasks -> Task]
        /\ \A u \in Tasks : u # t => task'[u] = task[u]
        /\ task'[t].pc = "next" \/ (task'[t].pc = "storeSent" /\ Latest(task[t].msg))
        /\ task'[t].msg = task[t].msg
    BY TaskGoesType DEF IInv, ProcessCheck, TaskSteps
  <1>4. /\ sender' \in [Msgs -> Sender]
        /\ \A n \in Msgs : sender'[n] = sender[n] \/ sender'[n].pc = "status"
    BY <1>2, SendToServerType DEF IInv, TypeOK, ProcessCheck
  <1>5. Latest(task[t].msg) => OnServer(task[t].msg)
    BY DEF Latest, OnServer
  <1>6. TypeOK'
    BY <1>3, <1>4 DEF IInv, TypeOK, ProcessCheck, stored
  <1>7. SentIsStored'
    BY <1>1 DEF IInv, SentIsStored, ProcessCheck, stored
  <1>8. SenderKnows'
    BY <1>1, <1>4 DEF IInv, SenderKnows, ProcessCheck
  <1>9. TaskKnows'
    BY <1>1, <1>2, <1>3, <1>5 DEF IInv, TaskKnows
  <1> QED
    BY <1>1, <1>6, <1>7, <1>8, <1>9 DEF IInv

LEMMA ProcessStoreSentInv ==
    ASSUME IInv, NEW t \in Tasks, ProcessStoreSent(t)
    PROVE  IInv'
  <1>1. OnceOnServer' /\ \A n : OnServer(n)' = OnServer(n)
    BY SameLog DEF ProcessStoreSent
  <1>2. /\ task' \in [Tasks -> Task]
        /\ \A u \in Tasks : u # t => task'[u] = task[u]
        /\ task'[t].pc = "dropPending" /\ task'[t].msg = task[t].msg
    BY TaskGoesType DEF IInv, ProcessStoreSent, TaskSteps
  <1>3. task[t].msg \in Msgs
    BY DEF IInv, TaskKnows, ProcessStoreSent
  <1>4. TypeOK'
    BY <1>2, <1>3, QueueAssumption DEF IInv, TypeOK, ProcessStoreSent, stored, Local
  <1>5. SentIsStored' /\ SenderKnows' /\ TaskKnows'
    BY <1>1, <1>2, <1>3 DEF IInv, TypeOK, SentIsStored, SenderKnows, TaskKnows, ProcessStoreSent, stored, Local
  <1> QED
    BY <1>1, <1>4, <1>5 DEF IInv

LEMMA ProcessDropPendingInv ==
    ASSUME IInv, NEW t \in Tasks, ProcessDropPending(t)
    PROVE  IInv'
  <1>1. OnceOnServer' /\ \A n : OnServer(n)' = OnServer(n)
    BY SameLog DEF ProcessDropPending
  <1>2. /\ task' \in [Tasks -> Task]
        /\ \A u \in Tasks : u # t => task'[u] = task[u]
        /\ task'[t].pc = "next" /\ task'[t].msg = task[t].msg
    BY TaskGoesType DEF IInv, ProcessDropPending, TaskSteps
  <1>3. task[t].msg \in Msgs
    BY DEF IInv, TaskKnows, ProcessDropPending
  <1>4. TypeOK'
    BY <1>2, <1>3, QueueAssumption DEF IInv, TypeOK, ProcessDropPending, stored, Local
  <1>5. SentIsStored' /\ SenderKnows' /\ TaskKnows'
    BY <1>1, <1>2, <1>3 DEF IInv, TypeOK, SentIsStored, SenderKnows, TaskKnows, ProcessDropPending, stored, Local
  <1> QED
    BY <1>1, <1>4, <1>5 DEF IInv

LEMMA StatusInv ==
    ASSUME IInv, NEW m \in Msgs, Status(m)
    PROVE  IInv'
  <1>1. OnceOnServer' /\ \A n : OnServer(n)' = OnServer(n)
    BY SameLog DEF Status
  <1>2. TypeOK'
    BY DoneIsTask, RestingIsSender, QueueAssumption
       DEF IInv, TypeOK, TaskKnows, Status, stored, Local, SenderGoes, TaskGoes, SendToServer, Task, TaskSteps, Sender, SenderSteps
  <1>3. SentIsStored' /\ SenderKnows' /\ TaskKnows'
    BY <1>1, DoneIsTask, RestingIsSender
       DEF IInv, TypeOK, SentIsStored, SenderKnows, TaskKnows, Status, stored, Local, SenderGoes, TaskGoes, SendToServer, Task, Sender, Latest, OnServer
  <1> QED
    BY <1>1, <1>2, <1>3 DEF IInv

LEMMA AnsweredInv ==
    ASSUME IInv, NEW m \in Msgs, Answered(m)
    PROVE  IInv'
  <1>1. OnceOnServer' /\ \A n : OnServer(n)' = OnServer(n)
    BY SameLog DEF Answered
  <1>2. /\ sender' \in [Msgs -> Sender]
        /\ \A n \in Msgs : n # m => sender'[n] = sender[n]
        /\ sender'[m].pc = "storeSent"
    BY SenderGoesType DEF IInv, Answered, SenderSteps
  <1>3. OnServer(m)
    BY DEF IInv, SenderKnows, Answered
  <1>4. TypeOK'
    BY <1>2 DEF IInv, TypeOK, Answered, stored
  <1>5. SentIsStored'
    BY <1>1 DEF IInv, SentIsStored, Answered, stored
  <1>6. SenderKnows'
    BY <1>1, <1>2, <1>3 DEF IInv, TypeOK, SenderKnows, Answered
  <1>7. TaskKnows'
    BY <1>1 DEF IInv, TaskKnows, Answered
  <1> QED
    BY <1>1, <1>4, <1>5, <1>6, <1>7 DEF IInv

LEMMA TryAgainInv ==
    ASSUME IInv, NEW m \in Msgs, TryAgain(m)
    PROVE  IInv'
  <1>1. OnceOnServer' /\ \A n : OnServer(n)' = OnServer(n)
    BY SameLog DEF TryAgain
  <1>2. TypeOK'
    <2>1. sender[m].tries + 1 \in 0 .. MaxTries /\ sender[m] \in Sender
      BY QueueAssumption DEF IInv, TypeOK, TryAgain, Sender
    <2>2. sender' \in [Msgs -> Sender]
      BY <2>1 DEF IInv, TypeOK, TryAgain, Sender
    <2>3. request' \in [Msgs -> {"none", "wire", "insert", "created", "duplicate", "error"}]
      BY DEF IInv, TypeOK, TryAgain
    <2> QED
      BY <2>2, <2>3 DEF IInv, TypeOK, TryAgain, stored
  <1>3. SentIsStored' /\ SenderKnows' /\ TaskKnows'
    BY <1>1, DoneIsTask, RestingIsSender
       DEF IInv, TypeOK, SentIsStored, SenderKnows, TaskKnows, TryAgain, stored, Local, SenderGoes, TaskGoes, SendToServer, Task, Sender, Latest, OnServer
  <1> QED
    BY <1>1, <1>2, <1>3 DEF IInv

LEMMA GiveUpInv ==
    ASSUME IInv, NEW m \in Msgs, GiveUp(m)
    PROVE  IInv'
  <1>1. OnceOnServer' /\ \A n : OnServer(n)' = OnServer(n)
    BY SameLog DEF GiveUp
  <1>2. TypeOK'
    BY DoneIsTask, RestingIsSender, QueueAssumption, ZenonT(60)
       DEF IInv, TypeOK, TaskKnows, GiveUp, stored, Local, SenderGoes, TaskGoes, SendToServer, Task, TaskSteps, Sender, SenderSteps
  <1>3. SentIsStored' /\ SenderKnows' /\ TaskKnows'
    BY <1>1, DoneIsTask, RestingIsSender
       DEF IInv, TypeOK, SentIsStored, SenderKnows, TaskKnows, GiveUp, stored, Local, SenderGoes, TaskGoes, SendToServer, Task, Sender, Latest, OnServer
  <1> QED
    BY <1>1, <1>2, <1>3 DEF IInv

LEMMA CheckInv ==
    ASSUME IInv, NEW m \in Msgs, Check(m)
    PROVE  IInv'
  <1>1. OnceOnServer' /\ \A n : OnServer(n)' = OnServer(n)
    BY SameLog DEF Check
  <1>2. /\ sender' \in [Msgs -> Sender]
        /\ \A n \in Msgs : n # m => sender'[n] = sender[n]
        /\ sender'[m].pc = "failLocal" \/ (sender'[m].pc = "storeSent" /\ Latest(m))
    BY SenderGoesType DEF IInv, Check, SenderSteps
  <1>3. Latest(m) => OnServer(m)
    BY DEF Latest, OnServer
  <1>4. TypeOK'
    BY <1>2 DEF IInv, TypeOK, Check, stored
  <1>5. SentIsStored'
    BY <1>1 DEF IInv, SentIsStored, Check, stored
  <1>6. SenderKnows'
    BY <1>1, <1>2, <1>3 DEF IInv, TypeOK, SenderKnows, Check
  <1>7. TaskKnows'
    BY <1>1 DEF IInv, TaskKnows, Check
  <1> QED
    BY <1>1, <1>4, <1>5, <1>6, <1>7 DEF IInv

LEMMA StoreSentInv ==
    ASSUME IInv, NEW m \in Msgs, StoreSent(m)
    PROVE  IInv'
  <1>1. OnceOnServer' /\ \A n : OnServer(n)' = OnServer(n)
    BY SameLog DEF StoreSent
  <1>2. TypeOK'
    BY DoneIsTask, RestingIsSender, QueueAssumption, ZenonT(60)
       DEF IInv, TypeOK, TaskKnows, StoreSent, stored, Local, SenderGoes, TaskGoes, SendToServer, Task, TaskSteps, Sender, SenderSteps
  <1>3. SentIsStored' /\ SenderKnows' /\ TaskKnows'
    BY <1>1, DoneIsTask, RestingIsSender
       DEF IInv, TypeOK, SentIsStored, SenderKnows, TaskKnows, StoreSent, stored, Local, SenderGoes, TaskGoes, SendToServer, Task, Sender, Latest, OnServer
  <1> QED
    BY <1>1, <1>2, <1>3 DEF IInv

LEMMA DropPendingInv ==
    ASSUME IInv, NEW m \in Msgs, DropPending(m)
    PROVE  IInv'
  <1>1. OnceOnServer' /\ \A n : OnServer(n)' = OnServer(n)
    BY SameLog DEF DropPending
  <1>2. TypeOK'
    BY DoneIsTask, RestingIsSender, QueueAssumption
       DEF IInv, TypeOK, TaskKnows, DropPending, stored, Local, SenderGoes, TaskGoes, SendToServer, Task, TaskSteps, Sender, SenderSteps
  <1>3. SentIsStored' /\ SenderKnows' /\ TaskKnows'
    BY <1>1, DoneIsTask, RestingIsSender
       DEF IInv, TypeOK, SentIsStored, SenderKnows, TaskKnows, DropPending, stored, Local, SenderGoes, TaskGoes, SendToServer, Task, Sender, Latest, OnServer
  <1> QED
    BY <1>1, <1>2, <1>3 DEF IInv

LEMMA FailLocalInv ==
    ASSUME IInv, NEW m \in Msgs, FailLocal(m)
    PROVE  IInv'
  <1>1. OnceOnServer' /\ \A n : OnServer(n)' = OnServer(n)
    BY SameLog DEF FailLocal
  <1>2. TypeOK'
    BY DoneIsTask, RestingIsSender, QueueAssumption, ZenonT(60)
       DEF IInv, TypeOK, TaskKnows, FailLocal, stored, Local, SenderGoes, TaskGoes, SendToServer, Task, TaskSteps, Sender, SenderSteps
  <1>3. SentIsStored' /\ SenderKnows' /\ TaskKnows'
    BY <1>1, DoneIsTask, RestingIsSender
       DEF IInv, TypeOK, SentIsStored, SenderKnows, TaskKnows, FailLocal, stored, Local, SenderGoes, TaskGoes, SendToServer, Task, Sender, Latest, OnServer
  <1> QED
    BY <1>1, <1>2, <1>3 DEF IInv

LEMMA FailPendingInv ==
    ASSUME IInv, NEW m \in Msgs, FailPending(m)
    PROVE  IInv'
  <1>1. OnceOnServer' /\ \A n : OnServer(n)' = OnServer(n)
    BY SameLog DEF FailPending
  <1>2. TypeOK'
    BY DoneIsTask, RestingIsSender, QueueAssumption
       DEF IInv, TypeOK, TaskKnows, FailPending, stored, Local, SenderGoes, TaskGoes, SendToServer, Task, TaskSteps, Sender, SenderSteps
  <1>3. SentIsStored' /\ SenderKnows' /\ TaskKnows'
    BY <1>1, DoneIsTask, RestingIsSender
       DEF IInv, TypeOK, SentIsStored, SenderKnows, TaskKnows, FailPending, stored, Local, SenderGoes, TaskGoes, SendToServer, Task, Sender, Latest, OnServer
  <1> QED
    BY <1>1, <1>2, <1>3 DEF IInv

LEMMA ReloadInv ==
    ASSUME IInv, Reload
    PROVE  IInv'
  <1>1. OnceOnServer' /\ \A n : OnServer(n)' = OnServer(n)
    BY SameLog DEF Reload
  <1>2. TypeOK'
    BY DoneIsTask, RestingIsSender, QueueAssumption
       DEF IInv, TypeOK, TaskKnows, Reload, stored, Local, SenderGoes, TaskGoes, SendToServer, Task, TaskSteps, Sender, SenderSteps
  <1>3. SentIsStored' /\ SenderKnows' /\ TaskKnows'
    BY <1>1, DoneIsTask, RestingIsSender
       DEF IInv, TypeOK, SentIsStored, SenderKnows, TaskKnows, Reload, stored, Local, SenderGoes, TaskGoes, SendToServer, Task, Sender, Latest, OnServer
  <1> QED
    BY <1>1, <1>2, <1>3 DEF IInv

\* What the handler does with a request that belongs to a message.
LEMMA HandleServes ==
    ASSUME IInv, NEW m \in Msgs, NEW from,
           NEW to \in {"insert", "duplicate", "created", "error"}, Handle(from, to, m)
    PROVE  /\ log' \in Seq(Msgs \cup {Other}) /\ Len(log') <= MaxLog
           /\ OnceOnServer'
           /\ \A n : OnServer(n) => OnServer(n)'
           /\ to = "created" => OnServer(m)'
  <1>1. CASE UNCHANGED log /\ to # "created"
    BY <1>1, SameLog DEF IInv, TypeOK
  <1>2. CASE ~OnServer(m) /\ Len(log) < MaxLog /\ log' = Append(log, m)
    BY <1>2, LogGrows DEF IInv
  <1> QED
    BY <1>1, <1>2 DEF Handle

LEMMA ServeInv ==
    ASSUME IInv, NEW m \in Msgs, Serve(m)
    PROVE  IInv'
  <1>1. PICK to \in {"insert", "duplicate", "created", "error"} :
            Handle(request[m], to, m) /\ request' = [request EXCEPT ![m] = to]
    BY DEF Serve
  <1>2. /\ log' \in Seq(Msgs \cup {Other}) /\ Len(log') <= MaxLog
        /\ OnceOnServer'
        /\ \A n : OnServer(n) => OnServer(n)'
        /\ to = "created" => OnServer(m)'
    BY <1>1, HandleServes
  <1>3. TypeOK'
    BY <1>1, <1>2 DEF IInv, TypeOK, Serve, stored
  <1>4. SentIsStored'
    BY <1>2 DEF IInv, SentIsStored, Serve, stored
  <1>5. SenderKnows'
    BY <1>1, <1>2 DEF IInv, TypeOK, SenderKnows, Serve
  <1>6. TaskKnows'
    BY <1>2 DEF IInv, TaskKnows, Serve
  <1> QED
    BY <1>2, <1>3, <1>4, <1>5, <1>6 DEF IInv

LEMMA ServeOrphanInv ==
    ASSUME IInv, NEW m \in Msgs, ServeOrphan(m)
    PROVE  IInv'
  <1>1. PICK to \in {"insert", "duplicate", "created", "error"} :
            /\ Handle(orphan[m], to, m)
            /\ orphan' = [orphan EXCEPT ![m] = IF to = "insert" THEN to ELSE "none"]
    BY DEF ServeOrphan
  <1>2. /\ log' \in Seq(Msgs \cup {Other}) /\ Len(log') <= MaxLog
        /\ OnceOnServer'
        /\ \A n : OnServer(n) => OnServer(n)'
    BY <1>1, HandleServes
  <1>3. TypeOK'
    BY <1>1, <1>2 DEF IInv, TypeOK, ServeOrphan, stored
  <1>4. SentIsStored' /\ SenderKnows' /\ TaskKnows'
    BY <1>2 DEF IInv, SentIsStored, SenderKnows, TaskKnows, ServeOrphan, stored
  <1> QED
    BY <1>2, <1>3, <1>4 DEF IInv

LEMMA CommitInv ==
    ASSUME IInv, Commit
    PROVE  IInv'
  <1>1. /\ log' \in Seq(Msgs \cup {Other}) /\ Len(log') <= MaxLog
        /\ OnceOnServer'
        /\ \A n : OnServer(n) => OnServer(n)'
    BY LogGrows DEF IInv, Commit
  <1>2. TypeOK'
    BY <1>1 DEF IInv, TypeOK, Commit, stored
  <1>3. SentIsStored' /\ SenderKnows' /\ TaskKnows'
    BY <1>1 DEF IInv, SentIsStored, SenderKnows, TaskKnows, Commit, stored
  <1> QED
    BY <1>1, <1>2, <1>3 DEF IInv

LEMMA StutterInv ==
    ASSUME IInv, UNCHANGED vars
    PROVE  IInv'
  BY DEF IInv, TypeOK, OnceOnServer, SentIsStored, SenderKnows, TaskKnows, OnServer, vars, stored

-----------------------------------------------------------------------------
LEMMA NextInv ==
    ASSUME IInv, [Next]_vars
    PROVE  IInv'
  <1>1. CASE \E m \in Msgs : SenderStep(m)
    <2>1. PICK m \in Msgs : SenderStep(m)
      BY <1>1
    <2> QED
      BY <2>1, StatusInv, AnsweredInv, TryAgainInv, GiveUpInv, CheckInv, StoreSentInv,
         DropPendingInv, FailLocalInv, FailPendingInv DEF SenderStep
  <1>2. CASE \E m \in Msgs : Serve(m) \/ ServeOrphan(m) \/ Cancel(m)
    BY <1>2, ServeInv, ServeOrphanInv, CancelInv
  <1>3. CASE \E t \in Tasks : TaskStep(t)
    <2>1. PICK t \in Tasks : TaskStep(t)
      BY <1>3
    <2> QED
      BY <2>1, AddPendingInv, RetryPendingInv, BeginInv, ProcessNextInv, ProcessCheckInv,
         ProcessStoreSentInv, ProcessDropPendingInv DEF TaskStep
  <1>4. CASE \E t \in Tasks : Process(t) \/ \E m \in Msgs : Send(t, m) \/ Retry(t, m)
    BY <1>4, ProcessInv, SendInv, RetryInv
  <1>5. CASE Commit \/ Reload
    BY <1>5, CommitInv, ReloadInv
  <1>6. CASE UNCHANGED vars
    BY <1>6, StutterInv
  <1> QED
    BY <1>1, <1>2, <1>3, <1>4, <1>5, <1>6 DEF Next

\* The strengthened invariant, of which the next three theorems are parts.
THEOREM QueueInvariant == Spec => []IInv
  <1>1. IInv /\ [Next]_vars => IInv'
    BY NextInv
  <1> QED
    BY <1>1, InitInv, PTL DEF Spec

\* The stores, the senders, the calls and the requests have the shapes the code
\* gives them; among others no entry is retried more than maxRetries times.
THEOREM QueueTypeCorrect == Spec => []TypeOK
  <1>1. IInv => TypeOK
    BY DEF IInv
  <1> QED
    BY <1>1, QueueInvariant, PTL

\* The channel holds a message of the client once, with any number of senders,
\* given up requests and reloads: the server keys it by its clientMsgId.
THEOREM StoredOnce == Spec => []OnceOnServer
  <1>1. IInv => OnceOnServer
    BY DEF IInv
  <1> QED
    BY <1>1, QueueInvariant, PTL

\* A message the client calls sent, or takes off the queue without being asked
\* to, is one that the server has stored.
THEOREM SentMeansStored == Spec => []SentIsStored
  <1>1. IInv => SentIsStored
    BY DEF IInv
  <1> QED
    BY <1>1, QueueInvariant, PTL

-----------------------------------------------------------------------------
(* RestIsSettled: while the page is not reloaded.                          *)

Waiting(t, m) == task[t].pc = "addPending" /\ task[t].msg = m
Dropping(m)   == \E t \in Tasks : task[t].pc = "dropPending" /\ task[t].msg = m

\* Nobody works on a message before its entry is stored.
Untouched(m) ==
    /\ sender[m].pc = "idle" /\ pending[m] = "none"
    /\ \A u \in Tasks : m \notin task[u].left /\ (task[u].msg = m => Waiting(u, m))

\* Whoever leaves a message leaves it with its outcome; an outcome that a sender
\* and a processPending give at once is put right by the one that is still there.
Settling(m) ==
    /\ local[m] = "none" => Untouched(m) /\ \A t \in Tasks : ~Waiting(t, m)
    /\ \A t \in Tasks : Waiting(t, m) =>
         Untouched(m) /\ local[m] = "sending" /\ \A u \in Tasks : Waiting(u, m) => u = t
    /\ sender[m].pc = "idle" /\ local[m] = "sending" => \E t \in Tasks : Waiting(t, m)
    /\ sender[m].pc \in {"dropPending", "failPending"} => local[m] # "sending"
    /\ sender[m].pc = "failPending" => local[m] = "failed" \/ pending[m] = "none" \/ Dropping(m)
    /\ pending[m] = "failed" /\ sender[m].pc = "idle" => local[m] = "failed" \/ Dropping(m)

AllSettling == \A m \in Msgs : Settling(m)

\* A sender's step, or none, with the calls unchanged, is a matter of one message.
LEMMA SenderSettles ==
    ASSUME IInv, AllSettling, NEW m \in Msgs, SenderStep(m)
    PROVE  AllSettling'
  <1>0. /\ UNCHANGED task
        /\ \A n \in Msgs : n # m => sender'[n] = sender[n] /\ local'[n] = local[n] /\ pending'[n] = pending[n]
        /\ sender[m].pc # "idle"
    BY DEF SenderStep, Status, Answered, TryAgain, GiveUp, Check, StoreSent, DropPending, FailLocal,
           FailPending, SenderGoes, Local, stored, IInv, TypeOK
  <1>1. ASSUME NEW n \in Msgs, n # m PROVE Settling(n)'
    <2>1. Settling(n)
      BY DEF AllSettling
    <2> QED BY <1>0, <1>1, <2>1 DEF Settling, Untouched, Waiting, Dropping
  <1>2. Settling(m) /\ local[m] # "none" /\ \A t \in Tasks : ~Waiting(t, m)
    BY <1>0 DEF AllSettling, Settling, Untouched
  <1>3. local'[m] # "none" /\ \A t \in Tasks : ~Waiting(t, m)'
    BY <1>0, <1>2 DEF SenderStep, Status, Answered, TryAgain, GiveUp, Check, StoreSent, DropPending, FailLocal,
           FailPending, SenderGoes, Local, stored, IInv, TypeOK, Waiting
  <1>4. /\ sender'[m].pc = "idle" => local'[m] # "sending"
        /\ sender'[m].pc \in {"dropPending", "failPending"} => local'[m] # "sending"
        /\ sender'[m].pc = "failPending" => local'[m] = "failed" \/ pending'[m] = "none" \/ Dropping(m)
        /\ pending'[m] = "failed" /\ sender'[m].pc = "idle" => local'[m] = "failed" \/ Dropping(m)
    <2>1. CASE Status(m)
      BY <2>1 DEF Status, Local, IInv, TypeOK
    <2>2. CASE Answered(m)
      BY <2>2 DEF Answered, SenderGoes, stored, IInv, TypeOK, Sender
    <2>3. CASE TryAgain(m)
      BY <2>3 DEF TryAgain, stored, IInv, TypeOK, Sender
    <2>4. CASE GiveUp(m)
      BY <2>4 DEF GiveUp, SenderGoes, stored, IInv, TypeOK, Sender
    <2>5. CASE Check(m)
      BY <2>5 DEF Check, SenderGoes, stored, IInv, TypeOK, Sender
    <2>6. CASE StoreSent(m)
      BY <2>6 DEF StoreSent, SenderGoes, Local, IInv, TypeOK, Sender
    <2>7. CASE DropPending(m)
      BY <1>2, <2>7 DEF DropPending, Settling, IInv, TypeOK
    <2>8. CASE FailLocal(m)
      BY <2>8 DEF FailLocal, SenderGoes, Local, IInv, TypeOK, Sender
    <2>9. CASE FailPending(m)
      BY <1>2, <2>9 DEF FailPending, Settling, IInv, TypeOK
    <2> QED BY <2>1, <2>2, <2>3, <2>4, <2>5, <2>6, <2>7, <2>8, <2>9 DEF SenderStep
  <1>5. Dropping(m)' <=> Dropping(m)
    BY <1>0 DEF Dropping
  <1>6. Settling(m)'
    BY <1>3, <1>4, <1>5 DEF Settling
  <1> QED BY <1>1, <1>6 DEF AllSettling

\* Somebody has worked on the message already.
Touched(m) == local[m] # "none" /\ \A u \in Tasks : ~Waiting(u, m)

LEMMA TouchedWhen ==
    ASSUME AllSettling, NEW m \in Msgs,
           \/ pending[m] # "none"
           \/ \E u \in Tasks : m \in task[u].left \/ (task[u].msg = m /\ ~Waiting(u, m))
    PROVE  Touched(m)
  BY DEF AllSettling, Settling, Untouched, Touched

\* A call moves, perhaps starting a sender, and stores nothing.
LEMMA TaskMoves ==
    ASSUME IInv, AllSettling, NEW t \in Tasks, NEW r \in Task, task' = [task EXCEPT ![t] = r],
           UNCHANGED <<local, pending>>,
           task[t].pc \notin {"addPending", "dropPending"}, r.pc # "addPending",
           \A n \in Msgs : r.msg = n \/ n \in r.left => Touched(n),
           \A n \in Msgs : sender'[n] = sender[n] \/ (sender'[n].pc = "status" /\ Touched(n))
    PROVE  AllSettling'
  <1>1. task'[t] = r /\ \A u \in Tasks : u # t => task'[u] = task[u]
    BY TaskBecomes DEF IInv
  <1>2. ASSUME NEW n \in Msgs PROVE Settling(n)'
    <2>1. Settling(n)
      BY DEF AllSettling
    <2>2. \A u \in Tasks : Waiting(u, n)' <=> Waiting(u, n)
      BY <1>1 DEF Waiting
    <2>3. Dropping(n) => Dropping(n)'
      BY <1>1 DEF Dropping
    <2>4. Untouched(n) /\ ~Touched(n) => Untouched(n)'
      <3>1. ASSUME Untouched(n), ~Touched(n), NEW u \in Tasks
            PROVE  n \notin task'[u].left /\ (task'[u].msg = n => Waiting(u, n)')
        BY <1>1, <2>2, <3>1 DEF Untouched
      <3> QED BY <3>1 DEF Untouched
    <2>5. Touched(n)' <=> Touched(n)
      BY <2>2 DEF Touched
    <2> QED BY <2>1, <2>2, <2>3, <2>4 DEF Settling, Touched
  <1> QED BY <1>2 DEF AllSettling

LEMMA SendSettles ==
    ASSUME IInv, AllSettling, NEW t \in Tasks, NEW m \in Msgs, Send(t, m)
    PROVE  AllSettling'
  <1> DEFINE r == [Done EXCEPT !.pc = "addPending", !.msg = m]
  <1>1. /\ task[t].pc = "idle" /\ local[m] = "none"
        /\ local'[m] = "sending" /\ \A n \in Msgs : n # m => local'[n] = local[n]
        /\ UNCHANGED <<pending, sender>> /\ task' = [task EXCEPT ![t] = r]
    BY DEF Send, Local, IInv, TypeOK
  <1>2. r \in Task /\ r.pc = "addPending" /\ r.msg = m /\ r.left = {}
    BY DoneIsTask DEF Done, Task, TaskSteps
  <1> HIDE DEF r
  <1>3. task'[t] = r /\ \A u \in Tasks : u # t => task'[u] = task[u]
    BY <1>1, <1>2, TaskBecomes DEF IInv
  <1>4. \A n \in Msgs : Dropping(n) => Dropping(n)'
    BY <1>1, <1>3 DEF Dropping
  <1>5. Untouched(m) /\ \A u \in Tasks : ~Waiting(u, m)
    BY <1>1 DEF AllSettling, Settling
  <1>6. Settling(m)'
    <2>1. \A u \in Tasks : Waiting(u, m)' <=> u = t
      BY <1>2, <1>3, <1>5 DEF Waiting
    <2>2. Untouched(m)'
      BY <1>1, <1>2, <1>3, <1>5, <2>1 DEF Untouched
    <2> QED BY <1>1, <2>1, <2>2 DEF Settling, Untouched
  <1>7. ASSUME NEW n \in Msgs, n # m PROVE Settling(n)'
    <2>1. Settling(n)
      BY DEF AllSettling
    <2>2. \A u \in Tasks : Waiting(u, n)' <=> Waiting(u, n)
      BY <1>1, <1>2, <1>3, <1>7 DEF Waiting
    <2>3. Untouched(n) => Untouched(n)'
      BY <1>1, <1>2, <1>3, <1>7, <2>2 DEF Untouched
    <2> QED BY <1>1, <1>4, <1>7, <2>1, <2>2, <2>3 DEF Settling
  <1> QED BY <1>6, <1>7 DEF AllSettling

LEMMA AddPendingSettles ==
    ASSUME IInv, AllSettling, NEW t \in Tasks, AddPending(t)
    PROVE  AllSettling'
  <1>1. PICK m \in Msgs : m = task[t].msg /\ Waiting(t, m)
    BY DEF AddPending, Waiting, IInv, TaskKnows
  <1>2. /\ Untouched(m) /\ local[m] = "sending" /\ sender[m].pc = "idle"
        /\ \A u \in Tasks : Waiting(u, m) => u = t
    BY <1>1 DEF AllSettling, Settling, Untouched
  <1>3. /\ task' = [task EXCEPT ![t] = Done] /\ UNCHANGED local
        /\ pending'[m] = "pending" /\ \A n \in Msgs : n # m => pending'[n] = pending[n]
        /\ SendToServer(m)
    BY <1>1 DEF AddPending, IInv, TypeOK
  <1>4. sender'[m].pc = "status" /\ \A n \in Msgs : n # m => sender'[n] = sender[n]
    BY <1>1, <1>2, <1>3 DEF SendToServer, IInv, TypeOK
  <1>5. Done \in Task /\ Done.pc = "idle" /\ Done.msg \notin Msgs /\ Done.left = {}
    BY DoneIsTask, QueueAssumption DEF Done
  <1>6. task'[t] = Done /\ \A u \in Tasks : u # t => task'[u] = task[u]
    BY <1>3, <1>5, TaskBecomes DEF IInv
  <1> HIDE DEF Done
  <1>7. Settling(m)'
    <2>1. \A u \in Tasks : ~Waiting(u, m)'
      BY <1>2, <1>5, <1>6 DEF Waiting
    <2> QED BY <1>2, <1>3, <1>4, <2>1 DEF Settling
  <1>8. ASSUME NEW n \in Msgs, n # m PROVE Settling(n)'
    <2>1. Settling(n)
      BY DEF AllSettling
    <2>2. \A u \in Tasks : Waiting(u, n)' <=> Waiting(u, n)
      BY <1>1, <1>5, <1>6, <1>8 DEF Waiting
    <2>3. Untouched(n) => Untouched(n)'
      BY <1>3, <1>4, <1>5, <1>6, <1>8, <2>2 DEF Untouched
    <2>4. Dropping(n) => Dropping(n)'
      BY <1>1, <1>6 DEF Dropping, Waiting
    <2> QED BY <1>3, <1>4, <1>8, <2>1, <2>2, <2>3, <2>4 DEF Settling
  <1> QED BY <1>7, <1>8 DEF AllSettling

LEMMA RetrySettles ==
    ASSUME IInv, AllSettling, NEW t \in Tasks, NEW m \in Msgs, Retry(t, m)
    PROVE  AllSettling'
  <1>1. task[t].pc = "idle" /\ pending[m] = "failed" /\ UNCHANGED <<local, pending, sender>>
    BY DEF Retry, stored
  <1>2. PICK r \in Task : /\ task' = [task EXCEPT ![t] = r]
                          /\ r.pc = "retryPending" /\ r.msg = m /\ r.left = {}
    BY RetryCall
  <1>3. Touched(m)
    BY <1>1, TouchedWhen
  <1> QED BY <1>1, <1>2, <1>3, TaskMoves

LEMMA BeginSettles ==
    ASSUME IInv, AllSettling, NEW t \in Tasks, Begin(t)
    PROVE  AllSettling'
  <1>1. PICK m \in Msgs : m = task[t].msg
    BY DEF Begin, IInv, TaskKnows
  <1>2. /\ task[t].pc = "begin" /\ UNCHANGED <<local, pending>> /\ SendToServer(m)
        /\ task' = [task EXCEPT ![t] = Done]
    BY <1>1 DEF Begin, stored
  <1>3. Touched(m)
    BY <1>1, <1>2, TouchedWhen DEF Waiting
  <1>4. \A n \in Msgs : sender'[n] = sender[n] \/ (sender'[n].pc = "status" /\ Touched(n))
    BY <1>2, <1>3 DEF SendToServer, IInv, TypeOK
  <1>5. Done \in Task /\ Done.pc = "idle" /\ Done.msg \notin Msgs /\ Done.left = {}
    BY DoneIsTask, QueueAssumption DEF Done
  <1> HIDE DEF Done
  <1> QED BY <1>2, <1>4, <1>5, TaskMoves

LEMMA ProcessSettles ==
    ASSUME IInv, AllSettling, NEW t \in Tasks, Process(t)
    PROVE  AllSettling'
  <1>1. task[t].pc = "idle" /\ UNCHANGED <<local, pending, sender>>
    BY DEF Process, stored
  <1>2. PICK r \in Task : /\ task' = [task EXCEPT ![t] = r]
                          /\ r.pc = "next" /\ r.msg \notin Msgs /\ \A n \in r.left : pending[n] = "pending"
    BY ProcessCall
  <1>3. \A n \in Msgs : r.msg = n \/ n \in r.left => Touched(n)
    BY <1>2, TouchedWhen
  <1> QED BY <1>1, <1>2, <1>3, TaskMoves

LEMMA ProcessNextSettles ==
    ASSUME IInv, AllSettling, NEW t \in Tasks, ProcessNext(t)
    PROVE  AllSettling'
  <1>1. task[t].pc = "next" /\ UNCHANGED <<local, pending, sender>> /\ task[t] \in Task
    BY DEF ProcessNext, stored, IInv, TypeOK
  <1>2. ASSUME NEW m \in task[t].left,
               task' = [task EXCEPT ![t] = [pc |-> "check", msg |-> m,
                                            left |-> task[t].left \ {m}, count |-> 0]]
        PROVE  AllSettling'
    <2> DEFINE r == [pc |-> "check", msg |-> m, left |-> task[t].left \ {m}, count |-> 0]
    <2>1. r \in Task /\ r.pc = "check" /\ r.msg = m /\ r.left \subseteq task[t].left
      BY <1>1, QueueAssumption DEF Task, TaskSteps
    <2>2. \A n \in Msgs : r.msg = n \/ n \in r.left => Touched(n)
      BY <1>2, <2>1, TouchedWhen
    <2>3. task' = [task EXCEPT ![t] = r]
      BY <1>2
    <2> HIDE DEF r
    <2> QED BY <1>1, <2>1, <2>2, <2>3, TaskMoves
  <1>3. CASE task' = [task EXCEPT ![t] = Done]
    <2>1. Done \in Task /\ Done.pc = "idle" /\ Done.msg \notin Msgs /\ Done.left = {}
      BY DoneIsTask, QueueAssumption DEF Done
    <2> HIDE DEF Done
    <2> QED BY <1>1, <1>3, <2>1, TaskMoves
  <1> QED BY <1>2, <1>3 DEF ProcessNext

\* The rest of a processPending works on a message that was touched before.
LEMMA GoesOn ==
    ASSUME IInv, AllSettling, NEW t \in Tasks, NEW pc \in TaskSteps, TaskGoes(t, pc),
           task[t].pc \in {"retryPending", "check", "storeSent", "dropPending"}
    PROVE  \E r \in Task : /\ task' = [task EXCEPT ![t] = r]
                           /\ r.pc = pc /\ r.msg = task[t].msg /\ r.left = task[t].left
                           /\ \A n \in Msgs : r.msg = n \/ n \in r.left => Touched(n)
  <1>1. PICK r \in Task : /\ task' = [task EXCEPT ![t] = r]
                          /\ r.pc = pc /\ r.msg = task[t].msg /\ r.left = task[t].left
    BY KeepsMessage
  <1>2. \A n \in Msgs : r.msg = n \/ n \in r.left => Touched(n)
    BY <1>1, TouchedWhen DEF Waiting
  <1> QED BY <1>1, <1>2

LEMMA ProcessCheckSettles ==
    ASSUME IInv, AllSettling, NEW t \in Tasks, ProcessCheck(t)
    PROVE  AllSettling'
  <1>1. PICK m \in Msgs : m = task[t].msg
    BY DEF ProcessCheck, IInv, TaskKnows
  <1>2. /\ task[t].pc = "check" /\ UNCHANGED <<local, pending>>
        /\ SendToServer(m) \/ UNCHANGED sender
        /\ TaskGoes(t, "storeSent") \/ TaskGoes(t, "next")
    BY <1>1 DEF ProcessCheck, stored
  <1>3. Touched(m)
    BY <1>1, <1>2, TouchedWhen DEF Waiting
  <1>4. \A n \in Msgs : sender'[n] = sender[n] \/ (sender'[n].pc = "status" /\ Touched(n))
    BY <1>2, <1>3 DEF SendToServer, IInv, TypeOK
  <1>5. PICK r \in Task : /\ task' = [task EXCEPT ![t] = r] /\ r.pc # "addPending"
                          /\ \A n \in Msgs : r.msg = n \/ n \in r.left => Touched(n)
    BY <1>2, GoesOn DEF TaskSteps
  <1> QED BY <1>2, <1>4, <1>5, TaskMoves

\* An entry or a local message is stored on the way.
LEMMA RetryPendingSettles ==
    ASSUME IInv, AllSettling, NEW t \in Tasks, RetryPending(t)
    PROVE  AllSettling'
  <1>1. PICK m \in Msgs : m = task[t].msg
    BY DEF RetryPending, IInv, TaskKnows
  <1>2. /\ task[t].pc = "retryPending" /\ TaskGoes(t, "begin") /\ UNCHANGED <<local, sender>>
        /\ \A n \in Msgs : pending'[n] = pending[n] \/ (n = m /\ pending'[n] = "pending" /\ pending[n] # "none")
    BY <1>1 DEF RetryPending, IInv, TypeOK
  <1>3. PICK r \in Task : /\ task' = [task EXCEPT ![t] = r] /\ r.pc = "begin"
                          /\ r.msg = task[t].msg /\ r.left = task[t].left
    BY <1>2, GoesOn DEF TaskSteps
  <1>4. task'[t] = r /\ \A u \in Tasks : u # t => task'[u] = task[u]
    BY <1>3, TaskBecomes DEF IInv
  <1>5. ASSUME NEW n \in Msgs PROVE Settling(n)'
    <2>1. Settling(n)
      BY DEF AllSettling
    <2>2. /\ \A u \in Tasks : Waiting(u, n)' <=> Waiting(u, n)
          /\ Dropping(n)' <=> Dropping(n)
      BY <1>2, <1>3, <1>4 DEF Waiting, Dropping
    <2>3. Untouched(n) => Untouched(n)'
      BY <1>2, <1>3, <1>4, <2>2 DEF Untouched
    <2> QED BY <1>2, <2>1, <2>2, <2>3 DEF Settling
  <1> QED BY <1>5 DEF AllSettling

LEMMA ProcessStoreSentSettles ==
    ASSUME IInv, AllSettling, NEW t \in Tasks, ProcessStoreSent(t)
    PROVE  AllSettling'
  <1>1. PICK m \in Msgs : m = task[t].msg
    BY DEF ProcessStoreSent, IInv, TaskKnows
  <1>2. /\ task[t].pc = "storeSent" /\ TaskGoes(t, "dropPending") /\ UNCHANGED <<pending, sender>>
        /\ local'[m] = "sent" /\ \A n \in Msgs : n # m => local'[n] = local[n]
    BY <1>1 DEF ProcessStoreSent, Local, IInv, TypeOK
  <1>3. PICK r \in Task : /\ task' = [task EXCEPT ![t] = r] /\ r.pc = "dropPending"
                          /\ r.msg = task[t].msg /\ r.left = task[t].left
    BY <1>2, GoesOn DEF TaskSteps
  <1>4. task'[t] = r /\ \A u \in Tasks : u # t => task'[u] = task[u]
    BY <1>3, TaskBecomes DEF IInv
  <1>5. Touched(m)
    BY <1>1, <1>2, TouchedWhen DEF Waiting
  <1>6. ASSUME NEW n \in Msgs PROVE Settling(n)'
    <2>1. Settling(n)
      BY DEF AllSettling
    <2>2. /\ \A u \in Tasks : Waiting(u, n)' <=> Waiting(u, n)
          /\ Dropping(n) => Dropping(n)'
      BY <1>2, <1>3, <1>4 DEF Waiting, Dropping
    <2>3. Dropping(m)'
      BY <1>1, <1>3, <1>4 DEF Dropping
    <2>4. Untouched(n) => Untouched(n)'
      BY <1>2, <1>3, <1>4, <2>2 DEF Untouched
    <2>5. CASE n = m
      BY <1>2, <1>5, <2>2, <2>3, <2>5 DEF Settling, Touched
    <2>6. CASE n # m
      BY <1>2, <2>1, <2>2, <2>4, <2>6 DEF Settling
    <2> QED BY <2>5, <2>6
  <1> QED BY <1>6 DEF AllSettling

\* An entry goes: a processPending drops it, or the application cancels it.
LEMMA EntryGoes ==
    ASSUME IInv, AllSettling, NEW m \in Msgs, pending' = [pending EXCEPT ![m] = "none"],
           UNCHANGED <<local, sender>>,
           \A u \in Tasks : /\ task'[u].msg = task[u].msg /\ task'[u].left = task[u].left
                            /\ (task'[u].pc = "addPending") <=> (task[u].pc = "addPending"),
           \A n \in Msgs \ {m} : Dropping(n) => Dropping(n)'
    PROVE  AllSettling'
  <1>1. pending'[m] = "none" /\ \A n \in Msgs : n # m => pending'[n] = pending[n]
    BY DEF IInv, TypeOK
  <1>2. ASSUME NEW n \in Msgs PROVE Settling(n)'
    <2>1. Settling(n)
      BY DEF AllSettling
    <2>2. \A u \in Tasks : Waiting(u, n)' <=> Waiting(u, n)
      BY DEF Waiting
    <2>3. Untouched(n) => Untouched(n)'
      BY <1>1, <2>2 DEF Untouched
    <2>4. CASE n = m
      BY <1>1, <2>1, <2>2, <2>3, <2>4 DEF Settling
    <2>5. CASE n # m
      BY <1>1, <2>1, <2>2, <2>3, <2>5 DEF Settling
    <2> QED BY <2>4, <2>5
  <1> QED BY <1>2 DEF AllSettling

LEMMA ProcessDropPendingSettles ==
    ASSUME IInv, AllSettling, NEW t \in Tasks, ProcessDropPending(t)
    PROVE  AllSettling'
  <1>1. PICK m \in Msgs : m = task[t].msg
    BY DEF ProcessDropPending, IInv, TaskKnows
  <1>2. /\ task[t].pc = "dropPending" /\ TaskGoes(t, "next") /\ UNCHANGED <<local, sender>>
        /\ pending' = [pending EXCEPT ![m] = "none"]
    BY <1>1 DEF ProcessDropPending
  <1>3. PICK r \in Task : /\ task' = [task EXCEPT ![t] = r] /\ r.pc = "next"
                          /\ r.msg = task[t].msg /\ r.left = task[t].left
    BY <1>2, GoesOn DEF TaskSteps
  <1>4. task'[t] = r /\ \A u \in Tasks : u # t => task'[u] = task[u]
    BY <1>3, TaskBecomes DEF IInv
  <1>5. \A n \in Msgs \ {m} : Dropping(n) => Dropping(n)'
    BY <1>1, <1>4 DEF Dropping
  <1> QED BY <1>2, <1>3, <1>4, <1>5, EntryGoes

LEMMA CancelSettles ==
    ASSUME IInv, AllSettling, NEW m \in Msgs, Cancel(m)
    PROVE  AllSettling'
  BY EntryGoes DEF Cancel, Dropping

\* The server, a neighbour, or nobody.
LEMMA OthersSettle ==
    ASSUME AllSettling, UNCHANGED <<local, pending, sender, task>>
    PROVE  AllSettling'
  BY DEF AllSettling, Settling, Untouched, Waiting, Dropping

-----------------------------------------------------------------------------
UnlessReloaded == reloads = 0 => AllSettling

LEMMA InitSettles == Init => UnlessReloaded
  <1> SUFFICES ASSUME Init, NEW m \in Msgs PROVE Settling(m)
    BY DEF UnlessReloaded, AllSettling
  <1>1. local[m] = "none" /\ pending[m] = "none" /\ sender[m].pc = "idle"
    BY DEF Init, Resting
  <1>2. \A t \in Tasks : task[t].pc = "idle" /\ task[t].msg = Other /\ task[t].left = {}
    BY DEF Init, Done
  <1>3. Untouched(m) /\ \A t \in Tasks : ~Waiting(t, m)
    BY <1>1, <1>2, QueueAssumption DEF Untouched, Waiting
  <1> QED BY <1>1, <1>3 DEF Settling

LEMMA NextSettles ==
    ASSUME IInv, UnlessReloaded, [Next]_vars
    PROVE  UnlessReloaded'
  <1>1. CASE Reload
    BY <1>1 DEF Reload, UnlessReloaded, IInv, TypeOK
  <1>2. CASE ~Reload
    <2>1. UNCHANGED reloads
      BY <1>2 DEF Next, SenderStep, TaskStep, Status, Answered, TryAgain, GiveUp, Check, StoreSent,
             DropPending, FailLocal, FailPending, Serve, ServeOrphan, Cancel, AddPending, RetryPending,
             Begin, ProcessNext, ProcessCheck, ProcessStoreSent, ProcessDropPending, Process, Send,
             Retry, Commit, vars
    <2>2. SUFFICES ASSUME AllSettling PROVE AllSettling'
      BY <2>1 DEF UnlessReloaded
    <2>3. CASE \E m \in Msgs : SenderStep(m)
      BY <2>2, <2>3, SenderSettles
    <2>4. CASE \E m \in Msgs : Serve(m) \/ ServeOrphan(m)
      BY <2>2, <2>4, OthersSettle DEF Serve, ServeOrphan, stored
    <2>5. CASE \E m \in Msgs : Cancel(m)
      BY <2>2, <2>5, CancelSettles
    <2>6. CASE \E t \in Tasks : TaskStep(t)
      <3>1. PICK t \in Tasks : TaskStep(t)
        BY <2>6
      <3> QED
        BY <2>2, <3>1, AddPendingSettles, RetryPendingSettles, BeginSettles, ProcessNextSettles,
           ProcessCheckSettles, ProcessStoreSentSettles, ProcessDropPendingSettles DEF TaskStep
    <2>7. CASE \E t \in Tasks : Process(t) \/ \E m \in Msgs : Send(t, m) \/ Retry(t, m)
      BY <2>2, <2>7, ProcessSettles, SendSettles, RetrySettles
    <2>8. CASE Commit \/ UNCHANGED vars
      BY <2>2, <2>8, OthersSettle DEF Commit, vars, stored
    <2> QED
      BY <1>2, <2>3, <2>4, <2>5, <2>6, <2>7, <2>8 DEF Next
  <1> QED
    BY <1>1, <1>2

LEMMA SettledAtRest == UnlessReloaded => RestIsSettled
  BY DEF UnlessReloaded, AllSettling, Settling, Waiting, Dropping, RestIsSettled, AtRest

\* While the page is not reloaded, a message that nobody works on has its
\* outcome, and one kept for a manual retry is shown as failed, for any number of
\* overlapping sends, retries and processPending calls.
THEOREM RestSettled == Spec => []RestIsSettled
  <1>1. UnlessReloaded /\ IInv /\ [Next]_vars => UnlessReloaded'
    BY NextSettles
  <1> QED
    BY <1>1, InitSettles, SettledAtRest, QueueInvariant, PTL DEF Spec
-----------------------------------------------------------------------------
(* PromiseImplemented.  The refinement mapping reads the abstract state off *)
(* the stores; what has to be known besides IInv is that a message is left  *)
(* alone before its entry is stored, reloads or not.                       *)

Fresh(m) ==
    /\ pending[m] = "none" /\ sender[m].pc = "idle"
    /\ request[m] = "none" /\ orphan[m] = "none"
    /\ \A u \in Tasks : m \notin task[u].left

Careful(m) ==
    /\ local[m] = "none" => Fresh(m) /\ \A u \in Tasks : task[u].msg # m
    /\ \A t \in Tasks : Saving(t, m) =>
         local[m] # "none" /\ Fresh(m) /\ \A u \in Tasks : task[u].msg = m => u = t

AllCareful == \A m \in Msgs : Careful(m)

\* A message whose entry has been stored, or was lost in a reload.
Known(m) == local[m] # "none" /\ \A t \in Tasks : ~Saving(t, m)

LEMMA KnownWhen ==
    ASSUME AllCareful, NEW m \in Msgs,
           \/ pending[m] # "none" \/ sender[m].pc # "idle"
           \/ request[m] # "none" \/ orphan[m] # "none"
           \/ \E u \in Tasks : m \in task[u].left \/ (task[u].msg = m /\ ~Saving(u, m))
    PROVE  Known(m)
  BY DEF AllCareful, Careful, Fresh, Known

\* Nothing about a message changes but what calls hold of it, which may shrink.
Same(m) ==
    /\ local'[m] = local[m] /\ pending'[m] = pending[m] /\ sender'[m].pc = sender[m].pc
    /\ request'[m] = request[m] /\ orphan'[m] = orphan[m]
    /\ \A u \in Tasks : /\ m \in task'[u].left => m \in task[u].left
                        /\ task'[u].msg = m => task[u].msg = m
                        /\ Saving(u, m)' => Saving(u, m)

LEMMA CarefulStep ==
    ASSUME AllCareful, \A m \in Msgs : Known(m)' \/ Same(m)
    PROVE  AllCareful'
  <1> SUFFICES ASSUME NEW m \in Msgs PROVE Careful(m)'
    BY DEF AllCareful
  <1>1. CASE Known(m)'
    BY <1>1 DEF Known, Careful
  <1>2. CASE Same(m)
    <2>1. Careful(m)
      BY DEF AllCareful
    <2>2. Fresh(m) => Fresh(m)'
      BY <1>2 DEF Same, Fresh
    <2> QED
      BY <1>2, <2>1, <2>2 DEF Same, Careful
  <1> QED
    BY <1>1, <1>2

\* A call moves on, possibly with a message that is known, and it does not save.
LEMMA KnownTaskMoves ==
    ASSUME IInv, AllCareful, NEW t \in Tasks, NEW r \in Task, task' = [task EXCEPT ![t] = r],
           task[t].pc # "addPending", r.pc # "addPending",
           UNCHANGED <<request, orphan>>,
           \A n \in Msgs : r.msg = n \/ n \in r.left => Known(n),
           \A n \in Msgs : \/ UNCHANGED <<local[n], pending[n], sender[n]>>
                           \/ Known(n) /\ local'[n] # "none"
    PROVE  AllCareful' /\ \A u \in Tasks, n \in Msgs : Saving(u, n)' <=> Saving(u, n)
  <1>1. task'[t] = r /\ \A u \in Tasks : u # t => task'[u] = task[u]
    BY TaskBecomes DEF IInv
  <1>2. \A u \in Tasks, n \in Msgs : Saving(u, n)' <=> Saving(u, n)
    BY <1>1 DEF Saving
  <1>3. ASSUME NEW n \in Msgs PROVE Known(n)' \/ Same(n)
    <2>1. CASE Known(n)
      BY <1>2, <2>1 DEF Known
    <2>2. CASE ~Known(n)
      BY <1>1, <1>2, <2>2 DEF Same
    <2> QED
      BY <2>1, <2>2
  <1> QED
    BY <1>2, <1>3, CarefulStep

\* An entry goes whose message is stored; it may have gone before.
LEMMA EntrySettles ==
    ASSUME IInv, NEW m \in Msgs, OnServer(m), pending' = [pending EXCEPT ![m] = "none"],
           UNCHANGED <<local, log, owed>>,
           UNCHANGED {n \in Msgs : \E t \in Tasks : Saving(t, n)}
    PROVE  Promise!Settle(m) \/ UNCHANGED Promise!vars
  <1>1. {n \in Msgs : pending'[n] # "none"} = {n \in Msgs : pending[n] # "none"} \ {m}
    BY DEF IInv, TypeOK
  <1>2. CASE pending[m] = "none"
    BY <1>1, <1>2 DEF Promise!vars
  <1>3. CASE pending[m] # "none"
    BY <1>1, <1>3 DEF Promise!Settle, Promise!Stored, OnServer
  <1> QED
    BY <1>2, <1>3

LEMMA SenderPromises ==
    ASSUME IInv, AllCareful, NEW m \in Msgs, SenderStep(m)
    PROVE  /\ AllCareful'
           /\ Promise!Show(m) \/ Promise!Doubt(m) \/ Promise!Settle(m) \/ UNCHANGED Promise!vars
  <1>1. /\ UNCHANGED <<task, log, owed>> /\ sender[m].pc # "idle"
        /\ \A n \in Msgs : n # m => UNCHANGED <<local[n], pending[n], sender[n], request[n], orphan[n]>>
    BY DEF SenderStep, Status, Answered, TryAgain, GiveUp, Check, StoreSent, DropPending, FailLocal,
           FailPending, SenderGoes, Local, stored, IInv, TypeOK
  <1>2. Known(m)
    BY <1>1, KnownWhen
  <1>3. \A u \in Tasks, n \in Msgs : Saving(u, n)' <=> Saving(u, n)
    BY <1>1 DEF Saving
  <1>4. \/ UNCHANGED local /\ UNCHANGED pending
        \/ local' = [local EXCEPT ![m] = "sending"] /\ UNCHANGED pending
        \/ local' = [local EXCEPT ![m] = "failed"] /\ UNCHANGED pending
        \/ local' = [local EXCEPT ![m] = "sent"] /\ UNCHANGED pending /\ OnServer(m)
        \/ pending' = [pending EXCEPT ![m] = "none"] /\ UNCHANGED local /\ OnServer(m)
        \/ pending' = [pending EXCEPT ![m] = IF @ = "none" THEN "none" ELSE "failed"] /\ UNCHANGED local
    BY DEF SenderStep, Status, Answered, TryAgain, GiveUp, Check, StoreSent, DropPending, FailLocal,
           FailPending, Local, stored, IInv, SenderKnows
  <1>5. /\ \A n \in Msgs : local'[n] = "none" <=> local[n] = "none"
        /\ Known(m)'
    BY <1>2, <1>3, <1>4 DEF Known, IInv, TypeOK
  <1>6. AllCareful'
    <2>1. \A n \in Msgs : n # m => Same(n)
      BY <1>1, <1>3 DEF Same
    <2> QED
      BY <1>5, <2>1, CarefulStep
  <1>7. /\ UNCHANGED {n \in Msgs : local[n] # "none"}
        /\ UNCHANGED {n \in Msgs : \E t \in Tasks : Saving(t, n)}
        /\ UNCHANGED <<owed, log>>
    BY <1>1, <1>3, <1>5
  <1>8. CASE \/ UNCHANGED local /\ UNCHANGED pending
             \/ pending' = [pending EXCEPT ![m] = IF @ = "none" THEN "none" ELSE "failed"] /\ UNCHANGED local
    <2>1. UNCHANGED {n \in Msgs : pending[n] # "none"}
      BY <1>8 DEF IInv, TypeOK
    <2>2. UNCHANGED {n \in Msgs : local[n] = "sent"}
      BY <1>8
    <2> QED
      BY <1>6, <1>7, <2>1, <2>2 DEF Promise!vars
  <1>9. CASE (local' = [local EXCEPT ![m] = "sending"] \/ local' = [local EXCEPT ![m] = "failed"]) /\ UNCHANGED pending
    <2>1. {n \in Msgs : local'[n] = "sent"} = {n \in Msgs : local[n] = "sent"} \ {m}
      BY <1>9 DEF IInv, TypeOK
    <2>2. UNCHANGED {n \in Msgs : pending[n] # "none"}
      BY <1>9
    <2> QED
      BY <1>6, <1>7, <2>1, <2>2 DEF Promise!Doubt
  <1>10. CASE local' = [local EXCEPT ![m] = "sent"] /\ UNCHANGED pending /\ OnServer(m)
    <2>1. {n \in Msgs : local'[n] = "sent"} = {n \in Msgs : local[n] = "sent"} \cup {m}
      BY <1>10 DEF IInv, TypeOK
    <2>2. UNCHANGED {n \in Msgs : pending[n] # "none"}
      BY <1>10
    <2> QED
      BY <1>6, <1>7, <1>10, <2>1, <2>2 DEF Promise!Show, Promise!Stored, OnServer
  <1>11. CASE pending' = [pending EXCEPT ![m] = "none"] /\ UNCHANGED local /\ OnServer(m)
    BY <1>6, <1>7, <1>11, EntrySettles
  <1> QED
    BY <1>4, <1>8, <1>9, <1>10, <1>11

LEMMA ServerPromises ==
    ASSUME IInv, AllCareful, NEW m \in Msgs, Serve(m) \/ ServeOrphan(m)
    PROVE  AllCareful' /\ (Promise!Deliver(m) \/ UNCHANGED Promise!vars)
  <1>1. /\ UNCHANGED <<local, pending, sender, task, owed>>
        /\ request[m] # "none" \/ orphan[m] # "none"
        /\ \A n \in Msgs : n # m => UNCHANGED <<request[n], orphan[n]>>
        /\ UNCHANGED log \/ (log' = Append(log, m) /\ ~OnServer(m))
    BY DEF Serve, ServeOrphan, Handle, stored, IInv, TypeOK
  <1>2. Known(m)
    BY <1>1, KnownWhen
  <1>3. AllCareful'
    BY <1>1, <1>2, CarefulStep DEF Known, Same, Saving
  <1>4. /\ UNCHANGED <<{n \in Msgs : local[n] # "none"}, {n \in Msgs : local[n] = "sent"},
                      {n \in Msgs : pending[n] # "none"}, owed>>
        /\ UNCHANGED {n \in Msgs : \E t \in Tasks : Saving(t, n)}
    BY <1>1 DEF Saving
  <1>5. CASE UNCHANGED log
    BY <1>3, <1>4, <1>5 DEF Promise!vars
  <1>6. CASE log' = Append(log, m) /\ ~OnServer(m)
    BY <1>2, <1>3, <1>4, <1>6 DEF Known, Promise!Deliver, Promise!Stored, OnServer
  <1> QED
    BY <1>1, <1>5, <1>6

LEMMA CancelPromises ==
    ASSUME IInv, AllCareful, NEW m \in Msgs, Cancel(m)
    PROVE  AllCareful' /\ Promise!Withdraw(m)
  <1>1. /\ UNCHANGED <<local, sender, request, orphan, task, log>>
        /\ pending' = [pending EXCEPT ![m] = "none"] /\ pending[m] # "none" /\ owed' = owed \ {m}
    BY DEF Cancel
  <1>2. Known(m)
    BY <1>1, KnownWhen
  <1>3. \A u \in Tasks, n \in Msgs : Saving(u, n)' <=> Saving(u, n)
    BY <1>1 DEF Saving
  <1>4. AllCareful'
    BY <1>1, <1>2, <1>3, CarefulStep DEF Known, Same, IInv, TypeOK
  <1>5. {n \in Msgs : pending'[n] # "none"} = {n \in Msgs : pending[n] # "none"} \ {m}
    BY <1>1 DEF IInv, TypeOK
  <1>6. UNCHANGED {n \in Msgs : \E t \in Tasks : Saving(t, n)}
    BY <1>3
  <1> QED
    BY <1>1, <1>4, <1>5, <1>6 DEF Promise!Withdraw

LEMMA SendPromises ==
    ASSUME IInv, AllCareful, NEW t \in Tasks, NEW m \in Msgs, Send(t, m)
    PROVE  AllCareful' /\ Promise!Ask(m)
  <1> DEFINE r == [Done EXCEPT !.pc = "addPending", !.msg = m]
  <1>1. /\ UNCHANGED <<pending, sender, request, orphan, log, owed>>
        /\ task[t].pc = "idle" /\ local[m] = "none" /\ local' = [local EXCEPT ![m] = "sending"]
        /\ task' = [task EXCEPT ![t] = r]
    BY DEF Send, Local
  <1>2. r \in Task /\ r.pc = "addPending" /\ r.msg = m /\ r.left = {}
    BY DoneIsTask DEF Done, Task, TaskSteps
  <1> HIDE DEF r
  <1>3. task'[t] = r /\ \A u \in Tasks : u # t => task'[u] = task[u]
    BY <1>1, <1>2, TaskBecomes DEF IInv
  <1>4. \A u \in Tasks, n \in Msgs : Saving(u, n)' <=> Saving(u, n) \/ (u = t /\ n = m)
    BY <1>1, <1>2, <1>3 DEF Saving
  <1>5. local'[m] = "sending" /\ \A n \in Msgs : n # m => local'[n] = local[n]
    BY <1>1 DEF IInv, TypeOK
  <1>6. ASSUME NEW n \in Msgs PROVE Careful(n)'
    <2>1. Careful(n)
      BY DEF AllCareful
    <2>2. Fresh(n) => Fresh(n)'
      BY <1>1, <1>2, <1>3 DEF Fresh
    <2>3. CASE n = m
      BY <1>1, <1>2, <1>3, <1>4, <1>5, <2>1, <2>2, <2>3 DEF Careful
    <2>4. CASE n # m
      BY <1>1, <1>2, <1>3, <1>4, <1>5, <2>1, <2>2, <2>4 DEF Careful
    <2> QED
      BY <2>3, <2>4
  <1>7. /\ {n \in Msgs : local'[n] # "none"} = {n \in Msgs : local[n] # "none"} \cup {m}
        /\ UNCHANGED {n \in Msgs : local[n] = "sent"}
    BY <1>1, <1>5
  <1>8. {n \in Msgs : \E u \in Tasks : Saving(u, n)'} = {n \in Msgs : \E u \in Tasks : Saving(u, n)} \cup {m}
    BY <1>4
  <1> QED
    BY <1>1, <1>6, <1>7, <1>8 DEF AllCareful, Promise!Ask

LEMMA AddPendingPromises ==
    ASSUME IInv, AllCareful, NEW t \in Tasks, AddPending(t)
    PROVE  AllCareful' /\ \E m \in Msgs : Promise!Accept(m)
  <1>1. PICK m \in Msgs : m = task[t].msg /\ Saving(t, m)
    BY DEF AddPending, Saving, IInv, TaskKnows
  <1>2. /\ UNCHANGED <<local, request, orphan, log>> /\ owed' = owed \cup {m}
        /\ pending' = [pending EXCEPT ![m] = "pending"]
        /\ task' = [task EXCEPT ![t] = Done] /\ SendToServer(m)
    BY <1>1 DEF AddPending
  <1>3. local[m] # "none" /\ \A u \in Tasks : Saving(u, m) => u = t
    BY <1>1 DEF AllCareful, Careful, Saving
  <1>4. Done \in Task /\ Done.pc = "idle" /\ Done.msg \notin Msgs /\ Done.left = {}
    BY DoneIsTask, QueueAssumption DEF Done
  <1>5. task'[t] = Done /\ \A u \in Tasks : u # t => task'[u] = task[u]
    BY <1>2, <1>4, TaskBecomes DEF IInv
  <1> HIDE DEF Done
  <1>6. \A u \in Tasks, n \in Msgs : Saving(u, n)' <=> Saving(u, n) /\ n # m
    BY <1>1, <1>3, <1>4, <1>5 DEF Saving
  <1>7. \A n \in Msgs : n # m => sender'[n] = sender[n] /\ pending'[n] = pending[n]
    BY <1>2 DEF SendToServer, IInv, TypeOK
  <1>8. Known(m)'
    BY <1>2, <1>3, <1>6 DEF Known
  <1>9. \A n \in Msgs : n # m => Same(n)
    BY <1>2, <1>4, <1>5, <1>6, <1>7 DEF Same
  <1>10. {n \in Msgs : pending'[n] # "none"} = {n \in Msgs : pending[n] # "none"} \cup {m}
    BY <1>2 DEF IInv, TypeOK
  <1>11. {n \in Msgs : \E u \in Tasks : Saving(u, n)'} = {n \in Msgs : \E u \in Tasks : Saving(u, n)} \ {m}
    BY <1>6
  <1>12. Promise!Accept(m)
    BY <1>1, <1>2, <1>10, <1>11 DEF Promise!Accept
  <1> QED
    BY <1>8, <1>9, <1>12, CarefulStep

\* A call that saves nothing, stores nothing and takes up known messages.
LEMMA QuietCall ==
    ASSUME IInv, AllCareful, NEW t \in Tasks, NEW r \in Task, task' = [task EXCEPT ![t] = r],
           task[t].pc # "addPending", r.pc # "addPending",
           UNCHANGED <<local, request, orphan, log, owed>>,
           \A n \in Msgs : r.msg = n \/ n \in r.left => Known(n),
           \A n \in Msgs : pending'[n] = "none" <=> pending[n] = "none",
           \A n \in Msgs : UNCHANGED <<pending[n], sender[n]>> \/ Known(n)
    PROVE  AllCareful' /\ UNCHANGED Promise!vars
  <1>1. AllCareful' /\ \A u \in Tasks, n \in Msgs : Saving(u, n)' <=> Saving(u, n)
    BY KnownTaskMoves DEF Known
  <1>2. UNCHANGED {n \in Msgs : \E u \in Tasks : Saving(u, n)}
    BY <1>1
  <1>3. UNCHANGED {n \in Msgs : pending[n] # "none"}
    OBVIOUS
  <1> QED
    BY <1>1, <1>2, <1>3 DEF Promise!vars

LEMMA CallPromises ==
    ASSUME IInv, AllCareful, NEW t \in Tasks,
           \/ Process(t) \/ ProcessNext(t) \/ ProcessCheck(t) \/ RetryPending(t) \/ Begin(t)
           \/ \E m \in Msgs : Retry(t, m)
    PROVE  AllCareful' /\ UNCHANGED Promise!vars
  <1> USE DEF stored
  <1>1. CASE Process(t)
    <2>1. UNCHANGED <<local, pending, sender, request, orphan, log, owed>> /\ task[t].pc = "idle"
      BY <1>1 DEF Process
    <2>2. PICK r \in Task : /\ task' = [task EXCEPT ![t] = r]
                            /\ r.pc = "next" /\ r.msg \notin Msgs /\ \A n \in r.left : pending[n] = "pending"
      BY <1>1, ProcessCall
    <2>3. \A n \in Msgs : r.msg = n \/ n \in r.left => Known(n)
      BY <2>2, KnownWhen
    <2> QED
      BY <2>1, <2>2, <2>3, QuietCall
  <1>2. CASE ProcessNext(t)
    <2>1. /\ UNCHANGED <<local, pending, sender, request, orphan, log, owed>> /\ task[t].pc = "next"
          /\ task[t].left \subseteq Msgs
      BY <1>2 DEF ProcessNext, IInv, TypeOK, Task
    <2>2. \A n \in task[t].left : Known(n)
      BY <2>1, KnownWhen
    <2>3. CASE task' = [task EXCEPT ![t] = Done]
      <3>1. Done \in Task /\ Done.pc = "idle" /\ Done.msg \notin Msgs /\ Done.left = {}
        BY DoneIsTask, QueueAssumption DEF Done
      <3> HIDE DEF Done
      <3> QED
        BY <2>1, <2>3, <3>1, QuietCall
    <2>4. ASSUME NEW m \in task[t].left,
                 task' = [task EXCEPT ![t] = [pc |-> "check", msg |-> m, left |-> task[t].left \ {m}, count |-> 0]]
          PROVE  AllCareful' /\ UNCHANGED Promise!vars
      <3> DEFINE left == task[t].left \ {m}
                 r == [pc |-> "check", msg |-> m, left |-> left, count |-> 0]
      <3>1. m \in Msgs /\ left \in SUBSET Msgs /\ Known(m) /\ \A n \in left : Known(n)
        BY <2>1, <2>2
      <3>2. task' = [task EXCEPT ![t] = r]
        BY <2>4
      <3> HIDE DEF left
      <3>3. r \in Task /\ r.pc = "check" /\ r.msg = m /\ r.left = left
        BY <3>1, QueueAssumption DEF Task, TaskSteps
      <3> HIDE DEF r
      <3> QED
        BY <2>1, <3>1, <3>2, <3>3, QuietCall
    <2> QED
      BY <1>2, <2>3, <2>4 DEF ProcessNext
  <1>3. CASE ProcessCheck(t) \/ RetryPending(t)
    <2>1. PICK m \in Msgs : m = task[t].msg
      BY <1>3 DEF ProcessCheck, RetryPending, IInv, TaskKnows
    <2>2. PICK pc \in TaskSteps : TaskGoes(t, pc) /\ pc # "addPending" /\ task[t].pc # "addPending"
      BY <1>3 DEF ProcessCheck, RetryPending, TaskSteps
    <2>3. PICK r \in Task : /\ task' = [task EXCEPT ![t] = r] /\ r.pc = pc
                            /\ r.msg = task[t].msg /\ r.left = task[t].left
      BY <2>2, KeepsMessage
    <2>4. \A n \in Msgs : r.msg = n \/ n \in r.left => Known(n)
      BY <2>2, <2>3, KnownWhen DEF Saving
    <2>5. /\ UNCHANGED <<local, request, orphan, log, owed>>
          /\ \A n \in Msgs : n # m => UNCHANGED <<pending[n], sender[n]>>
          /\ \A n \in Msgs : pending'[n] = "none" <=> pending[n] = "none"
      BY <1>3, <2>1 DEF ProcessCheck, RetryPending, SendToServer, IInv, TypeOK
    <2>6. Known(m)
      BY <2>1, <2>3, <2>4
    <2> QED
      BY <2>2, <2>3, <2>4, <2>5, <2>6, QuietCall
  <1>4. CASE Begin(t)
    <2>1. PICK m \in Msgs : m = task[t].msg
      BY <1>4 DEF Begin, IInv, TaskKnows
    <2>2. task[t].pc = "begin" /\ task' = [task EXCEPT ![t] = Done]
      BY <1>4 DEF Begin
    <2>3. Known(m)
      BY <2>1, <2>2, KnownWhen DEF Saving
    <2>4. /\ UNCHANGED <<local, pending, request, orphan, log, owed>>
          /\ \A n \in Msgs : n # m => sender'[n] = sender[n]
      BY <1>4, <2>1 DEF Begin, SendToServer, IInv, TypeOK
    <2>5. Done \in Task /\ Done.pc = "idle" /\ Done.msg \notin Msgs /\ Done.left = {}
      BY DoneIsTask, QueueAssumption DEF Done
    <2> HIDE DEF Done
    <2> QED
      BY <2>2, <2>3, <2>4, <2>5, QuietCall
  <1>5. ASSUME NEW m \in Msgs, Retry(t, m)
        PROVE  AllCareful' /\ UNCHANGED Promise!vars
    <2>1. /\ UNCHANGED <<local, pending, sender, request, orphan, log, owed>>
          /\ task[t].pc = "idle" /\ pending[m] = "failed"
      BY <1>5 DEF Retry
    <2>2. PICK r \in Task : /\ task' = [task EXCEPT ![t] = r]
                            /\ r.pc = "retryPending" /\ r.msg = m /\ r.left = {}
      BY <1>5, RetryCall
    <2>3. Known(m)
      BY <2>1, KnownWhen
    <2> QED
      BY <2>1, <2>2, <2>3, QuietCall
  <1> QED
    BY <1>1, <1>2, <1>3, <1>4, <1>5

LEMMA ProcessPromises ==
    ASSUME IInv, AllCareful, NEW t \in Tasks, ProcessStoreSent(t) \/ ProcessDropPending(t)
    PROVE  /\ AllCareful'
           /\ \/ \E m \in Msgs : Promise!Show(m) \/ Promise!Settle(m)
              \/ UNCHANGED Promise!vars
  <1>1. PICK m \in Msgs : m = task[t].msg
    BY DEF ProcessStoreSent, ProcessDropPending, IInv, TaskKnows
  <1>2. OnServer(m)
    BY <1>1 DEF ProcessStoreSent, ProcessDropPending, IInv, TaskKnows
  <1>3. PICK pc \in TaskSteps : TaskGoes(t, pc) /\ pc # "addPending" /\ task[t].pc # "addPending"
    BY DEF ProcessStoreSent, ProcessDropPending, TaskSteps
  <1>4. PICK r \in Task : /\ task' = [task EXCEPT ![t] = r] /\ r.pc = pc
                          /\ r.msg = task[t].msg /\ r.left = task[t].left
    BY <1>3, KeepsMessage
  <1>5. \A n \in Msgs : r.msg = n \/ n \in r.left => Known(n)
    BY <1>3, <1>4, KnownWhen DEF Saving
  <1>6. /\ UNCHANGED <<sender, request, orphan, log, owed>>
        /\ \/ local' = [local EXCEPT ![m] = "sent"] /\ UNCHANGED pending
           \/ pending' = [pending EXCEPT ![m] = "none"] /\ UNCHANGED local
    BY <1>1 DEF ProcessStoreSent, ProcessDropPending, Local
  <1>7. Known(m)
    BY <1>1, <1>4, <1>5
  <1>8. \A n \in Msgs : \/ UNCHANGED <<local[n], pending[n], sender[n]>>
                        \/ Known(n) /\ local'[n] # "none"
    BY <1>6, <1>7 DEF Known, IInv, TypeOK
  <1>9. AllCareful' /\ \A u \in Tasks, n \in Msgs : Saving(u, n)' <=> Saving(u, n)
    BY <1>3, <1>4, <1>5, <1>6, <1>8, KnownTaskMoves
  <1>10. /\ UNCHANGED {n \in Msgs : local[n] # "none"}
         /\ UNCHANGED {n \in Msgs : \E u \in Tasks : Saving(u, n)}
    BY <1>6, <1>7, <1>9 DEF Known, IInv, TypeOK
  <1>11. CASE local' = [local EXCEPT ![m] = "sent"] /\ UNCHANGED pending
    <2>1. {n \in Msgs : local'[n] = "sent"} = {n \in Msgs : local[n] = "sent"} \cup {m}
      BY <1>11 DEF IInv, TypeOK
    <2>2. UNCHANGED {n \in Msgs : pending[n] # "none"}
      BY <1>11
    <2>3. Promise!Show(m)
      BY <1>2, <1>6, <1>10, <2>1, <2>2 DEF Promise!Show, Promise!Stored, OnServer
    <2> QED
      BY <1>9, <2>3
  <1>12. CASE pending' = [pending EXCEPT ![m] = "none"] /\ UNCHANGED local
    BY <1>2, <1>6, <1>9, <1>10, <1>12, EntrySettles
  <1> QED
    BY <1>6, <1>11, <1>12

LEMMA ReloadPromises ==
    ASSUME IInv, AllCareful, Reload
    PROVE  AllCareful' /\ Promise!Forget
  <1>1. Done.pc = "idle" /\ Done.left = {} /\ Done.msg \notin Msgs /\ Resting.pc = "idle"
    BY QueueAssumption DEF Done, Resting
  <1>2. /\ UNCHANGED <<local, pending, log, owed>> /\ \A u \in Tasks : task'[u] = Done
        /\ \A n \in Msgs : sender'[n] = Resting /\ request'[n] = "none"
        /\ \A n \in Msgs : orphan'[n] = IF request[n] \in {"wire", "insert"} THEN request[n] ELSE orphan[n]
    BY DEF Reload, stored
  <1> HIDE DEF Done, Resting
  <1>3. \A u \in Tasks, n \in Msgs : ~Saving(u, n)'
    BY <1>1, <1>2 DEF Saving
  <1>4. ASSUME NEW n \in Msgs PROVE Careful(n)'
    <2>1. Careful(n)
      BY DEF AllCareful
    <2>2. Fresh(n) => Fresh(n)'
      BY <1>1, <1>2 DEF Fresh
    <2>3. \A u \in Tasks : task'[u].msg # n
      BY <1>1, <1>2
    <2> QED
      BY <1>2, <1>3, <2>1, <2>2, <2>3 DEF Careful
  <1>5. {n \in Msgs : \E u \in Tasks : Saving(u, n)'} = {}
    BY <1>3
  <1> QED
    BY <1>2, <1>4, <1>5 DEF AllCareful, Promise!Forget

LEMMA PromiseStep ==
    ASSUME IInv, AllCareful, [Next]_vars
    PROVE  AllCareful' /\ [Promise!Next]_(Promise!vars)
  <1>1. ASSUME NEW m \in Msgs, SenderStep(m) \/ Serve(m) \/ ServeOrphan(m) \/ Cancel(m)
        PROVE  AllCareful' /\ [Promise!Next]_(Promise!vars)
    BY <1>1, SenderPromises, ServerPromises, CancelPromises DEF Promise!Next
  <1>2. ASSUME NEW t \in Tasks, \/ TaskStep(t) \/ Process(t)
                                \/ \E m \in Msgs : Send(t, m) \/ Retry(t, m)
        PROVE  AllCareful' /\ [Promise!Next]_(Promise!vars)
    BY <1>2, AddPendingPromises, SendPromises, CallPromises, ProcessPromises DEF TaskStep, Promise!Next
  <1>3. CASE Commit
    <2>1. UNCHANGED <<local, pending, sender, request, orphan, task, owed>> /\ log' = Append(log, Other)
      BY <1>3 DEF Commit, stored
    <2>2. AllCareful' /\ UNCHANGED {n \in Msgs : \E u \in Tasks : Saving(u, n)}
      BY <2>1, CarefulStep DEF Same, Saving
    <2>3. Promise!Deliver(Other)
      BY <2>1, <2>2 DEF Promise!Deliver
    <2> QED
      BY <2>2, <2>3 DEF Promise!Next
  <1>4. CASE Reload
    BY <1>4, ReloadPromises DEF Promise!Next
  <1>5. CASE UNCHANGED vars
    <2>1. UNCHANGED <<local, pending, sender, request, orphan, task, owed, log>>
      BY <1>5 DEF vars, stored
    <2> QED
      BY <2>1, CarefulStep DEF Same, Saving, Promise!vars
  <1> QED
    BY <1>1, <1>2, <1>3, <1>4, <1>5 DEF Next

LEMMA InitPromises == Init => AllCareful /\ Promise!Init
  <1> SUFFICES ASSUME Init PROVE AllCareful /\ Promise!Init
    OBVIOUS
  <1>1. /\ \A m \in Msgs : local[m] = "none" /\ pending[m] = "none" /\ sender[m].pc = "idle"
                           /\ request[m] = "none" /\ orphan[m] = "none"
        /\ \A t \in Tasks : task[t].pc = "idle" /\ task[t].msg = Other /\ task[t].left = {}
        /\ owed = {} /\ log = <<>>
    BY DEF Init, Done, Resting
  <1>2. \A m \in Msgs : Careful(m)
    <2> SUFFICES ASSUME NEW m \in Msgs PROVE Careful(m)
      OBVIOUS
    <2>1. Fresh(m) /\ \A u \in Tasks : task[u].msg # m /\ ~Saving(u, m)
      BY <1>1, QueueAssumption DEF Fresh, Saving
    <2> QED
      BY <2>1 DEF Careful
  <1>3. /\ {m \in Msgs : local[m] # "none"} = {} /\ {m \in Msgs : pending[m] # "none"} = {}
        /\ {m \in Msgs : local[m] = "sent"} = {} /\ {m \in Msgs : \E t \in Tasks : Saving(t, m)} = {}
    BY <1>1 DEF Saving
  <1> QED
    BY <1>1, <1>2, <1>3 DEF AllCareful, Promise!Init

\* The queue implements what OutgoingMessages promises, for any number of
\* messages, overlapping calls, requests and reloads.
THEOREM QueueRefinement == Spec => PromiseImplemented
  <1>1. IInv /\ AllCareful /\ [Next]_vars => AllCareful' /\ [Promise!Next]_(Promise!vars)
    BY PromiseStep
  <1> QED
    BY <1>1, InitPromises, QueueInvariant, PTL DEF Spec, PromiseImplemented, Promise!Spec
=============================================================================
