--------------------------- MODULE MessageSyncer ---------------------------
(***************************************************************************)
(* Sequence-based backfill of one channel                                  *)
(* (packages/core/src/sync/MessageSyncer.ts) over the persisted store      *)
(* (IndexedDBStorage.ts) and the server's paginated message query          *)
(* (packages/api/src/routes/messages.ts).                                  *)
(*                                                                         *)
(* The server numbers the messages of a channel 1, 2, ...: next_channel_seq *)
(* updates the channel's row inside the sender's transaction, so its lock   *)
(* makes the order of the numbers the order of the commits; created_at is   *)
(* the start of that transaction and may be out of order.  Thread replies   *)
(* take numbers too, but neither they nor purged messages are ever returned *)
(* by the query.                                                           *)
(*                                                                         *)
(* Every await of the client is a point where other calls may run, so each  *)
(* call of syncChannel, handleNewMessage or resetSync is a task that takes  *)
(* one step per storage transaction or server read.                         *)
(***************************************************************************)
EXTENDS Integers, Sequences, FiniteSets

CONSTANTS
    Tasks,        \* slots for calls in flight on the client
    Batch,        \* batchSize (the server allows at most 200)
    MaxMessages,  \* bound: messages ever sent to the channel
    CreatedAt     \* created_at of each message: when its sender's transaction
                  \* began, which need not be the order of the numbers

ASSUME TaskAssumption == Batch \in Nat \ {0} /\ MaxMessages \in Nat
ASSUME CreationAssumption == CreatedAt \in [1 .. MaxMessages -> Nat]

VARIABLES
    log,        \* server: log[s] is the kind of message number s
    store,      \* client: numbers of the persisted messages
    maxSeq,     \* client: persisted high-water mark of the channel
    syncState,  \* client: localMaxSeq of the persisted SyncState
    syncing,    \* the channel is in the `syncing` set
    task,       \* the calls in flight
    truncated   \* history: a query without since_seq left out a message that
                \* is older than the ones it returned and is not stored

vars == <<log, store, maxSeq, syncState, syncing, task, truncated>>
client == <<store, maxSeq, syncState, syncing, truncated>>

Seqs  == 1 .. MaxMessages
Kinds == {"top", "reply", "purged"}
PCs   == {"idle", "getMax", "query", "rows", "fill", "fillStore",
          "store", "setMax", "setState"}

Gap  == [nr : Nat, at : Nat, to : Nat]  \* nr: its place in detectGaps' list
Call == [pc : PCs, kind : {"sync", "new", "reset"},
         cur : Nat,                \* localMaxSeq, then currentSeq
         serverMax : Nat,          \* response.maxSeq
         page : SUBSET Seqs,       \* response.messages, or the new message
         more : BOOLEAN,           \* response.hasMore
         gaps : SUBSET Gap,        \* gaps to fill, `at` being fillGap's cursor
         fillPage : SUBSET Seqs,   \* response.messages of fillGap
         floor : Nat]              \* history: messages sent before the call

NoCall == [pc |-> "idle", kind |-> "sync", cur |-> 0, serverMax |-> 0,
           page |-> {}, more |-> FALSE, gaps |-> {}, fillPage |-> {}, floor |-> 0]

Visible == {s \in DOMAIN log : log[s] = "top"}
IsMax(m, S) == m \in S /\ \A s \in S : s <= m

-----------------------------------------------------------------------------
(* The server.                                                             *)

\* ChatClient drops since_seq = 0, which makes the server take its default
\* branch: the latest rows by created_at, returned in that order.
Precedes(s, u, since) == IF since > 0 THEN s < u ELSE CreatedAt[s] <= CreatedAt[u]

\* The rows the query may return, and the lists it may return them as.
IsPage(P, since, limit) ==
    LET rows == {s \in Visible : s > since} IN
    /\ P \subseteq rows
    /\ Cardinality(P) = IF Cardinality(rows) < limit THEN Cardinality(rows) ELSE limit
    /\ \A p \in P, s \in rows \ P :
         IF since > 0 THEN Precedes(p, s, since) ELSE Precedes(s, p, since)

Lists(P, since) ==
    {q \in [1 .. Cardinality(P) -> P] :
        /\ \A p \in P : \E i \in DOMAIN q : q[i] = p
        /\ \A i, j \in DOMAIN q : i < j => Precedes(q[i], q[j], since)}

\* What a page starting from nothing leaves behind.
LeavesOut(P) == \E s \in Visible, p \in P : s < p /\ s \notin P \cup store

\* A sender's transaction commits.
Commit(kind) ==
    /\ Len(log) < MaxMessages
    /\ log' = Append(log, kind)
    /\ UNCHANGED <<client, task>>

\* A message is purged: it keeps its number and is no longer returned.
Purge(s) ==
    /\ s \in Visible
    /\ log' = [log EXCEPT ![s] = "purged"]
    /\ UNCHANGED <<client, task>>

-----------------------------------------------------------------------------
(* The client.                                                             *)

\* Planted fault.  The syncing set is not consulted.
StartSyncAgain(t) ==
    /\ task[t].pc = "idle"
    /\ syncing' = TRUE
    /\ task' = [task EXCEPT ![t] = [NoCall EXCEPT !.pc = "getMax", !.floor = Len(log)]]
    /\ UNCHANGED <<log, store, maxSeq, syncState, truncated>>

\* syncChannel returns at once when the channel is already syncing.
StartSync(t) ==
    /\ task[t].pc = "idle" /\ ~syncing
    /\ syncing' = TRUE
    /\ task' = [task EXCEPT ![t] = [NoCall EXCEPT !.pc = "getMax", !.floor = Len(log)]]
    /\ UNCHANGED <<log, store, maxSeq, syncState, truncated>>

\* A realtime event brings message s; the outbox may repeat or reorder events.
StartNew(t, s) ==
    /\ task[t].pc = "idle" /\ s \in DOMAIN log
    /\ task' = [task EXCEPT ![t] =
                  [NoCall EXCEPT !.pc = "getMax", !.kind = "new", !.page = {s}]]
    /\ UNCHANGED <<log, client>>

StartReset(t) ==
    /\ task[t].pc = "idle"
    /\ task' = [task EXCEPT ![t] = [NoCall EXCEPT !.pc = "setMax", !.kind = "reset"]]
    /\ UNCHANGED <<log, client>>

\* getMaxSeq.  A new message is stored, makes a gap, or is a duplicate.
ReadMaxSync(t) ==
    /\ task[t].pc = "getMax" /\ task[t].kind = "sync"
    /\ task' = [task EXCEPT ![t] = [@ EXCEPT !.pc = "query", !.cur = maxSeq]]
    /\ UNCHANGED <<log, client>>

ReadMaxNew(t) ==
    /\ task[t].pc = "getMax" /\ task[t].kind = "new"
    /\ \E s \in task[t].page :
         \/ /\ s = maxSeq + 1
            /\ task' = [task EXCEPT ![t] = [@ EXCEPT !.pc = "store", !.cur = maxSeq]]
         \/ /\ s > maxSeq + 1
            /\ task' = [task EXCEPT ![t] =
                          [@ EXCEPT !.pc = "fill", !.cur = maxSeq,
                                    !.gaps = {[nr |-> 1, at |-> maxSeq, to |-> s - 1]}]]
         \/ /\ s <= maxSeq
            /\ task' = [task EXCEPT ![t] = NoCall]
    /\ UNCHANGED <<log, client>>

\* The server reads channel_seq first and the rows in a later statement.
ReadServerMax(t) ==
    /\ task[t].pc = "query"
    /\ task' = [task EXCEPT ![t] = [@ EXCEPT !.pc = "rows", !.serverMax = Len(log)]]
    /\ UNCHANGED <<log, client>>

\* Wherever the list jumps up, from `start` or from the message before.
DetectGaps(start, q) ==
    LET Before(i) == IF i = 1 THEN start ELSE q[i - 1]
    IN  {[nr |-> i, at |-> Before(i), to |-> q[i] - 1] :
            i \in {j \in DOMAIN q : Before(j) + 1 < q[j]}}

\* Planted fault.  The mark moves as soon as the page arrives, before it is stored.
ReadRowsMarks(t) ==
    /\ task[t].pc = "rows"
    /\ \E P \in SUBSET Visible, m \in Visible :
         /\ IsPage(P, task[t].cur, Batch) /\ IsMax(m, P)
         /\ maxSeq' = m
         /\ task' = [task EXCEPT ![t] = [@ EXCEPT !.pc = "store", !.page = P]]
         /\ truncated' = (truncated \/ (task[t].cur = 0 /\ LeavesOut(P)))
    /\ UNCHANGED <<log, store, syncState, syncing>>

\* Planted fault.  The bookkeeping of hasMore replaces the test for an empty page.
ReadRowsRetries(t) ==
    /\ task[t].pc = "rows"
    /\ \E P \in SUBSET Visible :
         /\ IsPage(P, task[t].cur, Batch)
         /\ truncated' = (truncated \/ (task[t].cur = 0 /\ LeavesOut(P)))
         /\ task' = [task EXCEPT ![t] =
               IF P = {} THEN [@ EXCEPT !.pc = IF task[t].cur < task[t].serverMax
                                               THEN "query" ELSE "setState"]
               ELSE [@ EXCEPT !.pc = "store", !.page = P,
                              !.more = (\A s \in P : s < task[t].serverMax)]]
    /\ UNCHANGED <<log, store, maxSeq, syncState, syncing>>

ReadRows(t) ==
    /\ task[t].pc = "rows"
    /\ \E P \in SUBSET Visible : \E q \in Lists(P, task[t].cur) :
         /\ IsPage(P, task[t].cur, Batch)
         /\ truncated' = (truncated \/ (task[t].cur = 0 /\ LeavesOut(P)))
         /\ \/ /\ P = {}
               /\ task' = [task EXCEPT ![t] = [@ EXCEPT !.pc = "setState"]]
            \/ LET gaps == DetectGaps(task[t].cur, q) IN
               /\ P # {}
               /\ task' = [task EXCEPT ![t] =
                             [@ EXCEPT !.pc = IF gaps = {} THEN "store" ELSE "fill",
                                       !.page = P, !.gaps = gaps,
                                       !.more = (q[Cardinality(P)] < task[t].serverMax)]]
    /\ UNCHANGED <<log, store, maxSeq, syncState, syncing>>

\* fillGap works on the first gap left.
CurrentGap(t, g) == g \in task[t].gaps /\ \A h \in task[t].gaps : g.nr <= h.nr

GapsFilled(r, rest) ==
    [r EXCEPT !.gaps = rest, !.fillPage = {}, !.pc = IF rest = {} THEN "store" ELSE "fill"]

FillRows(t) ==
    /\ task[t].pc = "fill"
    /\ \E g \in task[t].gaps, P \in SUBSET Visible :
         /\ CurrentGap(t, g)
         /\ IsPage(P, g.at, IF Batch < g.to - g.at THEN Batch ELSE g.to - g.at)
         /\ truncated' = (truncated \/ (g.at = 0 /\ LeavesOut(P)))
         /\ task' = [task EXCEPT ![t] =
                       IF P = {} THEN GapsFilled(@, @.gaps \ {g})
                       ELSE [@ EXCEPT !.pc = "fillStore", !.fillPage = P]]
    /\ UNCHANGED <<log, store, maxSeq, syncState, syncing>>

\* Planted fault.  fillGap asks for the rest of a gap from where it began.
FillStoreInPlace(t) ==
    /\ task[t].pc = "fillStore"
    /\ store' = store \cup task[t].fillPage
    /\ \E g \in task[t].gaps, m \in task[t].fillPage :
         /\ CurrentGap(t, g) /\ IsMax(m, task[t].fillPage)
         /\ task' = [task EXCEPT ![t] =
                       GapsFilled(@, IF m < g.to THEN @.gaps ELSE @.gaps \ {g})]
    /\ UNCHANGED <<log, maxSeq, syncState, syncing, truncated>>

FillStore(t) ==
    /\ task[t].pc = "fillStore"
    /\ store' = store \cup task[t].fillPage
    /\ \E g \in task[t].gaps, m \in task[t].fillPage :
         /\ CurrentGap(t, g) /\ IsMax(m, task[t].fillPage)
         /\ task' = [task EXCEPT ![t] =
                       GapsFilled(@, IF m < g.to
                                     THEN (@.gaps \ {g}) \cup {[g EXCEPT !.at = m]}
                                     ELSE @.gaps \ {g})]
    /\ UNCHANGED <<log, maxSeq, syncState, syncing, truncated>>

\* storeMessages of the page, or of the new message.
StorePage(t) ==
    /\ task[t].pc = "store"
    /\ store' = store \cup task[t].page
    /\ task' = [task EXCEPT ![t] = [@ EXCEPT !.pc = "setMax"]]
    /\ UNCHANGED <<log, maxSeq, syncState, syncing, truncated>>

\* Planted fault.  One page is taken for all of them.
SetMaxSyncStops(t) ==
    /\ task[t].pc = "setMax" /\ task[t].kind = "sync"
    /\ \E m \in task[t].page :
         /\ IsMax(m, task[t].page)
         /\ maxSeq' = m
         /\ task' = [task EXCEPT ![t] =
                       [@ EXCEPT !.pc = "setState", !.cur = m, !.page = {}]]
    /\ UNCHANGED <<log, store, syncState, syncing, truncated>>

\* setMaxSeq of a page, which is then emitted; the next one is asked for.
SetMaxSync(t) ==
    /\ task[t].pc = "setMax" /\ task[t].kind = "sync"
    /\ \E m \in task[t].page :
         /\ IsMax(m, task[t].page)
         /\ maxSeq' = m
         /\ task' = [task EXCEPT ![t] =
                       [@ EXCEPT !.pc = IF task[t].more THEN "query" ELSE "setState",
                                 !.cur = m, !.page = {}]]
    /\ UNCHANGED <<log, store, syncState, syncing, truncated>>

SetMaxNew(t) ==
    /\ task[t].pc = "setMax" /\ task[t].kind = "new"
    /\ maxSeq' \in task[t].page
    /\ task' = [task EXCEPT ![t] = NoCall]
    /\ UNCHANGED <<log, store, syncState, syncing, truncated>>

SetMaxReset(t) ==
    /\ task[t].pc = "setMax" /\ task[t].kind = "reset"
    /\ maxSeq' = 0
    /\ task' = [task EXCEPT ![t] = [@ EXCEPT !.pc = "setState"]]
    /\ UNCHANGED <<log, store, syncState, syncing, truncated>>

\* setSyncState; syncChannel then leaves the `syncing` set.
SetState(t) ==
    /\ task[t].pc = "setState"
    /\ syncState' = task[t].cur
    /\ syncing' = (syncing /\ task[t].kind # "sync")
    /\ task' = [task EXCEPT ![t] = NoCall]
    /\ UNCHANGED <<log, store, maxSeq, truncated>>

\* Planted fault.  syncChannel without its finally block.
FailStuck(t) ==
    /\ task[t].pc # "idle"
    /\ task' = [task EXCEPT ![t] = NoCall]
    /\ UNCHANGED <<log, client>>

\* A request or a storage transaction fails: the call rejects.
Fail(t) ==
    /\ task[t].pc # "idle"
    /\ syncing' = (syncing /\ task[t].kind # "sync")
    /\ task' = [task EXCEPT ![t] = NoCall]
    /\ UNCHANGED <<log, store, maxSeq, syncState, truncated>>

\* The page is reloaded: memory is lost, IndexedDB is not.
Reload ==
    /\ syncing' = FALSE
    /\ task' = [t \in Tasks |-> NoCall]
    /\ UNCHANGED <<log, store, maxSeq, syncState, truncated>>

Init ==
    /\ log = <<>> /\ store = {} /\ maxSeq = 0 /\ syncState = 0 /\ syncing = FALSE
    /\ task = [t \in Tasks |-> NoCall]
    /\ truncated = FALSE

Step(t) ==
    \/ ReadMaxSync(t) \/ ReadMaxNew(t) \/ ReadServerMax(t) \/ ReadRows(t)
    \/ FillRows(t) \/ FillStore(t) \/ StorePage(t)
    \/ SetMaxSync(t) \/ SetMaxNew(t) \/ SetMaxReset(t) \/ SetState(t)

Next ==
    \/ \E kind \in {"top", "reply"} : Commit(kind)
    \/ \E s \in DOMAIN log : Purge(s)
    \/ \E t \in Tasks :
         \/ StartSync(t) \/ StartReset(t) \/ Fail(t) \/ Step(t)
         \/ \E s \in DOMAIN log : StartNew(t, s)
    \/ Reload

Spec == Init /\ [][Next]_vars
FairSpec == Spec /\ \A t \in Tasks : WF_vars(Step(t))

-----------------------------------------------------------------------------
TypeOK ==
    /\ log \in Seq(Kinds) /\ Len(log) <= MaxMessages
    /\ store \subseteq Seqs
    /\ maxSeq \in 0 .. MaxMessages /\ syncState \in 0 .. MaxMessages
    /\ syncing \in BOOLEAN /\ truncated \in BOOLEAN
    /\ task \in [Tasks -> Call]
    /\ \A t \in Tasks : task[t].cur <= MaxMessages

\* The channel is in the `syncing` set exactly while one call syncs it: a
\* backfill that fails at any of its awaits does not block the next one.
SyncingIsOneCall ==
    /\ syncing <=> \E t \in Tasks : task[t].pc # "idle" /\ task[t].kind = "sync"
    /\ \A t, u \in Tasks :
         /\ task[t].pc # "idle" /\ task[t].kind = "sync"
         /\ task[u].pc # "idle" /\ task[u].kind = "sync"
         => t = u

Persisted(n) == \A s \in Visible : s <= n => s \in store

\* The high-water mark never claims a message that is not stored, whatever
\* calls overlap, fail or are cut off by a reload: setMaxSeq comes last, after
\* the page and its gaps.  The one exception is a query that starts from 0.
HighWaterIsHonest == ~truncated => Persisted(maxSeq) /\ Persisted(syncState)

\* A backfill that ends well has every message sent before it began: hasMore,
\* computed from a channel_seq read before the rows, never stops it early.
SyncIsComplete ==
    \A t \in Tasks :
        (task[t].pc = "setState" /\ task[t].kind = "sync" /\ ~truncated)
            => Persisted(task[t].floor)

\* A backfill ends and frees the channel, although gaps left by replies and
\* purged messages can never be filled and hasMore stays true over them.
SyncTerminates == syncing ~> ~syncing

\* No round of a backfill repeats the one before it: the next page is asked for
\* after a later number, and fillGap goes on to a later gap of the list or, in
\* the same gap, from a later number, whatever order the page came in and
\* whatever is purged, sent or reset in between.
Further(h, g) == h.nr > g.nr \/ (h.nr = g.nr /\ h.at > g.at)

BackfillAdvances ==
    [][\A t \in Tasks : task'[t] # task[t] =>
         /\ task'[t].pc = "query" /\ task[t].pc = "setMax" => task[t].cur < task'[t].cur
         /\ task'[t].pc = "fill" /\ task[t].pc \in {"fill", "fillStore"} =>
              \A g \in task[t].gaps : CurrentGap(t, g) =>
                \A h \in task'[t].gaps : Further(h, g)]_vars

\* What the backfill is for: nothing below the high-water mark is missing.
BackfillIsComplete == Persisted(maxSeq)
============================================================================
