------------------------ MODULE MessageSyncerProofs ------------------------
(***************************************************************************)
(* Proofs about MessageSyncer, for any number of overlapping calls, any    *)
(* batch size and any number of messages.                                  *)
(*                                                                         *)
(* The argument.  A call remembers numbers it read earlier, so the         *)
(* invariant says what each of them still guarantees: everything visible   *)
(* up to `cur`, or up to a gap's cursor, is stored; everything visible up  *)
(* to the end of a page is stored or in the page.  These facts only        *)
(* mention numbers below the length of the log, where nothing becomes      *)
(* visible any more, and the store only grows, so the steps of the other   *)
(* calls and of the server preserve them (lemma OthersKeepPromises).       *)
(***************************************************************************)
EXTENDS MessageSyncer, FiniteSetTheorems, TLAPS

\* The log keeps its messages; only new ones become visible.
Grows(lg, lg2) ==
    /\ Len(lg) <= Len(lg2)
    /\ \A s \in 1 .. Len(lg) : lg2[s] = "top" => lg[s] = "top"

\* Everything visible in lg up to n is in S.
Held(n, lg, S) == \A s \in 1 .. Len(lg) : lg[s] = "top" /\ s <= n => s \in S

Bounded(r, lg) ==
    /\ r.cur <= Len(lg) /\ r.floor <= Len(lg)
    /\ r.page \subseteq 1 .. Len(lg) /\ r.fillPage \subseteq 1 .. Len(lg)
    /\ \A g \in r.gaps : g.at < g.to /\ g.to <= Len(lg)

Shaped(r) ==
    /\ r.kind = "reset" => r.cur = 0 /\ r.page = {} /\ r.pc \in {"idle", "setMax", "setState"}
    /\ r.kind = "new" =>
         /\ r.pc \in {"idle", "getMax", "fill", "fillStore", "store", "setMax"}
         /\ \A p, q \in r.page : p = q
         /\ \A g, h \in r.gaps : g = h
         /\ \A g \in r.gaps, p \in r.page : p = g.to + 1
    /\ r.kind = "sync" /\ r.pc = "rows" => r.floor <= r.serverMax
    /\ r.kind = "sync" /\ r.pc \in {"fill", "fillStore", "store", "setMax"} /\ ~r.more
         => \E p \in r.page : r.floor <= p

\* What a call may rely on.
Promises(r, lg, S) ==
    /\ r.kind = "sync" /\ r.pc \notin {"idle", "getMax"} => Held(r.cur, lg, S)
    /\ \/ r.kind = "sync" /\ r.pc \in {"fill", "fillStore", "store"}
       \/ r.kind = "new" /\ r.pc = "store"
       => \A p \in r.page : Held(p, lg, S \cup r.page)
    /\ r.pc = "setMax" => \A p \in r.page : Held(p, lg, S)
    /\ r.kind = "new" /\ r.pc \in {"fill", "fillStore"} => \A g \in r.gaps : Held(g.at, lg, S)
    /\ r.kind = "new" /\ r.pc = "fillStore" => \A p \in r.fillPage : Held(p, lg, S \cup r.fillPage)
    /\ r.kind = "sync" /\ r.pc = "setState" => Held(r.floor, lg, S)

Call_OK(r, lg, S, tr) == Bounded(r, lg) /\ Shaped(r) /\ (~tr => Promises(r, lg, S))

Marks_OK(m, lg, S, tr) == m <= Len(lg) /\ (~tr => Held(m, lg, S))

SyncInv ==
    /\ TypeOK
    /\ Marks_OK(maxSeq, log, store, truncated)
    /\ Marks_OK(syncState, log, store, truncated)
    /\ \A t \in Tasks : Call_OK(task[t], log, store, truncated)


-----------------------------------------------------------------------------
(* Lemmas about single records and pages.                                  *)

\* What is held stays held when the log and the store grow.
LEMMA HeldStable ==
    ASSUME NEW lg \in Seq(Kinds), NEW lg2 \in Seq(Kinds), Grows(lg, lg2),
           NEW S, NEW S2, S \subseteq S2, NEW n \in Nat, n <= Len(lg), Held(n, lg, S)
    PROVE  Held(n, lg2, S2)
BY DEF Held, Grows

\* A call's promises survive the steps of the others.
LEMMA OthersKeepPromises ==
    ASSUME NEW lg \in Seq(Kinds), NEW lg2 \in Seq(Kinds), Grows(lg, lg2),
           NEW S, NEW S2, S \subseteq S2, NEW tr, NEW tr2, tr => tr2,
           NEW r \in Call, Call_OK(r, lg, S, tr)
    PROVE  Call_OK(r, lg2, S2, tr2)
<1>1. Bounded(r, lg) /\ Shaped(r) /\ Len(lg) \in Nat /\ Len(lg2) \in Nat /\ Len(lg) <= Len(lg2)
  BY DEF Call_OK, Grows
<1>2. /\ r.cur \in Nat /\ r.floor \in Nat /\ r.page \subseteq Nat /\ r.fillPage \subseteq Nat
      /\ \A g \in r.gaps : g.at \in Nat /\ g.to \in Nat
  BY DEF Call, Gap, Seqs
<1>3. Bounded(r, lg2)
  BY <1>1, <1>2 DEF Bounded
<1>4. ASSUME ~tr2 PROVE Promises(r, lg2, S2)
  <2>1. Promises(r, lg, S)
    BY <1>4 DEF Call_OK
  <2>2. r.cur <= Len(lg) /\ r.floor <= Len(lg)
    BY <1>1 DEF Bounded
  <2>3. \A p \in r.page \cup r.fillPage : p \in Nat /\ p <= Len(lg)
    BY <1>1, <1>2 DEF Bounded
  <2>4. \A g \in r.gaps : g.at \in Nat /\ g.at <= Len(lg)
    BY <1>1, <1>2 DEF Bounded
  <2>5. S \cup r.page \subseteq S2 \cup r.page /\ S \cup r.fillPage \subseteq S2 \cup r.fillPage
    OBVIOUS
  <2>6. Held(r.cur, lg, S) => Held(r.cur, lg2, S2)
    BY <1>2, <2>2, HeldStable
  <2>7. Held(r.floor, lg, S) => Held(r.floor, lg2, S2)
    BY <1>2, <2>2, HeldStable
  <2>8. \A p \in r.page : Held(p, lg, S) => Held(p, lg2, S2)
    BY <2>3, HeldStable
  <2>9. \A p \in r.page : Held(p, lg, S \cup r.page) => Held(p, lg2, S2 \cup r.page)
    BY <2>3, <2>5, HeldStable
  <2>10. \A p \in r.fillPage : Held(p, lg, S \cup r.fillPage) => Held(p, lg2, S2 \cup r.fillPage)
    BY <2>3, <2>5, HeldStable
  <2>11. \A g \in r.gaps : Held(g.at, lg, S) => Held(g.at, lg2, S2)
    BY <2>4, HeldStable
  <2> QED
    BY <2>1, <2>6, <2>7, <2>8, <2>9, <2>10, <2>11 DEF Promises
<1> QED
  BY <1>1, <1>3, <1>4 DEF Call_OK

\* One call steps to the record r: enough to look at that call and the marks.
LEMMA OneCallSteps ==
    ASSUME SyncInv, NEW t \in Tasks, NEW r \in Call, task' = [task EXCEPT ![t] = r],
           log' = log, store \subseteq store', store' \subseteq Seqs,
           truncated' \in BOOLEAN, truncated => truncated', syncing' \in BOOLEAN,
           maxSeq' \in Nat, syncState' \in Nat,
           Call_OK(r, log, store', truncated'),
           Marks_OK(maxSeq', log, store', truncated'),
           Marks_OK(syncState', log, store', truncated')
    PROVE  SyncInv'
<1>1. log \in Seq(Kinds) /\ Len(log) \in Nat /\ Len(log) <= MaxMessages /\ task \in [Tasks -> Call]
  BY DEF SyncInv, TypeOK
<1>2. Grows(log, log)
  BY <1>1 DEF Grows
<1>3. ASSUME NEW u \in Tasks, u # t PROVE Call_OK(task'[u], log, store', truncated')
  BY <1>1, <1>2, <1>3, OthersKeepPromises DEF SyncInv
<1>4. \A u \in Tasks : Call_OK(task'[u], log, store', truncated')
  BY <1>1, <1>3
<1>5. task' \in [Tasks -> Call]
  BY <1>1
<1>6. r.cur \in Nat /\ r.cur <= MaxMessages
  BY <1>1, TaskAssumption DEF Call_OK, Bounded, Call
<1>7. maxSeq' \in 0 .. MaxMessages /\ syncState' \in 0 .. MaxMessages
  BY <1>1, TaskAssumption DEF Marks_OK
<1>8. \A u \in Tasks : task'[u].cur <= MaxMessages
  BY <1>1, <1>6 DEF SyncInv, TypeOK
<1>9. TypeOK'
  BY <1>1, <1>5, <1>7, <1>8 DEF TypeOK
<1> QED
  BY <1>4, <1>9 DEF SyncInv

\* A page says everything about the visible numbers up to its end.
LEMMA PageCovers ==
    ASSUME TypeOK, NEW P, NEW since \in Nat, NEW limit \in Nat \ {0}, IsPage(P, since, limit),
           ~(since = 0 /\ LeavesOut(P)), Held(since, log, store)
    PROVE  /\ P \subseteq 1 .. Len(log)
           /\ \A p \in P : Held(p, log, store \cup P)
           /\ P = {} => \A n \in Nat : Held(n, log, store)
<1> DEFINE rows == {s \in Visible : s > since}
<1>1. Visible \subseteq 1 .. Len(log) /\ Len(log) \in Nat
  BY DEF TypeOK, Visible
<1>2. P \subseteq rows /\ \A p \in P, s \in rows \ P : since > 0 => p < s
  BY DEF IsPage, Precedes
<1>3. \A p \in P : Held(p, log, store \cup P)
  <2> SUFFICES ASSUME NEW p \in P, NEW s \in 1 .. Len(log), log[s] = "top", s <= p
               PROVE  s \in store \cup P
    BY DEF Held
  <2>1. s \in Visible /\ s \in Nat /\ p \in Nat
    BY <1>1, <1>2 DEF Visible, TypeOK
  <2>2. CASE s <= since
    BY <2>2 DEF Held
  <2>3. CASE s > since /\ since > 0
    BY <1>2, <2>1, <2>3
  <2>4. CASE since = 0
    BY <2>1, <2>4 DEF LeavesOut
  <2> QED
    BY <2>1, <2>2, <2>3, <2>4
<1>4. ASSUME P = {} PROVE \A n \in Nat : Held(n, log, store)
  <2>1. IsFiniteSet(rows)
    <3>1. IsFiniteSet(1 .. Len(log))
      BY <1>1, FS_Interval
    <3> QED
      BY <1>1, <3>1, FS_Subset
  <2>2. Cardinality(rows) \in Nat
    BY <2>1, FS_CardinalityType
  <2>3. Cardinality(P) = 0
    BY <1>4, FS_EmptySet
  <2>4. Cardinality(P) = IF Cardinality(rows) < limit THEN Cardinality(rows) ELSE limit
    BY DEF IsPage
  <2>5. rows = {}
    <3>1. Cardinality(rows) = 0
      BY <2>2, <2>3, <2>4
    <3> QED
      BY <2>1, <3>1, FS_EmptySet
  <2> QED
    BY <1>1, <2>5 DEF Held, Visible, TypeOK
<1> QED
  BY <1>1, <1>2, <1>3, <1>4

-----------------------------------------------------------------------------
(* One lemma per group of steps.                                           *)

LEMMA ServerSteps ==
    ASSUME SyncInv, \/ \E kind \in {"top", "reply"} : Commit(kind)
                    \/ \E s \in DOMAIN log : Purge(s)
    PROVE  SyncInv'
<1>1. log \in Seq(Kinds) /\ Len(log) \in Nat /\ Len(log) <= MaxMessages /\ task \in [Tasks -> Call]
  BY DEF SyncInv, TypeOK
<1>2. UNCHANGED <<task, store, maxSeq, syncState, syncing, truncated>>
  BY DEF Commit, Purge, client
<1>3. /\ log' \in Seq(Kinds) /\ Len(log') \in Nat /\ Len(log') <= MaxMessages
      /\ Len(log) <= Len(log')
      /\ \A s \in 1 .. Len(log) : log'[s] = "top" => log[s] = "top"
  <2>1. CASE \E kind \in {"top", "reply"} : Commit(kind)
    BY <1>1, <2>1, TaskAssumption DEF Commit, Kinds
  <2>2. CASE \E s \in DOMAIN log : Purge(s)
    BY <1>1, <2>2 DEF Purge, Kinds
  <2> QED
    BY <2>1, <2>2
<1>4. Grows(log, log')
  BY <1>3 DEF Grows
<1>5. \A u \in Tasks : Call_OK(task[u], log', store, truncated)
  BY <1>1, <1>3, <1>4, OthersKeepPromises DEF SyncInv
<1>6. maxSeq \in Nat /\ syncState \in Nat
  BY TaskAssumption DEF SyncInv, TypeOK
<1>7. Marks_OK(maxSeq, log', store, truncated) /\ Marks_OK(syncState, log', store, truncated)
  <2>1. ASSUME NEW n \in Nat, Marks_OK(n, log, store, truncated)
        PROVE  Marks_OK(n, log', store, truncated)
    BY <1>1, <1>3, <1>4, <2>1, HeldStable DEF Marks_OK
  <2> QED
    BY <1>6, <2>1 DEF SyncInv
<1>8. TypeOK'
  BY <1>2, <1>3 DEF SyncInv, TypeOK
<1> QED
  BY <1>2, <1>5, <1>7, <1>8 DEF SyncInv

\* The record of a call that is over promises nothing.
LEMMA NoCallOK ==
    ASSUME NEW lg \in Seq(Kinds), NEW S, NEW tr
    PROVE  NoCall \in Call /\ Call_OK(NoCall, lg, S, tr)
BY DEF NoCall, Call, PCs, Call_OK, Bounded, Shaped, Promises

\* A page has a length.
LEMMA PageIsFinite ==
    ASSUME NEW n \in Nat, NEW P \in SUBSET (1 .. n)
    PROVE  IsFiniteSet(P) /\ Cardinality(P) \in Nat /\ (P # {} => Cardinality(P) # 0)
<1>1. IsFiniteSet(1 .. n)
  BY FS_Interval
<1> QED
  BY <1>1, FS_Subset, FS_CardinalityType, FS_EmptySet

\* The gaps of a list of messages end before its messages.
LEMMA GapsOfAPage ==
    ASSUME NEW last \in Nat, NEW start \in Nat, NEW n \in Nat, NEW q \in [1 .. n -> 1 .. last]
    PROVE  /\ DetectGaps(start, q) \subseteq Gap
           /\ \A g \in DetectGaps(start, q) : g.at < g.to /\ g.to <= last
<1> DEFINE Before(i) == IF i = 1 THEN start ELSE q[i - 1]
           GapOf(i) == [nr |-> i, at |-> Before(i), to |-> q[i] - 1]
<1> SUFFICES ASSUME NEW g \in DetectGaps(start, q) PROVE g \in Gap /\ g.at < g.to /\ g.to <= last
  OBVIOUS
<1> PICK i \in 1 .. n : g = GapOf(i) /\ Before(i) + 1 < q[i]
  BY DEF DetectGaps
<1>1. i \in Nat /\ q[i] \in Nat /\ q[i] <= last
  OBVIOUS
<1>2. Before(i) \in Nat
  OBVIOUS
<1> HIDE DEF Before
<1>3. g.nr = i /\ g.at = Before(i) /\ g.to = q[i] - 1 /\ q[i] - 1 \in Nat
  BY <1>1, <1>2
<1> QED
  BY <1>1, <1>2, <1>3 DEF Gap

\* A call that has only been made promises nothing either.
LEMMA FreshCallOK ==
    ASSUME NEW lg \in Seq(Kinds), NEW S, NEW tr, NEW r \in Call,
           r.gaps = {}, r.fillPage = {}, r.cur = 0, r.floor <= Len(lg),
           r.page \subseteq 1 .. Len(lg), \A p, q \in r.page : p = q,
           \/ r.kind \in {"sync", "new"} /\ r.pc = "getMax"
           \/ r.kind = "reset" /\ r.pc = "setMax" /\ r.page = {}
    PROVE  Call_OK(r, lg, S, tr)
BY DEF Call_OK, Bounded, Shaped, Promises

\* fillGap goes on to the gaps in rest.
LEMMA GapsFilledOK ==
    ASSUME NEW lg \in Seq(Kinds), NEW S, NEW tr, NEW r \in Call, NEW rest,
           Bounded(r, lg), Shaped(r), r.pc \in {"fill", "fillStore"}, r.kind \in {"sync", "new"},
           rest \subseteq Gap, \A g \in rest : g.at < g.to /\ g.to <= Len(lg),
           r.kind = "new" => \A g, h \in rest : g = h,
           \A g \in rest : r.kind = "new" =>
              /\ \A p \in r.page : p = g.to + 1
              /\ ~tr => Held(g.at, lg, S),
           ~tr /\ r.kind = "sync"
              => Held(r.cur, lg, S) /\ \A p \in r.page : Held(p, lg, S \cup r.page),
           ~tr /\ r.kind = "new" /\ rest = {} => \A p \in r.page : Held(p, lg, S \cup r.page)
    PROVE  GapsFilled(r, rest) \in Call /\ Call_OK(GapsFilled(r, rest), lg, S, tr)
<1> DEFINE next == IF rest = {} THEN "store" ELSE "fill"
           r2 == [r EXCEPT !.gaps = rest, !.fillPage = {}, !.pc = next]
<1>1. next \in {"store", "fill"} /\ (next = "store" => rest = {})
  OBVIOUS
<1> HIDE DEF next
<1>2. /\ r2 \in Call /\ r2.pc = next /\ r2.gaps = rest /\ r2.fillPage = {} /\ r2.kind = r.kind
      /\ r2.cur = r.cur /\ r2.page = r.page /\ r2.floor = r.floor /\ r2.more = r.more
  BY <1>1 DEF Call, PCs
<1>3. GapsFilled(r, rest) = r2
  BY DEF GapsFilled, next
<1> HIDE DEF r2
<1>4. Bounded(r2, lg)
  BY <1>2 DEF Bounded
<1>5. Shaped(r2)
  BY <1>1, <1>2 DEF Shaped
<1>6. ~tr => Promises(r2, lg, S)
  BY <1>1, <1>2 DEF Promises
<1> QED
  BY <1>2, <1>3, <1>4, <1>5, <1>6 DEF Call_OK

LEMMA ReloadStep == SyncInv /\ Reload => SyncInv'
<1> SUFFICES ASSUME SyncInv, Reload PROVE SyncInv'
  OBVIOUS
<1>1. log \in Seq(Kinds)
  BY DEF SyncInv, TypeOK
<1>2. \A u \in Tasks : task'[u] = NoCall
  BY DEF Reload
<1>3. \A u \in Tasks : Call_OK(task'[u], log, store, truncated)
  BY <1>1, <1>2, NoCallOK
<1>4. task' \in [Tasks -> Call] /\ \A u \in Tasks : task'[u].cur <= MaxMessages
  <2>1. NoCall \in Call
    BY <1>1, NoCallOK
  <2>2. NoCall.cur <= MaxMessages
    BY TaskAssumption DEF NoCall
  <2> QED BY <1>2, <2>1, <2>2 DEF Reload
<1>5. TypeOK'
  BY <1>4 DEF Reload, SyncInv, TypeOK
<1> QED
  BY <1>3, <1>5 DEF SyncInv, Reload

LEMMA CallSteps ==
    ASSUME SyncInv, NEW t \in Tasks,
           \/ StartSync(t) \/ StartReset(t) \/ Fail(t) \/ Step(t)
           \/ \E s \in DOMAIN log : StartNew(t, s)
    PROVE  SyncInv'
<1>1. /\ log \in Seq(Kinds) /\ Len(log) \in Nat /\ Len(log) <= MaxMessages
      /\ task \in [Tasks -> Call] /\ task[t] \in Call
      /\ maxSeq \in Nat /\ syncState \in Nat /\ syncing \in BOOLEAN /\ truncated \in BOOLEAN
      /\ store \subseteq Seqs
  BY TaskAssumption DEF SyncInv, TypeOK
<1>2. /\ Call_OK(task[t], log, store, truncated)
      /\ Bounded(task[t], log) /\ Shaped(task[t])
      /\ ~truncated => Promises(task[t], log, store)
  BY DEF SyncInv, Call_OK
<1>3. Marks_OK(maxSeq, log, store, truncated) /\ Marks_OK(syncState, log, store, truncated)
  BY DEF SyncInv
<1>4. ASSUME NEW r \in Call, task' = [task EXCEPT ![t] = r], UNCHANGED <<log, store, maxSeq, syncState, truncated>>,
             syncing' \in BOOLEAN, Call_OK(r, log, store, truncated)
      PROVE  SyncInv'
  BY <1>1, <1>3, <1>4, OneCallSteps
<1>5. CASE StartSync(t)
  <2> DEFINE r == [NoCall EXCEPT !.pc = "getMax", !.floor = Len(log)]
  <2>1. r \in Call /\ Call_OK(r, log, store, truncated)
    <3>1. r \in Call /\ r.kind = "sync" /\ r.pc = "getMax" /\ r.gaps = {} /\ r.fillPage = {} /\ r.cur = 0
          /\ r.floor <= Len(log) /\ r.page = {}
      <4>1. r \in Call
        BY <1>1, NoCallOK DEF Call, PCs
      <4> QED
        BY <1>1, <4>1 DEF NoCall
    <3> QED
      BY <1>1, <3>1, FreshCallOK
  <2> QED
    BY <1>4, <1>5, <2>1 DEF StartSync
<1>6. CASE StartReset(t)
  <2> DEFINE r == [NoCall EXCEPT !.pc = "setMax", !.kind = "reset"]
  <2>1. r \in Call /\ Call_OK(r, log, store, truncated)
    <3>1. r \in Call /\ r.kind = "reset" /\ r.pc = "setMax" /\ r.gaps = {} /\ r.fillPage = {} /\ r.cur = 0
          /\ r.floor <= Len(log) /\ r.page = {}
      <4>1. r \in Call
        BY <1>1, NoCallOK DEF Call, PCs
      <4> QED
        BY <1>1, <4>1 DEF NoCall
    <3> QED
      BY <1>1, <3>1, FreshCallOK
  <2> QED
    BY <1>1, <1>4, <1>6, <2>1 DEF StartReset, client
<1>7. CASE Fail(t)
  BY <1>1, <1>4, <1>7, NoCallOK DEF Fail
<1>8. ASSUME NEW s \in DOMAIN log, StartNew(t, s) PROVE SyncInv'
  <2> DEFINE r == [NoCall EXCEPT !.pc = "getMax", !.kind = "new", !.page = {s}]
  <2>1. r \in Call /\ Call_OK(r, log, store, truncated)
    <3>1. s \in 1 .. Len(log) /\ {s} \subseteq Seqs
      BY <1>1, TaskAssumption DEF Seqs
    <3>2. r \in Call /\ r.kind = "new" /\ r.pc = "getMax" /\ r.gaps = {} /\ r.fillPage = {} /\ r.cur = 0
          /\ r.floor <= Len(log) /\ r.page = {s}
      <4>1. r \in Call
        BY <1>1, <3>1, NoCallOK DEF Call, PCs
      <4> QED
        BY <1>1, <4>1 DEF NoCall
    <3> QED
      BY <1>1, <3>1, <3>2, FreshCallOK
  <2> QED
    BY <1>1, <1>4, <1>8, <2>1 DEF StartNew, client
<1>9. CASE ReadMaxSync(t)
  <2> DEFINE r == [task[t] EXCEPT !.pc = "query", !.cur = maxSeq]
  <2>1. r \in Call
    BY <1>1 DEF Call, PCs
  <2>2. r.kind = "sync" /\ r.pc = "query" /\ r.cur = maxSeq /\ Bounded(r, log) /\ Shaped(r)
    BY <1>1, <1>2, <1>3, <1>9 DEF ReadMaxSync, Call, Bounded, Shaped, Marks_OK
  <2>3. Call_OK(r, log, store, truncated)
    BY <1>3, <2>2 DEF Call_OK, Promises, Marks_OK
  <2> QED
    BY <1>1, <1>4, <1>9, <2>1, <2>3 DEF ReadMaxSync, client
<1>10. CASE ReadMaxNew(t)
  <2> PICK s \in task[t].page :
         \/ /\ s = maxSeq + 1
            /\ task' = [task EXCEPT ![t] = [@ EXCEPT !.pc = "store", !.cur = maxSeq]]
         \/ /\ s > maxSeq + 1
            /\ task' = [task EXCEPT ![t] =
                          [@ EXCEPT !.pc = "fill", !.cur = maxSeq,
                                    !.gaps = {[nr |-> 1, at |-> maxSeq, to |-> s - 1]}]]
         \/ /\ s <= maxSeq
            /\ task' = [task EXCEPT ![t] = NoCall]
    BY <1>10 DEF ReadMaxNew
  <2>1. /\ task[t].kind = "new" /\ s \in Nat /\ s <= Len(log) /\ \A p \in task[t].page : p = s
        /\ maxSeq <= Len(log) /\ (~truncated => Held(maxSeq, log, store))
    BY <1>1, <1>2, <1>3, <1>10 DEF ReadMaxNew, Call, Seqs, Bounded, Shaped, Marks_OK
  <2>2. CASE s = maxSeq + 1
    <3> DEFINE r == [task[t] EXCEPT !.pc = "store", !.cur = maxSeq]
    <3>1. r \in Call
      BY <1>1 DEF Call, PCs
    <3>2. r.kind = "new" /\ r.pc = "store" /\ r.page = task[t].page /\ Bounded(r, log) /\ Shaped(r)
      BY <1>1, <1>2, <2>1 DEF Call, Bounded, Shaped
    <3>3. ~truncated => \A p \in r.page : Held(p, log, store \cup r.page)
      BY <1>1, <2>1, <2>2, <3>2 DEF Held
    <3>4. Call_OK(r, log, store, truncated)
      BY <3>2, <3>3 DEF Call_OK, Promises
    <3> QED
      BY <1>1, <1>4, <1>10, <2>1, <2>2, <3>1, <3>4 DEF ReadMaxNew, client
  <2>3. CASE s > maxSeq + 1
    <3> DEFINE g == [nr |-> 1, at |-> maxSeq, to |-> s - 1]
               r == [task[t] EXCEPT !.pc = "fill", !.cur = maxSeq, !.gaps = {g}]
    <3>1. g \in Gap /\ g.at = maxSeq /\ g.to = s - 1
      BY <1>1, <2>1, <2>3 DEF Gap
    <3>2. r \in Call
      BY <1>1, <3>1 DEF Call, PCs
    <3>3. r.kind = "new" /\ r.pc = "fill" /\ r.page = task[t].page /\ r.gaps = {g} /\ r.cur = maxSeq
          /\ r.fillPage = task[t].fillPage /\ r.floor = task[t].floor
      BY <1>1, <2>1 DEF Call
    <3>4. Bounded(r, log)
      BY <1>1, <1>2, <2>1, <2>3, <3>1, <3>3 DEF Bounded
    <3>5. Shaped(r)
      BY <1>1, <2>1, <3>1, <3>3 DEF Shaped
    <3>6. Call_OK(r, log, store, truncated)
      BY <2>1, <3>1, <3>3, <3>4, <3>5 DEF Call_OK, Promises
    <3> QED
      BY <1>1, <1>4, <1>10, <2>1, <2>3, <3>2, <3>6 DEF ReadMaxNew, client
  <2>4. CASE s <= maxSeq
    BY <1>1, <1>4, <1>10, <2>1, <2>4, NoCallOK DEF ReadMaxNew, client
  <2> QED
    BY <1>1, <2>1, <2>2, <2>3, <2>4
<1>11. CASE ReadServerMax(t)
  <2> DEFINE r == [task[t] EXCEPT !.pc = "rows", !.serverMax = Len(log)]
  <2>1. r \in Call
    BY <1>1 DEF Call, PCs
  <2>2. r.kind = task[t].kind /\ r.kind = "sync" /\ r.pc = "rows" /\ r.cur = task[t].cur /\ Bounded(r, log) /\ Shaped(r)
    BY <1>1, <1>2, <1>11 DEF ReadServerMax, Call, Bounded, Shaped
  <2>3. Call_OK(r, log, store, truncated)
    BY <1>2, <1>11, <2>2 DEF ReadServerMax, Call_OK, Promises
  <2> QED
    BY <1>1, <1>4, <1>11, <2>1, <2>3 DEF ReadServerMax, client
<1>12. CASE ReadRows(t)
  <2> DEFINE c == task[t].cur
  <2> DEFINE Reads(P, q) ==
         /\ IsPage(P, c, Batch)
         /\ truncated' = (truncated \/ (c = 0 /\ LeavesOut(P)))
         /\ \/ /\ P = {}
               /\ task' = [task EXCEPT ![t] = [@ EXCEPT !.pc = "setState"]]
            \/ LET gaps == DetectGaps(c, q) IN
               /\ P # {}
               /\ task' = [task EXCEPT ![t] =
                             [@ EXCEPT !.pc = IF gaps = {} THEN "store" ELSE "fill",
                                       !.page = P, !.gaps = gaps,
                                       !.more = (q[Cardinality(P)] < task[t].serverMax)]]
  <2> PICK P \in SUBSET Visible : \E q \in Lists(P, c) : Reads(P, q)
    BY <1>12 DEF ReadRows
  <2> PICK q \in Lists(P, c) : Reads(P, q)
    OBVIOUS
  <2>1. c \in Nat /\ c <= Len(log) /\ Batch \in Nat \ {0} /\ task[t].kind = "sync" /\ TypeOK
        /\ task[t].floor <= task[t].serverMax /\ task[t].floor \in Nat /\ task[t].serverMax \in Nat
        /\ (~truncated => Held(c, log, store))
    BY <1>1, <1>2, <1>12, TaskAssumption DEF ReadRows, Call, Bounded, Shaped, Promises, SyncInv
  <2>2. P \subseteq 1 .. Len(log) /\ P \subseteq Seqs /\ (\A p \in P : p > c)
    BY <1>1, <2>1, TaskAssumption, SMTT(30) DEF IsPage, Visible, Seqs
  <2>3. ~truncated' => /\ ~truncated /\ Held(c, log, store)
                       /\ \A p \in P : Held(p, log, store \cup P)
                       /\ P = {} => \A n \in Nat : Held(n, log, store)
    BY <2>1, PageCovers
  <2>4. truncated' \in BOOLEAN /\ (truncated => truncated')
    BY <1>1
  <2>5. Marks_OK(maxSeq, log, store, truncated') /\ Marks_OK(syncState, log, store, truncated')
    BY <1>3, <2>4 DEF Marks_OK
  <2>6. UNCHANGED <<log, store, maxSeq, syncState, syncing>>
    BY <1>12 DEF ReadRows
  <2>7. CASE P = {}
    <3> DEFINE r == [task[t] EXCEPT !.pc = "setState"]
    <3>1. r \in Call /\ r.kind = "sync" /\ r.pc = "setState" /\ r.cur = c /\ r.floor = task[t].floor
      BY <1>1, <2>1 DEF Call, PCs
    <3>2. Bounded(r, log) /\ Shaped(r)
      BY <1>1, <1>2, <3>1 DEF Call, Bounded, Shaped
    <3>3. Call_OK(r, log, store, truncated')
      BY <2>1, <2>3, <2>7, <3>1, <3>2 DEF Call_OK, Promises
    <3>4. task' = [task EXCEPT ![t] = r]
      BY <2>7
    <3> QED
      BY <1>1, <2>4, <2>5, <2>6, <3>1, <3>3, <3>4, OneCallSteps
  <2>8. CASE P # {}
    <3> DEFINE n == Cardinality(P)
               gaps == DetectGaps(c, q)
               next == IF gaps = {} THEN "store" ELSE "fill"
               more == q[n] < task[t].serverMax
               r == [task[t] EXCEPT !.pc = next, !.page = P, !.gaps = gaps, !.more = more]
    <3>0. n \in Nat \ {0} /\ q \in [1 .. n -> P]
      <4>1. n \in Nat /\ n # 0
        BY <1>1, <2>2, <2>8, PageIsFinite
      <4>2. q \in [1 .. n -> P]
        BY DEF Lists
      <4> QED
        BY <4>1, <4>2
    <3> HIDE DEF n
    <3>1. /\ gaps \subseteq Gap
          /\ \A g \in gaps : g.at < g.to /\ g.to <= Len(log)
      <4>1. q \in [1 .. n -> 1 .. Len(log)] /\ n \in Nat
        BY <2>2, <3>0
      <4> HIDE DEF c
      <4>2. /\ DetectGaps(c, q) \subseteq Gap
            /\ \A g \in DetectGaps(c, q) : g.at < g.to /\ g.to <= Len(log)
        BY <1>1, <2>1, <4>1, GapsOfAPage
      <4> QED
        BY <4>2
    <3> HIDE DEF gaps
    <3>2. next \in {"store", "fill"} /\ more \in BOOLEAN
      OBVIOUS
    <3> HIDE DEF next, more
    <3>3. r \in Call /\ r.kind = "sync" /\ r.pc \in {"store", "fill"} /\ r.cur = c /\ r.page = P /\ r.gaps = gaps
          /\ r.more = more /\ r.floor = task[t].floor /\ r.fillPage = task[t].fillPage
          /\ r.serverMax = task[t].serverMax
      BY <1>1, <2>1, <2>2, <3>1, <3>2 DEF Call, PCs
    <3> HIDE DEF r
    <3>4. Bounded(r, log)
      BY <1>2, <2>2, <3>1, <3>3 DEF Bounded
    <3>5. ~more => \E p \in P : task[t].floor <= p
      <4>1. q[n] \in P /\ q[n] \in Nat
        BY <2>2, <3>0
      <4> QED
        BY <2>1, <4>1 DEF more
    <3>6. Shaped(r)
      BY <3>3, <3>5 DEF Shaped
    <3>7. Call_OK(r, log, store, truncated')
      BY <2>3, <3>3, <3>4, <3>6 DEF Call_OK, Promises
    <3>8. task' = [task EXCEPT ![t] = r]
      BY <2>8 DEF r, next, more, gaps, n
    <3> QED
      BY <1>1, <2>4, <2>5, <2>6, <3>3, <3>7, <3>8, OneCallSteps
  <2> QED
    BY <2>7, <2>8
<1>13. CASE FillRows(t)
  <2> PICK g \in task[t].gaps, P \in SUBSET Visible :
         /\ CurrentGap(t, g)
         /\ IsPage(P, g.at, IF Batch < g.to - g.at THEN Batch ELSE g.to - g.at)
         /\ truncated' = (truncated \/ (g.at = 0 /\ LeavesOut(P)))
         /\ task' = [task EXCEPT ![t] =
                       IF P = {} THEN GapsFilled(@, @.gaps \ {g})
                       ELSE [@ EXCEPT !.pc = "fillStore", !.fillPage = P]]
    BY <1>13 DEF FillRows
  <2> DEFINE limit == IF Batch < g.to - g.at THEN Batch ELSE g.to - g.at
  <2>1. /\ g.at \in Nat /\ g.to \in Nat /\ g.at < g.to /\ g.to <= Len(log) /\ limit \in Nat \ {0}
        /\ task[t].pc = "fill" /\ task[t].kind \in {"sync", "new"} /\ TypeOK
    BY <1>1, <1>2, <1>13, TaskAssumption, SMTT(30) DEF FillRows, Call, Gap, Bounded, Shaped, SyncInv
  <2>2. P \subseteq 1 .. Len(log) /\ P \subseteq Seqs
    BY <1>1, <2>1, TaskAssumption DEF Visible, Seqs
  <2>3. ~truncated' /\ Held(g.at, log, store)
          => /\ \A p \in P : Held(p, log, store \cup P)
             /\ P = {} => \A n \in Nat : Held(n, log, store)
    <3> HIDE DEF limit
    <3>1. IsPage(P, g.at, limit)
      BY DEF limit
    <3> QED
      BY <2>1, <3>1, PageCovers
  <2>4. truncated' \in BOOLEAN /\ (truncated => truncated')
    BY <1>1
  <2>5. Marks_OK(maxSeq, log, store, truncated') /\ Marks_OK(syncState, log, store, truncated')
    BY <1>3, <2>4 DEF Marks_OK
  <2>6. UNCHANGED <<log, store, maxSeq, syncState, syncing>>
    BY <1>13 DEF FillRows
  <2>7. CASE P = {}
    <3> DEFINE rest == task[t].gaps \ {g}
               r == GapsFilled(task[t], rest)
    <3>1. task' = [task EXCEPT ![t] = r]
      BY <2>7
    <3>2. /\ task[t].kind = "new" => rest = {} /\ \A p \in task[t].page : p = g.to + 1
          /\ ~truncated' => /\ task[t].kind = "new" => Held(g.at, log, store)
                            /\ task[t].kind = "sync" => Held(task[t].cur, log, store)
                            /\ task[t].kind = "sync" => \A p \in task[t].page : Held(p, log, store \cup task[t].page)
      BY <1>2, <2>1, <2>4 DEF Shaped, Promises
    <3>3. ~truncated' /\ task[t].kind = "new" => \A p \in task[t].page : Held(p, log, store \cup task[t].page)
      <4> SUFFICES ASSUME ~truncated', task[t].kind = "new", NEW p \in task[t].page
                   PROVE  Held(p, log, store \cup task[t].page)
        OBVIOUS
      <4>1. p \in Nat
        BY <1>1 DEF Call, Seqs
      <4> QED
        BY <2>3, <2>7, <3>2, <4>1 DEF Held
    <3>4. rest \subseteq task[t].gaps
      OBVIOUS
    <3>5. r \in Call /\ Call_OK(r, log, store, truncated')
      <4>1. rest \subseteq Gap /\ \A k \in rest : k.at < k.to /\ k.to <= Len(log)
        BY <1>1, <1>2, <3>4 DEF Call, Bounded
      <4>2. task[t].kind = "new" => \A k \in rest : FALSE
        BY <3>2
      <4> HIDE DEF rest
      <4> QED
        BY <1>1, <1>2, <2>1, <3>2, <3>3, <4>1, <4>2, GapsFilledOK
    <3> QED
      BY <1>1, <2>4, <2>5, <2>6, <3>1, <3>5, OneCallSteps
  <2>8. CASE P # {}
    <3> DEFINE r == [task[t] EXCEPT !.pc = "fillStore", !.fillPage = P]
    <3>1. /\ r \in Call /\ r.pc = "fillStore" /\ r.fillPage = P /\ r.kind = task[t].kind
          /\ r.cur = task[t].cur /\ r.page = task[t].page /\ r.gaps = task[t].gaps
          /\ r.more = task[t].more /\ r.floor = task[t].floor
      BY <1>1, <2>2 DEF Call, PCs
    <3>2. task' = [task EXCEPT ![t] = r]
      BY <2>8
    <3> HIDE DEF r
    <3>3. Bounded(r, log)
      BY <1>2, <2>2, <3>1 DEF Bounded
    <3>4. Shaped(r)
      BY <1>2, <2>1, <3>1 DEF Shaped
    <3>5. ~truncated' /\ r.kind = "new" => \A p \in P : Held(p, log, store \cup P)
      BY <1>2, <2>1, <2>3, <2>4, <3>1 DEF Promises
    <3>6. ~truncated' => Promises(r, log, store)
      BY <1>2, <2>1, <2>4, <3>1, <3>5 DEF Promises
    <3>7. Call_OK(r, log, store, truncated')
      BY <3>3, <3>4, <3>6 DEF Call_OK
    <3> QED
      BY <1>1, <2>4, <2>5, <2>6, <3>1, <3>2, <3>7, OneCallSteps
  <2> QED
    BY <2>7, <2>8
<1>14. CASE FillStore(t)
  <2> PICK g \in task[t].gaps, m \in task[t].fillPage :
         /\ CurrentGap(t, g) /\ IsMax(m, task[t].fillPage)
         /\ task' = [task EXCEPT ![t] =
                       GapsFilled(@, IF m < g.to
                                     THEN (@.gaps \ {g}) \cup {[g EXCEPT !.at = m]}
                                     ELSE @.gaps \ {g})]
    BY <1>14 DEF FillStore
  <2> DEFINE S == store \cup task[t].fillPage
             h == [g EXCEPT !.at = m]
             rest == IF m < g.to THEN (task[t].gaps \ {g}) \cup {h} ELSE task[t].gaps \ {g}
             r == GapsFilled(task[t], rest)
  <2>1. /\ g.at \in Nat /\ g.to \in Nat /\ g.at < g.to /\ g.to <= Len(log)
        /\ m \in Nat /\ m <= Len(log) /\ h \in Gap /\ h.at = m /\ h.to = g.to
        /\ task[t].pc = "fillStore" /\ task[t].kind \in {"sync", "new"}
        /\ store \subseteq S /\ S \subseteq Seqs /\ truncated' = truncated
    <3>1. g \in Gap /\ m \in Nat /\ task[t].fillPage \subseteq Seqs
      BY <1>1 DEF Call, Seqs
    <3>2. g.at \in Nat /\ g.to \in Nat /\ h \in Gap /\ h.at = m /\ h.to = g.to
      BY <3>1 DEF Gap
    <3>3. g.at < g.to /\ g.to <= Len(log) /\ m <= Len(log)
      BY <1>1, <1>2 DEF Bounded
    <3>4. task[t].pc = "fillStore" /\ task[t].kind \in {"sync", "new"} /\ truncated' = truncated
      BY <1>1, <1>2, <1>14 DEF FillStore, Call, Shaped
    <3> QED
      BY <1>1, <3>1, <3>2, <3>3, <3>4
  <2>2. Grows(log, log)
    BY <1>1 DEF Grows
  <2>3. Marks_OK(maxSeq, log, S, truncated) /\ Marks_OK(syncState, log, S, truncated)
    BY <1>1, <1>3, <2>1, <2>2, HeldStable DEF Marks_OK
  <2>4. /\ rest \subseteq Gap /\ \A k \in rest : k.at < k.to /\ k.to <= Len(log)
        /\ task[t].kind = "new" => \A k \in rest : k = h
        /\ task[t].kind = "new" => rest = {} <=> ~(m < g.to)
    BY <1>1, <1>2, <2>1 DEF Call, Bounded, Shaped
  <2>5. ~truncated /\ task[t].kind = "new" => Held(m, log, S)
    BY <1>2, <2>1 DEF Promises
  <2>6. ~truncated /\ task[t].kind = "sync"
          => Held(task[t].cur, log, S) /\ \A p \in task[t].page : Held(p, log, S \cup task[t].page)
    BY <1>2, <2>1 DEF Promises, Held
  <2>7. task[t].kind = "new" => \A p \in task[t].page : p = g.to + 1
    BY <1>2 DEF Shaped
  <2>8. ~truncated /\ task[t].kind = "new" /\ ~(m < g.to)
          => \A p \in task[t].page : Held(p, log, S \cup task[t].page)
    <3> SUFFICES ASSUME ~truncated, task[t].kind = "new", ~(m < g.to), NEW p \in task[t].page
                 PROVE  Held(p, log, S \cup task[t].page)
      OBVIOUS
    <3>1. p = g.to + 1 /\ Held(m, log, S)
      BY <2>5, <2>7
    <3>2. ASSUME NEW s \in 1 .. Len(log), log[s] = "top", s <= p PROVE s \in S \cup task[t].page
      <4>1. s \in Nat /\ (s <= m \/ s = p)
        BY <1>1, <2>1, <3>1, <3>2, SMTT(30)
      <4> QED
        BY <3>1, <3>2, <4>1 DEF Held
    <3> QED
      BY <3>2 DEF Held
  <2> HIDE DEF rest, S
  <2>9. r \in Call /\ Call_OK(r, log, S, truncated)
    <3>1. \A k \in rest : task[t].kind = "new" =>
            /\ \A p \in task[t].page : p = k.to + 1
            /\ ~truncated => Held(k.at, log, S)
      BY <2>1, <2>4, <2>5, <2>7
    <3>2. task[t].kind = "new" => \A k, l \in rest : k = l
      BY <2>4
    <3>3. ~truncated /\ task[t].kind = "new" /\ rest = {}
            => \A p \in task[t].page : Held(p, log, S \cup task[t].page)
      BY <2>4, <2>8
    <3> QED
      BY <1>1, <1>2, <2>1, <2>4, <2>6, <3>1, <3>2, <3>3, GapsFilledOK
  <2>10. task' = [task EXCEPT ![t] = r]
    BY DEF rest
  <2>11. store' = S /\ UNCHANGED <<log, maxSeq, syncState, syncing, truncated>>
    BY <1>14 DEF FillStore, S
  <2>12. store \subseteq S /\ S \subseteq Seqs
    BY <2>1
  <2> HIDE DEF r
  <2> QED
    BY <1>1, <2>3, <2>9, <2>10, <2>11, <2>12, OneCallSteps
<1>15. CASE StorePage(t)
  <2> DEFINE r == [task[t] EXCEPT !.pc = "setMax"]
             S == store \cup task[t].page
  <2>1. r \in Call /\ r.page = task[t].page /\ r.pc = "setMax" /\ r.kind = task[t].kind
        /\ r.cur = task[t].cur /\ S \subseteq Seqs /\ store \subseteq S
    BY <1>1 DEF Call, PCs
  <2>2. Bounded(r, log) /\ Shaped(r)
    BY <1>1, <1>2, <1>15 DEF StorePage, Call, Bounded, Shaped
  <2>3. Grows(log, log)
    BY <1>1 DEF Grows
  <2>4. ~truncated => Held(maxSeq, log, S) /\ Held(syncState, log, S) /\ (r.kind = "sync" => Held(r.cur, log, S))
    <3>1. r.cur \in Nat
      BY <2>1 DEF Call
    <3> QED
      BY <1>1, <1>2, <1>3, <1>15, <2>1, <2>3, <3>1, HeldStable DEF StorePage, Marks_OK, Promises, Held
  <2>5. ~truncated => \A p \in r.page : Held(p, log, S)
    <3>1. task[t].pc = "store" /\ task[t].kind \in {"sync", "new"}
      BY <1>1, <1>2, <1>15 DEF StorePage, Call, Shaped
    <3> QED
      BY <1>2, <2>1, <3>1 DEF Promises
  <2>6. Call_OK(r, log, S, truncated)
    BY <2>1, <2>2, <2>4, <2>5 DEF Call_OK, Promises
  <2>7. Marks_OK(maxSeq, log, S, truncated) /\ Marks_OK(syncState, log, S, truncated)
    BY <1>3, <2>4 DEF Marks_OK
  <2> QED
    BY <1>1, <1>15, <2>1, <2>6, <2>7, OneCallSteps DEF StorePage
<1>16. CASE SetMaxSync(t)
  <2> PICK m \in task[t].page :
         /\ IsMax(m, task[t].page)
         /\ maxSeq' = m
         /\ task' = [task EXCEPT ![t] =
                       [@ EXCEPT !.pc = IF task[t].more THEN "query" ELSE "setState",
                                 !.cur = m, !.page = {}]]
    BY <1>16 DEF SetMaxSync
  <2> DEFINE next == IF task[t].more THEN "query" ELSE "setState"
             r == [task[t] EXCEPT !.pc = next, !.cur = m, !.page = {}]
  <2>1. /\ m \in Nat /\ m <= Len(log) /\ task[t].floor \in Nat
        /\ task[t].kind = "sync" /\ task[t].pc = "setMax"
        /\ ~truncated => Held(m, log, store)
    BY <1>1, <1>2, <1>16 DEF SetMaxSync, Call, Seqs, Bounded, Promises
  <2>2. task[t].more \in BOOLEAN /\ (~task[t].more => task[t].floor <= m)
    <3>1. \A p \in task[t].page : p \in Nat /\ p <= m
      BY <1>1 DEF IsMax, Call, Seqs
    <3>2. ~task[t].more => \E p \in task[t].page : task[t].floor <= p
      BY <1>2, <2>1 DEF Shaped
    <3> QED
      BY <1>1, <2>1, <3>1, <3>2 DEF Call
  <2>3. next \in {"query", "setState"} /\ (next = "setState" => ~task[t].more)
    OBVIOUS
  <2> HIDE DEF next
  <2>4. r \in Call /\ r.kind = "sync" /\ r.pc = next /\ r.cur = m /\ r.page = {} /\ r.gaps = task[t].gaps
        /\ r.floor = task[t].floor /\ r.fillPage = task[t].fillPage
    BY <1>1, <2>1, <2>3 DEF Call, PCs
  <2> HIDE DEF r
  <2>5. Bounded(r, log) /\ Shaped(r)
    BY <1>1, <1>2, <2>1, <2>3, <2>4 DEF Bounded, Shaped
  <2>6. ~truncated /\ next = "setState" => Held(r.floor, log, store)
    BY <1>1, <2>1, <2>2, <2>3, <2>4 DEF Held
  <2>7. Call_OK(r, log, store, truncated)
    BY <2>1, <2>3, <2>4, <2>5, <2>6 DEF Call_OK, Promises
  <2>8. task' = [task EXCEPT ![t] = r]
    BY DEF r, next
  <2>9. maxSeq' \in Nat /\ Marks_OK(maxSeq', log, store, truncated)
    BY <2>1 DEF Marks_OK
  <2> QED
    BY <1>1, <1>3, <1>16, <2>4, <2>7, <2>8, <2>9, OneCallSteps DEF SetMaxSync
<1>17. CASE SetMaxNew(t)
  <2>1. maxSeq' \in Nat /\ Marks_OK(maxSeq', log, store, truncated)
    BY <1>1, <1>2, <1>17 DEF SetMaxNew, Marks_OK, Promises, Bounded, Call, Seqs
  <2> QED
    BY <1>1, <1>3, <1>17, <2>1, NoCallOK, OneCallSteps DEF SetMaxNew
<1>18. CASE SetMaxReset(t)
  <2> DEFINE r == [task[t] EXCEPT !.pc = "setState"]
  <2>1. r \in Call /\ r.kind = "reset" /\ r.pc = "setState"
    BY <1>1, <1>18 DEF SetMaxReset, Call, PCs
  <2>2. Call_OK(r, log, store, truncated)
    BY <1>1, <1>2, <1>18, <2>1 DEF SetMaxReset, Call_OK, Bounded, Shaped, Promises, Call
  <2>3. Marks_OK(0, log, store, truncated)
    BY <1>1 DEF Marks_OK, Held
  <2> QED
    BY <1>1, <1>3, <1>18, <2>1, <2>2, <2>3, OneCallSteps DEF SetMaxReset
<1>19. CASE SetState(t)
  <2>1. task[t].cur \in Nat /\ task[t].kind \in {"sync", "new", "reset"}
    BY <1>1 DEF Call
  <2>2. Marks_OK(task[t].cur, log, store, truncated)
    BY <1>1, <1>2, <1>19, <2>1 DEF SetState, Marks_OK, Bounded, Shaped, Promises, Held
  <2> QED
    BY <1>1, <1>3, <1>19, <2>1, <2>2, NoCallOK, OneCallSteps DEF SetState
<1> QED
  BY <1>5, <1>6, <1>7, <1>8, <1>9, <1>10, <1>11, <1>12, <1>13, <1>14, <1>15, <1>16, <1>17, <1>18, <1>19
     DEF Step

-----------------------------------------------------------------------------
(* The theorems.                                                           *)

LEMMA InitSyncInv == Init => SyncInv
<1> SUFFICES ASSUME Init PROVE SyncInv
  OBVIOUS
<1>1. log \in Seq(Kinds) /\ log = <<>> /\ Len(log) = 0
  BY DEF Init
<1>2. \A t \in Tasks : task[t] = NoCall /\ NoCall \in Call /\ Call_OK(task[t], log, store, truncated)
  BY <1>1, NoCallOK DEF Init
<1>3. task \in [Tasks -> Call] /\ \A t \in Tasks : task[t].cur <= MaxMessages
  BY <1>2, TaskAssumption DEF Init, NoCall
<1>4. TypeOK
  <2>1. 0 \in 0 .. MaxMessages /\ 0 <= MaxMessages
    BY TaskAssumption
  <2>2. store \subseteq Seqs /\ maxSeq = 0 /\ syncState = 0 /\ syncing \in BOOLEAN /\ truncated \in BOOLEAN
    BY DEF Init
  <2> QED
    BY <1>1, <1>3, <2>1, <2>2 DEF TypeOK
<1>5. Marks_OK(0, log, store, truncated)
  BY <1>1 DEF Marks_OK, Held
<1> QED
  BY <1>2, <1>4, <1>5 DEF Init, SyncInv

LEMMA NextSyncInv == SyncInv /\ [Next]_vars => SyncInv'
<1> SUFFICES ASSUME SyncInv, [Next]_vars PROVE SyncInv'
  OBVIOUS
<1>1. CASE UNCHANGED vars
  BY <1>1 DEF vars, SyncInv, TypeOK
<1>2. CASE Next
  BY <1>2, ServerSteps, CallSteps, ReloadStep DEF Next
<1> QED
  BY <1>1, <1>2

THEOREM SyncInvariant == Spec => []SyncInv
BY InitSyncInv, NextSyncInv, PTL DEF Spec

\* The types are invariant: no mark ever passes the last message sent.
THEOREM SyncTypeCorrect == Spec => []TypeOK
<1>1. SyncInv => TypeOK
  BY DEF SyncInv
<1> QED
  BY <1>1, SyncInvariant, PTL

\* Nothing visible up to the high-water mark is missing from the store,
\* however many calls of syncChannel, handleNewMessage and resetSync overlap,
\* fail or are lost in a reload, unless a query from 0 left something out.
THEOREM HighWater == Spec => []HighWaterIsHonest
<1>1. SyncInv => HighWaterIsHonest
  BY DEF SyncInv, TypeOK, Marks_OK, Held, HighWaterIsHonest, Persisted, Visible
<1> QED
  BY <1>1, SyncInvariant, PTL

\* A backfill that reaches its last step has everything sent before it began.
THEOREM BackfillCompleteness == Spec => []SyncIsComplete
<1>1. SyncInv => SyncIsComplete
  BY DEF SyncInv, TypeOK, Call_OK, Promises, Held, SyncIsComplete, Persisted, Visible
<1> QED
  BY <1>1, SyncInvariant, PTL

\* The syncing set names the channel exactly while one call syncs it.
THEOREM OneSyncAtATime == Spec => []SyncingIsOneCall
<1> DEFINE Syncs(r) == r.pc # "idle" /\ r.kind = "sync"
           Shape == task \in [Tasks -> Call] /\ syncing \in BOOLEAN
<1>1. SyncInv => Shape
  BY DEF SyncInv, TypeOK
<1>2. Init => SyncingIsOneCall
  BY DEF Init, NoCall, SyncingIsOneCall
<1>3. SyncInv /\ SyncingIsOneCall /\ [Next]_vars => SyncingIsOneCall'
  <2> SUFFICES ASSUME SyncInv, SyncingIsOneCall, [Next]_vars PROVE SyncingIsOneCall'
    OBVIOUS
  <2>1. task \in [Tasks -> Call]
    BY DEF SyncInv, TypeOK
  <2>2. ~Syncs(NoCall)
    BY DEF NoCall
  <2>3. ASSUME NEW t \in Tasks, NEW r, task' = [task EXCEPT ![t] = r],
               \/ syncing' = syncing /\ (Syncs(r) <=> Syncs(task[t]))
               \/ ~Syncs(r) /\ syncing' = (syncing /\ ~Syncs(task[t]))
               \/ ~syncing /\ syncing' /\ Syncs(r)
        PROVE  SyncingIsOneCall'
    <3>1. \A u \in Tasks : u # t => task'[u] = task[u]
      BY <2>1, <2>3
    <3>2. task'[t] = r
      BY <2>1, <2>3
    <3>3. \A u \in Tasks : u # t => (Syncs(task'[u]) <=> Syncs(task[u]))
      BY <3>1
    <3>4. Syncs(task'[t]) <=> Syncs(r)
      BY <3>2
    <3>5. /\ syncing <=> \E u \in Tasks : Syncs(task[u])
          /\ \A u, v \in Tasks : Syncs(task[u]) /\ Syncs(task[v]) => u = v
      BY DEF SyncingIsOneCall
    <3> HIDE DEF Syncs
    <3>6. CASE syncing' = syncing /\ (Syncs(r) <=> Syncs(task[t]))
      <4>1. \A u \in Tasks : Syncs(task'[u]) <=> Syncs(task[u])
        BY <3>3, <3>4, <3>6
      <4> QED
        BY <3>5, <3>6, <4>1 DEF SyncingIsOneCall, Syncs
    <3>7. CASE ~Syncs(r) /\ syncing' = (syncing /\ ~Syncs(task[t]))
      <4>1. \A u \in Tasks : Syncs(task'[u]) <=> Syncs(task[u]) /\ u # t
        BY <3>3, <3>4, <3>7
      <4>2. syncing' <=> \E u \in Tasks : Syncs(task[u]) /\ u # t
        BY <3>5, <3>7
      <4> QED
        BY <3>5, <4>1, <4>2 DEF SyncingIsOneCall, Syncs
    <3>8. CASE ~syncing /\ syncing' /\ Syncs(r)
      <4>1. \A u \in Tasks : Syncs(task'[u]) <=> u = t
        BY <3>3, <3>4, <3>5, <3>8
      <4> QED
        BY <3>8, <4>1 DEF SyncingIsOneCall, Syncs
    <3> QED
      BY <2>3, <3>6, <3>7, <3>8
  <2>4. CASE UNCHANGED <<task, syncing>>
    BY <2>4 DEF SyncingIsOneCall
  <2>5. CASE Reload
    BY <2>2, <2>5 DEF Reload, SyncingIsOneCall
  <2>6. ASSUME NEW t \in Tasks, StartSync(t) PROVE SyncingIsOneCall'
    BY <2>3, <2>6 DEF StartSync, NoCall
  <2>7. ASSUME NEW t \in Tasks, StartReset(t) \/ \E s \in DOMAIN log : StartNew(t, s) PROVE SyncingIsOneCall'
    BY <2>3, <2>7 DEF StartReset, StartNew, NoCall, client
  <2>8. ASSUME NEW t \in Tasks, Fail(t) \/ SetState(t) PROVE SyncingIsOneCall'
    BY <2>2, <2>3, <2>8 DEF Fail, SetState
  <2>9. ASSUME NEW t \in Tasks, ReadMaxSync(t) \/ ReadServerMax(t) \/ StorePage(t) \/ SetMaxReset(t)
        PROVE SyncingIsOneCall'
    BY <2>1, <2>3, <2>9, ZenonT(60) DEF ReadMaxSync, ReadServerMax, StorePage, SetMaxReset, client, Call
  <2>10. ASSUME NEW t \in Tasks, ReadMaxNew(t) \/ SetMaxNew(t) PROVE SyncingIsOneCall'
    BY <2>1, <2>2, <2>3, <2>10 DEF ReadMaxNew, SetMaxNew, client, Call
  <2>11. ASSUME NEW t \in Tasks, NEW r, task' = [task EXCEPT ![t] = r], syncing' = syncing,
                r.kind = task[t].kind, r.pc # "idle", task[t].pc # "idle"
         PROVE  SyncingIsOneCall'
    BY <2>3, <2>11
  <2>12. ASSUME NEW t \in Tasks, ReadRows(t) PROVE SyncingIsOneCall'
    <3>1. PICK P, q :
             \/ task' = [task EXCEPT ![t] = [@ EXCEPT !.pc = "setState"]]
             \/ task' = [task EXCEPT ![t] =
                  [@ EXCEPT !.pc = IF DetectGaps(task[t].cur, q) = {} THEN "store" ELSE "fill",
                            !.page = P, !.gaps = DetectGaps(task[t].cur, q),
                            !.more = (q[Cardinality(P)] < task[t].serverMax)]]
      BY <2>12 DEF ReadRows
    <3> DEFINE r1 == [task[t] EXCEPT !.pc = "setState"]
               next == IF DetectGaps(task[t].cur, q) = {} THEN "store" ELSE "fill"
               more == q[Cardinality(P)] < task[t].serverMax
               r2 == [task[t] EXCEPT !.pc = next, !.page = P,
                                     !.gaps = DetectGaps(task[t].cur, q), !.more = more]
    <3>2. next # "idle"
      OBVIOUS
    <3> HIDE DEF next, more
    <3>3. r1.kind = task[t].kind /\ r1.pc # "idle" /\ r2.kind = task[t].kind /\ r2.pc # "idle"
      BY <2>1, <3>2 DEF Call
    <3>4. task' = [task EXCEPT ![t] = r1] \/ task' = [task EXCEPT ![t] = r2]
      BY <3>1 DEF next, more
    <3>5. syncing' = syncing /\ task[t].pc # "idle"
      BY <2>12 DEF ReadRows
    <3> HIDE DEF r1, r2
    <3> QED
      BY <2>11, <3>3, <3>4, <3>5
  <2>13. ASSUME NEW t \in Tasks, NEW rest
         PROVE  GapsFilled(task[t], rest).kind = task[t].kind /\ GapsFilled(task[t], rest).pc # "idle"
    BY <2>1 DEF GapsFilled, Call
  <2>14. ASSUME NEW t \in Tasks, FillRows(t) \/ FillStore(t) PROVE SyncingIsOneCall'
    <3>1. task[t].pc # "idle" /\ syncing' = syncing
      BY <2>14 DEF FillRows, FillStore
    <3>2. \/ \E rest : task' = [task EXCEPT ![t] = GapsFilled(task[t], rest)]
          \/ \E P : task' = [task EXCEPT ![t] = [task[t] EXCEPT !.pc = "fillStore", !.fillPage = P]]
      BY <2>14 DEF FillRows, FillStore
    <3>3. CASE \E rest : task' = [task EXCEPT ![t] = GapsFilled(task[t], rest)]
      BY <2>11, <2>13, <3>1, <3>3
    <3>4. ASSUME NEW P, task' = [task EXCEPT ![t] = [task[t] EXCEPT !.pc = "fillStore", !.fillPage = P]]
          PROVE  SyncingIsOneCall'
      <4> DEFINE r == [task[t] EXCEPT !.pc = "fillStore", !.fillPage = P]
      <4>1. r.kind = task[t].kind /\ r.pc # "idle" /\ task' = [task EXCEPT ![t] = r]
        BY <2>1, <3>4 DEF Call
      <4> HIDE DEF r
      <4> QED
        BY <2>11, <3>1, <4>1
    <3> QED
      BY <3>2, <3>3, <3>4
  <2>15. ASSUME NEW t \in Tasks, SetMaxSync(t) PROVE SyncingIsOneCall'
    <3>1. PICK m \in task[t].page : task' = [task EXCEPT ![t] =
                       [@ EXCEPT !.pc = IF task[t].more THEN "query" ELSE "setState",
                                 !.cur = m, !.page = {}]]
      BY <2>15 DEF SetMaxSync
    <3> DEFINE next == IF task[t].more THEN "query" ELSE "setState"
               r == [task[t] EXCEPT !.pc = next, !.cur = m, !.page = {}]
    <3>2. r.kind = task[t].kind /\ r.pc # "idle" /\ task' = [task EXCEPT ![t] = r]
      BY <2>1, <3>1 DEF Call
    <3>3. syncing' = syncing /\ task[t].pc # "idle"
      BY <2>15 DEF SetMaxSync
    <3> HIDE DEF r
    <3> QED
      BY <2>11, <3>2, <3>3
  <2>16. CASE UNCHANGED vars \/ (\E kind \in {"top", "reply"} : Commit(kind)) \/ (\E s \in DOMAIN log : Purge(s))
    BY <2>4, <2>16 DEF vars, Commit, Purge, client
  <2> QED
    BY <2>5, <2>6, <2>7, <2>8, <2>9, <2>10, <2>12, <2>14, <2>15, <2>16 DEF Next, Step
<1> QED
  BY <1>2, <1>3, SyncInvariant, PTL DEF Spec

-----------------------------------------------------------------------------
(* The cursors.  A page and a fillGap page lie above the number they were   *)
(* asked from, and the gaps of a call have different places in the list of  *)
(* detectGaps, so each round of the two loops of syncChannel goes further    *)
(* than the one before, in whatever order a page lists its messages.         *)

Above(n, S) == \A s \in S : n < s

First(g, gaps) == \A h \in gaps : g.nr <= h.nr

Apart(gaps) == \A g, h \in gaps : g.nr = h.nr => g = h

CursorsOK(r) ==
    /\ Apart(r.gaps)
    /\ r.kind = "sync" /\ r.pc \in {"fill", "fillStore", "store", "setMax"} => Above(r.cur, r.page)
    /\ r.pc = "fillStore" => \A g \in r.gaps : First(g, r.gaps) => Above(g.at, r.fillPage)

\* Where the step from record o to record r begins a round.
Advances(o, r) ==
    /\ o.pc = "setMax" /\ r.pc = "query" => o.cur < r.cur
    /\ o.pc \in {"fill", "fillStore"} /\ r.pc = "fill" =>
         \A g \in o.gaps : First(g, o.gaps) => \A h \in r.gaps : Further(h, g)

CursorInv == \A t \in Tasks : CursorsOK(task[t])

LEMMA GapsOfAPageAreApart == ASSUME NEW start, NEW q PROVE Apart(DetectGaps(start, q))
<1> DEFINE Before(i) == IF i = 1 THEN start ELSE q[i - 1]
           GapOf(i) == [nr |-> i, at |-> Before(i), to |-> q[i] - 1]
<1> SUFFICES ASSUME NEW g \in DetectGaps(start, q), NEW h \in DetectGaps(start, q), g.nr = h.nr
             PROVE  g = h
  BY DEF Apart
<1> PICK i \in DOMAIN q : g = GapOf(i)
  BY DEF DetectGaps
<1> PICK j \in DOMAIN q : h = GapOf(j)
  BY DEF DetectGaps
<1>1. g.nr = i /\ h.nr = j
  OBVIOUS
<1> QED
  BY <1>1

\* What a page holds was asked for.
LEMMA PageIsAbove ==
    ASSUME NEW P, NEW since, NEW limit, IsPage(P, since, limit), log \in Seq(Kinds), since \in Nat
    PROVE  Above(since, P) /\ P \subseteq Nat
BY DEF IsPage, Visible, Above

\* The first gap goes, or what is left of it stays.
LEMMA GapsAdvance ==
    ASSUME NEW gaps \in SUBSET Gap, Apart(gaps), NEW g \in gaps, First(g, gaps)
    PROVE  /\ Apart(gaps \ {g}) /\ \A h \in gaps \ {g} : Further(h, g)
           /\ \A n \in Nat : g.at < n =>
                LET rest == (gaps \ {g}) \cup {[g EXCEPT !.at = n]}
                IN  Apart(rest) /\ \A h \in rest : Further(h, g)
<1>1. \A h \in gaps : h.nr \in Nat
  BY DEF Gap
<1>2. \A h \in gaps \ {g} : g.nr < h.nr
  BY <1>1 DEF Apart, First
<1>3. Apart(gaps \ {g}) /\ \A h \in gaps \ {g} : Further(h, g)
  BY <1>2 DEF Apart, Further
<1>4. ASSUME NEW n \in Nat, g.at < n
      PROVE  LET rest == (gaps \ {g}) \cup {[g EXCEPT !.at = n]}
             IN  Apart(rest) /\ \A h \in rest : Further(h, g)
  <2> DEFINE k == [g EXCEPT !.at = n]
  <2>1. k.at = n /\ k.nr = g.nr
    BY DEF Gap
  <2> HIDE DEF k
  <2>2. Apart((gaps \ {g}) \cup {k})
    <3> SUFFICES ASSUME NEW h \in (gaps \ {g}) \cup {k}, NEW l \in (gaps \ {g}) \cup {k}, h.nr = l.nr
                 PROVE  h = l
      BY DEF Apart
    <3>1. CASE h \in gaps \ {g} /\ l \in gaps \ {g}
      BY <3>1 DEF Apart
    <3>2. CASE h = k \/ l = k
      BY <1>1, <1>2, <2>1, <3>2
    <3> QED
      BY <3>1, <3>2
  <2>3. \A h \in (gaps \ {g}) \cup {k} : Further(h, g)
    BY <1>3, <1>4, <2>1 DEF Further
  <2> QED
    BY <2>2, <2>3 DEF k
<1> QED
  BY <1>3, <1>4

\* fillGap leaves the gap g for the gaps in rest, all of them further.
LEMMA RestAdvances ==
    ASSUME NEW o \in Call, CursorsOK(o), o.pc \in {"fill", "fillStore"},
           NEW rest, Apart(rest), NEW g \in o.gaps, First(g, o.gaps),
           \A h \in rest : Further(h, g)
    PROVE  CursorsOK(GapsFilled(o, rest)) /\ Advances(o, GapsFilled(o, rest))
<1> DEFINE next == IF rest = {} THEN "store" ELSE "fill"
           r == [o EXCEPT !.gaps = rest, !.fillPage = {}, !.pc = next]
<1>1. GapsFilled(o, rest) = r /\ next \in {"store", "fill"}
  BY DEF GapsFilled
<1> HIDE DEF next
<1>2. r.pc = next /\ r.gaps = rest /\ r.page = o.page /\ r.cur = o.cur /\ r.kind = o.kind
  BY DEF Call
<1> HIDE DEF r
<1>3. CursorsOK(r)
  BY <1>1, <1>2 DEF CursorsOK
<1>4. \A k \in o.gaps : First(k, o.gaps) => k = g
  BY DEF CursorsOK, Apart, First, Call, Gap
<1>5. Advances(o, r)
  BY <1>1, <1>2, <1>4 DEF Advances
<1> QED
  BY <1>1, <1>3, <1>5

\* Whatever a call does next, its cursors stay in order and move up.
LEMMA CallAdvances ==
    ASSUME SyncInv, CursorInv, NEW t \in Tasks,
           \/ StartSync(t) \/ StartReset(t) \/ Fail(t) \/ Step(t)
           \/ \E s \in DOMAIN log : StartNew(t, s)
    PROVE  \E r : task' = [task EXCEPT ![t] = r] /\ CursorsOK(r) /\ Advances(task[t], r)
<1> DEFINE o == task[t]
           Goal(r) == task' = [task EXCEPT ![t] = r] /\ CursorsOK(r) /\ Advances(o, r)
<1>1. log \in Seq(Kinds) /\ o \in Call /\ Bounded(o, log) /\ Shaped(o) /\ CursorsOK(o)
  BY DEF SyncInv, TypeOK, Call_OK, CursorInv
<1>2. /\ o.cur \in Nat /\ o.page \subseteq Nat /\ o.fillPage \subseteq Nat /\ o.gaps \in SUBSET Gap
      /\ \A g \in o.gaps : g.at < g.to
  BY <1>1 DEF Call, Seqs, Bounded
<1>3. CursorsOK(NoCall) /\ Advances(o, NoCall)
  BY DEF NoCall, CursorsOK, Apart, Advances
<1>4. CASE StartSync(t)
  <2> DEFINE r == [NoCall EXCEPT !.pc = "getMax", !.floor = Len(log)]
  <2>1. Goal(r)
    BY <1>4 DEF StartSync, NoCall, CursorsOK, Apart, Advances
  <2> QED
    BY <2>1
<1>5. CASE StartReset(t)
  <2> DEFINE r == [NoCall EXCEPT !.pc = "setMax", !.kind = "reset"]
  <2>1. Goal(r)
    BY <1>5 DEF StartReset, NoCall, CursorsOK, Apart, Advances
  <2> QED
    BY <2>1
<1>6. ASSUME NEW s \in DOMAIN log, StartNew(t, s)
      PROVE  \E r : Goal(r)
  <2> DEFINE r == [NoCall EXCEPT !.pc = "getMax", !.kind = "new", !.page = {s}]
  <2>1. Goal(r)
    BY <1>6 DEF StartNew, NoCall, CursorsOK, Apart, Advances
  <2> QED
    BY <2>1
<1>7. CASE Fail(t) \/ SetMaxNew(t) \/ SetState(t)
  BY <1>3, <1>7 DEF Fail, SetMaxNew, SetState
<1>8. CASE ReadMaxSync(t)
  <2> DEFINE r == [o EXCEPT !.pc = "query", !.cur = maxSeq]
  <2>1. Goal(r)
    BY <1>1, <1>8 DEF ReadMaxSync, Call, CursorsOK, Advances
  <2> QED
    BY <2>1
<1>9. CASE ReadServerMax(t)
  <2> DEFINE r == [o EXCEPT !.pc = "rows", !.serverMax = Len(log)]
  <2>1. Goal(r)
    BY <1>1, <1>9 DEF ReadServerMax, Call, CursorsOK, Advances
  <2> QED
    BY <2>1
<1>10. CASE StorePage(t)
  <2> DEFINE r == [o EXCEPT !.pc = "setMax"]
  <2>1. Goal(r)
    BY <1>1, <1>10 DEF StorePage, Call, CursorsOK, Advances
  <2> QED
    BY <2>1
<1>11. CASE SetMaxReset(t)
  <2> DEFINE r == [o EXCEPT !.pc = "setState"]
  <2>1. Goal(r)
    BY <1>1, <1>11 DEF SetMaxReset, Call, CursorsOK, Advances
  <2> QED
    BY <2>1
<1>12. CASE ReadMaxNew(t)
  <2> PICK s \in o.page :
         \/ task' = [task EXCEPT ![t] = [@ EXCEPT !.pc = "store", !.cur = maxSeq]]
         \/ task' = [task EXCEPT ![t] = [@ EXCEPT !.pc = "fill", !.cur = maxSeq,
                                                  !.gaps = {[nr |-> 1, at |-> maxSeq, to |-> s - 1]}]]
         \/ task' = [task EXCEPT ![t] = NoCall]
    BY <1>12 DEF ReadMaxNew
  <2>1. o.pc = "getMax" /\ o.kind = "new"
    BY <1>12 DEF ReadMaxNew
  <2> DEFINE r1 == [o EXCEPT !.pc = "store", !.cur = maxSeq]
             g  == [nr |-> 1, at |-> maxSeq, to |-> s - 1]
             r2 == [o EXCEPT !.pc = "fill", !.cur = maxSeq, !.gaps = {g}]
  <2>2. CursorsOK(r1) /\ Advances(o, r1)
    BY <1>1, <2>1 DEF Call, CursorsOK, Advances
  <2>3. CursorsOK(r2) /\ Advances(o, r2)
    <3>1. r2.kind = "new" /\ r2.pc = "fill" /\ r2.gaps = {g}
      BY <1>1, <2>1 DEF Call
    <3>2. Apart({g})
      BY DEF Apart
    <3> QED
      BY <2>1, <3>1, <3>2 DEF CursorsOK, Advances
  <2>4. \/ task' = [task EXCEPT ![t] = r1]
        \/ task' = [task EXCEPT ![t] = r2]
        \/ task' = [task EXCEPT ![t] = NoCall]
    OBVIOUS
  <2> HIDE DEF r1, r2
  <2> QED
    BY <1>3, <2>2, <2>3, <2>4
<1>13. CASE ReadRows(t)
  <2> DEFINE Reads(P, q) ==
         /\ IsPage(P, o.cur, Batch)
         /\ \/ /\ P = {}
               /\ task' = [task EXCEPT ![t] = [@ EXCEPT !.pc = "setState"]]
            \/ LET gaps == DetectGaps(o.cur, q) IN
               /\ P # {}
               /\ task' = [task EXCEPT ![t] =
                             [@ EXCEPT !.pc = IF gaps = {} THEN "store" ELSE "fill",
                                       !.page = P, !.gaps = gaps,
                                       !.more = (q[Cardinality(P)] < o.serverMax)]]
  <2> PICK P \in SUBSET Visible : \E q \in Lists(P, o.cur) : Reads(P, q)
    BY <1>13 DEF ReadRows
  <2> PICK q \in Lists(P, o.cur) : Reads(P, q)
    OBVIOUS
  <2>1. o.pc = "rows"
    BY <1>13 DEF ReadRows
  <2>2. Above(o.cur, P) /\ P \subseteq Nat
    BY <1>1, <1>2, PageIsAbove
  <2> DEFINE gaps == DetectGaps(o.cur, q)
             next == IF gaps = {} THEN "store" ELSE "fill"
             more == q[Cardinality(P)] < o.serverMax
             r1 == [o EXCEPT !.pc = "setState"]
             r2 == [o EXCEPT !.pc = next, !.page = P, !.gaps = gaps, !.more = more]
  <2>3. Apart(gaps)
    BY GapsOfAPageAreApart
  <2>4. task' = [task EXCEPT ![t] = r1] \/ task' = [task EXCEPT ![t] = r2]
    OBVIOUS
  <2>5. next \in {"store", "fill"}
    OBVIOUS
  <2> HIDE DEF gaps, next, more
  <2>6. CursorsOK(r1) /\ Advances(o, r1)
    BY <1>1, <2>1 DEF Call, CursorsOK, Advances
  <2>7. r2.pc = next /\ r2.page = P /\ r2.gaps = gaps /\ r2.cur = o.cur
    BY <1>1 DEF Call
  <2> HIDE DEF r1, r2
  <2>8. CursorsOK(r2) /\ Advances(o, r2)
    BY <2>1, <2>2, <2>3, <2>5, <2>7 DEF CursorsOK, Advances
  <2> QED
    BY <2>4, <2>6, <2>8
<1>14. CASE FillRows(t)
  <2> PICK g \in o.gaps, P \in SUBSET Visible :
         /\ CurrentGap(t, g)
         /\ IsPage(P, g.at, IF Batch < g.to - g.at THEN Batch ELSE g.to - g.at)
         /\ task' = [task EXCEPT ![t] =
                       IF P = {} THEN GapsFilled(@, @.gaps \ {g})
                       ELSE [@ EXCEPT !.pc = "fillStore", !.fillPage = P]]
    BY <1>14 DEF FillRows
  <2>1. o.pc = "fill" /\ First(g, o.gaps) /\ g.at \in Nat
    BY <1>2, <1>14 DEF FillRows, CurrentGap, First, Gap
  <2>2. Above(g.at, P)
    BY <1>1, <2>1, PageIsAbove
  <2>3. CASE P = {}
    <3> DEFINE rest == o.gaps \ {g}
    <3>1. task' = [task EXCEPT ![t] = GapsFilled(o, rest)]
      BY <2>3
    <3>2. Apart(rest) /\ \A h \in rest : Further(h, g)
      BY <1>1, <1>2, <2>1, GapsAdvance DEF CursorsOK
    <3> HIDE DEF rest
    <3>3. CursorsOK(GapsFilled(o, rest)) /\ Advances(o, GapsFilled(o, rest))
      BY <1>1, <2>1, <3>2, RestAdvances
    <3> QED
      BY <3>1, <3>3
  <2>4. CASE P # {}
    <3> DEFINE r == [o EXCEPT !.pc = "fillStore", !.fillPage = P]
    <3>1. task' = [task EXCEPT ![t] = r]
      BY <2>4
    <3>2. r.pc = "fillStore" /\ r.fillPage = P /\ r.gaps = o.gaps /\ r.kind = o.kind /\ r.page = o.page /\ r.cur = o.cur
      BY <1>1 DEF Call
    <3> HIDE DEF r
    <3>3. \A h \in o.gaps : First(h, o.gaps) => h = g
      BY <1>1, <1>2, <2>1 DEF CursorsOK, Apart, First, Gap
    <3>4. CursorsOK(r)
      BY <1>1, <2>1, <2>2, <3>2, <3>3 DEF CursorsOK
    <3>5. Advances(o, r)
      BY <2>1, <3>2 DEF Advances
    <3> QED
      BY <3>1, <3>4, <3>5
  <2> QED
    BY <2>3, <2>4
<1>15. CASE FillStore(t)
  <2> PICK g \in o.gaps, m \in o.fillPage :
         /\ CurrentGap(t, g) /\ IsMax(m, o.fillPage)
         /\ task' = [task EXCEPT ![t] =
                       GapsFilled(@, IF m < g.to
                                     THEN (@.gaps \ {g}) \cup {[g EXCEPT !.at = m]}
                                     ELSE @.gaps \ {g})]
    BY <1>15 DEF FillStore
  <2>1. o.pc = "fillStore" /\ First(g, o.gaps) /\ m \in Nat /\ g.at \in Nat
    BY <1>2, <1>15 DEF FillStore, CurrentGap, First, Gap
  <2>2. g.at < m
    BY <1>1, <2>1 DEF CursorsOK, Above
  <2> DEFINE rest == IF m < g.to THEN (o.gaps \ {g}) \cup {[g EXCEPT !.at = m]} ELSE o.gaps \ {g}
  <2>3. Apart(rest) /\ \A h \in rest : Further(h, g)
    BY <1>1, <1>2, <2>1, <2>2, GapsAdvance DEF CursorsOK
  <2>4. task' = [task EXCEPT ![t] = GapsFilled(o, rest)]
    OBVIOUS
  <2> HIDE DEF rest
  <2>5. CursorsOK(GapsFilled(o, rest)) /\ Advances(o, GapsFilled(o, rest))
    BY <1>1, <2>1, <2>3, RestAdvances
  <2> QED
    BY <2>4, <2>5
<1>16. CASE SetMaxSync(t)
  <2> PICK m \in o.page :
         task' = [task EXCEPT ![t] =
                       [@ EXCEPT !.pc = IF o.more THEN "query" ELSE "setState",
                                 !.cur = m, !.page = {}]]
    BY <1>16 DEF SetMaxSync
  <2>1. o.pc = "setMax" /\ o.kind = "sync"
    BY <1>16 DEF SetMaxSync
  <2>2. o.cur < m
    BY <1>1, <2>1 DEF CursorsOK, Above
  <2> DEFINE next == IF o.more THEN "query" ELSE "setState"
             r == [o EXCEPT !.pc = next, !.cur = m, !.page = {}]
  <2>3. task' = [task EXCEPT ![t] = r] /\ next \in {"query", "setState"}
    OBVIOUS
  <2> HIDE DEF next
  <2>4. r.pc = next /\ r.cur = m /\ r.page = {} /\ r.gaps = o.gaps
    BY <1>1 DEF Call
  <2> HIDE DEF r
  <2>5. CursorsOK(r) /\ Advances(o, r)
    BY <1>1, <2>1, <2>2, <2>3, <2>4 DEF CursorsOK, Above, Advances
  <2> QED
    BY <2>3, <2>5
<1> QED
  BY <1>4, <1>5, <1>6, <1>7, <1>8, <1>9, <1>10, <1>11, <1>12, <1>13, <1>14, <1>15, <1>16 DEF Step

LEMMA CursorStep ==
    ASSUME SyncInv, CursorInv, [Next]_vars
    PROVE  CursorInv' /\ \A t \in Tasks : task'[t] # task[t] => Advances(task[t], task'[t])
<1>1. task \in [Tasks -> Call]
  BY DEF SyncInv, TypeOK
<1>2. CASE UNCHANGED task
  BY <1>2 DEF CursorInv
<1>3. CASE Reload
  <2>1. \A t \in Tasks : task'[t] = NoCall
    BY <1>3 DEF Reload
  <2>2. CursorsOK(NoCall) /\ \A t \in Tasks : Advances(task[t], NoCall)
    BY DEF NoCall, CursorsOK, Apart, Advances
  <2> QED
    BY <2>1, <2>2 DEF CursorInv
<1>4. ASSUME NEW t \in Tasks, NEW r, task' = [task EXCEPT ![t] = r], CursorsOK(r), Advances(task[t], r)
      PROVE  CursorInv' /\ \A u \in Tasks : task'[u] # task[u] => Advances(task[u], task'[u])
  <2>1. task'[t] = r /\ \A u \in Tasks : u # t => task'[u] = task[u]
    BY <1>1, <1>4
  <2> QED
    BY <1>4, <2>1 DEF CursorInv
<1> QED
  BY <1>2, <1>3, <1>4, CallAdvances DEF Next, vars, Commit, Purge

\* No round of a backfill repeats the one before it.  This is the safety half of
\* its end: cursors move up and never pass the last message (SyncTypeCorrect).
THEOREM BackfillNeverRepeats == Spec => BackfillAdvances
<1> DEFINE Moves == \A t \in Tasks : task'[t] # task[t] =>
         /\ task'[t].pc = "query" /\ task[t].pc = "setMax" => task[t].cur < task'[t].cur
         /\ task'[t].pc = "fill" /\ task[t].pc \in {"fill", "fillStore"} =>
              \A g \in task[t].gaps : CurrentGap(t, g) =>
                \A h \in task'[t].gaps : Further(h, g)
<1>1. Init => CursorInv
  BY DEF Init, CursorInv, NoCall, CursorsOK, Apart
<1>2. SyncInv /\ CursorInv /\ [Next]_vars => CursorInv'
  BY CursorStep
<1>3. SyncInv /\ CursorInv /\ [Next]_vars => [Moves]_vars
  BY CursorStep DEF Advances, CurrentGap, First
<1> QED
  BY <1>1, <1>2, <1>3, SyncInvariant, PTL DEF Spec, BackfillAdvances
============================================================================
