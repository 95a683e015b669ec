------------------------ MODULE ChannelTransactions ------------------------
(***************************************************************************)
(* The transactions on one public channel, statement by statement as       *)
(* Postgres runs them at READ COMMITTED: posts and thread replies          *)
(* (messages.ts, threads.ts), the addition and the removal of a member,    *)
(* mark-all-read (channels.ts) and read receipts (receipts.ts).            *)
(*                                                                         *)
(* The variables are the committed rows.  What an open transaction has     *)
(* written is what its pc says it will commit; what others see of it are   *)
(* its row locks.  A statement that needs a locked row waits: its action   *)
(* is not enabled.  Only rows that two of these transactions lock are      *)
(* resources: channel_seq, channel, and the channel_member row of a user.  *)
(***************************************************************************)
EXTENDS Naturals, FiniteSets

CONSTANTS
  User,     \* app_user ids
  Quiet,    \* how many more members there are, who stay, add and remove others, and
            \* never post or read
  Tx,       \* requests that may run at once
  MaxSeq,   \* bound on the messages of the channel
  MaxNamed, \* bound on the memberIds of POST /channels
  Absent,   \* not a user: no message has the number
  InThread, \* not a user: the message is a thread reply, which counts for nobody
  Free      \* not a request: nobody holds the lock

ASSUME ChannelAssumption ==
  /\ MaxSeq \in Nat /\ MaxNamed \in Nat /\ Quiet \in Nat
  /\ Absent \notin User /\ InThread \notin User /\ Absent # InThread
  /\ Free \notin Tx
  /\ IsFiniteSet(User)
  /\ {"seq", "channel"} \cap User = {}

VARIABLES
  current,  \* channel_seq.current_seq
  author,   \* author[s]: who posted message s
  member,   \* users with a channel_member row
  lastRead, \* channel_member.last_read_seq
  unread,   \* channel_member.unread_count
  count,    \* channel.member_count
  pc,       \* the next statement of each request
  who,      \* its user: the author, the reader, or the member removed
  num,      \* the message number it took or read, or the COUNT(*) it computed
  todo,     \* member rows it has still to update (a post) or to insert (an addition)
  got,      \* member rows it has updated or inserted, and holds
  lock,     \* holder of each row lock
  joined,   \* history: current_seq when the member joined
  walkIn,   \* history: members who came by auto-join
  blurred,  \* history: members whose unread_count left out a message they missed
  drift,    \* history: member_count comes from the list of POST /channels that named
            \* somebody twice, or from a COUNT(*) that is out of date
  old       \* history: requests whose COUNT(*) is out of date

local == <<pc, who, num, todo, got>>
badges == <<lastRead, unread, joined, blurred>>
counts == <<member, walkIn, count, drift, old>>
log == <<current, author>>
vars == <<log, badges, counts, local, lock>>

SeqNo == 1 .. MaxSeq
Resource == {"seq", "channel"} \cup User
Posting == {"join", "seq", "insert", "select", "bump", "replySeq", "replyInsert", "reply"}
Adding == {"add", "addChannel"}
Removing == {"delete", "removeCount", "removeChannel"}
Reading == {"mark", "receipt"}

Others(u) == {s \in SeqNo : author[s] \in User \ {u}}
\* What unread_count of u is about, for a read mark n.
MissedAfter(u, n) == {s \in Others(u) : s > n /\ s > joined[u]}
Missed(u) == MissedAfter(u, lastRead[u])

TypeOK ==
  /\ current \in 0 .. MaxSeq
  /\ author \in [SeqNo -> User \cup {Absent, InThread}]
  /\ member \subseteq User
  /\ lastRead \in [User -> 0 .. MaxSeq]
  /\ unread \in [User -> Nat]
  /\ count \in Nat
  /\ pc \in [Tx -> {"idle"} \cup Posting \cup Adding \cup Removing \cup Reading]
  /\ who \in [Tx -> User \cup {Absent}]
  /\ \A t \in Tx : pc[t] \in {"idle"} \cup Adding <=> who[t] = Absent
  /\ num \in [Tx -> Nat]
  /\ todo \in [Tx -> SUBSET User]
  /\ got \in [Tx -> SUBSET User]
  /\ lock \in [Resource -> Tx \cup {Free}]
  /\ joined \in [User -> 0 .. MaxSeq]
  /\ walkIn \subseteq User
  /\ blurred \subseteq User
  /\ drift \in BOOLEAN
  /\ old \subseteq Tx

\* COUNT(*) FROM channel_member, for the members S and the quiet ones.
Rows(S) == Quiet + Cardinality(S)

\* A channel as POST /channels leaves it.  member_count is the length of the list
\* named and one more for the creator, who has a row like everyone on the list,
\* once, however often the list has the name.  Bound: a list of MaxNamed.
Created ==
  /\ member \in SUBSET User
  /\ Rows(member) > 0
  /\ \E named \in 0 .. MaxNamed :
       /\ named + 1 >= Rows(member)
       /\ count = named + 1
       /\ drift = (named + 1 # Rows(member))

Init ==
  /\ Created
  /\ current = 0
  /\ author = [s \in SeqNo |-> Absent]
  /\ lastRead = [u \in User |-> 0]
  /\ unread = [u \in User |-> 0]
  /\ pc = [t \in Tx |-> "idle"]
  /\ who = [t \in Tx |-> Absent]
  /\ num = [t \in Tx |-> 0]
  /\ todo = [t \in Tx |-> {}]
  /\ got = [t \in Tx |-> {}]
  /\ lock = [r \in Resource |-> Free]
  /\ joined = [u \in User |-> 0]
  /\ walkIn = {}
  /\ blurred = {}
  /\ old = {}

-----------------------------------------------------------------------------
(* db.transaction and the row locks of Postgres.                           *)

Acquire(t, r) == lock[r] = Free /\ lock' = [lock EXCEPT ![r] = t]
Release(t) == lock' = [r \in Resource |-> IF lock[r] = t THEN Free ELSE lock[r]]

Goto(t, next) == pc' = [pc EXCEPT ![t] = next]

\* The request starts, its first checks passed.
Begin(t, u, next, n) ==
  /\ pc[t] = "idle"
  /\ Goto(t, next)
  /\ who' = [who EXCEPT ![t] = u]
  /\ num' = [num EXCEPT ![t] = n]
  /\ UNCHANGED <<todo, got>>

Finish(t) ==
  /\ Goto(t, "idle")
  /\ who' = [who EXCEPT ![t] = Absent]
  /\ num' = [num EXCEPT ![t] = 0]
  /\ todo' = [todo EXCEPT ![t] = {}]
  /\ got' = [got EXCEPT ![t] = {}]

\* ROLLBACK in the catch block, whatever threw: a lost connection, a duplicate
\* id, or Postgres, which breaks a deadlock that way.
Rollback(t) ==
  /\ pc[t] # "idle"
  /\ Finish(t)
  /\ Release(t)
  /\ old' = old \ {t}
  /\ UNCHANGED <<log, badges, member, walkIn, count, drift>>

-----------------------------------------------------------------------------
(* POST /messages and POST /messages/:id/thread.                           *)

StartPost(t, u) ==
  /\ Begin(t, u, IF u \in member THEN "seq" ELSE "join", 0)
  /\ UNCHANGED <<log, badges, counts, lock>>

StartReply(t, u) ==
  /\ u \in member
  /\ \E s \in SeqNo : author[s] # Absent
  /\ Begin(t, u, "replySeq", 0)
  /\ UNCHANGED <<log, badges, counts, lock>>

\* A membership row appears or goes: a COUNT(*) computed before is out of date.
Counting == {t \in Tx : pc[t] \in {"addChannel", "removeChannel"}}

NewMembers(S) ==
  /\ member' = member \cup S
  /\ joined' = [u \in User |-> IF u \in S THEN current ELSE joined[u]]

\* Auto-join of a public channel: a statement of its own, without member_count
\* and without the channel row, so that it may come between the statements of
\* another post.
AutoJoin(t) ==
  LET u == who[t]
  IN /\ pc[t] = "join"
     /\ lock[u] = Free
     /\ IF u \in member
        THEN UNCHANGED <<badges, counts>>
        ELSE /\ NewMembers({u})
             /\ walkIn' = walkIn \cup {u}
             /\ drift' = TRUE
             /\ old' = old \cup Counting
             /\ UNCHANGED <<lastRead, unread, blurred, count>>
     /\ Goto(t, "seq")
     /\ UNCHANGED <<log, who, num, todo, got, lock>>

\* Planted fault.  A sequence object gives the numbers, as nextval does.
TakeSeqUnlocked(t) ==
  /\ pc[t] \in {"seq", "replySeq"}
  /\ current + Cardinality({x \in Tx : num[x] > current}) < MaxSeq
  /\ num' = [num EXCEPT ![t] = current + 1 + Cardinality({x \in Tx : num[x] > current})]
  /\ Goto(t, IF pc[t] = "seq" THEN "insert" ELSE "replyInsert")
  /\ UNCHANGED <<log, badges, counts, who, todo, got, lock>>
\* next_channel_seq.  Bound: MaxSeq messages.
TakeSeq(t) ==
  /\ pc[t] \in {"seq", "replySeq"}
  /\ current < MaxSeq
  /\ Acquire(t, "seq")
  /\ num' = [num EXCEPT ![t] = current + 1]
  /\ Goto(t, IF pc[t] = "seq" THEN "insert" ELSE "replyInsert")
  /\ UNCHANGED <<log, badges, counts, who, todo, got>>

\* INSERT INTO message; its trigger updates the channel row.
Insert(t) ==
  /\ pc[t] \in {"insert", "replyInsert"}
  /\ Acquire(t, "channel")
  /\ Goto(t, IF pc[t] = "insert" THEN "select" ELSE "reply")
  /\ UNCHANGED <<log, badges, counts, who, num, todo, got>>

\* UPDATE channel_member SET unread_count = unread_count + 1: the rows that its
\* snapshot holds, locked one by one.
SelectMembers(t) ==
  /\ pc[t] = "select"
  /\ todo' = [todo EXCEPT ![t] = member \ {who[t]}]
  /\ Goto(t, "bump")
  /\ UNCHANGED <<log, badges, counts, who, num, got, lock>>

LockMember(t, v) ==
  /\ pc[t] = "bump"
  /\ v \in todo[t]
  /\ Acquire(t, v)
  /\ todo' = [todo EXCEPT ![t] = todo[t] \ {v}]
  /\ got' = [got EXCEPT ![t] = got[t] \cup {v}]
  /\ UNCHANGED <<log, badges, counts, pc, who, num>>

AppendMessage(t, a) ==
  /\ current' = num[t]
  /\ author' = [author EXCEPT ![num[t]] = a]

CommitPost(t) ==
  /\ pc[t] = "bump"
  /\ todo[t] = {}
  /\ AppendMessage(t, who[t])
  /\ unread' = [u \in User |-> IF u \in got[t] THEN unread[u] + 1 ELSE unread[u]]
  /\ blurred' = blurred \cup ((member \cap walkIn) \ (got[t] \cup {who[t]}))
  /\ Finish(t)
  /\ Release(t)
  /\ UNCHANGED <<lastRead, joined, counts>>

\* A thread reply changes no unread_count.
CommitReply(t) ==
  /\ pc[t] = "reply"
  /\ AppendMessage(t, InThread)
  /\ Finish(t)
  /\ Release(t)
  /\ UNCHANGED <<badges, counts>>

-----------------------------------------------------------------------------
(* POST /members and DELETE /members/:userId.                              *)

\* The users of the request, which a member makes.
StartAdd(t, S) ==
  /\ pc[t] = "idle"
  /\ Rows(member) > 0 /\ S # {}
  /\ Goto(t, "add")
  /\ todo' = [todo EXCEPT ![t] = S]
  /\ UNCHANGED <<log, badges, counts, who, num, got, lock>>

\* Planted fault.  ON CONFLICT DO UPDATE.
InsertMemberUpdating(t, v) ==
  /\ pc[t] = "add"
  /\ v \in todo[t]
  /\ Acquire(t, v)
  /\ todo' = [todo EXCEPT ![t] = todo[t] \ {v}]
  /\ got' = [got EXCEPT ![t] = got[t] \cup ({v} \ member)]
  /\ UNCHANGED <<log, badges, counts, pc, who, num>>
\* INSERT ... ON CONFLICT DO NOTHING, for one user after the other: it waits for
\* whoever writes the same row.
InsertMember(t, v) ==
  /\ pc[t] = "add"
  /\ v \in todo[t]
  /\ todo' = [todo EXCEPT ![t] = todo[t] \ {v}]
  /\ IF v \in member
     THEN lock[v] = Free /\ UNCHANGED <<got, lock>>
     ELSE Acquire(t, v) /\ got' = [got EXCEPT ![t] = got[t] \cup {v}]
  /\ UNCHANGED <<log, badges, counts, pc, who, num>>

\* UPDATE channel SET member_count = (SELECT COUNT(*) ...): the subquery sees
\* the snapshot of the statement, also when the row has then to be waited for.
CountAdd(t) ==
  /\ pc[t] = "add"
  /\ todo[t] = {}
  /\ num' = [num EXCEPT ![t] = Rows(member \cup got[t])]
  /\ Goto(t, "addChannel")
  /\ UNCHANGED <<log, badges, counts, who, todo, got, lock>>

\* Nothing is waited for between the UPDATE of the channel and the COMMIT.
CommitAdd(t) ==
  /\ pc[t] = "addChannel"
  /\ lock["channel"] = Free
  /\ count' = num[t]
  /\ drift' = (t \in old)
  /\ NewMembers(got[t])
  /\ old' = (IF got[t] = {} THEN old ELSE old \cup Counting) \ {t}
  /\ Finish(t)
  /\ Release(t)
  /\ UNCHANGED <<log, lastRead, unread, blurred, walkIn>>

StartRemove(t, u) ==
  /\ u \in member
  /\ Begin(t, u, "delete", 0)
  /\ UNCHANGED <<log, badges, counts, lock>>

DeleteMember(t) ==
  /\ pc[t] = "delete"
  /\ who[t] \in member
  /\ Acquire(t, who[t])
  /\ Goto(t, "removeCount")
  /\ UNCHANGED <<log, badges, counts, who, num, todo, got>>

\* rowCount = 0: another request removed the member meanwhile.  A row that is not
\* committed yet is no row to wait for.
DeleteNothing(t) ==
  /\ pc[t] = "delete"
  /\ who[t] \notin member
  /\ Finish(t)
  /\ UNCHANGED <<log, badges, counts, lock>>

\* Planted fault.  The count is taken before the DELETE.
CountBeforeDelete(t) ==
  /\ pc[t] = "removeCount"
  /\ num' = [num EXCEPT ![t] = Rows(member)]
  /\ Goto(t, "removeChannel")
  /\ UNCHANGED <<log, badges, counts, who, todo, got, lock>>
CountRemove(t) ==
  /\ pc[t] = "removeCount"
  /\ num' = [num EXCEPT ![t] = Rows(member \ {who[t]})]
  /\ Goto(t, "removeChannel")
  /\ UNCHANGED <<log, badges, counts, who, todo, got, lock>>

CommitRemove(t) ==
  LET u == who[t]
  IN /\ pc[t] = "removeChannel"
     /\ lock["channel"] = Free
     /\ count' = num[t]
     /\ drift' = (t \in old)
     /\ old' = (old \cup Counting) \ {t}
     /\ member' = member \ {u}
     /\ lastRead' = [lastRead EXCEPT ![u] = 0]
     /\ unread' = [unread EXCEPT ![u] = 0]
     /\ joined' = [joined EXCEPT ![u] = 0]
     /\ blurred' = blurred \ {u}
     /\ walkIn' = walkIn \ {u}
     /\ Finish(t)
     /\ Release(t)
     /\ UNCHANGED log

-----------------------------------------------------------------------------
(* Read marks.  The UPDATE of the member's row and the COMMIT are one step:*)
(* nothing is waited for in between.  Without a committed row the UPDATE   *)
(* does nothing, and waits for nobody.                                     *)

SetMark(u, n) ==
  /\ lastRead' = [lastRead EXCEPT ![u] = n]
  /\ unread' = [unread EXCEPT ![u] = 0]
  /\ blurred' = IF MissedAfter(u, n) = {} THEN blurred \ {u} ELSE blurred \cup {u}
  /\ UNCHANGED joined

\* Planted fault.  The next number is taken for the last.
StartMarkAhead(t, u) ==
  /\ u \in member
  /\ Begin(t, u, "mark", current + 1)
  /\ UNCHANGED <<log, badges, counts, lock>>
\* POST /:channelId/read reads current_seq before its transaction.
StartMark(t, u) ==
  /\ u \in member
  /\ Begin(t, u, "mark", current)
  /\ UNCHANGED <<log, badges, counts, lock>>

CommitMark(t) ==
  LET u == who[t]
  IN /\ pc[t] = "mark"
     /\ IF u \in member THEN lock[u] = Free /\ SetMark(u, num[t]) ELSE UNCHANGED badges
     /\ Finish(t)
     /\ UNCHANGED <<log, counts, lock>>

\* POST /:channelId/receipts reads the message before its transaction.
StartReceipt(t, u) ==
  /\ u \in member
  /\ \E s \in SeqNo : author[s] # Absent /\ Begin(t, u, "receipt", s)
  /\ UNCHANGED <<log, badges, counts, lock>>

\* Planted fault.  The second CASE is left out.
ReceiptKeepsCount(t) ==
  LET u == who[t]
  IN /\ pc[t] = "receipt"
     /\ u \in member => lock[u] = Free
     /\ IF u \in member /\ lastRead[u] <= num[t]
        THEN lastRead' = [lastRead EXCEPT ![u] = num[t]] /\ UNCHANGED <<unread, blurred, joined>>
        ELSE UNCHANGED badges
     /\ Finish(t)
     /\ UNCHANGED <<log, counts, lock>>
\* The CASE and GREATEST of the UPDATE.
CommitReceipt(t) ==
  LET u == who[t]
  IN /\ pc[t] = "receipt"
     /\ u \in member => lock[u] = Free
     /\ IF u \in member /\ lastRead[u] <= num[t] THEN SetMark(u, num[t]) ELSE UNCHANGED badges
     /\ Finish(t)
     /\ UNCHANGED <<log, counts, lock>>

-----------------------------------------------------------------------------
(* Waiting.                                                                *)

\* The rows that t may have to wait for.
Needs(t) ==
  CASE pc[t] = "join" -> {who[t]}
    [] pc[t] \in {"delete", "mark", "receipt"} -> {who[t]} \cap member
    [] pc[t] \in {"seq", "replySeq"} -> {"seq"}
    [] pc[t] \in {"insert", "replyInsert", "addChannel", "removeChannel"} -> {"channel"}
    [] pc[t] \in {"bump", "add"} -> todo[t]
    [] OTHER -> {}

WaitsFor(t) == {x \in Tx : \E r \in Needs(t) : lock[r] = x}

\* t waits, directly or through others, for itself.
Deadlocked(t) ==
  \A S \in SUBSET Tx :
    WaitsFor(t) \subseteq S /\ (\A x \in S : WaitsFor(x) \subseteq S) => t \in S

-----------------------------------------------------------------------------
Start(t) ==
  \/ \E S \in SUBSET User : StartAdd(t, S)
  \/ \E u \in User :
       \/ StartPost(t, u) \/ StartReply(t, u) \/ StartRemove(t, u)
       \/ StartMark(t, u) \/ StartReceipt(t, u)

Step(t) ==
  \/ AutoJoin(t) \/ TakeSeq(t) \/ Insert(t) \/ SelectMembers(t)
  \/ \E v \in User : LockMember(t, v) \/ InsertMember(t, v)
  \/ CommitPost(t) \/ CommitReply(t)
  \/ CountAdd(t) \/ CommitAdd(t)
  \/ DeleteMember(t) \/ DeleteNothing(t) \/ CountRemove(t) \/ CommitRemove(t)
  \/ CommitMark(t) \/ CommitReceipt(t)

Next == \E t \in Tx : Start(t) \/ Step(t) \/ Rollback(t)

Spec == Init /\ [][Next]_vars

-----------------------------------------------------------------------------
(* Properties.                                                             *)

\* The committed messages are numbered without a gap, so that a reader who asks
\* for what comes after the last number it saw misses nothing: numbers become
\* visible in order although their transactions overlap.
SeqIsDense == {s \in SeqNo : author[s] # Absent} = 1 .. current

\* unread_count of a member never promises more than the messages of others that
\* came after its read mark, whatever posts, marks and receipts overlap; and it
\* counts exactly those unless a mark left a newer message out (mark-all with an
\* old current_seq, a receipt of an older message) or an auto-join came in the
\* middle of a post.  A member added by POST /members is left out of no post.
BadgeIsRight ==
  \A u \in member : /\ unread[u] <= Cardinality(Missed(u))
                    /\ u \notin blurred => unread[u] = Cardinality(Missed(u))

\* member_count is the number of members unless the channel was created with a
\* list that names the creator or somebody twice, and no addition or removal has
\* counted since; or the last write of it counted before another membership change
\* committed; or an auto-join came after it.
CountIsMembers == ~drift => count = Rows(member)

\* Only two kinds of requests can block each other.  A post, which holds the channel
\* row and wants a member's, and the removal of that member, which holds it and
\* wants the channel row.  And requests to add several users each, where one has
\* inserted a user that the other has still to insert, in a ring: both in this ring,
\* whoever waits for t and whom t waits for, are such additions.
DeadlocksAreKnown ==
  \A t \in Tx : Deadlocked(t) =>
    \/ \E p, r \in Tx : /\ t \in {p, r}
                        /\ pc[p] = "bump" /\ pc[r] = "removeChannel"
                        /\ who[r] \in todo[p]
    \/ \E x, y \in Tx : /\ pc[t] = "add" /\ pc[x] = "add" /\ pc[y] = "add"
                        /\ todo[t] \cap got[x] # {}
                        /\ todo[y] \cap got[t] # {}

Atomic == INSTANCE AtomicChannel

\* The transactions of requests that overlap statement by statement implement
\* operations that happen one at a time: what a post took from the sequence, and
\* the snapshot of members it counts for, are still right when it commits; so is
\* the number a mark or a receipt read before its transaction.
ChannelImplemented == Atomic!Spec

(* The inductive invariant behind these, in named parts.                   *)

Numbered == {"insert", "select", "bump", "replyInsert", "reply"}

\* A lock belongs to an open request that took it and has not committed yet, and
\* a request still holds all it took: no lock outlives its request, none is lost.
LocksAreOwned ==
  /\ \A t \in Tx : lock["seq"] = t <=> pc[t] \in Numbered
  /\ \A t \in Tx : lock["channel"] = t <=> pc[t] \in {"select", "bump", "reply"}
  /\ \A t \in Tx, u \in User :
       /\ lock[u] = t => \/ pc[t] = "bump" /\ u \in got[t]
                         \/ pc[t] \in {"removeCount", "removeChannel"} /\ u = who[t]
                         \/ pc[t] \in Adding /\ u \in got[t] /\ u \notin member
       /\ u \in got[t] => lock[u] = t
       /\ pc[t] \in {"removeCount", "removeChannel"} => lock[who[t]] = t /\ who[t] \in member

\* An open post has the next number; marks and receipts name old ones.
NumbersStand ==
  \A t \in Tx : /\ pc[t] \in Numbered => num[t] = current + 1 /\ num[t] <= MaxSeq
                /\ pc[t] \in Reading => num[t] <= current

\* The rows a post is about to change are members', none is the author's, none
\* is locked twice, and they are all the members there are but for those who walked
\* in.  What an addition has still to insert it has not inserted.
PostSeesMembers ==
  \A t \in Tx :
    /\ pc[t] \notin {"bump"} \cup Adding => got[t] = {}
    /\ pc[t] \notin {"bump", "add"} => todo[t] = {}
    /\ got[t] \cap todo[t] = {}
    /\ pc[t] = "bump" => /\ got[t] \cup todo[t] \subseteq member \ {who[t]}
                         /\ member \ walkIn \subseteq got[t] \cup todo[t] \cup {who[t]}

\* Read marks stay below current_seq; who is no member has a fresh row to come.
MarksStand ==
  \A u \in User : /\ lastRead[u] <= current /\ joined[u] <= current
                  /\ u \notin member => lastRead[u] = 0 /\ unread[u] = 0

\* A COUNT(*) that is not out of date is what member_count has to become.
CountsStand ==
  \A t \in Tx \ old :
    /\ pc[t] = "addChannel" => num[t] = Rows(member \cup got[t])
    /\ pc[t] = "removeChannel" => num[t] = Rows(member \ {who[t]})

ChannelInv ==
  /\ TypeOK /\ LocksAreOwned /\ NumbersStand /\ PostSeesMembers /\ MarksStand
  /\ CountsStand /\ SeqIsDense /\ BadgeIsRight /\ CountIsMembers
=============================================================================
