---------------------- MODULE ChannelTransactionsProofs ----------------------
(***************************************************************************)
(* Safety of ChannelTransactions for any users, requests and messages.      *)
(* ChannelInv is inductive; each part has a lemma with one step per action. *)
(* DeadlocksAreKnown follows from it, state by state.                       *)
(***************************************************************************)
EXTENDS ChannelTransactions, FiniteSetTheorems, TLAPS

\* Every set of users has a number of members.
LEMMA CountOf ==
    ASSUME NEW S, S \subseteq User
    PROVE  IsFiniteSet(S) /\ Cardinality(S) \in Nat /\ Rows(S) \in Nat
  <1>1. IsFiniteSet(S) /\ Cardinality(S) \in Nat
    BY ChannelAssumption, FS_Subset, FS_CardinalityType
  <1> QED
    BY <1>1, ChannelAssumption DEF Rows

LEMMA BusyHasUser ==
    ASSUME TypeOK, NEW t \in Tx, pc[t] \notin {"idle"} \cup Adding
    PROVE  who[t] \in User /\ who[t] \in Resource
  BY DEF TypeOK, Resource

LEMMA AcquireType ==
    ASSUME TypeOK, NEW t \in Tx, NEW r \in Resource, Acquire(t, r)
    PROVE  lock' \in [Resource -> Tx \cup {Free}]
  BY DEF TypeOK, Acquire

LEMMA NewMembersType ==
    ASSUME TypeOK, NEW S, S \subseteq User, NewMembers(S)
    PROVE  member' \subseteq User /\ joined' \in [User -> 0 .. MaxSeq]
  BY DEF TypeOK, NewMembers

LEMMA SetMarkType ==
    ASSUME TypeOK, NEW u \in User, NEW n \in 0 .. MaxSeq, SetMark(u, n)
    PROVE  /\ lastRead' \in [User -> 0 .. MaxSeq] /\ unread' \in [User -> Nat]
           /\ blurred' \subseteq User /\ joined' = joined
  <1> DEFINE none == MissedAfter(u, n) = {}
  <1>1. blurred' \subseteq User
    <2> HIDE DEF none
    <2>1. blurred' = IF none THEN blurred \ {u} ELSE blurred \cup {u}
      BY DEF SetMark, none
    <2> QED
      BY <2>1 DEF TypeOK
  <1>2. lastRead' \in [User -> 0 .. MaxSeq] /\ unread' \in [User -> Nat] /\ joined' = joined
    BY DEF TypeOK, SetMark
  <1> QED
    BY <1>1, <1>2

LEMMA TypeStep ==
    ASSUME ChannelInv, [Next]_vars
    PROVE  TypeOK'
  <1> USE ChannelAssumption DEF SeqNo, Resource, Posting, Adding, Removing, Reading
  <1>0. TypeOK /\ NumbersStand
    BY DEF ChannelInv
  <1>1. ASSUME NEW t \in Tx, NEW u \in User, StartPost(t, u)
        PROVE  TypeOK'
    BY <1>0, <1>1 DEF StartPost, Begin, Goto, TypeOK, log, badges, counts
  <1>2. ASSUME NEW t \in Tx, NEW u \in User, StartReply(t, u)
        PROVE  TypeOK'
    BY <1>0, <1>2 DEF StartReply, Begin, Goto, TypeOK, log, badges, counts
  <1>3. ASSUME NEW t \in Tx, NEW S \in SUBSET User, StartAdd(t, S)
        PROVE  TypeOK'
    BY <1>0, <1>3 DEF StartAdd, Goto, TypeOK, log, badges, counts
  <1>4. ASSUME NEW t \in Tx, NEW u \in User, StartRemove(t, u)
        PROVE  TypeOK'
    BY <1>0, <1>4 DEF StartRemove, Begin, Goto, TypeOK, log, badges, counts
  <1>5. ASSUME NEW t \in Tx, NEW u \in User, StartMark(t, u)
        PROVE  TypeOK'
    BY <1>0, <1>5 DEF StartMark, Begin, Goto, TypeOK, log, badges, counts
  <1>6. ASSUME NEW t \in Tx, NEW u \in User, StartReceipt(t, u)
        PROVE  TypeOK'
    BY <1>0, <1>6 DEF StartReceipt, Begin, Goto, TypeOK, log, badges, counts
  <1>7. ASSUME NEW t \in Tx, AutoJoin(t)
        PROVE  TypeOK'
    <2>1. who[t] \in User
      BY <1>0, <1>7, BusyHasUser DEF AutoJoin, Adding
    <2>2. CASE who[t] \in member
      BY <1>0, <1>7, <2>2 DEF AutoJoin, Goto, TypeOK, log, badges, counts
    <2>3. CASE who[t] \notin member
      <3>1. member' \subseteq User /\ joined' \in [User -> 0 .. MaxSeq]
        BY <1>0, <1>7, <2>1, <2>3, NewMembersType DEF AutoJoin
      <3> QED
        BY <1>0, <1>7, <2>1, <2>3, <3>1 DEF AutoJoin, Counting, Goto, TypeOK, log
    <2> QED
      BY <2>2, <2>3
  <1>8. ASSUME NEW t \in Tx, TakeSeq(t)
        PROVE  TypeOK'
    BY <1>0, <1>8 DEF TakeSeq, Acquire, Goto, TypeOK, log, badges, counts
  <1>9. ASSUME NEW t \in Tx, Insert(t)
        PROVE  TypeOK'
    BY <1>0, <1>9 DEF Insert, Acquire, Goto, TypeOK, log, badges, counts
  <1>10. ASSUME NEW t \in Tx, SelectMembers(t)
        PROVE  TypeOK'
    BY <1>0, <1>10 DEF SelectMembers, Goto, TypeOK, log, badges, counts
  <1>11. ASSUME NEW t \in Tx, NEW v \in User, LockMember(t, v)
        PROVE  TypeOK'
    BY <1>0, <1>11 DEF LockMember, Acquire, TypeOK, log, badges, counts
  <1>12. ASSUME NEW t \in Tx, CommitPost(t)
        PROVE  TypeOK'
    BY <1>0, <1>12 DEF CommitPost, AppendMessage, Finish, Release, Goto, TypeOK, NumbersStand, Numbered, counts
  <1>13. ASSUME NEW t \in Tx, CommitReply(t)
        PROVE  TypeOK'
    BY <1>0, <1>13 DEF CommitReply, AppendMessage, Finish, Release, Goto, TypeOK, NumbersStand, Numbered, badges, counts
  <1>14. ASSUME NEW t \in Tx, NEW v \in User, InsertMember(t, v)
        PROVE  TypeOK'
    <2>1. lock' \in [Resource -> Tx \cup {Free}] /\ got' \in [Tx -> SUBSET User]
      <3>1. CASE v \in member
        BY <1>0, <1>14, <3>1 DEF InsertMember, TypeOK
      <3>2. CASE v \notin member
        <4>1. Acquire(t, v) /\ got' = [got EXCEPT ![t] = got[t] \cup {v}]
          BY <1>14, <3>2 DEF InsertMember
        <4>2. lock' \in [Resource -> Tx \cup {Free}]
          BY <1>0, <4>1, AcquireType
        <4> QED
          BY <1>0, <4>1, <4>2 DEF TypeOK
      <3> QED
        BY <3>1, <3>2
    <2> QED
      BY <1>0, <1>14, <2>1 DEF InsertMember, TypeOK, log, badges, counts
  <1>15. ASSUME NEW t \in Tx, CountAdd(t)
        PROVE  TypeOK'
    <2>1. Rows(member \cup got[t]) \in Nat
      BY <1>0, CountOf DEF TypeOK
    <2> QED
      BY <1>0, <1>15, <2>1 DEF CountAdd, Goto, TypeOK, log, badges, counts
  <1>16. ASSUME NEW t \in Tx, CommitAdd(t)
        PROVE  TypeOK'
    <2>1. count' \in Nat /\ drift' \in BOOLEAN /\ old' \subseteq Tx
      BY <1>0, <1>16 DEF CommitAdd, Counting, TypeOK
    <2>2. member' \subseteq User /\ joined' \in [User -> 0 .. MaxSeq]
      BY <1>0, <1>16, NewMembersType DEF CommitAdd, TypeOK
    <2> QED
      BY <1>0, <1>16, <2>1, <2>2 DEF CommitAdd, Finish, Release, Goto, TypeOK, log
  <1>17. ASSUME NEW t \in Tx, DeleteMember(t)
        PROVE  TypeOK'
    BY <1>0, <1>17 DEF DeleteMember, Acquire, Goto, TypeOK, log, badges, counts
  <1>18. ASSUME NEW t \in Tx, DeleteNothing(t)
        PROVE  TypeOK'
    BY <1>0, <1>18 DEF DeleteNothing, Finish, Goto, TypeOK, log, badges, counts
  <1>19. ASSUME NEW t \in Tx, CountRemove(t)
        PROVE  TypeOK'
    <2>1. Rows(member \ {who[t]}) \in Nat
      BY <1>0, CountOf DEF TypeOK
    <2> QED
      BY <1>0, <1>19, <2>1 DEF CountRemove, Goto, TypeOK, log, badges, counts
  <1>20. ASSUME NEW t \in Tx, CommitRemove(t)
        PROVE  TypeOK'
    <2>1. /\ lastRead' \in [User -> 0 .. MaxSeq] /\ joined' \in [User -> 0 .. MaxSeq]
          /\ unread' \in [User -> Nat] /\ UNCHANGED log
      <3>1. lastRead \in [User -> 0 .. MaxSeq] /\ joined \in [User -> 0 .. MaxSeq] /\ unread \in [User -> Nat]
        BY <1>0 DEF TypeOK
      <3>2. 0 \in 0 .. MaxSeq /\ 0 \in Nat
        OBVIOUS
      <3> QED
        BY <1>20, <3>1, <3>2 DEF CommitRemove
    <2>2. member' \subseteq User /\ walkIn' \subseteq User /\ blurred' \subseteq User
      BY <1>0, <1>20 DEF CommitRemove, TypeOK
    <2>3. count' \in Nat /\ drift' \in BOOLEAN /\ old' \subseteq Tx
      BY <1>0, <1>20 DEF CommitRemove, Counting, TypeOK
    <2> QED
      BY <1>0, <1>20, <2>1, <2>2, <2>3 DEF CommitRemove, Finish, Release, Goto, TypeOK, log
  <1>21. ASSUME NEW t \in Tx, CommitMark(t)
        PROVE  TypeOK'
    <2>1. num[t] \in 0 .. MaxSeq
      BY <1>0, <1>21 DEF CommitMark, TypeOK, NumbersStand
    <2>2. /\ lastRead' \in [User -> 0 .. MaxSeq] /\ unread' \in [User -> Nat]
          /\ blurred' \subseteq User /\ joined' = joined
      <3>1. CASE who[t] \in member
        <4>1. who[t] \in User /\ SetMark(who[t], num[t])
          BY <1>0, <1>21, <3>1 DEF CommitMark, TypeOK
        <4> QED
          BY <1>0, <2>1, <4>1, SetMarkType
      <3>2. CASE ~(who[t] \in member)
        BY <1>0, <1>21, <3>2 DEF CommitMark, TypeOK, badges
      <3> QED
        BY <3>1, <3>2
    <2> QED
      BY <1>0, <1>21, <2>2 DEF CommitMark, Finish, Goto, TypeOK, log, counts
  <1>22. ASSUME NEW t \in Tx, CommitReceipt(t)
        PROVE  TypeOK'
    <2>1. num[t] \in 0 .. MaxSeq
      BY <1>0, <1>22 DEF CommitReceipt, TypeOK, NumbersStand
    <2>2. /\ lastRead' \in [User -> 0 .. MaxSeq] /\ unread' \in [User -> Nat]
          /\ blurred' \subseteq User /\ joined' = joined
      <3>1. CASE who[t] \in member /\ lastRead[who[t]] <= num[t]
        <4>1. who[t] \in User /\ SetMark(who[t], num[t])
          BY <1>0, <1>22, <3>1 DEF CommitReceipt, TypeOK
        <4> QED
          BY <1>0, <2>1, <4>1, SetMarkType
      <3>2. CASE ~(who[t] \in member /\ lastRead[who[t]] <= num[t])
        BY <1>0, <1>22, <3>2 DEF CommitReceipt, TypeOK, badges
      <3> QED
        BY <3>1, <3>2
    <2> QED
      BY <1>0, <1>22, <2>2 DEF CommitReceipt, Finish, Goto, TypeOK, log, counts
  <1>23. ASSUME NEW t \in Tx, Rollback(t)
        PROVE  TypeOK'
    BY <1>0, <1>23 DEF Rollback, Finish, Release, Goto, TypeOK, log, badges
  <1>24. CASE UNCHANGED vars
    BY <1>0, <1>24 DEF TypeOK, vars, log, badges, counts, local
  <1> QED
    BY <1>1, <1>2, <1>3, <1>4, <1>5, <1>6, <1>7, <1>8, <1>9, <1>10, <1>11, <1>12, <1>13, <1>14,
       <1>15, <1>16, <1>17, <1>18, <1>19, <1>20, <1>21, <1>22, <1>23, <1>24
       DEF Next, Start, Step

\* Whoever took a number holds the counter's row, so that no other commit moves it.
LEMMA NumbersStep ==
    ASSUME ChannelInv, TypeOK', [Next]_vars
    PROVE  NumbersStand'
  <1> USE ChannelAssumption DEF Numbered, Reading, SeqNo, LocksAreOwned
  <1>0. TypeOK /\ NumbersStand /\ LocksAreOwned /\ SeqIsDense
    BY DEF ChannelInv
  <1>1. ASSUME NEW t \in Tx, NEW u \in User, StartPost(t, u)
        PROVE  NumbersStand'
    BY <1>0, <1>1 DEF StartPost, Begin, Goto, TypeOK, NumbersStand, log, badges, counts
  <1>2. ASSUME NEW t \in Tx, NEW u \in User, StartReply(t, u)
        PROVE  NumbersStand'
    BY <1>0, <1>2 DEF StartReply, Begin, Goto, TypeOK, NumbersStand, log, badges, counts
  <1>3. ASSUME NEW t \in Tx, NEW S \in SUBSET User, StartAdd(t, S)
        PROVE  NumbersStand'
    BY <1>0, <1>3 DEF StartAdd, Goto, TypeOK, NumbersStand, log, badges, counts
  <1>4. ASSUME NEW t \in Tx, NEW u \in User, StartRemove(t, u)
        PROVE  NumbersStand'
    BY <1>0, <1>4 DEF StartRemove, Begin, Goto, TypeOK, NumbersStand, log, badges, counts
  <1>5. ASSUME NEW t \in Tx, NEW u \in User, StartMark(t, u)
        PROVE  NumbersStand'
    BY <1>0, <1>5 DEF StartMark, Begin, Goto, TypeOK, NumbersStand, log, badges, counts
  <1>6. ASSUME NEW t \in Tx, NEW u \in User, StartReceipt(t, u)
        PROVE  NumbersStand'
    <2>1. \A s \in SeqNo : author[s] # Absent => s <= current
      <3>1. ASSUME NEW s \in SeqNo, author[s] # Absent
            PROVE  s <= current
        <4>1. s \in {x \in SeqNo : author[x] # Absent}
          BY <3>1
        <4>2. s \in 1 .. current
          BY <1>0, <4>1 DEF SeqIsDense
        <4> QED
          BY <1>0, <4>2 DEF TypeOK
      <3> QED
        BY <3>1
    <2> QED
      BY <1>0, <1>6, <2>1 DEF StartReceipt, Begin, Goto, TypeOK, NumbersStand, log, badges, counts
  <1>7. ASSUME NEW t \in Tx, AutoJoin(t)
        PROVE  NumbersStand'
    BY <1>0, <1>7 DEF AutoJoin, NewMembers, Counting, Goto, TypeOK, NumbersStand, log, badges, counts
  <1>8. ASSUME NEW t \in Tx, TakeSeq(t)
        PROVE  NumbersStand'
    BY <1>0, <1>8 DEF TakeSeq, Acquire, Goto, TypeOK, NumbersStand, log, badges, counts
  <1>9. ASSUME NEW t \in Tx, Insert(t)
        PROVE  NumbersStand'
    BY <1>0, <1>9 DEF Insert, Acquire, Goto, TypeOK, NumbersStand, log, badges, counts
  <1>10. ASSUME NEW t \in Tx, SelectMembers(t)
        PROVE  NumbersStand'
    BY <1>0, <1>10 DEF SelectMembers, Goto, TypeOK, NumbersStand, log, badges, counts
  <1>11. ASSUME NEW t \in Tx, NEW v \in User, LockMember(t, v)
        PROVE  NumbersStand'
    BY <1>0, <1>11 DEF LockMember, Acquire, TypeOK, NumbersStand, log, badges, counts
  <1>12. ASSUME NEW t \in Tx, CommitPost(t)
        PROVE  NumbersStand'
    <2>1. \A x \in Tx : pc[x] \in Numbered => x = t
      BY <1>0, <1>12 DEF CommitPost
    <2> QED
      BY <1>0, <1>12, <2>1 DEF CommitPost, AppendMessage, Finish, Release, Goto, TypeOK, NumbersStand, counts
  <1>13. ASSUME NEW t \in Tx, CommitReply(t)
        PROVE  NumbersStand'
    <2>1. \A x \in Tx : pc[x] \in Numbered => x = t
      BY <1>0, <1>13 DEF CommitReply
    <2> QED
      BY <1>0, <1>13, <2>1 DEF CommitReply, AppendMessage, Finish, Release, Goto, TypeOK, NumbersStand, badges, counts
  <1>14. ASSUME NEW t \in Tx, NEW v \in User, InsertMember(t, v)
        PROVE  NumbersStand'
    BY <1>0, <1>14 DEF InsertMember, Acquire, TypeOK, NumbersStand, log, badges, counts
  <1>15. ASSUME NEW t \in Tx, CountAdd(t)
        PROVE  NumbersStand'
    BY <1>0, <1>15 DEF CountAdd, Goto, TypeOK, NumbersStand, log, badges, counts
  <1>16. ASSUME NEW t \in Tx, CommitAdd(t)
        PROVE  NumbersStand'
    BY <1>0, <1>16 DEF CommitAdd, NewMembers, Counting, Finish, Release, Goto, TypeOK, NumbersStand, log, badges, counts
  <1>17. ASSUME NEW t \in Tx, DeleteMember(t)
        PROVE  NumbersStand'
    BY <1>0, <1>17 DEF DeleteMember, Acquire, Goto, TypeOK, NumbersStand, log, badges, counts
  <1>18. ASSUME NEW t \in Tx, DeleteNothing(t)
        PROVE  NumbersStand'
    BY <1>0, <1>18 DEF DeleteNothing, Finish, Goto, TypeOK, NumbersStand, log, badges, counts
  <1>19. ASSUME NEW t \in Tx, CountRemove(t)
        PROVE  NumbersStand'
    BY <1>0, <1>19 DEF CountRemove, Goto, TypeOK, NumbersStand, log, badges, counts
  <1>20. ASSUME NEW t \in Tx, CommitRemove(t)
        PROVE  NumbersStand'
    BY <1>0, <1>20 DEF CommitRemove, Counting, Finish, Release, Goto, TypeOK, NumbersStand, log, badges, counts
  <1>21. ASSUME NEW t \in Tx, CommitMark(t)
        PROVE  NumbersStand'
    BY <1>0, <1>21 DEF CommitMark, SetMark, Finish, Goto, TypeOK, NumbersStand, log, badges, counts
  <1>22. ASSUME NEW t \in Tx, CommitReceipt(t)
        PROVE  NumbersStand'
    BY <1>0, <1>22 DEF CommitReceipt, SetMark, Finish, Goto, TypeOK, NumbersStand, log, badges, counts
  <1>23. ASSUME NEW t \in Tx, Rollback(t)
        PROVE  NumbersStand'
    BY <1>0, <1>23 DEF Rollback, Finish, Release, Goto, TypeOK, NumbersStand, log, badges, counts
  <1>24. CASE UNCHANGED vars
    BY <1>0, <1>24 DEF NumbersStand, vars, log, badges, counts, local
  <1> QED
    BY <1>1, <1>2, <1>3, <1>4, <1>5, <1>6, <1>7, <1>8, <1>9, <1>10, <1>11, <1>12, <1>13, <1>14,
       <1>15, <1>16, <1>17, <1>18, <1>19, <1>20, <1>21, <1>22, <1>23, <1>24
       DEF Next, Start, Step

LEMMA MarksStep ==
    ASSUME ChannelInv, TypeOK', [Next]_vars
    PROVE  MarksStand'
  <1> USE ChannelAssumption DEF Numbered, Reading, SeqNo, NumbersStand
  <1>0. TypeOK /\ NumbersStand /\ MarksStand /\ PostSeesMembers
    BY DEF ChannelInv
  <1>1. ASSUME NEW t \in Tx, NEW u \in User, StartPost(t, u)
        PROVE  MarksStand'
    BY <1>0, <1>1 DEF StartPost, Begin, Goto, TypeOK, MarksStand, log, badges, counts
  <1>2. ASSUME NEW t \in Tx, NEW u \in User, StartReply(t, u)
        PROVE  MarksStand'
    BY <1>0, <1>2 DEF StartReply, Begin, Goto, TypeOK, MarksStand, log, badges, counts
  <1>3. ASSUME NEW t \in Tx, NEW S \in SUBSET User, StartAdd(t, S)
        PROVE  MarksStand'
    BY <1>0, <1>3 DEF StartAdd, Goto, TypeOK, MarksStand, log, badges, counts
  <1>4. ASSUME NEW t \in Tx, NEW u \in User, StartRemove(t, u)
        PROVE  MarksStand'
    BY <1>0, <1>4 DEF StartRemove, Begin, Goto, TypeOK, MarksStand, log, badges, counts
  <1>5. ASSUME NEW t \in Tx, NEW u \in User, StartMark(t, u)
        PROVE  MarksStand'
    BY <1>0, <1>5 DEF StartMark, Begin, Goto, TypeOK, MarksStand, log, badges, counts
  <1>6. ASSUME NEW t \in Tx, NEW u \in User, StartReceipt(t, u)
        PROVE  MarksStand'
    BY <1>0, <1>6 DEF StartReceipt, Begin, Goto, TypeOK, MarksStand, log, badges, counts
  <1>7. ASSUME NEW t \in Tx, AutoJoin(t)
        PROVE  MarksStand'
    <2>1. CASE who[t] \in member
      BY <1>0, <1>7, <2>1 DEF AutoJoin, Goto, TypeOK, MarksStand, log, badges, counts
    <2>2. CASE who[t] \notin member
      BY <1>0, <1>7, <2>2 DEF AutoJoin, NewMembers, Goto, TypeOK, MarksStand, log
    <2> QED
      BY <2>1, <2>2
  <1>8. ASSUME NEW t \in Tx, TakeSeq(t)
        PROVE  MarksStand'
    BY <1>0, <1>8 DEF TakeSeq, Acquire, Goto, TypeOK, MarksStand, log, badges, counts
  <1>9. ASSUME NEW t \in Tx, Insert(t)
        PROVE  MarksStand'
    BY <1>0, <1>9 DEF Insert, Acquire, Goto, TypeOK, MarksStand, log, badges, counts
  <1>10. ASSUME NEW t \in Tx, SelectMembers(t)
        PROVE  MarksStand'
    BY <1>0, <1>10 DEF SelectMembers, Goto, TypeOK, MarksStand, log, badges, counts
  <1>11. ASSUME NEW t \in Tx, NEW v \in User, LockMember(t, v)
        PROVE  MarksStand'
    BY <1>0, <1>11 DEF LockMember, Acquire, TypeOK, MarksStand, log, badges, counts
  <1>12. ASSUME NEW t \in Tx, CommitPost(t)
        PROVE  MarksStand'
    <2>1. got[t] \subseteq member
      BY <1>0, <1>12 DEF CommitPost, PostSeesMembers
    <2>2. current <= current' /\ UNCHANGED <<lastRead, joined, member>>
      BY <1>0, <1>12 DEF CommitPost, AppendMessage, TypeOK, counts
    <2>3. \A u \in User : u \notin member => unread'[u] = unread[u]
      BY <1>12, <2>1 DEF CommitPost
    <2>4. current' \in Nat /\ \A u \in User : lastRead[u] \in Nat /\ joined[u] \in Nat
      BY <1>0, <1>12 DEF CommitPost, AppendMessage, TypeOK
    <2> QED
      BY <1>0, <2>2, <2>3, <2>4 DEF MarksStand, TypeOK
  <1>13. ASSUME NEW t \in Tx, CommitReply(t)
        PROVE  MarksStand'
    BY <1>0, <1>13 DEF CommitReply, AppendMessage, Finish, Release, Goto, TypeOK, MarksStand, log, badges, counts
  <1>14. ASSUME NEW t \in Tx, NEW v \in User, InsertMember(t, v)
        PROVE  MarksStand'
    BY <1>0, <1>14 DEF InsertMember, Acquire, TypeOK, MarksStand, log, badges, counts
  <1>15. ASSUME NEW t \in Tx, CountAdd(t)
        PROVE  MarksStand'
    BY <1>0, <1>15 DEF CountAdd, Goto, TypeOK, MarksStand, log, badges, counts
  <1>16. ASSUME NEW t \in Tx, CommitAdd(t)
        PROVE  MarksStand'
    BY <1>0, <1>16 DEF CommitAdd, NewMembers, Counting, Finish, Release, Goto, TypeOK, MarksStand, log, badges, counts
  <1>17. ASSUME NEW t \in Tx, DeleteMember(t)
        PROVE  MarksStand'
    BY <1>0, <1>17 DEF DeleteMember, Acquire, Goto, TypeOK, MarksStand, log, badges, counts
  <1>18. ASSUME NEW t \in Tx, DeleteNothing(t)
        PROVE  MarksStand'
    BY <1>0, <1>18 DEF DeleteNothing, Finish, Goto, TypeOK, MarksStand, log, badges, counts
  <1>19. ASSUME NEW t \in Tx, CountRemove(t)
        PROVE  MarksStand'
    BY <1>0, <1>19 DEF CountRemove, Goto, TypeOK, MarksStand, log, badges, counts
  <1>20. ASSUME NEW t \in Tx, CommitRemove(t)
        PROVE  MarksStand'
    BY <1>0, <1>20 DEF CommitRemove, Counting, Finish, Release, Goto, TypeOK, MarksStand, log, badges, counts
  <1>21. ASSUME NEW t \in Tx, CommitMark(t)
        PROVE  MarksStand'
    BY <1>0, <1>21 DEF CommitMark, SetMark, Finish, Goto, TypeOK, MarksStand, log, badges, counts
  <1>22. ASSUME NEW t \in Tx, CommitReceipt(t)
        PROVE  MarksStand'
    BY <1>0, <1>22, SMTT(30) DEF CommitReceipt, SetMark, Finish, Goto, TypeOK, MarksStand, log, badges, counts
  <1>23. ASSUME NEW t \in Tx, Rollback(t)
        PROVE  MarksStand'
    BY <1>0, <1>23 DEF Rollback, Finish, Release, Goto, TypeOK, MarksStand, log, badges, counts
  <1>24. CASE UNCHANGED vars
    BY <1>0, <1>24 DEF MarksStand, vars, log, badges, counts, local
  <1> QED
    BY <1>1, <1>2, <1>3, <1>4, <1>5, <1>6, <1>7, <1>8, <1>9, <1>10, <1>11, <1>12, <1>13, <1>14,
       <1>15, <1>16, <1>17, <1>18, <1>19, <1>20, <1>21, <1>22, <1>23, <1>24
       DEF Next, Start, Step

LEMMA DenseStep ==
    ASSUME ChannelInv, TypeOK', [Next]_vars
    PROVE  SeqIsDense'
  <1> USE ChannelAssumption DEF Numbered, Adding, SeqNo, NumbersStand
  <1>0. TypeOK /\ NumbersStand /\ SeqIsDense
    BY DEF ChannelInv
  <1>1. ASSUME NEW t \in Tx, NEW u \in User, StartPost(t, u)
        PROVE  SeqIsDense'
    BY <1>0, <1>1 DEF StartPost, Begin, Goto, TypeOK, SeqIsDense, log, badges, counts
  <1>2. ASSUME NEW t \in Tx, NEW u \in User, StartReply(t, u)
        PROVE  SeqIsDense'
    BY <1>0, <1>2 DEF StartReply, Begin, Goto, TypeOK, SeqIsDense, log, badges, counts
  <1>3. ASSUME NEW t \in Tx, NEW S \in SUBSET User, StartAdd(t, S)
        PROVE  SeqIsDense'
    BY <1>0, <1>3 DEF StartAdd, Goto, TypeOK, SeqIsDense, log, badges, counts
  <1>4. ASSUME NEW t \in Tx, NEW u \in User, StartRemove(t, u)
        PROVE  SeqIsDense'
    BY <1>0, <1>4 DEF StartRemove, Begin, Goto, TypeOK, SeqIsDense, log, badges, counts
  <1>5. ASSUME NEW t \in Tx, NEW u \in User, StartMark(t, u)
        PROVE  SeqIsDense'
    BY <1>0, <1>5 DEF StartMark, Begin, Goto, TypeOK, SeqIsDense, log, badges, counts
  <1>6. ASSUME NEW t \in Tx, NEW u \in User, StartReceipt(t, u)
        PROVE  SeqIsDense'
    BY <1>0, <1>6 DEF StartReceipt, Begin, Goto, TypeOK, SeqIsDense, log, badges, counts
  <1>7. ASSUME NEW t \in Tx, AutoJoin(t)
        PROVE  SeqIsDense'
    BY <1>0, <1>7 DEF AutoJoin, NewMembers, Counting, Goto, TypeOK, SeqIsDense, log, badges, counts
  <1>8. ASSUME NEW t \in Tx, TakeSeq(t)
        PROVE  SeqIsDense'
    BY <1>0, <1>8 DEF TakeSeq, Acquire, Goto, TypeOK, SeqIsDense, log, badges, counts
  <1>9. ASSUME NEW t \in Tx, Insert(t)
        PROVE  SeqIsDense'
    BY <1>0, <1>9 DEF Insert, Acquire, Goto, TypeOK, SeqIsDense, log, badges, counts
  <1>10. ASSUME NEW t \in Tx, SelectMembers(t)
        PROVE  SeqIsDense'
    BY <1>0, <1>10 DEF SelectMembers, Goto, TypeOK, SeqIsDense, log, badges, counts
  <1>11. ASSUME NEW t \in Tx, NEW v \in User, LockMember(t, v)
        PROVE  SeqIsDense'
    BY <1>0, <1>11 DEF LockMember, Acquire, TypeOK, SeqIsDense, log, badges, counts
  <1>12. ASSUME NEW t \in Tx, CommitPost(t)
        PROVE  SeqIsDense'
    <2>1. who[t] \in User /\ num[t] = current + 1 /\ num[t] \in SeqNo /\ current \in Nat
      <3>1. pc[t] = "bump"
        BY <1>12 DEF CommitPost
      <3>2. who[t] \in User
        BY <1>0, <3>1, BusyHasUser
      <3>3. current \in Nat /\ num[t] = current + 1 /\ num[t] <= MaxSeq
        BY <1>0, <3>1 DEF TypeOK
      <3> QED
        BY <3>2, <3>3
    <2>2. current' = num[t] /\ \A s \in SeqNo : author'[s] = IF s = num[t] THEN who[t] ELSE author[s]
      BY <1>0, <1>12, <2>1 DEF CommitPost, AppendMessage, TypeOK
    <2>3. {s \in SeqNo : author'[s] # Absent} = {s \in SeqNo : author[s] # Absent} \cup {num[t]}
      BY <2>1, <2>2
    <2>4. 1 .. current' = (1 .. current) \cup {num[t]}
      BY <2>1, <2>2
    <2> QED
      BY <1>0, <2>3, <2>4 DEF SeqIsDense
  <1>13. ASSUME NEW t \in Tx, CommitReply(t)
        PROVE  SeqIsDense'
    BY <1>0, <1>13 DEF CommitReply, AppendMessage, Finish, Release, Goto, TypeOK, SeqIsDense, log, badges, counts
  <1>14. ASSUME NEW t \in Tx, NEW v \in User, InsertMember(t, v)
        PROVE  SeqIsDense'
    BY <1>0, <1>14 DEF InsertMember, Acquire, TypeOK, SeqIsDense, log, badges, counts
  <1>15. ASSUME NEW t \in Tx, CountAdd(t)
        PROVE  SeqIsDense'
    BY <1>0, <1>15 DEF CountAdd, Goto, TypeOK, SeqIsDense, log, badges, counts
  <1>16. ASSUME NEW t \in Tx, CommitAdd(t)
        PROVE  SeqIsDense'
    BY <1>0, <1>16 DEF CommitAdd, NewMembers, Counting, Finish, Release, Goto, TypeOK, SeqIsDense, log, badges, counts
  <1>17. ASSUME NEW t \in Tx, DeleteMember(t)
        PROVE  SeqIsDense'
    BY <1>0, <1>17 DEF DeleteMember, Acquire, Goto, TypeOK, SeqIsDense, log, badges, counts
  <1>18. ASSUME NEW t \in Tx, DeleteNothing(t)
        PROVE  SeqIsDense'
    BY <1>0, <1>18 DEF DeleteNothing, Finish, Goto, TypeOK, SeqIsDense, log, badges, counts
  <1>19. ASSUME NEW t \in Tx, CountRemove(t)
        PROVE  SeqIsDense'
    BY <1>0, <1>19 DEF CountRemove, Goto, TypeOK, SeqIsDense, log, badges, counts
  <1>20. ASSUME NEW t \in Tx, CommitRemove(t)
        PROVE  SeqIsDense'
    BY <1>0, <1>20 DEF CommitRemove, Counting, Finish, Release, Goto, TypeOK, SeqIsDense, log, badges, counts
  <1>21. ASSUME NEW t \in Tx, CommitMark(t)
        PROVE  SeqIsDense'
    BY <1>0, <1>21 DEF CommitMark, SetMark, Finish, Goto, TypeOK, SeqIsDense, log, badges, counts
  <1>22. ASSUME NEW t \in Tx, CommitReceipt(t)
        PROVE  SeqIsDense'
    BY <1>0, <1>22 DEF CommitReceipt, SetMark, Finish, Goto, TypeOK, SeqIsDense, log, badges, counts
  <1>23. ASSUME NEW t \in Tx, Rollback(t)
        PROVE  SeqIsDense'
    BY <1>0, <1>23 DEF Rollback, Finish, Release, Goto, TypeOK, SeqIsDense, log, badges, counts
  <1>24. CASE UNCHANGED vars
    BY <1>0, <1>24 DEF SeqIsDense, vars, log, badges, counts, local
  <1> QED
    BY <1>1, <1>2, <1>3, <1>4, <1>5, <1>6, <1>7, <1>8, <1>9, <1>10, <1>11, <1>12, <1>13, <1>14,
       <1>15, <1>16, <1>17, <1>18, <1>19, <1>20, <1>21, <1>22, <1>23, <1>24
       DEF Next, Start, Step

LEMMA PostSeesStep ==
    ASSUME ChannelInv, TypeOK', [Next]_vars
    PROVE  PostSeesMembers'
  <1> USE ChannelAssumption DEF Numbered, Adding, LocksAreOwned
  <1>0. TypeOK /\ LocksAreOwned /\ PostSeesMembers
    BY DEF ChannelInv
  <1>1. ASSUME NEW t \in Tx, NEW u \in User, StartPost(t, u)
        PROVE  PostSeesMembers'
    BY <1>0, <1>1 DEF StartPost, Begin, Goto, TypeOK, PostSeesMembers, log, badges, counts
  <1>2. ASSUME NEW t \in Tx, NEW u \in User, StartReply(t, u)
        PROVE  PostSeesMembers'
    BY <1>0, <1>2 DEF StartReply, Begin, Goto, TypeOK, PostSeesMembers, log, badges, counts
  <1>3. ASSUME NEW t \in Tx, NEW S \in SUBSET User, StartAdd(t, S)
        PROVE  PostSeesMembers'
    BY <1>0, <1>3 DEF StartAdd, Goto, TypeOK, PostSeesMembers, log, badges, counts
  <1>4. ASSUME NEW t \in Tx, NEW u \in User, StartRemove(t, u)
        PROVE  PostSeesMembers'
    BY <1>0, <1>4 DEF StartRemove, Begin, Goto, TypeOK, PostSeesMembers, log, badges, counts
  <1>5. ASSUME NEW t \in Tx, NEW u \in User, StartMark(t, u)
        PROVE  PostSeesMembers'
    BY <1>0, <1>5 DEF StartMark, Begin, Goto, TypeOK, PostSeesMembers, log, badges, counts
  <1>6. ASSUME NEW t \in Tx, NEW u \in User, StartReceipt(t, u)
        PROVE  PostSeesMembers'
    BY <1>0, <1>6 DEF StartReceipt, Begin, Goto, TypeOK, PostSeesMembers, log, badges, counts
  <1>7. ASSUME NEW t \in Tx, AutoJoin(t)
        PROVE  PostSeesMembers'
    BY <1>0, <1>7 DEF AutoJoin, NewMembers, Counting, Goto, TypeOK, PostSeesMembers, log, badges, counts
  <1>8. ASSUME NEW t \in Tx, TakeSeq(t)
        PROVE  PostSeesMembers'
    BY <1>0, <1>8 DEF TakeSeq, Acquire, Goto, TypeOK, PostSeesMembers, log, badges, counts
  <1>9. ASSUME NEW t \in Tx, Insert(t)
        PROVE  PostSeesMembers'
    BY <1>0, <1>9 DEF Insert, Acquire, Goto, TypeOK, PostSeesMembers, log, badges, counts
  <1>10. ASSUME NEW t \in Tx, SelectMembers(t)
        PROVE  PostSeesMembers'
    BY <1>0, <1>10 DEF SelectMembers, Goto, TypeOK, PostSeesMembers, log, badges, counts
  <1>11. ASSUME NEW t \in Tx, NEW v \in User, LockMember(t, v)
        PROVE  PostSeesMembers'
    BY <1>0, <1>11 DEF LockMember, Acquire, TypeOK, PostSeesMembers, log, badges, counts
  <1>12. ASSUME NEW t \in Tx, CommitPost(t)
        PROVE  PostSeesMembers'
    BY <1>0, <1>12 DEF CommitPost, AppendMessage, Finish, Release, Goto, TypeOK, PostSeesMembers, log, badges, counts
  <1>13. ASSUME NEW t \in Tx, CommitReply(t)
        PROVE  PostSeesMembers'
    BY <1>0, <1>13 DEF CommitReply, AppendMessage, Finish, Release, Goto, TypeOK, PostSeesMembers, log, badges, counts
  <1>14. ASSUME NEW t \in Tx, NEW v \in User, InsertMember(t, v)
        PROVE  PostSeesMembers'
    BY <1>0, <1>14 DEF InsertMember, Acquire, TypeOK, PostSeesMembers, log, badges, counts
  <1>15. ASSUME NEW t \in Tx, CountAdd(t)
        PROVE  PostSeesMembers'
    BY <1>0, <1>15 DEF CountAdd, Goto, TypeOK, PostSeesMembers, log, badges, counts
  <1>16. ASSUME NEW t \in Tx, CommitAdd(t)
        PROVE  PostSeesMembers'
    BY <1>0, <1>16 DEF CommitAdd, NewMembers, Counting, Finish, Release, Goto, TypeOK, PostSeesMembers, log, badges, counts
  <1>17. ASSUME NEW t \in Tx, DeleteMember(t)
        PROVE  PostSeesMembers'
    BY <1>0, <1>17 DEF DeleteMember, Acquire, Goto, TypeOK, PostSeesMembers, log, badges, counts
  <1>18. ASSUME NEW t \in Tx, DeleteNothing(t)
        PROVE  PostSeesMembers'
    BY <1>0, <1>18 DEF DeleteNothing, Finish, Goto, TypeOK, PostSeesMembers, log, badges, counts
  <1>19. ASSUME NEW t \in Tx, CountRemove(t)
        PROVE  PostSeesMembers'
    BY <1>0, <1>19 DEF CountRemove, Goto, TypeOK, PostSeesMembers, log, badges, counts
  <1>20. ASSUME NEW t \in Tx, CommitRemove(t)
        PROVE  PostSeesMembers'
    BY <1>0, <1>20 DEF CommitRemove, Counting, Finish, Release, Goto, TypeOK, PostSeesMembers, log, badges, counts
  <1>21. ASSUME NEW t \in Tx, CommitMark(t)
        PROVE  PostSeesMembers'
    BY <1>0, <1>21 DEF CommitMark, SetMark, Finish, Goto, TypeOK, PostSeesMembers, log, badges, counts
  <1>22. ASSUME NEW t \in Tx, CommitReceipt(t)
        PROVE  PostSeesMembers'
    BY <1>0, <1>22 DEF CommitReceipt, SetMark, Finish, Goto, TypeOK, PostSeesMembers, log, badges, counts
  <1>23. ASSUME NEW t \in Tx, Rollback(t)
        PROVE  PostSeesMembers'
    BY <1>0, <1>23 DEF Rollback, Finish, Release, Goto, TypeOK, PostSeesMembers, log, badges, counts
  <1>24. CASE UNCHANGED vars
    BY <1>0, <1>24 DEF PostSeesMembers, vars, log, badges, counts, local
  <1> QED
    BY <1>1, <1>2, <1>3, <1>4, <1>5, <1>6, <1>7, <1>8, <1>9, <1>10, <1>11, <1>12, <1>13, <1>14,
       <1>15, <1>16, <1>17, <1>18, <1>19, <1>20, <1>21, <1>22, <1>23, <1>24
       DEF Next, Start, Step

LEMMA LocksStep ==
    ASSUME ChannelInv, TypeOK', [Next]_vars
    PROVE  LocksAreOwned'
  <1> USE ChannelAssumption DEF Numbered, Adding, Resource, PostSeesMembers
  <1>0. TypeOK /\ PostSeesMembers /\ LocksAreOwned
    BY DEF ChannelInv
  <1>1. ASSUME NEW t \in Tx, NEW u \in User, StartPost(t, u)
        PROVE  LocksAreOwned'
    BY <1>0, <1>1 DEF StartPost, Begin, Goto, TypeOK, LocksAreOwned, log, badges, counts
  <1>2. ASSUME NEW t \in Tx, NEW u \in User, StartReply(t, u)
        PROVE  LocksAreOwned'
    BY <1>0, <1>2 DEF StartReply, Begin, Goto, TypeOK, LocksAreOwned, log, badges, counts
  <1>3. ASSUME NEW t \in Tx, NEW S \in SUBSET User, StartAdd(t, S)
        PROVE  LocksAreOwned'
    BY <1>0, <1>3 DEF StartAdd, Goto, TypeOK, LocksAreOwned, log, badges, counts
  <1>4. ASSUME NEW t \in Tx, NEW u \in User, StartRemove(t, u)
        PROVE  LocksAreOwned'
    BY <1>0, <1>4 DEF StartRemove, Begin, Goto, TypeOK, LocksAreOwned, log, badges, counts
  <1>5. ASSUME NEW t \in Tx, NEW u \in User, StartMark(t, u)
        PROVE  LocksAreOwned'
    BY <1>0, <1>5 DEF StartMark, Begin, Goto, TypeOK, LocksAreOwned, log, badges, counts
  <1>6. ASSUME NEW t \in Tx, NEW u \in User, StartReceipt(t, u)
        PROVE  LocksAreOwned'
    BY <1>0, <1>6 DEF StartReceipt, Begin, Goto, TypeOK, LocksAreOwned, log, badges, counts
  <1>7. ASSUME NEW t \in Tx, AutoJoin(t)
        PROVE  LocksAreOwned'
    BY <1>0, <1>7 DEF AutoJoin, NewMembers, Counting, Goto, TypeOK, LocksAreOwned, log, badges, counts
  <1>8. ASSUME NEW t \in Tx, TakeSeq(t)
        PROVE  LocksAreOwned'
    BY <1>0, <1>8 DEF TakeSeq, Acquire, Goto, TypeOK, LocksAreOwned, log, badges, counts
  <1>9. ASSUME NEW t \in Tx, Insert(t)
        PROVE  LocksAreOwned'
    BY <1>0, <1>9 DEF Insert, Acquire, Goto, TypeOK, LocksAreOwned, log, badges, counts
  <1>10. ASSUME NEW t \in Tx, SelectMembers(t)
        PROVE  LocksAreOwned'
    BY <1>0, <1>10 DEF SelectMembers, Goto, TypeOK, LocksAreOwned, log, badges, counts
  <1>11. ASSUME NEW t \in Tx, NEW v \in User, LockMember(t, v)
        PROVE  LocksAreOwned'
    BY <1>0, <1>11 DEF LockMember, Acquire, TypeOK, LocksAreOwned, log, badges, counts
  <1>12. ASSUME NEW t \in Tx, CommitPost(t)
        PROVE  LocksAreOwned'
    BY <1>0, <1>12 DEF CommitPost, AppendMessage, Finish, Release, Goto, TypeOK, LocksAreOwned, log, badges, counts
  <1>13. ASSUME NEW t \in Tx, CommitReply(t)
        PROVE  LocksAreOwned'
    BY <1>0, <1>13 DEF CommitReply, AppendMessage, Finish, Release, Goto, TypeOK, LocksAreOwned, log, badges, counts
  <1>14. ASSUME NEW t \in Tx, NEW v \in User, InsertMember(t, v)
        PROVE  LocksAreOwned'
    BY <1>0, <1>14 DEF InsertMember, Acquire, TypeOK, LocksAreOwned, log, badges, counts
  <1>15. ASSUME NEW t \in Tx, CountAdd(t)
        PROVE  LocksAreOwned'
    BY <1>0, <1>15 DEF CountAdd, Goto, TypeOK, LocksAreOwned, log, badges, counts
  <1>16. ASSUME NEW t \in Tx, CommitAdd(t)
        PROVE  LocksAreOwned'
    BY <1>0, <1>16 DEF CommitAdd, NewMembers, Finish, Release, Goto, TypeOK, LocksAreOwned, log
  <1>17. ASSUME NEW t \in Tx, DeleteMember(t)
        PROVE  LocksAreOwned'
    BY <1>0, <1>17 DEF DeleteMember, Acquire, Goto, TypeOK, LocksAreOwned, log, badges, counts
  <1>18. ASSUME NEW t \in Tx, DeleteNothing(t)
        PROVE  LocksAreOwned'
    BY <1>0, <1>18 DEF DeleteNothing, Finish, Goto, TypeOK, LocksAreOwned, log, badges, counts
  <1>19. ASSUME NEW t \in Tx, CountRemove(t)
        PROVE  LocksAreOwned'
    BY <1>0, <1>19 DEF CountRemove, Goto, TypeOK, LocksAreOwned, log, badges, counts
  <1>20. ASSUME NEW t \in Tx, CommitRemove(t)
        PROVE  LocksAreOwned'
    BY <1>0, <1>20 DEF CommitRemove, Counting, Finish, Release, Goto, TypeOK, LocksAreOwned, log, badges, counts
  <1>21. ASSUME NEW t \in Tx, CommitMark(t)
        PROVE  LocksAreOwned'
    BY <1>0, <1>21 DEF CommitMark, SetMark, Finish, Goto, TypeOK, LocksAreOwned, log, badges, counts
  <1>22. ASSUME NEW t \in Tx, CommitReceipt(t)
        PROVE  LocksAreOwned'
    BY <1>0, <1>22 DEF CommitReceipt, SetMark, Finish, Goto, TypeOK, LocksAreOwned, log, badges, counts
  <1>23. ASSUME NEW t \in Tx, Rollback(t)
        PROVE  LocksAreOwned'
    BY <1>0, <1>23 DEF Rollback, Finish, Release, Goto, TypeOK, LocksAreOwned, log, badges, counts
  <1>24. CASE UNCHANGED vars
    BY <1>0, <1>24 DEF LocksAreOwned, vars, log, badges, counts, local
  <1> QED
    BY <1>1, <1>2, <1>3, <1>4, <1>5, <1>6, <1>7, <1>8, <1>9, <1>10, <1>11, <1>12, <1>13, <1>14,
       <1>15, <1>16, <1>17, <1>18, <1>19, <1>20, <1>21, <1>22, <1>23, <1>24
       DEF Next, Start, Step

\* No COUNT(*) that is up to date is touched, nor what it counted.
CountsUntouched ==
  \A x \in Tx \ old' : pc'[x] \in {"addChannel", "removeChannel"} =>
    /\ x \notin old /\ pc'[x] = pc[x]
    /\ UNCHANGED <<member, who[x], num[x], got[x]>>

LEMMA CountsKept ==
    ASSUME CountsStand, CountsUntouched
    PROVE  CountsStand'
  BY DEF CountsUntouched, CountsStand

LEMMA CountsStep ==
    ASSUME ChannelInv, TypeOK', [Next]_vars
    PROVE  CountsStand'
  <1> USE ChannelAssumption DEF CountsUntouched, Resource
  <1>0. TypeOK /\ LocksAreOwned /\ CountsStand
    BY DEF ChannelInv
  <1>1. ASSUME NEW t \in Tx, NEW u \in User, StartPost(t, u)
        PROVE  CountsStand'
    <2>1. CountsUntouched
      BY <1>0, <1>1 DEF StartPost, Begin, Goto, TypeOK, log, badges, counts
    <2> QED
      BY <1>0, <2>1, CountsKept
  <1>2. ASSUME NEW t \in Tx, NEW u \in User, StartReply(t, u)
        PROVE  CountsStand'
    <2>1. CountsUntouched
      BY <1>0, <1>2 DEF StartReply, Begin, Goto, TypeOK, log, badges, counts
    <2> QED
      BY <1>0, <2>1, CountsKept
  <1>3. ASSUME NEW t \in Tx, NEW S \in SUBSET User, StartAdd(t, S)
        PROVE  CountsStand'
    <2>1. CountsUntouched
      BY <1>0, <1>3 DEF StartAdd, Goto, TypeOK, log, badges, counts
    <2> QED
      BY <1>0, <2>1, CountsKept
  <1>4. ASSUME NEW t \in Tx, NEW u \in User, StartRemove(t, u)
        PROVE  CountsStand'
    <2>1. CountsUntouched
      BY <1>0, <1>4 DEF StartRemove, Begin, Goto, TypeOK, log, badges, counts
    <2> QED
      BY <1>0, <2>1, CountsKept
  <1>5. ASSUME NEW t \in Tx, NEW u \in User, StartMark(t, u)
        PROVE  CountsStand'
    <2>1. CountsUntouched
      BY <1>0, <1>5 DEF StartMark, Begin, Goto, TypeOK, log, badges, counts
    <2> QED
      BY <1>0, <2>1, CountsKept
  <1>6. ASSUME NEW t \in Tx, NEW u \in User, StartReceipt(t, u)
        PROVE  CountsStand'
    <2>1. CountsUntouched
      BY <1>0, <1>6 DEF StartReceipt, Begin, Goto, TypeOK, log, badges, counts
    <2> QED
      BY <1>0, <2>1, CountsKept
  <1>7. ASSUME NEW t \in Tx, AutoJoin(t)
        PROVE  CountsStand'
    <2>1. CASE who[t] \in member
      <3>1. CountsUntouched
        BY <1>0, <1>7, <2>1 DEF AutoJoin, Goto, TypeOK, counts
      <3> QED
        BY <1>0, <3>1, CountsKept
    <2>2. CASE who[t] \notin member
      BY <1>0, <1>7, <2>2 DEF AutoJoin, Counting, Goto, TypeOK, CountsStand
    <2> QED
      BY <2>1, <2>2
  <1>8. ASSUME NEW t \in Tx, TakeSeq(t)
        PROVE  CountsStand'
    <2>1. CountsUntouched
      BY <1>0, <1>8 DEF TakeSeq, Acquire, Goto, TypeOK, log, badges, counts
    <2> QED
      BY <1>0, <2>1, CountsKept
  <1>9. ASSUME NEW t \in Tx, Insert(t)
        PROVE  CountsStand'
    <2>1. CountsUntouched
      BY <1>0, <1>9 DEF Insert, Acquire, Goto, TypeOK, log, badges, counts
    <2> QED
      BY <1>0, <2>1, CountsKept
  <1>10. ASSUME NEW t \in Tx, SelectMembers(t)
        PROVE  CountsStand'
    <2>1. CountsUntouched
      BY <1>0, <1>10 DEF SelectMembers, Goto, TypeOK, log, badges, counts
    <2> QED
      BY <1>0, <2>1, CountsKept
  <1>11. ASSUME NEW t \in Tx, NEW v \in User, LockMember(t, v)
        PROVE  CountsStand'
    <2>1. CountsUntouched
      BY <1>0, <1>11 DEF LockMember, Acquire, TypeOK, log, badges, counts
    <2> QED
      BY <1>0, <2>1, CountsKept
  <1>12. ASSUME NEW t \in Tx, CommitPost(t)
        PROVE  CountsStand'
    <2>1. CountsUntouched
      BY <1>0, <1>12 DEF CommitPost, AppendMessage, Finish, Release, Goto, TypeOK, log, badges, counts
    <2> QED
      BY <1>0, <2>1, CountsKept
  <1>13. ASSUME NEW t \in Tx, CommitReply(t)
        PROVE  CountsStand'
    <2>1. CountsUntouched
      BY <1>0, <1>13 DEF CommitReply, AppendMessage, Finish, Release, Goto, TypeOK, log, badges, counts
    <2> QED
      BY <1>0, <2>1, CountsKept
  <1>14. ASSUME NEW t \in Tx, NEW v \in User, InsertMember(t, v)
        PROVE  CountsStand'
    <2>1. CountsUntouched
      BY <1>0, <1>14 DEF InsertMember, Acquire, TypeOK, log, badges, counts
    <2> QED
      BY <1>0, <2>1, CountsKept
  <1>15. ASSUME NEW t \in Tx, CountAdd(t)
        PROVE  CountsStand'
    BY <1>0, <1>15 DEF CountAdd, Goto, TypeOK, CountsStand, counts
  <1>16. ASSUME NEW t \in Tx, CommitAdd(t)
        PROVE  CountsStand'
    <2>1. CASE got[t] = {}
      <3>1. member' = member /\ old' = old \ {t}
        BY <1>16, <2>1 DEF CommitAdd, NewMembers
      <3>2. CountsUntouched
        BY <1>0, <1>16, <3>1 DEF CommitAdd, Finish, Goto, TypeOK
      <3> QED
        BY <1>0, <3>2, CountsKept
    <2>2. CASE got[t] # {}
      BY <1>0, <1>16, <2>2 DEF CommitAdd, Counting, Finish, Goto, TypeOK, CountsStand
    <2> QED
      BY <2>1, <2>2
  <1>17. ASSUME NEW t \in Tx, DeleteMember(t)
        PROVE  CountsStand'
    <2>1. CountsUntouched
      BY <1>0, <1>17 DEF DeleteMember, Acquire, Goto, TypeOK, log, badges, counts
    <2> QED
      BY <1>0, <2>1, CountsKept
  <1>18. ASSUME NEW t \in Tx, DeleteNothing(t)
        PROVE  CountsStand'
    <2>1. CountsUntouched
      BY <1>0, <1>18 DEF DeleteNothing, Finish, Goto, TypeOK, log, badges, counts
    <2> QED
      BY <1>0, <2>1, CountsKept
  <1>19. ASSUME NEW t \in Tx, CountRemove(t)
        PROVE  CountsStand'
    BY <1>0, <1>19 DEF CountRemove, Goto, TypeOK, CountsStand, counts
  <1>20. ASSUME NEW t \in Tx, CommitRemove(t)
        PROVE  CountsStand'
    BY <1>0, <1>20 DEF CommitRemove, Counting, Finish, Goto, TypeOK, CountsStand
  <1>21. ASSUME NEW t \in Tx, CommitMark(t)
        PROVE  CountsStand'
    <2>1. CountsUntouched
      BY <1>0, <1>21 DEF CommitMark, SetMark, Finish, Goto, TypeOK, log, badges, counts
    <2> QED
      BY <1>0, <2>1, CountsKept
  <1>22. ASSUME NEW t \in Tx, CommitReceipt(t)
        PROVE  CountsStand'
    <2>1. CountsUntouched
      BY <1>0, <1>22 DEF CommitReceipt, SetMark, Finish, Goto, TypeOK, log, badges, counts
    <2> QED
      BY <1>0, <2>1, CountsKept
  <1>23. ASSUME NEW t \in Tx, Rollback(t)
        PROVE  CountsStand'
    <2>1. CountsUntouched
      BY <1>0, <1>23 DEF Rollback, Finish, Release, Goto, TypeOK, log, badges, counts
    <2> QED
      BY <1>0, <2>1, CountsKept
  <1>24. CASE UNCHANGED vars
    BY <1>0, <1>24 DEF CountsStand, vars, log, badges, counts, local
  <1> QED
    BY <1>1, <1>2, <1>3, <1>4, <1>5, <1>6, <1>7, <1>8, <1>9, <1>10, <1>11, <1>12, <1>13, <1>14,
       <1>15, <1>16, <1>17, <1>18, <1>19, <1>20, <1>21, <1>22, <1>23, <1>24
       DEF Next, Start, Step

\* member_count is written from an up-to-date COUNT(*) or declared out of date.
LEMMA CountStep ==
    ASSUME ChannelInv, TypeOK', [Next]_vars
    PROVE  CountIsMembers'
  <1>0. TypeOK /\ CountsStand /\ CountIsMembers
    BY DEF ChannelInv
  <1>1. ASSUME UNCHANGED <<member, count, drift>>
        PROVE  CountIsMembers'
    BY <1>0, <1>1 DEF CountIsMembers
  <1>2. ASSUME NEW t \in Tx, AutoJoin(t)
        PROVE  CountIsMembers'
    <2>1. CASE who[t] \in member
      BY <1>1, <1>2, <2>1 DEF AutoJoin, counts
    <2>2. CASE who[t] \notin member
      BY <1>2, <2>2 DEF AutoJoin, CountIsMembers
    <2> QED
      BY <2>1, <2>2
  <1>3. ASSUME NEW t \in Tx, CommitAdd(t)
        PROVE  CountIsMembers'
    BY <1>0, <1>3 DEF CommitAdd, NewMembers, CountsStand, CountIsMembers
  <1>4. ASSUME NEW t \in Tx, CommitRemove(t)
        PROVE  CountIsMembers'
    BY <1>0, <1>4 DEF CommitRemove, CountsStand, CountIsMembers
  <1>5. ASSUME NEW t \in Tx, Start(t)
        PROVE  UNCHANGED <<member, count, drift>>
    BY <1>5 DEF Start, StartPost, StartReply, StartAdd, StartRemove, StartMark, StartReceipt, counts
  <1>6. ASSUME NEW t \in Tx, Step(t), ~AutoJoin(t), ~CommitAdd(t), ~CommitRemove(t)
        PROVE  UNCHANGED <<member, count, drift>>
    BY <1>6 DEF Step, TakeSeq, Insert, SelectMembers, LockMember, CommitPost, CommitReply, InsertMember,
       CountAdd, DeleteMember, DeleteNothing, CountRemove, CommitMark, CommitReceipt, counts
  <1>7. ASSUME NEW t \in Tx, Rollback(t)
        PROVE  UNCHANGED <<member, count, drift>>
    BY <1>7 DEF Rollback
  <1>8. CASE UNCHANGED vars
    BY <1>1, <1>8 DEF vars, counts
  <1> QED
    BY <1>1, <1>2, <1>3, <1>4, <1>5, <1>6, <1>7, <1>8 DEF Next

LEMMA MissedIsFinite ==
    ASSUME NEW u, NEW n
    PROVE  /\ IsFiniteSet(MissedAfter(u, n)) /\ Cardinality(MissedAfter(u, n)) \in Nat
           /\ IsFiniteSet(Missed(u)) /\ Cardinality(Missed(u)) \in Nat
  <1>1. IsFiniteSet(SeqNo)
    BY ChannelAssumption, FS_Interval DEF SeqNo
  <1>2. MissedAfter(u, n) \subseteq SeqNo /\ Missed(u) \subseteq SeqNo
    BY DEF Missed, MissedAfter, Others
  <1> QED
    BY <1>1, <1>2, FS_Subset, FS_CardinalityType

\* A new message is one more that everyone else has missed.
LEMMA OneMoreMissed ==
    ASSUME ChannelInv, NEW t \in Tx, CommitPost(t), NEW u \in User
    PROVE  IF u = who[t] THEN Missed(u)' = Missed(u)
           ELSE Cardinality(Missed(u)') = Cardinality(Missed(u)) + 1
  <1>1. TypeOK /\ NumbersStand /\ SeqIsDense /\ MarksStand
    BY DEF ChannelInv
  <1> DEFINE n == num[t]
  <1>2. n = current + 1 /\ n \in SeqNo /\ who[t] \in User
    <2>1. n = current + 1 /\ n \in SeqNo
      BY <1>1, ChannelAssumption DEF CommitPost, NumbersStand, Numbered, TypeOK, SeqNo
    <2>2. who[t] \in User
      BY <1>1, BusyHasUser DEF CommitPost, Adding
    <2> QED
      BY <2>1, <2>2
  <1>3. author[n] = Absent
    <2>1. n \notin 1 .. current
      BY <1>1, <1>2 DEF TypeOK
    <2>2. n \notin {s \in SeqNo : author[s] # Absent}
      BY <1>1, <2>1 DEF SeqIsDense
    <2> QED
      BY <1>2, <2>2
  <1>4. author' = [author EXCEPT ![n] = who[t]] /\ UNCHANGED <<lastRead, joined>>
    BY DEF CommitPost, AppendMessage
  <1>5. n > lastRead[u] /\ n > joined[u]
    BY <1>1, <1>2 DEF MarksStand, TypeOK, SeqNo
  <1> HIDE DEF n
  <1>6. \A s \in SeqNo : author'[s] = IF s = n THEN who[t] ELSE author[s]
    BY <1>1, <1>2, <1>4 DEF TypeOK
  <1>7. n \notin Missed(u)
    BY <1>3, ChannelAssumption DEF Missed, MissedAfter, Others
  <1>8. CASE u = who[t]
    BY <1>2, <1>3, <1>4, <1>6, <1>8, ChannelAssumption DEF Missed, MissedAfter, Others
  <1>9. CASE u # who[t]
    <2>1. Missed(u)' = Missed(u) \cup {n}
      <3>1. \A s \in SeqNo : s \in Missed(u)' <=> s \in Missed(u) \/ s = n
        BY <1>2, <1>4, <1>5, <1>6, <1>9 DEF Missed, MissedAfter, Others
      <3>2. Missed(u)' \subseteq SeqNo /\ Missed(u) \subseteq SeqNo
        BY DEF Missed, MissedAfter, Others
      <3> QED
        BY <1>2, <3>1, <3>2
    <2> QED
      BY <1>7, <1>9, <2>1, MissedIsFinite, FS_AddElement
  <1> QED
    BY <1>8, <1>9

\* Whoever has just become a member has missed nothing.
LEMMA NewMembersMissedNone ==
    ASSUME ChannelInv, NEW S, S \subseteq User, NewMembers(S), UNCHANGED <<log, lastRead>>
    PROVE  /\ \A u \in S : Missed(u)' = {}
           /\ \A v \in User \ S : Missed(v)' = Missed(v)
  <1>1. TypeOK /\ SeqIsDense
    BY DEF ChannelInv
  <1>2. \A u \in User : joined'[u] = IF u \in S THEN current ELSE joined[u]
    BY DEF NewMembers
  <1>3. author' = author /\ lastRead' = lastRead /\ current \in Nat
    BY <1>1 DEF log, TypeOK
  <1>4. \A s \in SeqNo : author[s] # Absent => ~(s > current)
    <2>1. ASSUME NEW s \in SeqNo, author[s] # Absent
          PROVE  ~(s > current)
      <3>1. s \in {x \in SeqNo : author[x] # Absent}
        BY <2>1
      <3>2. s \in 1 .. current
        BY <1>1, <3>1 DEF SeqIsDense
      <3> QED
        BY <1>3, <3>2
    <2> QED
      BY <2>1
  <1>5. ASSUME NEW u \in S
        PROVE  Missed(u)' = {}
    BY <1>2, <1>3, <1>4, ChannelAssumption DEF Missed, MissedAfter, Others
  <1>6. ASSUME NEW v \in User \ S
        PROVE  Missed(v)' = Missed(v)
    BY <1>2, <1>3 DEF Missed, MissedAfter, Others
  <1> QED
    BY <1>5, <1>6

\* A read mark at n leaves the messages after n.
LEMMA MarkMisses ==
    ASSUME TypeOK, NEW u \in User, NEW n \in 0 .. MaxSeq, SetMark(u, n), UNCHANGED author
    PROVE  Missed(u)' = MissedAfter(u, n) /\ \A v \in User \ {u} : Missed(v)' = Missed(v)
  <1>1. /\ lastRead'[u] = n /\ UNCHANGED joined
        /\ \A v \in User \ {u} : lastRead'[v] = lastRead[v]
    BY DEF SetMark, TypeOK
  <1> QED
    BY <1>1 DEF Missed, MissedAfter, Others

LEMMA BadgeAfterMark ==
    ASSUME ChannelInv, NEW u \in User, NEW n \in 0 .. MaxSeq, SetMark(u, n), UNCHANGED <<author, member>>
    PROVE  BadgeIsRight'
  <1>1. TypeOK /\ BadgeIsRight
    BY DEF ChannelInv
  <1>2. Missed(u)' = MissedAfter(u, n) /\ \A v \in User \ {u} : Missed(v)' = Missed(v)
    BY <1>1, MarkMisses
  <1>3. unread'[u] = 0 /\ \A v \in User \ {u} : unread'[v] = unread[v]
    BY <1>1 DEF SetMark, TypeOK
  <1>4. ASSUME NEW v \in member, v # u
        PROVE  /\ unread'[v] <= Cardinality(Missed(v)')
               /\ v \notin blurred' => unread'[v] = Cardinality(Missed(v)')
    <2>1. v \in User /\ (v \notin blurred' => v \notin blurred)
      BY <1>1, <1>4 DEF SetMark, TypeOK
    <2> QED
      BY <1>1, <1>2, <1>3, <1>4, <2>1 DEF BadgeIsRight
  <1>5. unread'[u] <= Cardinality(Missed(u)')
    BY <1>2, <1>3, MissedIsFinite
  <1>6. u \notin blurred' => unread'[u] = Cardinality(Missed(u)')
    <2>1. u \notin blurred' => MissedAfter(u, n) = {}
      BY DEF SetMark
    <2> QED
      BY <1>2, <1>3, <2>1, FS_EmptySet
  <1> QED
    BY <1>4, <1>5, <1>6 DEF BadgeIsRight

LEMMA BadgeAfterJoin ==
    ASSUME ChannelInv, NEW S, S \subseteq User \ member, NewMembers(S),
           UNCHANGED <<log, lastRead, unread, blurred>>
    PROVE  BadgeIsRight'
  <1>1. TypeOK /\ BadgeIsRight /\ MarksStand
    BY DEF ChannelInv
  <1>2. /\ \A u \in S : Missed(u)' = {}
        /\ \A v \in User \ S : Missed(v)' = Missed(v)
    BY NewMembersMissedNone
  <1>3. Cardinality({}) = 0
    BY FS_EmptySet
  <1>4. member' = member \cup S /\ member \subseteq User
    BY <1>1 DEF NewMembers, TypeOK
  <1>5. ASSUME NEW v \in member
        PROVE  /\ unread'[v] <= Cardinality(Missed(v)')
               /\ v \notin blurred' => unread'[v] = Cardinality(Missed(v)')
    BY <1>1, <1>2, <1>4, <1>5 DEF BadgeIsRight
  <1>6. ASSUME NEW u \in S
        PROVE  unread'[u] = 0 /\ Cardinality(Missed(u)') = 0
    BY <1>1, <1>2, <1>3 DEF MarksStand
  <1> QED
    BY <1>4, <1>5, <1>6 DEF BadgeIsRight

LEMMA BadgeStep ==
    ASSUME ChannelInv, TypeOK', [Next]_vars
    PROVE  BadgeIsRight'
  <1>0. TypeOK /\ LocksAreOwned /\ NumbersStand /\ PostSeesMembers /\ BadgeIsRight
    BY DEF ChannelInv
  <1>1. ASSUME UNCHANGED <<author, badges, member>>
        PROVE  BadgeIsRight'
    BY <1>0, <1>1 DEF BadgeIsRight, Missed, MissedAfter, Others, badges
  <1>2. ASSUME NEW t \in Tx, AutoJoin(t)
        PROVE  BadgeIsRight'
    <2>1. CASE who[t] \in member
      BY <1>1, <1>2, <2>1 DEF AutoJoin, counts, log
    <2>2. CASE who[t] \notin member
      <3>1. who[t] \in User /\ {who[t]} \subseteq User \ member
        BY <1>0, <1>2, <2>2, BusyHasUser DEF AutoJoin, Adding
      <3> QED
        BY <1>2, <2>2, <3>1, BadgeAfterJoin DEF AutoJoin
    <2> QED
      BY <2>1, <2>2
  <1>3. ASSUME NEW t \in Tx, CommitPost(t)
        PROVE  BadgeIsRight'
    <2>1. /\ member' = member /\ todo[t] = {} /\ pc[t] = "bump"
          /\ blurred' = blurred \cup ((member \cap walkIn) \ (got[t] \cup {who[t]}))
          /\ \A u \in User : unread'[u] = IF u \in got[t] THEN unread[u] + 1 ELSE unread[u]
      BY <1>3 DEF CommitPost, counts
    <2>2. got[t] \subseteq member \ {who[t]} /\ member \ walkIn \subseteq got[t] \cup {who[t]}
      BY <1>0, <2>1 DEF PostSeesMembers
    <2>3. ASSUME NEW u \in member
          PROVE  /\ unread'[u] <= Cardinality(Missed(u)')
                 /\ u \notin blurred' => unread'[u] = Cardinality(Missed(u)')
      <3>1. u \in User /\ unread[u] \in Nat /\ Cardinality(Missed(u)) \in Nat
        BY <1>0, MissedIsFinite DEF TypeOK
      <3>2. /\ unread[u] <= Cardinality(Missed(u))
            /\ u \notin blurred => unread[u] = Cardinality(Missed(u))
        BY <1>0 DEF BadgeIsRight
      <3>3. CASE u = who[t]
        <4>1. Missed(u)' = Missed(u)
          BY <1>3, <3>1, <3>3, OneMoreMissed
        <4>2. unread'[u] = unread[u] /\ (u \notin blurred' => u \notin blurred)
          BY <2>1, <2>2, <3>1, <3>3
        <4> QED
          BY <3>2, <4>1, <4>2
      <3>4. CASE u # who[t]
        <4>1. Cardinality(Missed(u)') = Cardinality(Missed(u)) + 1
          BY <1>3, <3>1, <3>4, OneMoreMissed
        <4>2. CASE u \in got[t]
          <5>1. unread'[u] = unread[u] + 1 /\ (u \notin blurred' => u \notin blurred)
            BY <2>1, <3>1, <4>2
          <5> QED
            BY <3>1, <3>2, <4>1, <5>1
        <4>3. CASE u \notin got[t]
          <5>1. unread'[u] = unread[u] /\ u \in blurred'
            BY <2>1, <2>2, <3>1, <3>4, <4>3
          <5> QED
            BY <3>1, <3>2, <4>1, <5>1
        <4> QED
          BY <4>2, <4>3
      <3> QED
        BY <3>3, <3>4
    <2> QED
      BY <2>1, <2>3 DEF BadgeIsRight
  <1>4. ASSUME NEW t \in Tx, CommitReply(t)
        PROVE  BadgeIsRight'
    <2>1. num[t] \in SeqNo /\ num[t] = current + 1
      BY <1>0, <1>4, ChannelAssumption DEF CommitReply, NumbersStand, Numbered, TypeOK, SeqNo
    <2>2. author[num[t]] \notin User
      <3>1. num[t] \notin 1 .. current
        BY <1>0, <2>1 DEF TypeOK
      <3>2. num[t] \notin {s \in SeqNo : author[s] # Absent}
        BY <3>1 DEF ChannelInv, SeqIsDense
      <3> QED
        BY <2>1, <3>2, ChannelAssumption
    <2>3. \A s \in SeqNo : \A u : author'[s] \in User \ {u} <=> author[s] \in User \ {u}
      BY <1>0, <1>4, <2>2, ChannelAssumption DEF CommitReply, AppendMessage, TypeOK
    <2>4. \A u : Others(u)' = Others(u)
      BY <2>3 DEF Others
    <2>5. UNCHANGED <<member, lastRead, unread, joined, blurred>>
      BY <1>4 DEF CommitReply, badges, counts
    <2>6. \A u : Missed(u)' = Missed(u)
      BY <2>4, <2>5 DEF Missed, MissedAfter
    <2> QED
      BY <1>0, <2>5, <2>6 DEF BadgeIsRight
  <1>5. ASSUME NEW t \in Tx, CommitAdd(t)
        PROVE  BadgeIsRight'
    <2>1. got[t] \subseteq User \ member
      BY <1>0, <1>5 DEF CommitAdd, LocksAreOwned, TypeOK
    <2> QED
      BY <1>5, <2>1, BadgeAfterJoin DEF CommitAdd
  <1>6. ASSUME NEW t \in Tx, CommitRemove(t)
        PROVE  BadgeIsRight'
    <2>1. ASSUME NEW v \in User, v # who[t]
          PROVE  /\ Missed(v)' = Missed(v) /\ unread'[v] = unread[v]
                 /\ (v \notin blurred' => v \notin blurred)
      BY <1>0, <1>6, <2>1 DEF CommitRemove, TypeOK, log, Missed, MissedAfter, Others
    <2>2. member' = member \ {who[t]} /\ member \subseteq User
      BY <1>0, <1>6 DEF CommitRemove, TypeOK
    <2> QED
      BY <1>0, <2>1, <2>2 DEF BadgeIsRight
  <1>7. ASSUME NEW t \in Tx, CommitMark(t)
        PROVE  BadgeIsRight'
    <2>1. CASE who[t] \in member
      <3>1. who[t] \in User /\ num[t] \in 0 .. MaxSeq /\ SetMark(who[t], num[t])
        <4>1. num[t] \in Nat /\ num[t] <= current /\ current \in 0 .. MaxSeq /\ member \subseteq User
          BY <1>0, <1>7 DEF CommitMark, TypeOK, NumbersStand, Reading
        <4>2. num[t] \in 0 .. MaxSeq
          BY <4>1, ChannelAssumption
        <4>3. SetMark(who[t], num[t])
          BY <1>7, <2>1 DEF CommitMark
        <4> QED
          BY <2>1, <4>1, <4>2, <4>3
      <3> QED
        BY <1>7, <3>1, BadgeAfterMark DEF CommitMark, log, counts
    <2>2. CASE who[t] \notin member
      BY <1>1, <1>7, <2>2 DEF CommitMark, log, counts
    <2> QED
      BY <2>1, <2>2
  <1>8. ASSUME NEW t \in Tx, CommitReceipt(t)
        PROVE  BadgeIsRight'
    <2>1. CASE who[t] \in member /\ lastRead[who[t]] <= num[t]
      <3>1. who[t] \in User /\ num[t] \in 0 .. MaxSeq /\ SetMark(who[t], num[t])
        <4>1. num[t] \in Nat /\ num[t] <= current /\ current \in 0 .. MaxSeq /\ member \subseteq User
          BY <1>0, <1>8 DEF CommitReceipt, TypeOK, NumbersStand, Reading
        <4>2. num[t] \in 0 .. MaxSeq
          BY <4>1, ChannelAssumption
        <4>3. SetMark(who[t], num[t])
          BY <1>8, <2>1 DEF CommitReceipt
        <4> QED
          BY <2>1, <4>1, <4>2, <4>3
      <3> QED
        BY <1>8, <3>1, BadgeAfterMark DEF CommitReceipt, log, counts
    <2>2. CASE ~(who[t] \in member /\ lastRead[who[t]] <= num[t])
      BY <1>1, <1>8, <2>2 DEF CommitReceipt, log, counts
    <2> QED
      BY <2>1, <2>2
  <1>9. ASSUME NEW t \in Tx, Start(t)
        PROVE  UNCHANGED <<author, badges, member>>
    BY <1>9 DEF Start, StartPost, StartReply, StartAdd, StartRemove, StartMark, StartReceipt, log, counts
  <1>10. ASSUME NEW t \in Tx, Step(t), ~AutoJoin(t), ~CommitPost(t), ~CommitReply(t), ~CommitAdd(t),
                ~CommitRemove(t), ~CommitMark(t), ~CommitReceipt(t)
         PROVE  UNCHANGED <<author, badges, member>>
    BY <1>10 DEF Step, TakeSeq, Insert, SelectMembers, LockMember, InsertMember, CountAdd, DeleteMember,
       DeleteNothing, CountRemove, log, counts
  <1>11. ASSUME NEW t \in Tx, Rollback(t)
         PROVE  UNCHANGED <<author, badges, member>>
    BY <1>11 DEF Rollback, log
  <1>12. CASE UNCHANGED vars
    BY <1>1, <1>12 DEF vars, log, counts
  <1> QED
    BY <1>1, <1>2, <1>3, <1>4, <1>5, <1>6, <1>7, <1>8, <1>9, <1>10, <1>11, <1>12 DEF Next

LEMMA InitInv == Init => ChannelInv
  <1> SUFFICES ASSUME Init
               PROVE  ChannelInv
    OBVIOUS
  <1> USE ChannelAssumption DEF Init, Created
  <1>1. count \in Nat
    BY CountOf
  <1>2. TypeOK
    <2>1. /\ current \in 0 .. MaxSeq
          /\ author \in [SeqNo -> User \cup {Absent, InThread}]
          /\ lastRead \in [User -> 0 .. MaxSeq] /\ joined \in [User -> 0 .. MaxSeq]
          /\ unread \in [User -> Nat]
      OBVIOUS
    <2>2. /\ pc \in [Tx -> {"idle"} \cup Posting \cup Adding \cup Removing \cup Reading]
          /\ who \in [Tx -> User \cup {Absent}]
          /\ \A t \in Tx : pc[t] = "idle" <=> who[t] = Absent
          /\ num \in [Tx -> Nat] /\ todo \in [Tx -> SUBSET User] /\ got \in [Tx -> SUBSET User]
          /\ lock \in [Resource -> Tx \cup {Free}]
      OBVIOUS
    <2> QED
      BY <1>1, <2>1, <2>2 DEF TypeOK, Adding
  <1>3. LocksAreOwned
    BY DEF LocksAreOwned, Resource, Numbered, Adding
  <1>4. NumbersStand /\ PostSeesMembers /\ MarksStand /\ CountsStand /\ CountIsMembers
    <2>1. NumbersStand /\ MarksStand
      BY DEF NumbersStand, Numbered, Reading, MarksStand
    <2>2. PostSeesMembers /\ CountsStand
      BY DEF PostSeesMembers, CountsStand
    <2>3. CountIsMembers
      BY DEF CountIsMembers
    <2> QED
      BY <2>1, <2>2, <2>3
  <1>5. SeqIsDense
    BY DEF SeqIsDense, SeqNo
  <1>6. \A u \in User : Missed(u) = {}
    BY DEF Missed, MissedAfter, Others, SeqNo
  <1>7. BadgeIsRight
    <2>1. Cardinality({}) = 0
      BY FS_EmptySet
    <2> SUFFICES ASSUME NEW u \in member
                 PROVE  /\ unread[u] <= Cardinality(Missed(u))
                        /\ u \notin blurred => unread[u] = Cardinality(Missed(u))
      BY DEF BadgeIsRight
    <2>2. u \in User
      BY <1>2 DEF TypeOK
    <2>3. unread[u] = 0
      BY <2>2
    <2>4. Cardinality(Missed(u)) = 0
      BY <1>6, <2>1, <2>2
    <2> QED
      BY <2>3, <2>4
  <1> QED
    BY <1>2, <1>3, <1>4, <1>5, <1>7 DEF ChannelInv

LEMMA NextInv == ChannelInv /\ [Next]_vars => ChannelInv'
  <1> SUFFICES ASSUME ChannelInv, [Next]_vars
               PROVE  ChannelInv'
    OBVIOUS
  <1>1. TypeOK'
    BY TypeStep
  <1>2. NumbersStand' /\ MarksStand' /\ SeqIsDense'
    BY <1>1, NumbersStep, MarksStep, DenseStep
  <1>3. PostSeesMembers' /\ LocksAreOwned' /\ CountsStand'
    BY <1>1, PostSeesStep, LocksStep, CountsStep
  <1>4. CountIsMembers' /\ BadgeIsRight'
    BY <1>1, CountStep, BadgeStep
  <1> QED
    BY <1>1, <1>2, <1>3, <1>4 DEF ChannelInv

\* The locks, the numbers and the counters stay consistent with each other.
THEOREM ChannelInvariant == Spec => []ChannelInv
  <1> QED
    BY InitInv, NextInv, PTL DEF Spec

-----------------------------------------------------------------------------
(* Each commit is one operation of the atomic channel, on the state it finds;*)
(* the other statements change nothing that the channel's members see.       *)

LEMMA PostIsAtomic ==
  ASSUME ChannelInv, NEW t \in Tx, CommitPost(t)
  PROVE  \E u \in User, S \in SUBSET User : Atomic!Post(u, S)
  <1>1. pc[t] = "bump" /\ todo[t] = {} /\ AppendMessage(t, who[t])
    BY DEF CommitPost
  <1>2. who[t] \in User
    BY <1>1, BusyHasUser DEF ChannelInv, Adding
  <1>3. num[t] = current + 1 /\ num[t] <= MaxSeq
    BY <1>1 DEF ChannelInv, NumbersStand, Numbered
  <1>4. Atomic!Append(who[t])
    BY <1>1, <1>3 DEF Atomic!Append, AppendMessage
  <1>5. got[t] \subseteq member \ {who[t]} /\ member \ walkIn \subseteq got[t] \cup {who[t]}
    BY <1>1 DEF ChannelInv, PostSeesMembers
  <1>6. got[t] \in SUBSET User
    BY DEF ChannelInv, TypeOK
  <1>7. /\ unread' = [u \in User |-> IF u \in got[t] THEN unread[u] + 1 ELSE unread[u]]
        /\ UNCHANGED <<lastRead, member, walkIn>>
    BY DEF CommitPost, counts
  <1> QED
    BY <1>2, <1>4, <1>5, <1>6, <1>7 DEF Atomic!Post

LEMMA ReplyIsAtomic ==
  ASSUME ChannelInv, NEW t \in Tx, CommitReply(t)
  PROVE  Atomic!Reply
  <1>1. pc[t] = "reply" /\ AppendMessage(t, InThread) /\ UNCHANGED <<badges, counts>>
    BY DEF CommitReply
  <1>2. num[t] = current + 1 /\ num[t] <= MaxSeq
    BY <1>1 DEF ChannelInv, NumbersStand, Numbered
  <1>3. Atomic!Append(InThread)
    BY <1>1, <1>2 DEF Atomic!Append, AppendMessage
  <1> QED
    BY <1>1, <1>3 DEF Atomic!Reply, Atomic!marks, badges, counts

LEMMA EnteringIsAtomic ==
  ASSUME NEW S \in SUBSET User, S # {}, S \cap member = {}, NewMembers(S),
         walkIn' \in {walkIn, walkIn \cup S}, UNCHANGED <<log, lastRead, unread>>
  PROVE  Atomic!Enter(S)
  BY DEF Atomic!Enter, Atomic!messages, Atomic!marks, NewMembers, log

LEMMA ReadingIsAtomic ==
  ASSUME ChannelInv, NEW t \in Tx, CommitMark(t) \/ CommitReceipt(t)
  PROVE  (\E u \in User, n \in 0 .. MaxSeq : Atomic!Read(u, n)) \/ UNCHANGED Atomic!vars
  <1>1. pc[t] \in {"mark", "receipt"} /\ UNCHANGED <<log, counts>>
    BY DEF CommitMark, CommitReceipt
  <1>2. who[t] \in User
    BY <1>1, BusyHasUser DEF ChannelInv, Adding
  <1>3. num[t] \in 0 .. current /\ num[t] \in 0 .. MaxSeq
    BY <1>1, ChannelAssumption DEF ChannelInv, NumbersStand, Reading, TypeOK
  <1>4. CASE who[t] \in member /\ SetMark(who[t], num[t])
    <2>1. Atomic!Read(who[t], num[t])
      BY <1>1, <1>3, <1>4 DEF Atomic!Read, Atomic!messages, SetMark, log, counts
    <2> QED
      BY <1>2, <1>3, <2>1
  <1>5. CASE UNCHANGED badges
    BY <1>1, <1>5 DEF Atomic!vars, Atomic!messages, Atomic!marks, badges, log, counts
  <1> QED
    BY <1>4, <1>5 DEF CommitMark, CommitReceipt

LEMMA MembershipIsAtomic ==
  ASSUME ChannelInv, NEW t \in Tx, AutoJoin(t) \/ CommitAdd(t) \/ CommitRemove(t)
  PROVE  \/ \E S \in SUBSET User : Atomic!Enter(S)
         \/ \E u \in User : Atomic!Leave(u)
         \/ UNCHANGED Atomic!vars
  <1> DEFINE u == who[t]
  <1>1. TypeOK /\ UNCHANGED log
    BY DEF ChannelInv, AutoJoin, CommitAdd, CommitRemove
  <1>3. CASE AutoJoin(t)
    <2>1. CASE u \in member
      BY <1>1, <1>3, <2>1 DEF AutoJoin, Atomic!vars, Atomic!messages, Atomic!marks, badges, log, counts
    <2>2. CASE u \notin member
      <3>1. {u} \in SUBSET User /\ {u} # {} /\ {u} \cap member = {}
        BY <1>1, <1>3, <2>2, BusyHasUser DEF AutoJoin, Adding
      <3>2. /\ NewMembers({u}) /\ walkIn' \in {walkIn, walkIn \cup {u}}
            /\ UNCHANGED <<log, lastRead, unread>>
        BY <1>3, <2>2 DEF AutoJoin
      <3> HIDE DEF u
      <3>3. Atomic!Enter({u})
        BY <3>1, <3>2, EnteringIsAtomic
      <3> QED
        BY <3>1, <3>3
    <2> QED
      BY <2>1, <2>2
  <1>4. CASE CommitAdd(t)
    <2>1. NewMembers(got[t]) /\ UNCHANGED <<log, lastRead, unread, walkIn>>
      BY <1>4 DEF CommitAdd
    <2>2. got[t] \in SUBSET User /\ got[t] \cap member = {}
      BY <1>1, <1>4 DEF CommitAdd, ChannelInv, LocksAreOwned, TypeOK
    <2>3. CASE got[t] = {}
      <3>1. UNCHANGED member
        BY <2>1, <2>3 DEF NewMembers
      <3> QED
        BY <2>1, <3>1 DEF Atomic!vars, Atomic!messages, Atomic!marks, log
    <2>4. CASE got[t] # {}
      <3>1. Atomic!Enter(got[t])
        BY <2>1, <2>2, <2>4, EnteringIsAtomic
      <3> QED
        BY <2>2, <3>1
    <2> QED
      BY <2>3, <2>4
  <1>5. CASE CommitRemove(t)
    <2>0. pc[t] = "removeChannel" /\ u \in User
      BY <1>1, <1>5, BusyHasUser DEF CommitRemove, Adding
    <2>1. u \in member
      BY <2>0 DEF ChannelInv, LocksAreOwned
    <2>2. Atomic!Leave(u)
      BY <1>1, <1>5, <2>1 DEF CommitRemove, Atomic!Leave, Atomic!messages, log
    <2> QED
      BY <2>0, <2>2
  <1> QED
    BY <1>3, <1>4, <1>5

LEMMA AtomicStep == ChannelInv /\ [Next]_vars => [Atomic!Next]_(Atomic!vars)
  <1> SUFFICES ASSUME ChannelInv, [Next]_vars
               PROVE  [Atomic!Next]_(Atomic!vars)
    OBVIOUS
  <1>1. ASSUME NEW t \in Tx, CommitPost(t)
        PROVE  Atomic!Next
    BY <1>1, PostIsAtomic DEF Atomic!Next
  <1>2. ASSUME NEW t \in Tx, CommitReply(t)
        PROVE  Atomic!Next
    BY <1>2, ReplyIsAtomic DEF Atomic!Next
  <1>3. ASSUME NEW t \in Tx, CommitMark(t) \/ CommitReceipt(t)
        PROVE  [Atomic!Next]_(Atomic!vars)
    BY <1>3, ReadingIsAtomic DEF Atomic!Next
  <1>4. ASSUME NEW t \in Tx, AutoJoin(t) \/ CommitAdd(t) \/ CommitRemove(t)
        PROVE  [Atomic!Next]_(Atomic!vars)
    BY <1>4, MembershipIsAtomic DEF Atomic!Next
  <1>5. CASE UNCHANGED <<log, lastRead, unread, member, walkIn>>
    BY <1>5 DEF Atomic!vars, Atomic!messages, Atomic!marks, log
  <1>6. ASSUME NEW t \in Tx, Start(t) \/ Rollback(t)
        PROVE  UNCHANGED <<log, lastRead, unread, member, walkIn>>
    BY <1>6 DEF Start, StartPost, StartReply, StartAdd, StartRemove, StartMark, StartReceipt,
                Rollback, badges, counts
  <1>7. ASSUME NEW t \in Tx,
               \/ TakeSeq(t) \/ Insert(t) \/ SelectMembers(t)
               \/ \E v \in User : LockMember(t, v) \/ InsertMember(t, v)
               \/ CountAdd(t)
               \/ DeleteMember(t) \/ DeleteNothing(t) \/ CountRemove(t)
        PROVE  UNCHANGED <<log, lastRead, unread, member, walkIn>>
    BY <1>7 DEF TakeSeq, Insert, SelectMembers, LockMember, InsertMember, CountAdd,
                DeleteMember, DeleteNothing, CountRemove, badges, counts
  <1>8. CASE UNCHANGED vars
    BY <1>5, <1>8 DEF vars, badges, counts
  <1> QED
    BY <1>1, <1>2, <1>3, <1>4, <1>5, <1>6, <1>7, <1>8 DEF Next, Step

LEMMA InitAtomic == Init => Atomic!Init
  BY DEF Init, Created, Atomic!Init, SeqNo

-----------------------------------------------------------------------------
(* Who can wait for whom.                                                  *)

\* Steps that need a lock while they hold none.
Arriving == {"join", "delete", "mark", "receipt", "seq", "replySeq"}

\* Whoever holds a lock that others than additions and arriving requests wait for.
Settling == {x \in Tx : pc[x] \notin Arriving \cup {"add"}}

\* A set of requests that t is not in, and that whoever waits never leaves.
LEMMA NotDeadlocked ==
    ASSUME NEW t \in Tx, NEW S \in SUBSET Tx, t \notin S,
           WaitsFor(t) \subseteq S, \A x \in S : WaitsFor(x) \subseteq S
    PROVE  ~Deadlocked(t)
  BY DEF Deadlocked

\* What the holder of each lock is doing.
LEMMA HoldersOf ==
    ASSUME ChannelInv, NEW x \in Tx
    PROVE  /\ lock["seq"] = x => pc[x] \in Numbered
           /\ lock["channel"] = x => pc[x] \in {"select", "bump", "reply"}
           /\ \A v \in User : lock[v] = x =>
                \/ pc[x] = "bump" /\ v \in got[x]
                \/ pc[x] \in {"removeCount", "removeChannel"} /\ v = who[x]
                \/ pc[x] \in {"add", "addChannel"} /\ v \in got[x] /\ v \notin member
           /\ \A r \in Resource : lock[r] = x => pc[x] \notin Arriving
  <1>1. LocksAreOwned
    BY DEF ChannelInv
  <1> QED
    BY <1>1, ChannelAssumption DEF LocksAreOwned, Numbered, Arriving, Adding, Resource

LEMMA NeedsAreResources ==
    ASSUME TypeOK, NEW x \in Tx
    PROVE  Needs(x) \subseteq Resource
  <1>1. CASE pc[x] = "join"
    BY <1>1, BusyHasUser DEF Needs, Adding
  <1>2. CASE pc[x] # "join"
    BY <1>2 DEF Needs, TypeOK, Resource
  <1> QED
    BY <1>1, <1>2

\* A post waits for no addition: the rows an addition has inserted are no members'.
LEMMA SettlingIsClosed ==
    ASSUME ChannelInv
    PROVE  \A x \in Settling : WaitsFor(x) \subseteq Settling
  <1> SUFFICES ASSUME NEW x \in Settling, NEW y \in WaitsFor(x)
               PROVE  y \in Settling
    OBVIOUS
  <1>0. x \in Tx /\ y \in Tx
    BY DEF Settling, WaitsFor
  <1>1. PICK r \in Needs(x) : lock[r] = y
    BY DEF WaitsFor
  <1>2. CASE pc[x] = "bump"
    <2>1. r \in User /\ r \in member
      BY <1>0, <1>1, <1>2 DEF Needs, ChannelInv, PostSeesMembers, TypeOK
    <2>2. pc[y] = "bump" \/ pc[y] \in {"removeCount", "removeChannel"}
      BY <1>0, <1>1, <2>1, HoldersOf
    <2> QED
      BY <1>0, <2>2 DEF Settling, Arriving
  <1>3. CASE pc[x] # "bump"
    <2>1. r = "channel"
      BY <1>0, <1>1, <1>3 DEF Needs, Settling, Arriving
    <2>2. pc[y] \in {"select", "bump", "reply"}
      BY <1>0, <1>1, <2>1, HoldersOf
    <2> QED
      BY <1>0, <2>2 DEF Settling, Arriving
  <1> QED
    BY <1>2, <1>3

\* Whoever waits, waits for additions and settling requests.
LEMMA WaitsForHolders ==
    ASSUME ChannelInv, NEW x \in Tx
    PROVE  WaitsFor(x) \subseteq Settling \cup {y \in Tx : pc[y] = "add"}
  <1>1. TypeOK
    BY DEF ChannelInv
  <1>2. \A y \in WaitsFor(x) : y \in Tx /\ pc[y] \notin Arriving
    BY <1>1, HoldersOf, NeedsAreResources DEF WaitsFor
  <1> QED
    BY <1>2 DEF Settling

\* An addition in a deadlock waits for an addition, and one waits for it.
LEMMA AddingRing ==
    ASSUME ChannelInv, NEW t \in Tx, pc[t] = "add", Deadlocked(t)
    PROVE  \E x, y \in Tx : /\ pc[x] = "add" /\ pc[y] = "add"
                            /\ todo[t] \cap got[x] # {}
                            /\ todo[y] \cap got[t] # {}
  <1> DEFINE A == {y \in Tx : pc[y] = "add"}
  <1>0. TypeOK /\ PostSeesMembers /\ LocksAreOwned
    BY DEF ChannelInv
  <1>1. Settling \subseteq Tx /\ t \notin Settling
    BY DEF Settling
  <1>2. \A x, y \in A : x \in WaitsFor(y) => todo[y] \cap got[x] # {}
    <2> SUFFICES ASSUME NEW x \in A, NEW y \in A, x \in WaitsFor(y)
                 PROVE  todo[y] \cap got[x] # {}
      OBVIOUS
    <2>1. PICK v \in todo[y] : lock[v] = x
      BY DEF WaitsFor, Needs
    <2>2. v \in User
      BY <1>0, <2>1 DEF TypeOK
    <2>3. v \in got[x]
      BY <2>1, <2>2, HoldersOf
    <2> QED
      BY <2>1, <2>3
  <1>3. PICK x \in A : x \in WaitsFor(t)
    <2>1. ~(WaitsFor(t) \subseteq Settling)
      BY <1>1, SettlingIsClosed, NotDeadlocked
    <2> QED
      BY <2>1, WaitsForHolders
  <1>4. PICK y \in A : t \in WaitsFor(y)
    <2> DEFINE S == Settling \cup (A \ {t})
    <2>1. SUFFICES ASSUME \A y \in A : t \notin WaitsFor(y)
                   PROVE  FALSE
      OBVIOUS
    <2>2. WaitsFor(t) \subseteq S
      BY <2>1, WaitsForHolders
    <2>3. \A y \in S : WaitsFor(y) \subseteq S
      <3>1. \A y \in Settling : WaitsFor(y) \subseteq S
        BY SettlingIsClosed
      <3>2. \A y \in A : WaitsFor(y) \subseteq S
        BY <2>1, WaitsForHolders
      <3> QED
        BY <3>1, <3>2
    <2>4. S \in SUBSET Tx /\ t \notin S
      BY <1>1
    <2> HIDE DEF S
    <2> QED
      BY <2>2, <2>3, <2>4, NotDeadlocked
  <1> QED
    BY <1>2, <1>3, <1>4

\* A deadlock is a post against the removal of a member it counts, or a ring of
\* additions.
LEMMA DeadlockKinds == ChannelInv => DeadlocksAreKnown
  <1> SUFFICES ASSUME ChannelInv, NEW t \in Tx, pc[t] # "add",
                      ~ \E p, r \in Tx : /\ t \in {p, r}
                                         /\ pc[p] = "bump" /\ pc[r] = "removeChannel"
                                         /\ who[r] \in todo[p]
               PROVE  ~Deadlocked(t)
    BY AddingRing DEF DeadlocksAreKnown
  <1>0. TypeOK /\ PostSeesMembers
    BY DEF ChannelInv
  <1>1. CASE pc[t] \in {"idle", "select", "reply", "removeCount"}
    <2>1. WaitsFor(t) = {}
      BY <1>1 DEF WaitsFor, Needs
    <2> QED
      BY <2>1, NotDeadlocked
  <1>2. CASE pc[t] \in Arriving
    <2>1. \A x \in Tx : t \notin WaitsFor(x)
      BY <1>0, <1>2, HoldersOf, NeedsAreResources DEF WaitsFor
    <2>2. \A x \in Tx : WaitsFor(x) \subseteq Tx \ {t}
      BY <2>1 DEF WaitsFor
    <2> QED
      BY <2>2, NotDeadlocked
  <1>3. CASE pc[t] \in {"insert", "replyInsert", "addChannel", "removeChannel"}
    <2> DEFINE S == Settling \ {t}
    <2>2. lock["channel"] # t
      BY <1>3, HoldersOf
    <2>3. ASSUME NEW x \in Settling
          PROVE  t \notin WaitsFor(x)
      <3>1. CASE pc[x] = "bump"
        <4>1. todo[x] \subseteq member /\ todo[x] \subseteq User /\ x \in Tx
          BY <1>0, <3>1 DEF PostSeesMembers, TypeOK, Settling
        <4>2. \A v \in todo[x] : lock[v] # t
          BY <1>3, <3>1, <4>1, HoldersOf
        <4> QED
          BY <3>1, <4>2 DEF WaitsFor, Needs
      <3>2. CASE pc[x] # "bump"
        BY <2>2, <2>3, <3>2 DEF WaitsFor, Needs, Settling, Arriving
      <3> QED
        BY <3>1, <3>2
    <2>4. t \in Settling
      BY <1>3 DEF Settling, Arriving
    <2>5. WaitsFor(t) \subseteq S /\ \A x \in S : WaitsFor(x) \subseteq S
      BY <2>3, <2>4, SettlingIsClosed
    <2>6. S \in SUBSET Tx /\ t \notin S
      BY DEF Settling
    <2> HIDE DEF S
    <2> QED
      BY <2>5, <2>6, NotDeadlocked
  <1>4. CASE pc[t] = "bump"
    <2> DEFINE S == {x \in Tx : pc[x] = "removeCount"}
    <2>1. \A x \in S : WaitsFor(x) = {}
      BY DEF WaitsFor, Needs
    <2>2. ASSUME NEW x \in WaitsFor(t)
          PROVE  x \in S
      <3>1. PICK v \in todo[t] : lock[v] = x
        BY <1>4, <2>2 DEF WaitsFor, Needs
      <3>2. x \in Tx /\ v \in User /\ v \in member /\ v \notin got[t]
        BY <1>0, <1>4, <2>2, <3>1 DEF WaitsFor, PostSeesMembers, TypeOK
      <3>3. ~(pc[x] = "bump" /\ v \in got[x])
        <4>1. pc[x] = "bump" => x = t
          BY <1>4, <3>2 DEF ChannelInv, LocksAreOwned
        <4> QED
          BY <3>2, <4>1
      <3>4. pc[x] \in {"removeCount", "removeChannel"} /\ v = who[x]
        BY <3>1, <3>2, <3>3, HoldersOf
      <3> QED
        BY <1>4, <3>1, <3>2, <3>4
    <2> QED
      BY <1>4, <2>1, <2>2, NotDeadlocked
  <1>5. pc[t] \in {"idle", "select", "reply", "removeCount"} \cup Arriving
                  \cup {"insert", "replyInsert", "addChannel", "removeChannel"} \cup {"bump"}
    BY <1>0 DEF TypeOK, Arriving, Posting, Adding, Removing, Reading
  <1> QED
    BY <1>1, <1>2, <1>3, <1>4, <1>5

-----------------------------------------------------------------------------

\* Every variable keeps its type.
THEOREM Typed == Spec => []TypeOK
  <1>1. ChannelInv => TypeOK
    BY DEF ChannelInv
  <1> QED
    BY <1>1, ChannelInvariant, PTL

\* Message numbers become visible in order and without a gap, however the
\* transactions that take them overlap, wait and roll back.
THEOREM NumbersAreDense == Spec => []SeqIsDense
  <1>1. ChannelInv => SeqIsDense
    BY DEF ChannelInv
  <1> QED
    BY <1>1, ChannelInvariant, PTL

\* The badge of a member counts what it missed, and never more.
THEOREM BadgeCounts == Spec => []BadgeIsRight
  <1>1. ChannelInv => BadgeIsRight
    BY DEF ChannelInv
  <1> QED
    BY <1>1, ChannelInvariant, PTL

\* member_count is right unless a list with a name too many, an out-of-date COUNT(*)
\* or an auto-join made it wrong (channels.ts:540, 1136, 1297; messages.ts:101).
THEOREM MemberCount == Spec => []CountIsMembers
  <1>1. ChannelInv => CountIsMembers
    BY DEF ChannelInv
  <1> QED
    BY <1>1, ChannelInvariant, PTL

\* Only a post and a removal of one of the members it counts, and additions of several
\* users in a ring, can deadlock (channels.ts:1108, 1285; messages.ts:209).
THEOREM OnlyTwoDeadlocks == Spec => []DeadlocksAreKnown
  <1> QED
    BY DeadlockKinds, ChannelInvariant, PTL

\* Requests in any number, overlapping statement by statement, do to the messages,
\* members, marks and counts what the operations of AtomicChannel do one at a time
\* (the transactions of messages.ts, threads.ts, channels.ts and receipts.ts).
THEOREM ChannelRefinement == Spec => ChannelImplemented
  <1> QED
    BY InitAtomic, AtomicStep, ChannelInvariant, PTL DEF Spec, ChannelImplemented, Atomic!Spec
=============================================================================
