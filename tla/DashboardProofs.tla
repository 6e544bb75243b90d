-------------------------- MODULE DashboardProofs --------------------------
(***************************************************************************)
(* Proofs about Dashboard, for any users and number of notifications: its  *)
(* types, that the list displayed is the chosen user's, and that what the  *)
(* page has been told of is displayed or will be.  The inductive invariant *)
(* says of every fetch under way, displayed or not, what its answer holds. *)
(***************************************************************************)
EXTENDS Dashboard, SequenceTheorems, TLAPS

(* Lists hold rows of their user, and only displayed rows are patched.     *)
RowsOf(u) == {n \in DOMAIN rows : rows[n].to = u}
Lists ==
  /\ \A u \in Users :
       /\ query[u].data # NoData => DOMAIN query[u].data \subseteq RowsOf(u)
       /\ query[u].answer # NoData => DOMAIN query[u].answer \subseteq RowsOf(u)
  /\ \A n \in Ids : patch[n] # "none" => n \in DOMAIN rows

(* What a query keeps of row n: the answer of a fetch under way and, when  *)
(* there is none, the list displayed show it with a status in S.           *)
Kept(q, n, S, displayed) ==
  n \notin q.early =>
    /\ q.fetch = "answered" => Shows(q.answer, n, S)
    /\ q.fetch = "idle" /\ displayed => q.error \/ Shows(q.data, n, S)
AllKept(N, S) == \A u \in Users : \A n \in N \cap RowsOf(u) : Kept(query[u], n, S, u = user)

ReadRows == \A n \in read : rows[n].status = "read"

IInv ==
  /\ TypeOK
  /\ Lists
  /\ AllKept(live, Status)
  /\ ReadRows
  /\ AllKept(read, {"read"})

-----------------------------------------------------------------------------
(* The functions on queries.                                               *)
LEMMA Queries ==
  ASSUME NEW q \in Query
  PROVE  /\ Begin(q) \in Query /\ Begin(q).fetch = "asked" /\ Begin(q).answer = NoData
         /\ Begin(q).data = q.data
         /\ \A list \in List :
              /\ Filled(q, list) \in Query /\ Filled(q, list).fetch = "idle"
              /\ Filled(q, list).answer = NoData /\ Filled(q, list).data = list
              /\ Filled(q, list).early = q.early
BY DEF Begin, Filled, Query

LEMMA RowsAppend ==
  ASSUME rows \in Seq(Row), NEW r \in Row, rows' = Append(rows, r)
  PROVE  /\ rows' \in Seq(Row) /\ Len(rows') = Len(rows) + 1
         /\ DOMAIN rows \subseteq DOMAIN rows' /\ Len(rows) + 1 \in DOMAIN rows'
         /\ \A n \in DOMAIN rows : rows'[n] = rows[n]
BY AppendProperties, LenProperties

LEMMA RowsStatus ==
  ASSUME rows \in Seq(Row), NEW S, NEW s \in Status, PS!SetStatus(S, s)
  PROVE  /\ rows' \in Seq(Row) /\ DOMAIN rows' = DOMAIN rows /\ Len(rows') = Len(rows)
         /\ \A m \in DOMAIN rows : rows'[m].to = rows[m].to
         /\ \A m \in DOMAIN rows : rows'[m].status = IF m \in S THEN s ELSE rows[m].status
<1>1. Len(rows) \in Nat /\ rows \in [1..Len(rows) -> Row] /\ DOMAIN rows = 1..Len(rows)
  BY LenProperties
<1>2. rows' \in [1..Len(rows) -> Row]
  BY <1>1 DEF PS!SetStatus, Row
<1>3. rows' \in Seq(Row)
  BY <1>1, <1>2, SeqDef
<1>4. Len(rows') = Len(rows) /\ DOMAIN rows' = DOMAIN rows
  BY <1>1, <1>2, <1>3, LenProperties
<1>5. ASSUME NEW m \in DOMAIN rows
      PROVE  /\ rows'[m].to = rows[m].to
             /\ rows'[m].status = IF m \in S THEN s ELSE rows[m].status
  BY <1>1, <1>5 DEF PS!SetStatus, Row
<1>6. QED
  BY <1>3, <1>4, <1>5

-----------------------------------------------------------------------------
LEMMA InitInv == Init => IInv
<1> SUFFICES ASSUME Init PROVE IInv
  OBVIOUS
<1>1. rows \in Seq(Row) /\ Len(rows) <= MaxRows /\ DOMAIN rows = {}
  BY BoundIsNat, EmptySeq DEF Init, PS!ServerInit
<1>2. NoQuery \in Query
  BY DEF NoQuery, Query
<1>3. TypeOK
  BY <1>1, <1>2 DEF Init, PS!ServerInit, TypeOK, NoQuery
<1>4. Lists
  BY DEF Init, Lists, NoQuery
<1>5. QED
  BY <1>3, <1>4 DEF Init, IInv, AllKept, ReadRows

(* What an action may do to the rows: they stay whose they are.            *)
RowsStay ==
  /\ rows' \in Seq(Row) /\ Len(rows') <= MaxRows
  /\ DOMAIN rows \subseteq DOMAIN rows'
  /\ \A n \in DOMAIN rows : rows'[n].to = rows[n].to

LEMMA Stays == IInv /\ [Next]_vars => RowsStay
<1> SUFFICES ASSUME IInv, [Next]_vars PROVE RowsStay
  OBVIOUS
<1>1. CASE UNCHANGED rows
  BY <1>1 DEF IInv, TypeOK, RowsStay
<1>2. CASE \E b \in Bodies : Post(b[1], b[2])
  <2>1. PICK b \in Bodies : Post(b[1], b[2])
    BY <1>2
  <2>2. [to |-> b[1], channel |-> b[2], status |-> "pending"] \in Row
    BY BodiesValid DEF Body, Row, Status
  <2>3. Len(rows) \in Nat
    BY LenProperties DEF IInv, TypeOK
  <2>4. QED
    BY <2>1, <2>2, <2>3, RowsAppend, BoundIsNat DEF IInv, TypeOK, RowsStay, Post, PS!Insert
<1>3. CASE \E S \in SUBSET Ids : PS!SetStatus(S, "read") \/ PS!SetStatus(S, "delivered")
  BY <1>3, RowsStatus DEF IInv, TypeOK, RowsStay, Status
<1>4. QED
  BY <1>1, <1>2, <1>3 DEF Next, vars, server, page, SelectUser, PS!Turn, Fetching, FindAll, Fill,
     FetchFails,
     Collect, Open, Break, BackOnline, Receive, ClickRead, Displayed, ReadAnswered, PatchFails, Emit,
     MarkAsRead, UpdateStatus, ReadElsewhere, Ids, PS!Ids, PS!Open, PS!Close, PS!Hear, PS!Send

-----------------------------------------------------------------------------
(* What a step may do to the query of u.                                   *)
Same(u) == query'[u] = query[u] /\ (u = user' => u = user \/ query[u].fetch # "idle")
Asked(u) == \E f \in {"asked", "retried"} : query'[u] = [Begin(query[u]) EXCEPT !.fetch = f]
Told(u) == /\ query[u].fetch # "idle"
           /\ \E n \in Ids : query'[u] = [query[u] EXCEPT !.early = @ \cup {n}]
Answered(u) ==
  query'[u] = [query[u] EXCEPT !.fetch = "answered",
                               !.answer = [n \in RowsOf(u) |-> rows[n].status]]
Arrived(u) == query[u].fetch = "answered" /\ query'[u] = Filled(query[u], query[u].answer)
Failed(u) == Asking(u) /\ query'[u] = [query[u] EXCEPT !.error = TRUE, !.fetch = "idle"]
Dropped(u) == u # user' /\ query'[u] = NoQuery

Cases(u) == \/ Same(u) \/ Asked(u) \/ Dropped(u)
            \/ user' = user /\ (Told(u) \/ Answered(u) \/ Arrived(u) \/ Failed(u))

LEMMA ArrivedData ==
  ASSUME NEW u \in Users, query[u] \in Query, Arrived(u)
  PROVE  /\ query'[u].data = query[u].answer /\ query'[u].answer = NoData
         /\ query'[u].fetch = "idle" /\ query'[u].early = query[u].early
BY DEF Arrived, Filled, Query

LEMMA AskedByBegin == ASSUME NEW q \in Query PROVE Begin(q) = [Begin(q) EXCEPT !.fetch = "asked"]
BY DEF Begin, Query

LEMMA InvalidatedCases ==
  ASSUME IInv, NEW n \in Ids, query' = Invalidated(n), user' = user
  PROVE  \A u \in Users : Same(u) \/ Asked(u) \/ Told(u)
<1>1. \A u \in Users : query[u] \in Query
  BY DEF IInv, TypeOK
<1>2. QED
  BY <1>1, AskedByBegin DEF Invalidated, Same, Asked, Told

LEMMA QuerySteps ==
  ASSUME IInv, [Next]_vars
  PROVE  /\ DOMAIN query' = Users
         /\ \A u \in Users : Cases(u)
<1>1. /\ DOMAIN query = Users
      /\ \A u \in Users : query[u] \in Query
  BY DEF IInv, TypeOK
<1>2. CASE UNCHANGED <<query, user>>
  BY <1>1, <1>2 DEF Cases, Same
<1>3. CASE \E v \in Users : SelectUser(v)
  <2>1. PICK v \in Users : SelectUser(v)
    BY <1>3
  <2>2. query' = [query EXCEPT ![v] = Join(@)] /\ user' = v
    BY <2>1 DEF SelectUser, PS!Turn
  <2>3. \A u \in Users : u # v => Same(u)
    BY <2>2, <1>1 DEF Same
  <2>4. Same(v) \/ Asked(v)
    BY <2>2, <1>1, AskedByBegin DEF Same, Asked, Join
  <2>5. QED
    BY <1>1, <2>2, <2>3, <2>4 DEF Cases
<1>4. CASE BackOnline
  <2>1. user \in Users /\ query' = [query EXCEPT ![user] = Join(@)] /\ user' = user
    BY <1>4 DEF server, BackOnline, IInv, TypeOK
  <2>2. QED
    BY <1>1, <2>1, AskedByBegin DEF Cases, Same, Asked, Join
<1>5. CASE \E n \in Ids : Receive(n) \/ ReadAnswered(n)
  <2>1. PICK n \in Ids : query' = Invalidated(n) /\ user' = user
    BY <1>5 DEF server, Receive, ReadAnswered, PS!Hear
  <2>2. DOMAIN query' = Users
    BY <2>1 DEF Invalidated
  <2>3. QED
    BY <2>1, <2>2, InvalidatedCases DEF Cases
<1>6. CASE \E v \in Users : Fetching(v) \/ Collect(v)
  <2>1. PICK v \in Users : Fetching(v) \/ Collect(v)
    BY <1>6
  <2>2. user' = user
    BY <2>1 DEF server, Fetching, FindAll, Fill, FetchFails, Collect
  <2>3. DOMAIN query' = Users /\ \A u \in Users : u # v => query'[u] = query[u]
    BY <2>1, <1>1 DEF Fetching, FindAll, Fill, FetchFails, Collect
  <2>4. FindAll(v) => Answered(v)
    BY <1>1 DEF FindAll, Answered, RowsOf
  <2>5. Fill(v) => Arrived(v)
    BY <1>1 DEF Fill, Arrived
  <2>6. FetchFails(v) => Failed(v) \/ Asked(v)
    BY <1>1 DEF FetchFails, Failed, Asked
  <2>7. Collect(v) => Dropped(v)
    BY <2>2, <1>1 DEF Collect, Dropped
  <2>8. Asked(v) \/ Answered(v) \/ Arrived(v) \/ Failed(v) \/ Dropped(v)
    BY <2>1, <2>4, <2>5, <2>6, <2>7 DEF Fetching
  <2>9. QED
    BY <2>2, <2>3, <2>8 DEF Cases, Same
<1>7. QED
  BY <1>2, <1>3, <1>4, <1>5, <1>6 DEF Next, vars, server, page, Open, Break, PS!Turn, ClickRead,
     MarkAsRead, PatchFails, Post, Emit, UpdateStatus, ReadElsewhere, PS!Open, PS!Close,
     PS!SetStatus, PS!Send, PS!Insert

-----------------------------------------------------------------------------
(* query' is the function on Users that TypeOK asks for.                   *)
IsFcn(f) == f = [u \in Users |-> f[u]]

LEMMA ExceptFcn ==
  ASSUME NEW f, IsFcn(f), NEW v, NEW e PROVE IsFcn([f EXCEPT ![v] = e])
BY DEF IsFcn

LEMMA QueryFcn == IInv /\ [Next]_vars => IsFcn(query')
<1> SUFFICES ASSUME IInv, [Next]_vars PROVE IsFcn(query')
  OBVIOUS
<1>1. IsFcn(query)
  BY DEF IsFcn, IInv, TypeOK
<1>2. CASE UNCHANGED query
  BY <1>1, <1>2
<1>3. ASSUME NEW v, NEW e, query' = [query EXCEPT ![v] = e] PROVE IsFcn(query')
  <2>1. IsFcn([query EXCEPT ![v] = e])
    BY <1>1, ExceptFcn
  <2>2. QED
    BY <2>1, <1>3
<1>4. CASE \E n \in Ids : query' = Invalidated(n)
  BY <1>4 DEF Invalidated, IsFcn
<1>5. CASE \E v \in Users : SelectUser(v) \/ Fetching(v) \/ Collect(v)
  <2>1. PICK v \in Users : SelectUser(v) \/ Fetching(v) \/ Collect(v)
    BY <1>5
  <2>2. \E e : query' = [query EXCEPT ![v] = e]
    BY <2>1, Zenon DEF SelectUser, PS!Turn, Fetching, FindAll, Fill, FetchFails, Collect
  <2>3. QED
    BY <2>2, <1>3
<1>6. CASE BackOnline
  BY <1>6, <1>3 DEF BackOnline
<1>7. QED
  BY <1>2, <1>4, <1>5, <1>6 DEF Next, vars, server, page, Open, Break, PS!Turn, Receive,
     ClickRead, Displayed, ReadAnswered,
     MarkAsRead, PatchFails, Post, Emit, UpdateStatus, ReadElsewhere, PS!Open, PS!Close, PS!Hear,
     PS!SetStatus, PS!Send, PS!Insert

LEMMA QueryTyped ==
  ASSUME IInv, NEW u \in Users, Cases(u)
  PROVE  query'[u] \in Query /\ (query'[u].answer # NoData <=> query'[u].fetch = "answered")
<1>1. query[u] \in Query /\ (query[u].answer # NoData <=> query[u].fetch = "answered")
  BY DEF IInv, TypeOK
<1>2. CASE Same(u)
  BY <1>1, <1>2 DEF Same
<1>3. CASE Asked(u)
  BY <1>1, <1>3, Queries DEF Asked, Query
<1>4. CASE Dropped(u)
  BY <1>4 DEF Dropped, NoQuery, Query
<1>5. CASE Told(u)
  BY <1>1, <1>5 DEF Told, Query
<1>6. CASE Answered(u)
  <2>1. [n \in RowsOf(u) |-> rows[n].status] \in List
    <3>1. RowsOf(u) \subseteq Ids
      BY LenProperties, BoundIsNat DEF RowsOf, IInv, TypeOK, Ids
    <3>2. ASSUME NEW n \in RowsOf(u) PROVE rows[n].status \in Status
      <4>1. rows \in Seq(Row) /\ n \in 1..Len(rows)
        BY LenProperties DEF RowsOf, IInv, TypeOK
      <4>2. rows[n] \in Row
        BY <4>1, ElementOfSeq
      <4>3. QED
        BY <4>2 DEF Row
    <3>3. QED
      BY <3>1, <3>2 DEF List
  <2>2. QED
    BY <1>1, <1>6, <2>1, NoDataIsNoList DEF Answered, Query
<1>7. CASE Arrived(u)
  <2>1. query[u].answer \in List
    BY <1>1, <1>7 DEF Arrived, Query
  <2>2. QED
    BY <1>1, <1>7, <2>1, Queries DEF Arrived
<1>8. CASE Failed(u)
  BY <1>1, <1>8 DEF Failed, Asking, Query
<1>9. QED
  BY <1>2, <1>3, <1>4, <1>5, <1>6, <1>7, <1>8 DEF Cases

LEMMA TypeNext == IInv /\ [Next]_vars => TypeOK'
<1> SUFFICES ASSUME IInv, [Next]_vars PROVE TypeOK'
  OBVIOUS
<1>1. RowsStay /\ DOMAIN rows \subseteq Ids
  BY Stays, LenProperties, BoundIsNat DEF IInv, TypeOK, Ids
<1>2. /\ query' \in [Users -> Query]
      /\ \A u \in Users : query'[u].answer # NoData <=> query'[u].fetch = "answered"
  <2>1. query' = [u \in Users |-> query'[u]]
    BY QueryFcn DEF IsFcn
  <2>2. QED
    BY <2>1, QuerySteps, QueryTyped
<1>3. /\ user' \in Users \cup {NoUser}
      /\ connected' \in BOOLEAN /\ (connected' => user' # NoUser) /\ (~connected' => wire' = {})
  <2>1. CASE (\E u \in Users : SelectUser(u)) \/ Break
    BY <2>1 DEF SelectUser, Break, PS!Turn, IInv, TypeOK, PS!Close
  <2>2. CASE Open
    <3>1. user \in Users /\ user' = user /\ connected' = TRUE
      BY <2>2 DEF Open, PS!Open
    <3>2. QED
      BY <3>1, NoUserIsNone
  <2>3. CASE ~(\E u \in Users : SelectUser(u)) /\ ~Open /\ ~Break
    <3>1. UNCHANGED <<user, connected>>
      BY <2>3 DEF Next, vars, server, page, Fetching, FindAll, Fill, FetchFails, Collect, BackOnline,
         Receive, ClickRead, Displayed, MarkAsRead, ReadAnswered, PatchFails, Post, Emit,
         UpdateStatus, ReadElsewhere, PS!Hear, PS!SetStatus, PS!Send, PS!Insert
    <3>2. wire = {} /\ ~connected => wire' = {}
      BY <2>3 DEF Next, vars, server, page, Fetching, FindAll, Fill, FetchFails, Collect, BackOnline,
         Receive, ClickRead, Displayed, MarkAsRead, ReadAnswered, PatchFails, Post, Emit,
         UpdateStatus, ReadElsewhere, PS!Hear, PS!SetStatus, PS!Send, PS!Insert
    <3>3. QED
      BY <3>1, <3>2, Zenon DEF IInv, TypeOK
  <2>4. QED
    BY <2>1, <2>2, <2>3
<1>4. patch' \in [Ids -> {"none", "asked", "done"}]
  BY DEF IInv, TypeOK, Next, vars, server, page, SelectUser, PS!Turn, Fetching, FindAll, Fill,
     FetchFails,
     Collect, Open, Break, BackOnline, Receive, ClickRead, Displayed, MarkAsRead, ReadAnswered, PatchFails, Post, Emit,
     UpdateStatus, ReadElsewhere, PS!Open, PS!Close, PS!Hear, PS!SetStatus, PS!Send, PS!Insert
<1>5. CASE \E b \in Bodies : Post(b[1], b[2])
  <2>1. PICK b \in Bodies : Post(b[1], b[2])
    BY <1>5
  <2>2. Len(rows) + 1 \in DOMAIN rows'
    <3>1. [to |-> b[1], channel |-> b[2], status |-> "pending"] \in Row
      BY BodiesValid DEF Body, Row, Status
    <3>2. QED
      BY <2>1, <3>1, RowsAppend DEF Post, IInv, TypeOK, PS!Insert
  <2>3. QED
    BY <1>1, <1>2, <1>3, <1>4, <2>1, <2>2 DEF RowsStay, IInv, TypeOK, Post, page, PS!Insert
<1>6. CASE \E n \in Ids : ReadAnswered(n)
  <2>1. PICK n \in Ids : ReadAnswered(n) /\ n \in DOMAIN rows
    BY <1>6 DEF ReadAnswered, IInv, Lists
  <2>2. QED
    BY <1>1, <1>2, <1>3, <1>4, <2>1 DEF RowsStay, IInv, TypeOK, ReadAnswered, server, page
<1>7. CASE ~(\E b \in Bodies : Post(b[1], b[2])) /\ ~(\E n \in Ids : ReadAnswered(n))
  <2>1. /\ wire' \subseteq DOMAIN rows /\ live' \subseteq DOMAIN rows /\ read' \subseteq DOMAIN rows
    BY <1>7 DEF IInv, TypeOK, Next, vars, server, page, SelectUser, PS!Turn, Fetching, FindAll,
       Fill, FetchFails,
       Collect, Open, Break, BackOnline, Receive, ClickRead, Displayed, MarkAsRead, PatchFails,
       Emit, UpdateStatus, ReadElsewhere, PS!Open, PS!Close, PS!Hear, PS!SetStatus, PS!Send
  <2>2. QED
    BY <1>1, <1>2, <1>3, <1>4, <2>1 DEF RowsStay, TypeOK
<1>8. QED
  BY <1>5, <1>6, <1>7

LEMMA ListsNext == IInv /\ [Next]_vars => Lists'
<1> SUFFICES ASSUME IInv, [Next]_vars PROVE Lists'
  OBVIOUS
<1>1. \A u \in Users : RowsOf(u) \subseteq RowsOf(u)'
  BY Stays DEF RowsStay, RowsOf
<1>2. \A n \in Ids : patch'[n] # "none" => n \in DOMAIN rows'
  <2>1. DOMAIN rows \subseteq DOMAIN rows'
    BY Stays DEF RowsStay
  <2>2. CASE \E n \in Ids : ClickRead(n)
    <3>1. PICK n \in Ids : ClickRead(n)
      BY <2>2
    <3>2. n \in DOMAIN rows
      BY <3>1 DEF ClickRead, Displayed, IInv, Lists, TypeOK, RowsOf
    <3>3. QED
      BY <2>1, <3>1, <3>2 DEF ClickRead, Displayed, IInv, Lists, TypeOK
  <2>3. CASE ~(\E n \in Ids : ClickRead(n))
    BY <2>1, <2>3 DEF IInv, Lists, TypeOK, Next, vars, server, page, SelectUser, PS!Turn,
       Fetching, FindAll, Fill,
       FetchFails, Collect, Open, Break, BackOnline, Receive, MarkAsRead, ReadAnswered, PatchFails, Post, Emit,
       UpdateStatus, ReadElsewhere, PS!Open, PS!Close, PS!Hear, PS!SetStatus, PS!Send, PS!Insert
  <2>4. QED
    BY <2>2, <2>3
<1>3. ASSUME NEW u \in Users
      PROVE  /\ query'[u].data # NoData => DOMAIN query'[u].data \subseteq RowsOf(u)
             /\ query'[u].answer # NoData => DOMAIN query'[u].answer \subseteq RowsOf(u)
  <2>1. query[u] \in Query /\ Cases(u)
    BY QuerySteps DEF IInv, TypeOK
  <2>2. /\ query[u].data # NoData => DOMAIN query[u].data \subseteq RowsOf(u)
        /\ query[u].answer # NoData => DOMAIN query[u].answer \subseteq RowsOf(u)
        /\ query[u].answer # NoData <=> query[u].fetch = "answered"
    BY DEF IInv, Lists, TypeOK
  <2>3. CASE Same(u)
    BY <2>2, <2>3 DEF Same
  <2>4. CASE Asked(u)
    BY <2>1, <2>2, <2>4, Queries DEF Asked, Query
  <2>5. CASE Dropped(u)
    BY <2>5 DEF Dropped, NoQuery
  <2>6. CASE Told(u) \/ Failed(u)
    BY <2>1, <2>2, <2>6 DEF Told, Failed, Query
  <2>7. CASE Answered(u)
    BY <2>1, <2>2, <2>7 DEF Answered, Query
  <2>8. CASE Arrived(u)
    <3>1. query'[u].data = query[u].answer /\ query'[u].answer = NoData
      BY <2>1, <2>8, ArrivedData
    <3>2. QED
      BY <2>2, <3>1
  <2>9. QED
    BY <2>1, <2>3, <2>4, <2>5, <2>6, <2>7, <2>8 DEF Cases
<1>4. QED
  BY <1>1, <1>2, <1>3 DEF Lists

-----------------------------------------------------------------------------
(* A query keeps a row through a step, if a SELECT of now would show it.   *)
LEMMA StepKeeps ==
  ASSUME IInv, NEW u \in Users, Cases(u), NEW n \in RowsOf(u), NEW S, rows[n].status \in S,
         Kept(query[u], n, S, u = user)
  PROVE  Kept(query'[u], n, S, u = user')
<1>1. query[u] \in Query /\ (query[u].answer # NoData <=> query[u].fetch = "answered")
  BY DEF IInv, TypeOK
<1>2. CASE Same(u)
  BY <1>2 DEF Same, Kept
<1>3. CASE Asked(u)
  BY <1>1, <1>3, Queries DEF Asked, Kept, Query
<1>4. CASE Dropped(u)
  BY <1>4 DEF Dropped, Kept, NoQuery
<1>5. CASE Told(u)
  BY <1>1, <1>5 DEF Told, Kept, Query
<1>6. CASE Answered(u)
  <2>1. [m \in RowsOf(u) |-> rows[m].status] \in List
    <3>1. query'[u].answer \in List \cup {NoData}
      BY <1>6, QueryTyped DEF Query
    <3>2. query'[u].fetch = "answered" /\ query'[u].answer = [m \in RowsOf(u) |-> rows[m].status]
      BY <1>1, <1>6 DEF Answered, Query
    <3>3. QED
      BY <3>1, <3>2, QueryTyped
  <2>2. QED
    BY <1>1, <1>6, <2>1, NoDataIsNoList DEF Answered, Kept, Shows, Query
<1>7. CASE Arrived(u) /\ user' = user
  <2>1. /\ query'[u].data = query[u].answer /\ query'[u].fetch = "idle"
        /\ query'[u].early = query[u].early
    BY <1>1, <1>7, ArrivedData
  <2>2. query[u].fetch = "answered"
    BY <1>7 DEF Arrived
  <2>3. QED
    BY <1>7, <2>1, <2>2 DEF Kept
<1>8. CASE Failed(u)
  BY <1>1, <1>8 DEF Failed, Kept, Query
<1>9. QED
  BY <1>2, <1>3, <1>4, <1>5, <1>6, <1>7, <1>8 DEF Cases

(* A query keeps, or has been told of, a row that invalidates.             *)
LEMMA InvalidatedKeeps ==
  ASSUME IInv, NEW n \in Ids, query' = Invalidated(n), NEW u \in Users, n \in RowsOf(u), NEW S
  PROVE  Kept(query'[u], n, S, u = user)
<1>1. query[u] \in Query
  BY DEF IInv, TypeOK
<1>2. rows[n].to = u
  BY DEF RowsOf
<1>3. CASE u = user /\ (query[u].fetch = "idle" \/ query[u].data # NoData)
  BY <1>1, <1>3, Queries DEF Invalidated, Kept
<1>4. CASE ~(u = user /\ (query[u].fetch = "idle" \/ query[u].data # NoData)) /\ query[u].fetch # "idle"
  BY <1>1, <1>2, <1>4 DEF Invalidated, Kept, Query
<1>5. CASE u # user /\ query[u].fetch = "idle"
  BY <1>5 DEF Invalidated, Kept
<1>6. QED
  BY <1>3, <1>4, <1>5

LEMMA OldKept ==
  ASSUME IInv, [Next]_vars, NEW N \in SUBSET DOMAIN rows, NEW S, AllKept(N, S),
         \A n \in N : rows[n].status \in S
  PROVE  \A u \in Users : \A n \in N \cap RowsOf(u)' : Kept(query'[u], n, S, u = user')
<1> SUFFICES ASSUME NEW u \in Users, NEW n \in N, n \in RowsOf(u)'
             PROVE  Kept(query'[u], n, S, u = user')
  OBVIOUS
<1>1. n \in RowsOf(u)
  BY Stays DEF RowsStay, RowsOf
<1>2. Kept(query[u], n, S, u = user)
  BY <1>1 DEF AllKept
<1>3. QED
  BY <1>1, <1>2, QuerySteps, StepKeeps

LEMMA LiveNext == IInv /\ [Next]_vars => AllKept(live, Status)'
<1> SUFFICES ASSUME IInv, [Next]_vars PROVE AllKept(live, Status)'
  OBVIOUS
<1>1. \A u \in Users : \A n \in live \cap RowsOf(u)' : Kept(query'[u], n, Status, u = user')
  <2>1. live \in SUBSET DOMAIN rows
    BY DEF IInv, TypeOK
  <2>2. ASSUME NEW n \in live PROVE rows[n].status \in Status
    <3>1. rows \in Seq(Row) /\ n \in 1..Len(rows)
      BY <2>1, LenProperties DEF IInv, TypeOK
    <3>2. rows[n] \in Row
      BY <3>1, ElementOfSeq
    <3>3. QED
      BY <3>2 DEF Row
  <2>3. QED
    BY <2>1, <2>2, OldKept DEF IInv
<1>2. CASE \E n \in Ids : Receive(n)
  <2>1. PICK n \in Ids : Receive(n)
    BY <1>2
  <2>2. live' = live \cup {n} /\ query' = Invalidated(n) /\ user' = user /\ rows' = rows
    BY <2>1 DEF Receive, server, PS!Hear
  <2>3. \A u \in Users : n \in RowsOf(u)' => Kept(query'[u], n, Status, u = user')
    BY <2>2, InvalidatedKeeps DEF RowsOf
  <2>4. QED
    BY <1>1, <2>2, <2>3 DEF AllKept
<1>3. CASE ~(\E n \in Ids : Receive(n))
  <2>1. live' = live
    BY <1>3 DEF Next, vars, server, page, SelectUser, PS!Turn, Fetching, FindAll, Fill,
       FetchFails, Collect, Open, Break, BackOnline,
       ClickRead, Displayed, MarkAsRead, ReadAnswered, PatchFails, Post, Emit, UpdateStatus,
       ReadElsewhere, PS!Open, PS!Close, PS!SetStatus, PS!Send, PS!Insert
  <2>2. QED
    BY <1>1, <2>1 DEF AllKept
<1>4. QED
  BY <1>2, <1>3

LEMMA ReadNext == IInv /\ [Next]_vars => (ReadRows /\ AllKept(read, {"read"}))'
<1> SUFFICES ASSUME IInv, [Next]_vars PROVE (ReadRows /\ AllKept(read, {"read"}))'
  OBVIOUS
<1>1. /\ read \in SUBSET DOMAIN rows
      /\ \A n \in read : rows[n].status = "read"
  BY DEF IInv, TypeOK, ReadRows
<1>2. \A u \in Users : \A n \in read \cap RowsOf(u)' : Kept(query'[u], n, {"read"}, u = user')
  BY <1>1, OldKept DEF IInv
<1>3. CASE \E n \in Ids : ReadAnswered(n)
  <2>1. PICK n \in Ids : ReadAnswered(n)
    BY <1>3
  <2>2. /\ query' = Invalidated(n) /\ user' = user /\ rows' = rows
        /\ read' \in {read, read \cup {n}} /\ (n \in read' => rows[n].status = "read")
    BY <1>1, <2>1 DEF ReadAnswered, server
  <2>3. \A u \in Users : n \in RowsOf(u)' => Kept(query'[u], n, {"read"}, u = user')
    BY <2>2, InvalidatedKeeps DEF RowsOf
  <2>4. QED
    BY <1>1, <1>2, <2>2, <2>3 DEF AllKept, ReadRows
<1>4. CASE ~(\E n \in Ids : ReadAnswered(n))
  <2>1. read' \subseteq read
    BY <1>4 DEF Next, vars, server, page, SelectUser, PS!Turn, Fetching, FindAll, Fill,
       FetchFails, Collect, Open, Break, BackOnline,
       Receive, ClickRead, Displayed, MarkAsRead, PatchFails, Post, Emit, UpdateStatus,
       ReadElsewhere, PS!Open, PS!Close, PS!Hear, PS!SetStatus, PS!Send, PS!Insert
  <2>2. \A n \in read' : rows'[n].status = "read"
    <3>1. CASE UNCHANGED rows
      BY <1>1, <2>1, <3>1
    <3>2. CASE \E b \in Bodies : Post(b[1], b[2])
      <4>1. PICK b \in Bodies : Post(b[1], b[2])
        BY <3>2
      <4>2. [to |-> b[1], channel |-> b[2], status |-> "pending"] \in Row
        BY BodiesValid DEF Body, Row, Status
      <4>3. \A n \in DOMAIN rows : rows'[n] = rows[n]
        BY <4>1, <4>2, RowsAppend DEF Post, IInv, TypeOK, PS!Insert
      <4>4. QED
        BY <1>1, <2>1, <4>3
    <3>3. CASE \E S \in SUBSET Ids : PS!SetStatus(S, "read")
      BY <1>1, <2>1, <3>3, RowsStatus DEF IInv, TypeOK, Status
    <3>4. CASE \E S \in SUBSET Ids : PS!SetStatus(S, "delivered") /\ read' = read \ S
      BY <1>1, <3>4, RowsStatus DEF IInv, TypeOK, Status
    <3>5. QED
      BY <3>1, <3>2, <3>3, <3>4 DEF Next, vars, server, page, SelectUser, PS!Turn, Fetching,
         FindAll, Fill, FetchFails,
         Collect, Open, Break, BackOnline, Receive, ClickRead, Displayed, ReadAnswered, PatchFails, Emit,
         MarkAsRead, UpdateStatus, ReadElsewhere, PS!Open, PS!Close, PS!Hear, PS!Send
  <2>3. QED
    BY <1>2, <2>1, <2>2 DEF AllKept, ReadRows
<1>5. QED
  BY <1>3, <1>4

-----------------------------------------------------------------------------
THEOREM Invariance == SafetySpec => []IInv
<1>1. IInv /\ [Next]_vars => IInv'
  BY TypeNext, ListsNext, LiveNext, ReadNext DEF IInv
<1>2. QED
  BY <1>1, InitInv, PTL DEF SafetySpec

(* Every variable of the page and the server keeps its type; the wire is   *)
(* empty while the page is not connected, so SelectUser and Break leave no *)
(* EventSource behind.                                                     *)
THEOREM TypeCorrect == SafetySpec => []TypeOK
BY Invariance, PTL DEF IInv

(* useNotificationQueries: whatever answers come late, the list displayed  *)
(* is the chosen user's.                                                   *)
THEOREM ListIsOwn == SafetySpec => []OwnList
<1>1. IInv => OwnList
  BY DEF IInv, TypeOK, Lists, RowsOf, OwnList, Own
<1>2. QED
  BY <1>1, Invariance, PTL

LEMMA OwnerChosen == ASSUME IInv, NEW n, Own(n) PROVE user \in Users
<1>1. rows \in Seq(Row) /\ n \in 1..Len(rows)
  BY LenProperties DEF IInv, TypeOK, Own
<1>2. rows[n] \in Row
  BY <1>1, ElementOfSeq
<1>3. QED
  BY <1>2, NoUserIsNone DEF IInv, TypeOK, Own, Row

(* Kept by the query of the chosen user is what EventsShown and ReadsShown *)
(* ask of it.                                                              *)
LEMMA KeptIsShown ==
  ASSUME IInv, NEW n, Own(n), n \notin query[user].early, NEW S,
         user \in Users, Kept(query[user], n, S, user = user)
  PROVE  WillShow(user, n, S)
<1>1. query[user] \in Query
  BY DEF IInv, TypeOK
<1>2. query[user].fetch \in {"idle", "asked", "retried", "answered"}
  BY <1>1 DEF Query
<1>3. QED
  BY <1>2 DEF Kept, WillShow, Asking

(* App, onEvent: an event of the user's own that the page has received is  *)
(* in the list or will be by the fetch under way, in every order of        *)
(* events, answers, failures and changes of the user.                      *)
THEOREM EventsAreShown == SafetySpec => []EventsShown
<1>1. ASSUME IInv PROVE EventsShown
  <2>1. SUFFICES ASSUME NEW n \in live, Own(n), n \notin query[user].early
                 PROVE  WillShow(user, n, Status)
    BY DEF EventsShown
  <2>2. user \in Users
    BY <1>1, <2>1, OwnerChosen
  <2>3. n \in live \cap RowsOf(user)
    BY <2>1 DEF Own, RowsOf
  <2>4. QED
    BY <1>1, <2>1, <2>2, <2>3, KeptIsShown DEF IInv, AllKept
<1>2. QED
  BY <1>1, Invariance, PTL

(* useMarkAsRead, onSuccess: a row the page was answered is READ is        *)
(* displayed as READ or will be, in every order of events and answers.     *)
THEOREM ReadsAreShown == SafetySpec => []ReadsShown
<1>1. ASSUME IInv PROVE ReadsShown
  <2>1. SUFFICES ASSUME NEW n \in read, Own(n), n \notin query[user].early
                 PROVE  WillShow(user, n, {"read"})
    BY DEF ReadsShown
  <2>2. user \in Users
    BY <1>1, <2>1, OwnerChosen
  <2>3. n \in read \cap RowsOf(user)
    BY <2>1 DEF Own, RowsOf
  <2>4. QED
    BY <1>1, <2>1, <2>2, <2>3, KeptIsShown DEF IInv, AllKept
<1>2. QED
  BY <1>1, Invariance, PTL

=============================================================================
