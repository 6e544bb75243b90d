--------------------- MODULE NotificationDeliveryProofs ---------------------
(***************************************************************************)
(* Proofs about NotificationDelivery, for any number of instances, users,  *)
(* connections, tabs and notifications.  First what UserChannel promises,  *)
(* of which every handler takes a step or none.  Then an inductive         *)
(* invariant in layers, each proved from the ones before it: TypeOK; Held, *)
(* what a request is held by; WireLive, when events are on a wire; Owned,  *)
(* whose rows they are; ReplayFirst; Linkage, where the connection of a    *)
(* tab is found; Flying, where what is owed is.                            *)
(***************************************************************************)
EXTENDS NotificationDelivery, FiniteSetTheorems, SequenceTheorems, TLAPS

(* The composition registers connections exactly as UserChannel does:      *)
(* every handler either takes a step of UserChannel or leaves alone all    *)
(* that UserChannel is about.                                              *)
LEMMA StepRefines == [Next]_vars => [UC!Next]_(UC!vars)
<1> SUFFICES ASSUME [Next]_vars PROVE UC!Next \/ UNCHANGED channel
  BY DEF channel, UC!vars
<1>1. ASSUME NEW t \in Tabs, NEW i \in Instances, NEW c \in Conns, Connect(t, i, c)
      PROVE  UC!Next
  BY <1>1, UserOfTabs DEF Connect, UC!Next
<1>2. ASSUME NEW i \in Instances, RedisExecutes(i) \/ SubscribeRejects(i) \/ Restart(i)
      PROVE  UC!Next
  BY <1>2 DEF RedisExecutes, SubscribeRejects, Restart, UC!Next
<1>3. ASSUME NEW i \in Instances, NEW u \in Users, NEW c \in Conns,
             StreamContinue(i, u, c) \/ StreamClose(i, u, c)
      PROVE  UC!Next
  BY <1>3 DEF StreamContinue, StreamClose, UC!Next
<1>4. ASSUME NEW c \in Conns, CloseUnheard(c)
      PROVE  UC!Next
  BY <1>4 DEF CloseUnheard, UC!Next
<1>5. ASSUME NEW b \in Bodies, Create(b[1], b[2])
      PROVE  UNCHANGED channel
  BY <1>5 DEF Create
<1>6. ASSUME NEW n \in Ids, PublishFails(n) \/ MarkAsRead(n)
      PROVE  UNCHANGED channel
  BY <1>6 DEF PublishFails, MarkAsRead
<1>7. ASSUME NEW i \in Instances, NEW n \in Ids, Publish(i, n) \/ UpdateStatus(i, n)
      PROVE  UNCHANGED channel
  BY <1>7 DEF Publish, UpdateStatus
<1>8. ASSUME NEW i \in Instances, HandleRedisMessage(i) \/ SubscriberReopens(i)
      PROVE  UNCHANGED channel
  BY <1>8 DEF HandleRedisMessage, SubscriberReopens
<1>9. ASSUME NEW t \in Tabs, TabReceive(t) \/ \E leaves \in BOOLEAN : Disconnect(t, leaves)
      PROVE  UNCHANGED channel
  BY <1>9 DEF TabReceive, Disconnect
<1>10. ASSUME NEW c \in Conns, FindMissed(c) \/ MarkMissed(c) \/ Replay(c) \/ ReplayFails(c)
       PROVE  UNCHANGED channel
  BY <1>10 DEF FindMissed, MarkMissed, Replay, ReplayFails
<1>11. CASE UNCHANGED vars
  BY <1>11 DEF vars
<1>12. QED
  BY <1>1, <1>2, <1>3, <1>4, <1>5, <1>6, <1>7, <1>8, <1>9, <1>10, <1>11 DEF Next

(* UserChannelProofs for the variables of the composition.  Its UserChannel *)
(* is another instance than UC, of the same text.                          *)
UCP == INSTANCE UserChannelProofs

LEMMA SameInit == UC!Init => UCP!Init
BY DEF UC!Init, UCP!Init

LEMMA SameNext == [UC!Next]_(UC!vars) => [UCP!Next]_(UCP!vars)
<1> USE DEF UC!vars, UCP!vars, UC!Counted, UCP!Counted, UC!IsLast, UCP!IsLast,
            UC!SubscribeCmd, UCP!SubscribeCmd, UC!UnsubscribeCmd, UCP!UnsubscribeCmd,
            UC!Opening, UCP!Opening, UC!AtInstance, UCP!AtInstance
<1>1. \A i \in Instances, u \in Users, c \in Conns :
        /\ UC!StreamFirst(i, u, c) => UCP!StreamFirst(i, u, c)
        /\ UC!StreamAnother(i, u, c) => UCP!StreamAnother(i, u, c)
        /\ UC!StreamContinue(i, u, c) => UCP!StreamContinue(i, u, c)
        /\ UC!StreamClose(i, u, c) => UCP!StreamClose(i, u, c)
  BY DEF UC!StreamFirst, UCP!StreamFirst, UC!StreamAnother, UCP!StreamAnother,
         UC!StreamContinue, UCP!StreamContinue, UC!StreamClose, UCP!StreamClose
<1>2. \A i \in Instances :
        /\ UC!RedisExecutes(i) => UCP!RedisExecutes(i)
        /\ UC!SubscribeRejects(i) => UCP!SubscribeRejects(i)
        /\ UC!Restart(i) => UCP!Restart(i)
  BY DEF UC!RedisExecutes, UCP!RedisExecutes, UC!SubscribeRejects, UCP!SubscribeRejects,
         UC!Restart, UCP!Restart
<1>3. \A c \in Conns : UC!CloseUnheard(c) => UCP!CloseUnheard(c)
  BY DEF UC!CloseUnheard, UCP!CloseUnheard
<1>4. QED
  BY <1>1, <1>2, <1>3 DEF UC!Next, UCP!Next

LEMMA SameProperties ==
  /\ UCP!RefsBounded => UC!RefsBounded
  /\ UCP!NoChannelLeak => UC!NoChannelLeak
  /\ UCP!ExactUnlessOverlap => UC!ExactUnlessOverlap
<1> USE DEF UC!Open, UCP!Open, UC!Pending, UCP!Pending, UC!Cardinality, UCP!Cardinality
<1>1. UCP!RefsBounded => UC!RefsBounded
  BY DEF UCP!RefsBounded, UC!RefsBounded
<1>2. UCP!NoChannelLeak => UC!NoChannelLeak
  BY DEF UCP!NoChannelLeak, UC!NoChannelLeak
<1>3. UCP!ExactUnlessOverlap => UC!ExactUnlessOverlap
  BY DEF UCP!ExactUnlessOverlap, UC!ExactUnlessOverlap
<1>4. QED
  BY <1>1, <1>2, <1>3

(* In the whole system, whatever publications, replays and tabs do: counts *)
(* are bounded by the connections that return them, no channel is left     *)
(* subscribed, and where no reference was lost every open connection hears *)
(* its channel.                                                            *)
THEOREM RegistrationsHold ==
  SafetySpec => [](UC!RefsBounded /\ UC!NoChannelLeak /\ UC!ExactUnlessOverlap)
<1>1. UCP!FiniteConns
  BY FiniteConns DEF UCP!FiniteConns, UCP!IsFiniteSet, IsFiniteSet
<1>2. UCP!SafetySpec => []UCP!RefsBounded
  BY <1>1, UCP!RefsAlwaysBounded
<1>3. UCP!SafetySpec => []UCP!NoChannelLeak
  BY <1>1, UCP!NoChannelLeaks
<1>4. UCP!SafetySpec => []UCP!ExactUnlessOverlap
  BY <1>1, UCP!CountExact
<1>5. Init => UC!Init
  BY DEF Init
<1>6. QED
  BY <1>2, <1>3, <1>4, <1>5, StepRefines, SameInit, SameNext, SameProperties, PTL
     DEF SafetySpec, UCP!SafetySpec

-----------------------------------------------------------------------------
(* Queues: what appending and taking the head does to one of them.         *)
LEMMA QueueAppended ==
  ASSUME NEW S, NEW I, NEW q \in [I -> Seq(S)], NEW i \in I, NEW e \in S
  PROVE  /\ [q EXCEPT ![i] = Append(@, e)] \in [I -> Seq(S)]
         /\ Len(Append(q[i], e)) = Len(q[i]) + 1
         /\ \A k \in 1..Len(q[i]) : Append(q[i], e)[k] = q[i][k]
         /\ Append(q[i], e)[Len(q[i]) + 1] = e
<1>1. q[i] \in Seq(S)
  OBVIOUS
<1>2. QED
  BY <1>1, AppendProperties, LenProperties

LEMMA QueuePopped ==
  ASSUME NEW S, NEW I, NEW q \in [I -> Seq(S)], NEW i \in I, q[i] # <<>>
  PROVE  /\ [q EXCEPT ![i] = Tail(@)] \in [I -> Seq(S)]
         /\ Len(q[i]) \in Nat \ {0} /\ Len(Tail(q[i])) = Len(q[i]) - 1
         /\ \A k \in 1..Len(Tail(q[i])) : Tail(q[i])[k] = q[i][k + 1]
         /\ Head(q[i]) = q[i][1] /\ Head(q[i]) \in S
<1>1. q[i] \in Seq(S)
  OBVIOUS
<1>2. QED
  BY <1>1, HeadTailProperties, EmptySeq

(* UserChannel keeps its variables in their sets.                          *)
LEMMA ChannelTyped == UC!TypeOK /\ [Next]_vars => UC!TypeOK'
<1> SUFFICES ASSUME UC!TypeOK, UC!Next \/ UNCHANGED UC!vars PROVE UC!TypeOK'
  BY StepRefines
<1> USE DEF UC!TypeOK, UC!Phase, UC!Command
<1>1. ASSUME NEW i \in Instances, NEW u \in Users, NEW c \in Conns, UC!StreamFirst(i, u, c)
      PROVE  UC!TypeOK'
  <2>1. UC!SubscribeCmd(u, c) \in UC!Command
    BY DEF UC!SubscribeCmd
  <2>2. cmds' \in [Instances -> Seq(UC!Command)]
    BY <1>1, <2>1, QueueAppended DEF UC!StreamFirst
  <2>3. streams' \in [Instances -> [Users -> SUBSET Conns]]
    BY <1>1 DEF UC!StreamFirst
  <2>4. overlap' \in [Instances -> [Users -> BOOLEAN]]
    BY <1>1 DEF UC!StreamFirst
  <2>5. pc' \in [Conns -> UC!Phase] /\ UNCHANGED <<refs, gone, subs>>
    BY <1>1 DEF UC!StreamFirst
  <2>6. QED
    BY <2>2, <2>3, <2>4, <2>5
<1>2. ASSUME NEW i \in Instances, NEW u \in Users, NEW c \in Conns, UC!StreamAnother(i, u, c)
      PROVE  UC!TypeOK'
  <2>1. refs' \in [Instances -> [Users -> Nat]]
    BY <1>2 DEF UC!StreamAnother, UC!Counted
  <2>2. streams' \in [Instances -> [Users -> SUBSET Conns]]
    BY <1>2 DEF UC!StreamAnother
  <2>3. QED
    BY <1>2, <2>1, <2>2 DEF UC!StreamAnother
<1>3. ASSUME NEW i \in Instances, NEW u \in Users, NEW c \in Conns, UC!StreamContinue(i, u, c)
      PROVE  UC!TypeOK'
  <2>1. refs' \in [Instances -> [Users -> Nat]]
    BY <1>3 DEF UC!StreamContinue, UC!Counted
  <2>2. QED
    BY <1>3, <2>1 DEF UC!StreamContinue
<1>4. ASSUME NEW i \in Instances, NEW u \in Users, NEW c \in Conns, UC!StreamClose(i, u, c)
      PROVE  UC!TypeOK'
  <2>1. UC!UnsubscribeCmd(u, c) \in UC!Command
    BY DEF UC!UnsubscribeCmd
  <2>2. refs[i][u] \in Nat
    OBVIOUS
  <2>3. streams' \in [Instances -> [Users -> SUBSET Conns]]
    BY <1>4 DEF UC!StreamClose
  <2>4. CASE UC!IsLast(refs[i][u])
    <3>1. /\ cmds' = [cmds EXCEPT ![i] = Append(@, UC!UnsubscribeCmd(u, c))]
          /\ refs' = [refs EXCEPT ![i][u] = 0]
      BY <1>4, <2>4 DEF UC!StreamClose
    <3>2. cmds' \in [Instances -> Seq(UC!Command)]
      BY <2>1, <3>1, QueueAppended
    <3>3. refs' \in [Instances -> [Users -> Nat]]
      BY <3>1
    <3>4. QED
      BY <1>4, <2>3, <3>2, <3>3 DEF UC!StreamClose
  <2>5. CASE ~UC!IsLast(refs[i][u])
    <3>1. refs[i][u] - 1 \in Nat /\ refs' = [refs EXCEPT ![i][u] = refs[i][u] - 1]
      BY <1>4, <2>2, <2>5 DEF UC!StreamClose, UC!IsLast
    <3>2. refs' \in [Instances -> [Users -> Nat]]
      BY <3>1
    <3>3. cmds' = cmds
      BY <1>4, <2>5 DEF UC!StreamClose
    <3>4. QED
      BY <1>4, <2>3, <3>2, <3>3 DEF UC!StreamClose
  <2>6. QED
    BY <2>4, <2>5
<1>5. ASSUME NEW i \in Instances, UC!RedisExecutes(i) \/ UC!SubscribeRejects(i)
      PROVE  UC!TypeOK'
  <2>1. cmds[i] # <<>> /\ cmds' = [cmds EXCEPT ![i] = Tail(@)]
    BY <1>5 DEF UC!RedisExecutes, UC!SubscribeRejects
  <2>2. cmds' \in [Instances -> Seq(UC!Command)] /\ Head(cmds[i]) \in UC!Command
    BY <2>1, QueuePopped
  <2>3. pc' \in [Conns -> UC!Phase]
    <3>1. \/ pc' = pc \/ pc' = [pc EXCEPT ![Head(cmds[i]).conn] = "subscribed"]
          \/ pc' = [pc EXCEPT ![Head(cmds[i]).conn] = "failed"]
      BY <1>5 DEF UC!RedisExecutes, UC!SubscribeRejects
    <3>2. QED
      BY <2>2, <3>1
  <2>4. subs' \in [Instances -> SUBSET Users]
    <3>1. \/ subs' = subs \/ subs' = [subs EXCEPT ![i] = @ \cup {Head(cmds[i]).user}]
          \/ subs' = [subs EXCEPT ![i] = @ \ {Head(cmds[i]).user}]
      BY <1>5 DEF UC!RedisExecutes, UC!SubscribeRejects
    <3>2. /\ subs[i] \cup {Head(cmds[i]).user} \in SUBSET Users
          /\ subs[i] \ {Head(cmds[i]).user} \in SUBSET Users
      BY <2>2
    <3>3. ASSUME NEW S \in SUBSET Users, subs' = [subs EXCEPT ![i] = S]
          PROVE  subs' \in [Instances -> SUBSET Users]
      BY <3>3
    <3>4. CASE subs' = subs
      BY <3>4
    <3>5. subs' # subs => \E S \in SUBSET Users : subs' = [subs EXCEPT ![i] = S]
      BY <3>1, <3>2
    <3>6. QED
      BY <3>3, <3>4, <3>5
  <2>5. UNCHANGED <<streams, refs, gone, overlap>>
    BY <1>5 DEF UC!RedisExecutes, UC!SubscribeRejects
  <2>6. QED
    BY <2>2, <2>3, <2>4, <2>5
<1>6. ASSUME NEW i \in Instances, UC!Restart(i)
      PROVE  UC!TypeOK'
  <2>1. cmds' \in [Instances -> Seq(UC!Command)]
    BY <1>6, EmptySeq DEF UC!Restart
  <2>2. QED
    BY <1>6, <2>1 DEF UC!Restart
<1>7. ASSUME NEW c \in Conns, UC!CloseUnheard(c)
      PROVE  UC!TypeOK'
  BY <1>7 DEF UC!CloseUnheard
<1>8. CASE UNCHANGED UC!vars
  BY <1>8 DEF UC!vars
<1>9. QED
  BY <1>1, <1>2, <1>3, <1>4, <1>5, <1>6, <1>7, <1>8 DEF UC!Next

(* The pieces the other variables are made of.                             *)
LEMMA RowTyped ==
  ASSUME NEW b \in Bodies, rows \in Seq(Row), Len(rows) < MaxId,
         NEW r, r = [to |-> b[1], channel |-> IF b[2] THEN Broadcast ELSE b[1], status |-> "pending"]
  PROVE  /\ Append(rows, r) \in Seq(Row) /\ Len(Append(rows, r)) \in 1..MaxId
         /\ Len(rows) + 1 \in Ids
<1>1. b[1] \in Users \cup {Broadcast}
  BY ValidBodies DEF Body
<1>2. r \in Row
  BY <1>1 DEF Row
<1>3. QED
  BY <1>2, AppendProperties, LenProperties, MaxIdIsNat DEF Ids

LEMMA StatusTyped ==
  ASSUME rows \in Seq(Row), Len(rows) <= MaxId,
         NEW S, NEW status \in {"pending", "delivered", "read"}, SetStatus(S, status)
  PROVE  /\ rows' \in Seq(Row) /\ Len(rows') = Len(rows)
         /\ \A n \in DOMAIN rows : rows'[n].to = rows[n].to /\ rows'[n].channel = rows[n].channel
<1>1. Len(rows) \in Nat /\ rows \in [1..Len(rows) -> Row] /\ DOMAIN rows = 1..Len(rows)
  BY LenProperties
<1>2. rows' \in [1..Len(rows) -> Row]
  BY <1>1 DEF SetStatus, Row
<1>3. rows' \in Seq(Row)
  BY <1>1, <1>2, SeqDef
<1>4. Len(rows') = Len(rows)
  BY <1>1, <1>2, <1>3, LenProperties
<1>5. ASSUME NEW n \in DOMAIN rows
      PROVE  rows'[n].to = rows[n].to /\ rows'[n].channel = rows[n].channel
  BY <1>1, <1>5 DEF SetStatus, Row
<1>6. QED
  BY <1>3, <1>4, <1>5

(* What a replay sends: the rows found, as a sequence of events.           *)
Replays(s) == [k \in 1..Len(s) |-> [id |-> s[k], how |-> "replay"]]

LEMMA ReplayTyped ==
  ASSUME NEW S, S \subseteq Ids, NEW s \in Replayed(S)
  PROVE  /\ s \in Seq(S) /\ Replays(s) \in Seq(Event)
         /\ Len(Replays(s)) = Len(s)
         /\ \A k \in 1..Len(s) : Replays(s)[k] = [id |-> s[k], how |-> "replay"] /\ s[k] \in S
         /\ \A k, l \in 1..Len(s) : k < l => s[k] < s[l]
<1>1. Cardinality(S) \in Nat
  <2>1. IsFiniteSet(Ids)
    BY FS_Interval, MaxIdIsNat DEF Ids
  <2>2. QED
    BY <2>1, FS_Subset, FS_CardinalityType
<1>2. s \in [1..Cardinality(S) -> S] /\ \A k, l \in DOMAIN s : k < l => s[k] < s[l]
  BY DEF Replayed, InOrder
<1>3. s \in Seq(S)
  BY <1>1, <1>2, SeqDef
<1>4. Len(s) \in Nat /\ DOMAIN s = 1..Len(s) /\ \A k \in 1..Len(s) : s[k] \in S
  BY <1>3, LenProperties, ElementOfSeq
<1>5. Replays(s) \in [1..Len(s) -> Event]
  BY <1>4 DEF Replays, Event
<1>6. Replays(s) \in Seq(Event)
  BY <1>4, <1>5, SeqDef
<1>7. Len(Replays(s)) = Len(s)
  BY <1>4, <1>5, <1>6, LenProperties
<1>8. QED
  BY <1>2, <1>3, <1>4, <1>6, <1>7 DEF Replays

LEMMA EmitTyped ==
  ASSUME wire \in [Conns -> Seq(Event)], NEW n \in Ids, NEW S, Emit(S, n)
  PROVE  /\ wire' \in [Conns -> Seq(Event)]
         /\ \A c \in Conns : \/ wire'[c] = wire[c]
                            \/ /\ c \in S /\ Receiving(c)
                               /\ wire'[c] = Append(wire[c], [id |-> n, how |-> "live"])
<1>1. [id |-> n, how |-> "live"] \in Event
  BY DEF Event
<1>2. \A c \in Conns : Append(wire[c], [id |-> n, how |-> "live"]) \in Seq(Event)
  BY <1>1, AppendProperties
<1>3. QED
  BY <1>2 DEF Emit

LEMMA SettleTyped ==
  ASSUME TypeOK, NEW c \in Conns, Settle(c)
  PROVE  /\ req' \in [Conns -> Request \cup {NoRequest}]
         /\ stage' \in [Conns -> Stage] /\ missed' \in [Conns -> SUBSET Ids]
  BY DEF TypeOK, Settle, Stage

LEMMA UnlinkTyped ==
  ASSUME TypeOK, NEW t \in Tabs, NEW leaves \in BOOLEAN, Unlink(t, leaves)
  PROVE  /\ link' \in [Tabs -> Conns \cup {NoConn}] /\ lastId' \in [Tabs -> 0..MaxId]
         /\ seen' \in [Tabs -> SUBSET Ids] /\ owed' \subseteq Tabs \X Ids
  BY MaxIdIsNat DEF TypeOK, Unlink

LEMMA TableTyped ==
  ASSUME TypeOK, UNCHANGED <<channel, server, wire, browser>>,
         rows' \in Seq(Row), Len(rows') <= MaxId, unpub' \subseteq Ids,
         inbox' \in [Instances -> Seq(Ids)], updates' \in [Instances -> SUBSET Ids],
         owed' \subseteq Tabs \X Ids
  PROVE  TypeOK'
<1>1. UC!TypeOK'
  BY DEF TypeOK, UC!TypeOK, channel
<1>2. QED
  BY <1>1 DEF TypeOK, server, browser

(* Every variable keeps its type.                                          *)
THEOREM TypeCorrect == SafetySpec => []TypeOK
<1>1. Init => TypeOK
  <2>1. Init => UC!TypeOK
    BY EmptySeq DEF Init, UC!Init, UC!TypeOK, UC!Phase
  <2>2. QED
    BY <2>1, EmptySeq, MaxIdIsNat DEF Init, TypeOK, Stage
<1>2. TypeOK /\ [Next]_vars => TypeOK'
  <2> SUFFICES ASSUME TypeOK, [Next]_vars PROVE TypeOK'
    OBVIOUS
  <2>0. UC!TypeOK'
    BY ChannelTyped DEF TypeOK
  <2>1. ASSUME NEW b \in Bodies, Create(b[1], b[2])
        PROVE  TypeOK'
    BY <2>1, RowTyped, TableTyped DEF TypeOK, Create
  <2>2. ASSUME NEW n \in Ids, NEW i \in Instances, Publish(i, n)
        PROVE  TypeOK'
    <3>1. inbox' \in [Instances -> Seq(Ids)]
      BY <2>2, AppendProperties DEF TypeOK, Publish
    <3>2. owed' \subseteq Tabs \X Ids
      BY <2>2 DEF TypeOK, Publish, Audience
    <3>3. QED
      BY <2>2, <3>1, <3>2, TableTyped DEF TypeOK, Publish
  <2>3. ASSUME NEW n \in Ids, PublishFails(n)
        PROVE  TypeOK'
    BY <2>3, TableTyped DEF TypeOK, PublishFails
  <2>4. ASSUME NEW n \in Ids, MarkAsRead(n)
        PROVE  TypeOK'
    BY <2>4, StatusTyped, TableTyped DEF TypeOK, MarkAsRead
  <2>5. ASSUME NEW n \in Ids, NEW i \in Instances, UpdateStatus(i, n)
        PROVE  TypeOK'
    <3>1. rows' \in Seq(Row) /\ Len(rows') <= MaxId
      BY <2>5, StatusTyped DEF TypeOK, UpdateStatus
    <3>2. QED
      BY <2>5, <3>1, TableTyped DEF TypeOK, UpdateStatus
  <2>6. ASSUME NEW i \in Instances, HandleRedisMessage(i)
        PROVE  TypeOK'
    <3>1. inbox' \in [Instances -> Seq(Ids)] /\ Head(inbox[i]) \in Ids
      BY <2>6, QueuePopped DEF TypeOK, HandleRedisMessage
    <3>2. updates' \in [Instances -> SUBSET Ids]
      <4>1. updates' = updates \/ updates' = [updates EXCEPT ![i] = @ \cup {Head(inbox[i])}]
        BY <2>6 DEF HandleRedisMessage
      <4>2. updates[i] \cup {Head(inbox[i])} \in SUBSET Ids
        BY <3>1 DEF TypeOK
      <4>3. QED
        BY <4>1, <4>2 DEF TypeOK
    <3>3. wire' \in [Conns -> Seq(Event)]
      <4>1. wire' = wire \/ \E S : Emit(S, Head(inbox[i]))
        BY <2>6 DEF HandleRedisMessage
      <4>2. QED
        BY <3>1, <4>1, EmitTyped DEF TypeOK
    <3>4. UNCHANGED <<rows, unpub, req, stage, missed, link, lastId, seen, owed>>
      BY <2>6 DEF HandleRedisMessage, server, browser
    <3>5. QED
      BY <2>0, <3>1, <3>2, <3>3, <3>4 DEF TypeOK
  <2>7. ASSUME NEW i \in Instances, SubscriberReopens(i)
        PROVE  TypeOK'
    <3>1. inbox' \in [Instances -> Seq(Ids)]
      BY <2>7, EmptySeq DEF TypeOK, SubscriberReopens
    <3>2. QED
      BY <2>7, <3>1, TableTyped DEF TypeOK, SubscriberReopens, table
  <2>8. ASSUME NEW t \in Tabs, NEW i \in Instances, NEW c \in Conns, Connect(t, i, c)
        PROVE  TypeOK'
    <3>1. [at |-> i, user |-> UserOf[t], after |-> lastId[t]] \in Request
      BY UserOfTabs DEF TypeOK, Request
    <3>2. req' \in [Conns -> Request \cup {NoRequest}] /\ link' \in [Tabs -> Conns \cup {NoConn}]
      BY <2>8, <3>1 DEF TypeOK, Connect
    <3>3. stage' \in [Conns -> Stage]
      BY <2>8 DEF TypeOK, Connect, Stage, FirstStage
    <3>4. UNCHANGED <<rows, unpub, updates, inbox, missed, wire, lastId, seen, owed>>
      BY <2>8 DEF Connect, table
    <3>5. QED
      BY <2>0, <3>2, <3>3, <3>4 DEF TypeOK
  <2>9. ASSUME NEW i \in Instances, RedisExecutes(i)
        PROVE  TypeOK'
    BY <2>0, <2>9 DEF TypeOK, RedisExecutes, table, server, browser
  <2>10. ASSUME NEW i \in Instances, NEW u \in Users, NEW c \in Conns, StreamContinue(i, u, c)
         PROVE  TypeOK'
    <3>1. stage' \in [Conns -> Stage]
      BY <2>10 DEF TypeOK, StreamContinue, Stage, FirstStage
    <3>2. QED
      BY <2>0, <2>10, <3>1 DEF TypeOK, StreamContinue, table, browser
  <2>11. ASSUME NEW t \in Tabs, NEW leaves \in BOOLEAN, Disconnect(t, leaves)
         PROVE  TypeOK'
    <3>1. wire' \in [Conns -> Seq(Event)]
      BY <2>11, EmptySeq DEF TypeOK, Disconnect
    <3>2. QED
      BY <2>0, <2>11, <3>1, UnlinkTyped DEF TypeOK, Disconnect, table, server
  <2>12. ASSUME NEW i \in Instances, SubscribeRejects(i)
         PROVE  TypeOK'
    <3>1. /\ link' \in [Tabs -> Conns \cup {NoConn}] /\ lastId' \in [Tabs -> 0..MaxId]
          /\ seen' \in [Tabs -> SUBSET Ids] /\ owed' \subseteq Tabs \X Ids
      BY <2>12, UnlinkTyped DEF TypeOK, SubscribeRejects, browser
    <3>2. QED
      BY <2>0, <2>12, <3>1 DEF TypeOK, SubscribeRejects, table, server
  <2>13. ASSUME NEW c \in Conns, CloseUnheard(c)
         PROVE  TypeOK'
    BY <2>0, <2>13 DEF TypeOK, CloseUnheard, table, server, browser
  <2>14. ASSUME NEW i \in Instances, NEW u \in Users, NEW c \in Conns, StreamClose(i, u, c)
         PROVE  TypeOK'
    <3>1. stage' \in [Conns -> Stage] /\ req' \in [Conns -> Request \cup {NoRequest}]
      BY <2>14 DEF TypeOK, StreamClose, Stage
    <3>2. QED
      BY <2>0, <2>14, <3>1 DEF TypeOK, StreamClose, table, browser
  <2>15. ASSUME NEW c \in Conns, FindMissed(c)
         PROVE  TypeOK'
    <3>1. stage' \in [Conns -> Stage]
      BY <2>15 DEF TypeOK, FindMissed, Stage
    <3>2. DOMAIN rows \subseteq Ids
      BY LenProperties, MaxIdIsNat DEF TypeOK, Ids
    <3>3. missed' \in [Conns -> SUBSET Ids]
      BY <2>15, <3>2 DEF TypeOK, FindMissed
    <3>4. owed' \subseteq Tabs \X Ids
      BY <2>15, <3>3 DEF TypeOK, FindMissed
    <3>5. QED
      BY <2>0, <2>15, <3>1, <3>3, <3>4 DEF TypeOK, FindMissed, table, browser
  <2>16. ASSUME NEW c \in Conns, MarkMissed(c)
         PROVE  TypeOK'
    <3>1. stage' \in [Conns -> Stage]
      BY <2>16 DEF TypeOK, MarkMissed, Stage
    <3>2. rows' \in Seq(Row) /\ Len(rows') <= MaxId
      BY <2>16, StatusTyped DEF TypeOK, MarkMissed
    <3>3. QED
      BY <2>0, <2>16, <3>1, <3>2 DEF TypeOK, MarkMissed, browser
  <2>17. ASSUME NEW c \in Conns, Replay(c)
         PROVE  TypeOK'
    <3>1. wire' \in [Conns -> Seq(Event)]
      <4>1. ASSUME NEW s \in Replayed(missed[c]),
                   wire' = [wire EXCEPT ![c] = @ \o Replays(s)]
            PROVE  wire' \in [Conns -> Seq(Event)]
        <5>1. Replays(s) \in Seq(Event)
          BY ReplayTyped DEF TypeOK
        <5>2. wire[c] \o Replays(s) \in Seq(Event)
          BY <5>1, ConcatProperties DEF TypeOK
        <5>3. QED
          BY <4>1, <5>2 DEF TypeOK
      <4>2. QED
        BY <2>17, <4>1 DEF TypeOK, Replay, Replays
    <3>2. QED
      BY <2>0, <2>17, <3>1, SettleTyped DEF TypeOK, Replay, table, browser
  <2>18. ASSUME NEW c \in Conns, ReplayFails(c)
         PROVE  TypeOK'
    <3>1. wire' \in [Conns -> Seq(Event)]
      BY <2>18, EmptySeq DEF TypeOK, ReplayFails
    <3>2. /\ link' \in [Tabs -> Conns \cup {NoConn}] /\ lastId' \in [Tabs -> 0..MaxId]
          /\ seen' \in [Tabs -> SUBSET Ids] /\ owed' \subseteq Tabs \X Ids
      BY <2>18, UnlinkTyped DEF TypeOK, ReplayFails, browser
    <3>3. QED
      BY <2>0, <2>18, <3>1, <3>2, SettleTyped DEF TypeOK, ReplayFails, table
  <2>19. ASSUME NEW t \in Tabs, TabReceive(t)
         PROVE  TypeOK'
    <3>1. link[t] \in Conns /\ wire[link[t]] # <<>>
      BY <2>19 DEF TypeOK, TabReceive
    <3>2. wire' \in [Conns -> Seq(Event)] /\ Head(wire[link[t]]) \in Event
      BY <2>19, <3>1, QueuePopped DEF TypeOK, TabReceive
    <3>3. Head(wire[link[t]]).id \in Ids /\ Ids \subseteq 0..MaxId
      BY <3>2, MaxIdIsNat DEF Event, Ids
    <3>4. /\ seen' \in [Tabs -> SUBSET Ids] /\ lastId' \in [Tabs -> 0..MaxId]
          /\ owed' \subseteq Tabs \X Ids
      BY <2>19, <3>3 DEF TypeOK, TabReceive
    <3>5. QED
      BY <2>0, <2>19, <3>2, <3>4 DEF TypeOK, TabReceive, table, server
  <2>20. ASSUME NEW i \in Instances, Restart(i)
         PROVE  TypeOK'
    <3>1. inbox' \in [Instances -> Seq(Ids)] /\ wire' \in [Conns -> Seq(Event)]
      BY <2>20, EmptySeq DEF TypeOK, Restart
    <3>2. /\ req' \in [Conns -> Request \cup {NoRequest}] /\ stage' \in [Conns -> Stage]
          /\ missed' \in [Conns -> SUBSET Ids] /\ updates' \in [Instances -> SUBSET Ids]
      BY <2>20 DEF TypeOK, Restart, Stage
    <3>3. link' \in [Tabs -> Conns \cup {NoConn}] /\ owed' \subseteq Tabs \X Ids
      BY <2>20 DEF TypeOK, Restart
    <3>4. QED
      BY <2>0, <2>20, <3>1, <3>2, <3>3 DEF TypeOK, Restart
  <2>21. CASE UNCHANGED vars
    BY <2>0, <2>21 DEF TypeOK, vars, table, server, browser
  <2>22. QED
    BY <2>1, <2>2, <2>3, <2>4, <2>5, <2>6, <2>7, <2>8, <2>9, <2>10, <2>11, <2>12, <2>13,
       <2>14, <2>15, <2>16, <2>17, <2>18, <2>19, <2>20, <2>21 DEF Next
<1>3. QED
  BY <1>1, <1>2, PTL DEF SafetySpec

-----------------------------------------------------------------------------
(* Held: a subject and a tab belong to the request that made them; a       *)
(* SUBSCRIBE under way belongs to one handler suspended on it; and an      *)
(* observable that has started belongs to a request whose handler is past  *)
(* its await, and is heard by nobody once its connection has been closed.  *)
Placed ==
  \A i \in Instances, u \in Users, c \in Conns : c \in streams[i][u] =>
    req[c] # NoRequest /\ req[c].at = i /\ req[c].user = u

LinkOwn ==
  \A t \in Tabs : link[t] # NoConn =>
    req[link[t]] # NoRequest /\ req[link[t]].user = UserOf[t]

IsSubscribe(i, k) == k \in 1..Len(cmds[i]) /\ cmds[i][k].op = "SUBSCRIBE"

Waiting ==
  \A i \in Instances :
    /\ \A k \in Nat : IsSubscribe(i, k) =>
         /\ cmds[i][k].conn \in streams[i][cmds[i][k].user]
         /\ pc[cmds[i][k].conn] = "subscribing"
    /\ \A k, l \in Nat :
         IsSubscribe(i, k) /\ IsSubscribe(i, l) /\ cmds[i][k].conn = cmds[i][l].conn => k = l

NowhereHeld(c) == ~Linked(c) /\ \A i \in Instances, u \in Users : c \notin streams[i][u]

Staged ==
  \A c \in Conns : stage[c] # "none" =>
    /\ req[c] # NoRequest
    /\ pc[c] \notin {"subscribing", "subscribed"}
    /\ pc[c] # "open" => NowhereHeld(c)

Held == Placed /\ LinkOwn /\ Waiting /\ Staged

(* Steps that register and close nothing: connections only lose tabs, and  *)
(* only observables that have started move on.                             *)
LEMMA HeldUnmoved ==
  ASSUME Held, TypeOK, UNCHANGED <<streams, pc, cmds, req>>,
         \A c \in Conns : stage'[c] # "none" => stage[c] # "none",
         \A t \in Tabs : link'[t] \in {link[t], NoConn}
  PROVE  Held'
<1>1. Placed'
  BY DEF Held, Placed
<1>2. LinkOwn'
  BY DEF Held, LinkOwn
<1>3. Waiting'
  BY DEF Held, Waiting, IsSubscribe
<1>4. ASSUME NEW c \in Conns, Linked(c)' PROVE Linked(c)
  BY <1>4, NoConnIsNone DEF Linked
<1>5. Staged'
  BY <1>4 DEF Held, Staged, NowhereHeld
<1>6. QED
  BY <1>1, <1>2, <1>3, <1>5 DEF Held

(* A request whose replay is settled goes on, or ends if it is closed.     *)
LEMMA HeldSettled ==
  ASSUME Held, TypeOK, NEW c \in Conns, stage[c] # "none", Settle(c), UNCHANGED channel,
         \A t \in Tabs : link'[t] \in {link[t], NoConn}
  PROVE  Held'
<1>1. CASE pc[c] = "open"
  <2>1. stage' = [stage EXCEPT ![c] = "live"] /\ UNCHANGED req
    BY <1>1 DEF Settle
  <2>2. QED
    BY <2>1, HeldUnmoved DEF TypeOK, channel
<1>2. CASE pc[c] # "open"
  <2>1. stage' = [stage EXCEPT ![c] = "none"] /\ req' = [req EXCEPT ![c] = NoRequest]
    BY <1>2 DEF Settle
  <2>2. NowhereHeld(c)
    BY <1>2 DEF Held, Staged
  <2>3. Placed'
    BY <2>1, <2>2 DEF Held, Placed, NowhereHeld, TypeOK, channel
  <2>4. LinkOwn'
    BY <2>1, <2>2 DEF Held, LinkOwn, NowhereHeld, Linked, TypeOK
  <2>5. Waiting'
    BY DEF Held, Waiting, IsSubscribe, channel
  <2>6. ASSUME NEW d \in Conns, Linked(d)' PROVE Linked(d)
    BY <2>6, NoConnIsNone DEF Linked
  <2>7. Staged'
    BY <2>1, <2>6 DEF Held, Staged, NowhereHeld, TypeOK, channel
  <2>8. QED
    BY <2>3, <2>4, <2>5, <2>7 DEF Held
<1>3. QED
  BY <1>1, <1>2

(* What a connection is about to become when it is registered.             *)
LEMMA HeldNew ==
  ASSUME Held, TypeOK, NEW i \in Instances, NEW c \in Conns, req[c] = NoRequest
  PROVE  /\ stage[c] = "none" /\ NowhereHeld(c)
         /\ \A j \in Instances, k \in Nat : IsSubscribe(j, k) => cmds[j][k].conn # c
<1>1. \A j \in Instances, u \in Users : c \notin streams[j][u]
  BY DEF Held, Placed
<1>2. ~Linked(c)
  BY NoConnIsNone DEF Held, LinkOwn, Linked
<1>3. ASSUME NEW j \in Instances, NEW k \in Nat, IsSubscribe(j, k)
      PROVE  cmds[j][k].conn # c
  <2>1. cmds[j] \in Seq(UC!Command)
    BY DEF TypeOK, UC!TypeOK
  <2>2. cmds[j][k] \in UC!Command
    BY <1>3, <2>1, ElementOfSeq DEF IsSubscribe
  <2>3. QED
    BY <1>1, <1>3, <2>2 DEF Held, Waiting, UC!Command
<1>4. QED
  BY <1>1, <1>2, <1>3 DEF Held, Staged, NowhereHeld

LEMMA HeldConnected ==
  ASSUME Held, TypeOK, NEW t \in Tabs, NEW i \in Instances, NEW c \in Conns, Connect(t, i, c)
  PROVE  Held'
<1> DEFINE u == UserOf[t]
<1>0. u \in Users
  BY UserOfTabs
<1>1. /\ stage[c] = "none" /\ NowhereHeld(c)
      /\ \A j \in Instances, k \in Nat : IsSubscribe(j, k) => cmds[j][k].conn # c
  BY HeldNew DEF Connect
<1>2. /\ link' = [link EXCEPT ![t] = c]
      /\ req' = [req EXCEPT ![c] = [at |-> i, user |-> u, after |-> lastId[t]]]
  BY DEF Connect
<1>3. [at |-> i, user |-> u, after |-> lastId[t]] # NoRequest
  BY <1>0, NoRequestIsNone DEF Request, TypeOK
<1>4. streams' = [streams EXCEPT ![i][u] = @ \cup {c}]
  BY DEF Connect, UC!StreamFirst, UC!StreamAnother
<1>5. Placed'
  BY <1>0, <1>1, <1>2, <1>3, <1>4 DEF Held, Placed, NowhereHeld, TypeOK, UC!TypeOK
<1>6. LinkOwn'
  BY <1>1, <1>2, <1>3 DEF Held, LinkOwn, NowhereHeld, Linked, TypeOK
<1>7. Waiting' /\ Staged'
  <2>1. CASE UC!StreamFirst(i, u, c) /\ UNCHANGED stage
    <3>1. /\ pc' = [pc EXCEPT ![c] = "subscribing"]
          /\ cmds' = [cmds EXCEPT ![i] = Append(@, UC!SubscribeCmd(u, c))]
      BY <2>1 DEF UC!StreamFirst
    <3>2. UC!SubscribeCmd(u, c) \in UC!Command
      BY <1>0 DEF UC!SubscribeCmd, UC!Command
    <3>3. /\ cmds' \in [Instances -> Seq(UC!Command)]
          /\ \A j \in Instances \ {i} : cmds'[j] = cmds[j]
          /\ Len(cmds[i]) \in Nat /\ Len(cmds'[i]) = Len(cmds[i]) + 1
          /\ \A k \in 1..Len(cmds[i]) : cmds'[i][k] = cmds[i][k]
          /\ cmds'[i][Len(cmds[i]) + 1] = UC!SubscribeCmd(u, c)
      BY <3>1, <3>2, QueueAppended, LenProperties DEF TypeOK, UC!TypeOK
    <3>4. ASSUME NEW j \in Instances, NEW k \in Nat, IsSubscribe(j, k)'
          PROVE  \/ IsSubscribe(j, k) /\ cmds'[j][k] = cmds[j][k] /\ cmds'[j][k].conn # c
                 \/ j = i /\ k = Len(cmds[i]) + 1 /\ cmds'[j][k] = UC!SubscribeCmd(u, c)
      <4>0. k \in 1..Len(cmds'[j]) /\ cmds'[j][k].op = "SUBSCRIBE"
        BY <3>4 DEF IsSubscribe
      <4>1. CASE j # i
        BY <1>1, <3>3, <4>0, <4>1 DEF IsSubscribe
      <4>2. CASE j = i /\ k <= Len(cmds[i])
        <5>1. k \in 1..Len(cmds[i]) /\ cmds'[j][k] = cmds[j][k]
          BY <3>3, <4>0, <4>2
        <5>2. IsSubscribe(j, k)
          BY <4>0, <4>2, <5>1 DEF IsSubscribe
        <5>3. QED
          BY <1>1, <5>1, <5>2
      <4>3. CASE j = i /\ k > Len(cmds[i])
        BY <3>3, <4>0, <4>3
      <4>4. QED
        BY <3>3, <4>1, <4>2, <4>3
    <3>5. UC!SubscribeCmd(u, c).conn = c /\ UC!SubscribeCmd(u, c).user = u
      BY DEF UC!SubscribeCmd
    <3>6. ASSUME NEW j \in Instances, NEW k \in Nat, IsSubscribe(j, k)'
          PROVE  cmds'[j][k].conn \in streams'[j][cmds'[j][k].user]
                 /\ pc'[cmds'[j][k].conn] = "subscribing"
      <4>1. CASE IsSubscribe(j, k) /\ cmds'[j][k] = cmds[j][k] /\ cmds'[j][k].conn # c
        <5>1. cmds[j][k].conn \in streams[j][cmds[j][k].user] /\ pc[cmds[j][k].conn] = "subscribing"
          BY <4>1 DEF Held, Waiting
        <5>2. cmds[j][k] \in UC!Command
          BY <4>1, ElementOfSeq DEF IsSubscribe, TypeOK, UC!TypeOK
        <5>3. QED
          BY <1>0, <1>4, <3>1, <4>1, <5>1, <5>2 DEF TypeOK, UC!TypeOK, UC!Command
      <4>2. CASE j = i /\ k = Len(cmds[i]) + 1 /\ cmds'[j][k] = UC!SubscribeCmd(u, c)
        BY <1>0, <1>4, <3>1, <3>5, <4>2 DEF TypeOK, UC!TypeOK
      <4>3. QED
        BY <3>4, <3>6, <4>1, <4>2
    <3>7. Waiting'
      BY <3>4, <3>5, <3>6 DEF Held, Waiting
    <3>8. Staged'
      BY <1>1, <1>2, <1>3, <1>4, <2>1, <3>1 DEF Held, Staged, NowhereHeld, Linked, TypeOK, UC!TypeOK
    <3>9. QED
      BY <3>7, <3>8
  <2>2. CASE UC!StreamAnother(i, u, c) /\ stage' = [stage EXCEPT ![c] = FirstStage(lastId[t])]
    <3>1. pc' = [pc EXCEPT ![c] = "open"] /\ cmds' = cmds
      BY <2>2 DEF UC!StreamAnother
    <3>2. ASSUME NEW j \in Instances, NEW k \in Nat, IsSubscribe(j, k)
          PROVE  cmds[j][k].conn \in streams'[j][cmds[j][k].user]
                 /\ pc'[cmds[j][k].conn] = "subscribing"
      <4>1. cmds[j][k].conn \in streams[j][cmds[j][k].user] /\ pc[cmds[j][k].conn] = "subscribing"
        BY <3>2 DEF Held, Waiting
      <4>2. cmds[j][k] \in UC!Command
        BY <3>2, ElementOfSeq DEF IsSubscribe, TypeOK, UC!TypeOK
      <4>3. QED
        BY <1>0, <1>1, <1>4, <3>1, <3>2, <4>1, <4>2 DEF TypeOK, UC!TypeOK, UC!Command
    <3>3. Waiting'
      BY <3>1, <3>2 DEF Held, Waiting, IsSubscribe
    <3>4. Staged'
      BY <1>1, <1>2, <1>3, <1>4, <2>2, <3>1 DEF Held, Staged, NowhereHeld, Linked, TypeOK, UC!TypeOK
    <3>5. QED
      BY <3>3, <3>4
  <2>3. QED
    BY <2>1, <2>2 DEF Connect
<1>8. QED
  BY <1>5, <1>6, <1>7 DEF Held

(* The command a SUBSCRIBE in a queue is.                                  *)
LEMMA Awaited ==
  ASSUME Held, TypeOK, NEW i \in Instances, NEW k \in Nat, IsSubscribe(i, k)
  PROVE  /\ cmds[i][k].conn \in Conns /\ cmds[i][k].user \in Users
         /\ cmds[i][k].conn \in streams[i][cmds[i][k].user]
         /\ pc[cmds[i][k].conn] = "subscribing" /\ stage[cmds[i][k].conn] = "none"
         /\ \A j \in Instances, l \in Nat :
              IsSubscribe(j, l) /\ cmds[j][l].conn = cmds[i][k].conn => j = i /\ l = k
<1>1. ASSUME NEW j \in Instances, NEW l \in Nat, IsSubscribe(j, l)
      PROVE  /\ cmds[j][l].conn \in Conns /\ cmds[j][l].user \in Users
             /\ cmds[j][l].conn \in streams[j][cmds[j][l].user]
             /\ req[cmds[j][l].conn].at = j
  <2>1. cmds[j][l] \in UC!Command
    BY <1>1, ElementOfSeq DEF IsSubscribe, TypeOK, UC!TypeOK
  <2>2. QED
    BY <1>1, <2>1 DEF Held, Waiting, Placed, UC!Command
<1>2. QED
  BY <1>1 DEF Held, Waiting, Staged

(* Redis answers the oldest command of an instance.                        *)
LEMMA HeldAnswered ==
  ASSUME Held, TypeOK, NEW i \in Instances, cmds[i] # <<>>,
         cmds' = [cmds EXCEPT ![i] = Tail(@)], UNCHANGED <<streams, req, stage>>,
         \A t \in Tabs : link'[t] \in {link[t], NoConn},
         \/ pc' = pc
         \/ /\ Head(cmds[i]).op = "SUBSCRIBE"
            /\ \E p \in {"subscribed", "failed"} : pc' = [pc EXCEPT ![Head(cmds[i]).conn] = p]
  PROVE  Held'
<1>1. /\ Len(cmds[i]) \in Nat \ {0} /\ Len(cmds'[i]) = Len(cmds[i]) - 1
      /\ \A k \in 1..Len(cmds'[i]) : cmds'[i][k] = cmds[i][k + 1]
      /\ Head(cmds[i]) = cmds[i][1]
      /\ \A j \in Instances \ {i} : cmds'[j] = cmds[j]
  BY QueuePopped DEF TypeOK, UC!TypeOK
<1>2. ASSUME NEW j \in Instances, NEW k \in Nat, IsSubscribe(j, k)'
      PROVE  \E m \in Nat : /\ IsSubscribe(j, m) /\ cmds'[j][k] = cmds[j][m]
                            /\ j = i => m = k + 1
                            /\ j # i => m = k
  <2>1. k \in 1..Len(cmds'[j]) /\ cmds'[j][k].op = "SUBSCRIBE"
    BY <1>2 DEF IsSubscribe
  <2>2. CASE j = i
    <3>1. k \in 1..Len(cmds'[i]) /\ k + 1 \in 1..Len(cmds[i]) /\ k + 1 \in Nat
      BY <1>1, <2>1, <2>2
    <3>2. IsSubscribe(j, k + 1) /\ cmds'[j][k] = cmds[j][k + 1]
      BY <1>1, <2>1, <2>2, <3>1 DEF IsSubscribe
    <3>3. QED
      BY <2>2, <3>1, <3>2
  <2>3. CASE j # i
    BY <1>1, <2>1, <2>3 DEF IsSubscribe
  <2>4. QED
    BY <2>2, <2>3
<1>3. Waiting'
  <2>1. ASSUME NEW j \in Instances, NEW k \in Nat, IsSubscribe(j, k)'
        PROVE  /\ cmds'[j][k].conn \in streams'[j][cmds'[j][k].user]
               /\ pc'[cmds'[j][k].conn] = "subscribing"
    <3>1. PICK m \in Nat : /\ IsSubscribe(j, m) /\ cmds'[j][k] = cmds[j][m]
                           /\ j = i => m = k + 1
      BY <1>2, <2>1
    <3>2. /\ cmds[j][m].conn \in streams[j][cmds[j][m].user]
          /\ cmds[j][m].conn \in Conns /\ pc[cmds[j][m].conn] = "subscribing"
      BY <3>1, Awaited
    <3>3. ASSUME Head(cmds[i]).op = "SUBSCRIBE"
          PROVE  cmds[j][m].conn # Head(cmds[i]).conn
      <4>1. IsSubscribe(i, 1)
        BY <1>1, <3>3 DEF IsSubscribe
      <4>2. j # i \/ m # 1
        BY <2>1, <3>1 DEF IsSubscribe
      <4>3. QED
        BY <1>1, <3>1, <4>1, <4>2, Awaited
    <3>4. pc'[cmds[j][m].conn] = pc[cmds[j][m].conn]
      BY <3>2, <3>3 DEF TypeOK, UC!TypeOK
    <3>5. QED
      BY <3>1, <3>2, <3>4
  <2>2. ASSUME NEW j \in Instances, NEW k \in Nat, NEW l \in Nat,
               IsSubscribe(j, k)', IsSubscribe(j, l)', cmds'[j][k].conn = cmds'[j][l].conn
        PROVE  k = l
    <3>1. PICK m \in Nat : /\ IsSubscribe(j, m) /\ cmds'[j][k] = cmds[j][m]
                           /\ j = i => m = k + 1
                           /\ j # i => m = k
      BY <1>2, <2>2
    <3>2. PICK p \in Nat : /\ IsSubscribe(j, p) /\ cmds'[j][l] = cmds[j][p]
                           /\ j = i => p = l + 1
                           /\ j # i => p = l
      BY <1>2, <2>2
    <3>3. cmds[j][m].conn = cmds[j][p].conn
      BY <2>2, <3>1, <3>2
    <3>4. m = p
      BY <3>1, <3>2, <3>3, Awaited
    <3>5. QED
      BY <3>1, <3>2, <3>4
  <2>3. QED
    BY <2>1, <2>2 DEF Waiting
<1>4. \A c \in Conns : stage[c] # "none" => pc'[c] = pc[c]
  <2>1. ASSUME Head(cmds[i]).op = "SUBSCRIBE"
        PROVE  stage[Head(cmds[i]).conn] = "none"
    <3>1. IsSubscribe(i, 1)
      BY <1>1, <2>1 DEF IsSubscribe
    <3>2. QED
      BY <1>1, <3>1, Awaited
  <2>2. QED
    BY <2>1 DEF TypeOK, UC!TypeOK
<1>5. Placed' /\ LinkOwn'
  BY DEF Held, Placed, LinkOwn
<1>6. ASSUME NEW c \in Conns, Linked(c)' PROVE Linked(c)
  BY <1>6, NoConnIsNone DEF Linked
<1>7. Staged'
  BY <1>4, <1>6 DEF Held, Staged, NowhereHeld
<1>8. QED
  BY <1>3, <1>5, <1>7 DEF Held

LEMMA HeldContinued ==
  ASSUME Held, TypeOK, NEW i \in Instances, NEW u \in Users, NEW c \in Conns,
         StreamContinue(i, u, c)
  PROVE  Held'
<1>1. /\ c \in streams[i][u] /\ pc[c] = "subscribed" /\ pc' = [pc EXCEPT ![c] = "open"]
      /\ stage' = [stage EXCEPT ![c] = FirstStage(req[c].after)]
      /\ UNCHANGED <<streams, cmds, req, link>>
  BY DEF StreamContinue, UC!StreamContinue, browser
<1>2. Placed' /\ LinkOwn'
  BY <1>1 DEF Held, Placed, LinkOwn
<1>3. ASSUME NEW j \in Instances, NEW k \in Nat, IsSubscribe(j, k)
      PROVE  pc'[cmds[j][k].conn] = "subscribing"
  BY <1>1, <1>3, Awaited DEF TypeOK, UC!TypeOK
<1>4. Waiting'
  BY <1>1, <1>3 DEF Held, Waiting, IsSubscribe
<1>5. req[c] # NoRequest
  BY <1>1 DEF Held, Placed
<1>6. Staged'
  BY <1>1, <1>5 DEF Held, Staged, NowhereHeld, Linked, TypeOK, UC!TypeOK
<1>7. QED
  BY <1>2, <1>4, <1>6 DEF Held

LEMMA HeldClosed ==
  ASSUME Held, TypeOK, NEW i \in Instances, NEW u \in Users, NEW c \in Conns,
         StreamClose(i, u, c)
  PROVE  Held'
<1>1. /\ c \in streams[i][u] /\ pc[c] = "open" /\ pc' = [pc EXCEPT ![c] = "idle"]
      /\ streams' = [streams EXCEPT ![i][u] = @ \ {c}]
      /\ ~Linked(c) /\ link' = link
      /\ \/ stage' = [stage EXCEPT ![c] = "none"] /\ req' = [req EXCEPT ![c] = NoRequest]
         \/ UNCHANGED <<stage, req>>
  BY DEF StreamClose, UC!StreamClose, browser
<1>2. NowhereHeld(c)'
  <2>1. ASSUME NEW j \in Instances, NEW v \in Users, c \in streams[j][v]
        PROVE  j = i /\ v = u
    BY <1>1, <2>1 DEF Held, Placed
  <2>2. \A j \in Instances, v \in Users : c \notin streams'[j][v]
    BY <1>1, <2>1 DEF TypeOK, UC!TypeOK
  <2>3. ~Linked(c)'
    BY <1>1 DEF Linked
  <2>4. QED
    BY <2>2, <2>3 DEF NowhereHeld
<1>3. Placed' /\ LinkOwn'
  <2>1. \A d \in Conns \ {c} : req'[d] = req[d]
    BY <1>1 DEF TypeOK
  <2>2. \A j \in Instances, v \in Users : streams'[j][v] \subseteq streams[j][v]
    BY <1>1 DEF TypeOK, UC!TypeOK
  <2>3. Placed'
    BY <1>2, <2>1, <2>2 DEF Held, Placed, NowhereHeld
  <2>4. LinkOwn'
    BY <1>1, <2>1 DEF Held, LinkOwn, Linked, TypeOK
  <2>5. QED
    BY <2>3, <2>4
<1>4. /\ \A j \in Instances \ {i} : cmds'[j] = cmds[j]
      /\ Len(cmds[i]) \in Nat
      /\ \/ cmds'[i] = cmds[i]
         \/ /\ Len(cmds'[i]) = Len(cmds[i]) + 1
            /\ \A k \in 1..Len(cmds[i]) : cmds'[i][k] = cmds[i][k]
            /\ cmds'[i][Len(cmds[i]) + 1].op = "UNSUBSCRIBE"
  <2>1. \/ cmds' = [cmds EXCEPT ![i] = Append(@, UC!UnsubscribeCmd(u, c))]
        \/ cmds' = cmds
    BY DEF StreamClose, UC!StreamClose
  <2>2. UC!UnsubscribeCmd(u, c) \in UC!Command /\ UC!UnsubscribeCmd(u, c).op = "UNSUBSCRIBE"
    BY DEF UC!UnsubscribeCmd, UC!Command
  <2>3. cmds \in [Instances -> Seq(UC!Command)] /\ cmds[i] \in Seq(UC!Command)
    BY DEF TypeOK, UC!TypeOK
  <2>4. Len(cmds[i]) \in Nat
    BY <2>3, LenProperties
  <2>5. CASE cmds' = cmds
    BY <2>4, <2>5
  <2>6. CASE cmds' = [cmds EXCEPT ![i] = Append(@, UC!UnsubscribeCmd(u, c))]
    <3>1. cmds'[i] = Append(cmds[i], UC!UnsubscribeCmd(u, c))
      BY <2>3, <2>6
    <3>2. \A j \in Instances \ {i} : cmds'[j] = cmds[j]
      BY <2>3, <2>6
    <3>3. QED
      BY <2>2, <2>3, <2>4, <3>1, <3>2, AppendProperties
  <2>7. QED
    BY <2>1, <2>5, <2>6
<1>5. ASSUME NEW j \in Instances, NEW k \in Nat, IsSubscribe(j, k)'
      PROVE  /\ IsSubscribe(j, k) /\ cmds'[j][k] = cmds[j][k]
             /\ cmds[j][k].conn \in streams'[j][cmds[j][k].user]
             /\ pc'[cmds[j][k].conn] = "subscribing"
  <2>1. k \in 1..Len(cmds'[j]) /\ cmds'[j][k].op = "SUBSCRIBE"
    BY <1>5 DEF IsSubscribe
  <2>2. IsSubscribe(j, k) /\ cmds'[j][k] = cmds[j][k]
    <3>1. CASE cmds'[j] = cmds[j]
      BY <2>1, <3>1 DEF IsSubscribe
    <3>2. CASE cmds'[j] # cmds[j]
      <4>1. /\ j = i /\ Len(cmds[j]) \in Nat /\ Len(cmds'[j]) = Len(cmds[j]) + 1
            /\ \A l \in 1..Len(cmds[j]) : cmds'[j][l] = cmds[j][l]
            /\ cmds'[j][Len(cmds[j]) + 1].op = "UNSUBSCRIBE"
        BY <1>4, <3>2
      <4>2. k \in 1..Len(cmds[j])
        BY <2>1, <4>1
      <4>3. QED
        BY <2>1, <4>1, <4>2 DEF IsSubscribe
    <3>3. QED
      BY <3>1, <3>2
  <2>3. cmds[j][k].conn # c
    BY <1>1, <2>2, Awaited
  <2>4. /\ cmds[j][k].conn \in Conns /\ cmds[j][k].user \in Users
        /\ cmds[j][k].conn \in streams[j][cmds[j][k].user]
        /\ pc[cmds[j][k].conn] = "subscribing"
    BY <2>2, Awaited
  <2>5. cmds[j][k].conn \in streams'[j][cmds[j][k].user] /\ pc'[cmds[j][k].conn] = "subscribing"
    BY <1>1, <2>3, <2>4 DEF TypeOK, UC!TypeOK
  <2>6. QED
    BY <2>2, <2>5
<1>6. Waiting'
  BY <1>5 DEF Held, Waiting
<1>7. Staged'
  BY <1>1, <1>2 DEF Held, Staged, NowhereHeld, Linked, TypeOK, UC!TypeOK
<1>8. QED
  BY <1>3, <1>6, <1>7 DEF Held

LEMMA HeldRestarted ==
  ASSUME Held, TypeOK, NEW i \in Instances, Restart(i)
  PROVE  Held'
<1> DEFINE Dead(c) == req[c] # NoRequest /\ req[c].at = i
<1>1. /\ \A u \in Users : streams'[i][u] = {}
      /\ \A j \in Instances \ {i} : streams'[j] = streams[j] /\ cmds'[j] = cmds[j]
      /\ cmds'[i] = <<>>
      /\ \A c \in Conns : c \notin UC!AtInstance(i) => pc'[c] = pc[c]
  BY DEF Restart, UC!Restart, TypeOK, UC!TypeOK
<1>2. /\ \A c \in Conns : Dead(c) => req'[c] = NoRequest /\ stage'[c] = "none"
      /\ \A c \in Conns : ~Dead(c) => req'[c] = req[c] /\ stage'[c] = stage[c]
      /\ \A t \in Tabs : link'[t] \in {link[t], NoConn}
      /\ \A t \in Tabs : link'[t] # NoConn => ~Dead(link'[t])
  BY NoConnIsNone DEF Restart, TypeOK
<1>3. \A c \in Conns : c \in UC!AtInstance(i) => Dead(c)
  BY DEF Held, Placed, UC!AtInstance
<1>4. ASSUME NEW j \in Instances, NEW u \in Users, NEW c \in Conns, c \in streams'[j][u]
      PROVE  j # i /\ c \in streams[j][u] /\ ~Dead(c)
  BY <1>1, <1>4 DEF Held, Placed
<1>5. Placed'
  BY <1>2, <1>4 DEF Held, Placed
<1>6. LinkOwn'
  <2>1. ASSUME NEW t \in Tabs, link'[t] # NoConn
        PROVE  req'[link'[t]] # NoRequest /\ req'[link'[t]].user = UserOf[t]
    <3>1. link'[t] = link[t] /\ link[t] \in Conns /\ ~Dead(link[t])
      BY <1>2, <2>1 DEF TypeOK
    <3>2. req'[link[t]] = req[link[t]]
      BY <1>2, <3>1
    <3>3. QED
      BY <2>1, <3>1, <3>2 DEF Held, LinkOwn
  <2>2. QED
    BY <2>1 DEF LinkOwn
<1>7. ASSUME NEW j \in Instances, NEW k \in Nat, IsSubscribe(j, k)'
      PROVE  /\ IsSubscribe(j, k) /\ cmds'[j][k] = cmds[j][k]
             /\ cmds[j][k].conn \in streams'[j][cmds[j][k].user]
             /\ pc'[cmds[j][k].conn] = "subscribing"
  <2>1. k \in 1..Len(cmds'[j])
    BY <1>7 DEF IsSubscribe
  <2>2. j # i
    BY <1>1, <2>1, EmptySeq
  <2>3. IsSubscribe(j, k) /\ cmds'[j] = cmds[j] /\ streams'[j] = streams[j]
    BY <1>1, <1>7, <2>2 DEF IsSubscribe
  <2>4. ~Dead(cmds[j][k].conn)
    BY <2>2, <2>3, Awaited DEF Held, Placed
  <2>5. QED
    BY <1>1, <1>3, <2>3, <2>4, Awaited
<1>8. Waiting'
  BY <1>7 DEF Held, Waiting
<1>9. ASSUME NEW c \in Conns, Linked(c)' PROVE Linked(c)
  BY <1>2, <1>9, NoConnIsNone DEF Linked
<1>10. Staged'
  BY <1>1, <1>2, <1>3, <1>4, <1>9 DEF Held, Staged, NowhereHeld
<1>11. QED
  BY <1>5, <1>6, <1>8, <1>10 DEF Held

LEMMA HeldInvariant == SafetySpec => []Held
<1>1. Init => Held
  <2> SUFFICES ASSUME Init PROVE Held
    OBVIOUS
  <2>1. Placed /\ LinkOwn /\ Staged
    BY DEF Init, UC!Init, Placed, LinkOwn, Staged
  <2>2. Waiting
    BY EmptySeq DEF Init, UC!Init, Waiting, IsSubscribe
  <2>3. QED
    BY <2>1, <2>2 DEF Held
<1>2. TypeOK /\ Held /\ [Next]_vars => Held'
  <2> SUFFICES ASSUME TypeOK, Held, [Next]_vars PROVE Held'
    OBVIOUS
  <2>1. ASSUME NEW t \in Tabs, NEW i \in Instances, NEW c \in Conns, Connect(t, i, c)
        PROVE  Held'
    BY <2>1, HeldConnected
  <2>2. ASSUME NEW i \in Instances, RedisExecutes(i)
        PROVE  Held'
    <3>1. /\ cmds[i] # <<>> /\ cmds' = [cmds EXCEPT ![i] = Tail(@)]
          /\ UNCHANGED <<streams, req, stage, link>>
          /\ \/ pc' = pc
             \/ /\ Head(cmds[i]).op = "SUBSCRIBE"
                /\ pc' = [pc EXCEPT ![Head(cmds[i]).conn] = "subscribed"]
      BY <2>2 DEF RedisExecutes, UC!RedisExecutes, server, browser
    <3>2. QED
      BY <3>1, HeldAnswered
  <2>3. ASSUME NEW i \in Instances, SubscribeRejects(i)
        PROVE  Held'
    <3>1. /\ cmds[i] # <<>> /\ cmds' = [cmds EXCEPT ![i] = Tail(@)]
          /\ UNCHANGED <<streams, req, stage>>
          /\ Head(cmds[i]).op = "SUBSCRIBE"
          /\ pc' = [pc EXCEPT ![Head(cmds[i]).conn] = "failed"]
      BY <2>3 DEF SubscribeRejects, UC!SubscribeRejects, server
    <3>2. \A t \in Tabs : link'[t] \in {link[t], NoConn}
      BY <2>3 DEF SubscribeRejects, Unlink, browser, TypeOK
    <3>3. QED
      BY <3>1, <3>2, HeldAnswered
  <2>4. ASSUME NEW i \in Instances, NEW u \in Users, NEW c \in Conns,
               StreamContinue(i, u, c) \/ StreamClose(i, u, c)
        PROVE  Held'
    BY <2>4, HeldContinued, HeldClosed
  <2>5. ASSUME NEW i \in Instances, Restart(i)
        PROVE  Held'
    BY <2>5, HeldRestarted
  <2>6. ASSUME NEW c \in Conns, Replay(c) \/ ReplayFails(c)
        PROVE  Held'
    <3>1. stage[c] # "none" /\ Settle(c) /\ UNCHANGED channel
      BY <2>6 DEF Replay, ReplayFails, Executed
    <3>2. \A t \in Tabs : link'[t] \in {link[t], NoConn}
      BY <2>6 DEF Replay, ReplayFails, Unlink, browser, TypeOK
    <3>3. QED
      BY <3>1, <3>2, HeldSettled
  <2>7. ASSUME NEW c \in Conns, FindMissed(c) \/ MarkMissed(c)
        PROVE  Held'
    <3>1. /\ UNCHANGED <<streams, pc, cmds, req, link>> /\ stage[c] # "none"
          /\ \A d \in Conns : d # c => stage'[d] = stage[d]
      BY <2>7 DEF FindMissed, MarkMissed, channel, browser, TypeOK
    <3>2. QED
      BY <3>1, HeldUnmoved
  <2>8. ASSUME NEW t \in Tabs, NEW leaves \in BOOLEAN, Disconnect(t, leaves)
        PROVE  Held'
    <3>1. UNCHANGED <<streams, pc, cmds, req, stage>>
          /\ \A v \in Tabs : link'[v] \in {link[v], NoConn}
      BY <2>8 DEF Disconnect, Unlink, channel, server, TypeOK
    <3>2. QED
      BY <3>1, HeldUnmoved
  <2>9. CASE UNCHANGED <<streams, pc, cmds, req, stage, link>>
    BY <2>9, HeldUnmoved
  <2>10. ASSUME NEW b \in Bodies, Create(b[1], b[2])
         PROVE  Held'
    BY <2>9, <2>10 DEF Create, channel, server, browser
  <2>11. ASSUME NEW i \in Instances, NEW n \in Ids, Publish(i, n) \/ UpdateStatus(i, n)
         PROVE  Held'
    BY <2>9, <2>11 DEF Publish, UpdateStatus, channel, server, browser
  <2>12. ASSUME NEW n \in Ids, PublishFails(n) \/ MarkAsRead(n)
         PROVE  Held'
    BY <2>9, <2>12 DEF PublishFails, MarkAsRead, channel, server, browser
  <2>13. ASSUME NEW i \in Instances, HandleRedisMessage(i) \/ SubscriberReopens(i)
         PROVE  Held'
    BY <2>9, <2>13 DEF HandleRedisMessage, SubscriberReopens, channel, server, browser
  <2>14. ASSUME NEW c \in Conns, CloseUnheard(c)
         PROVE  Held'
    BY <2>9, <2>14 DEF CloseUnheard, UC!CloseUnheard, server, browser
  <2>15. ASSUME NEW t \in Tabs, TabReceive(t)
         PROVE  Held'
    BY <2>9, <2>15 DEF TabReceive, channel, server
  <2>16. CASE UNCHANGED vars
    BY <2>9, <2>16 DEF vars, channel, server, browser
  <2>17. QED
    BY <2>1, <2>2, <2>3, <2>4, <2>5, <2>6, <2>7, <2>8, <2>10, <2>11, <2>12, <2>13, <2>14,
       <2>15, <2>16 DEF Next
<1>3. QED
  BY <1>1, <1>2, TypeCorrect, PTL DEF SafetySpec

-----------------------------------------------------------------------------
(* WireLive: events are under way on connections that are past their       *)
(* replay and have a tab, and on no others.                                *)
WireLive == \A c \in Conns : wire[c] # <<>> => stage[c] = "live" /\ Linked(c)

(* Connection c alone moves, had nothing on its wire, and has nothing now. *)
LEMMA WireLiveBut ==
  ASSUME WireLive, TypeOK, NEW c \in Conns, wire'[c] = <<>>,
         \A d \in Conns : d # c => wire'[d] = wire[d] /\ stage'[d] = stage[d],
         \A t \in Tabs : link[t] # NoConn /\ link[t] # c => link'[t] = link[t]
  PROVE  WireLive'
<1>1. ASSUME NEW d \in Conns, d # c, Linked(d) PROVE Linked(d)'
  BY <1>1, NoConnIsNone DEF Linked
<1>2. QED
  BY <1>1 DEF WireLive

LEMMA WireLiveInvariant == SafetySpec => []WireLive
<1>1. Init => WireLive
  BY DEF Init, WireLive
<1>2. TypeOK /\ Held /\ WireLive /\ [Next]_vars => WireLive'
  <2> SUFFICES ASSUME TypeOK, Held, WireLive, [Next]_vars PROVE WireLive'
    OBVIOUS
  <2>1. ASSUME NEW t \in Tabs, NEW i \in Instances, NEW c \in Conns, Connect(t, i, c)
        PROVE  WireLive'
    <3>1. stage[c] = "none"
      BY <2>1, HeldNew DEF Connect
    <3>2. wire'[c] = <<>>
      BY <2>1, <3>1 DEF Connect, WireLive
    <3>3. /\ \A d \in Conns : d # c => wire'[d] = wire[d] /\ stage'[d] = stage[d]
          /\ \A v \in Tabs : link[v] # NoConn => link'[v] = link[v]
      BY <2>1 DEF Connect, TypeOK
    <3>4. QED
      BY <3>2, <3>3, WireLiveBut
  <2>2. ASSUME NEW i \in Instances, NEW u \in Users, NEW c \in Conns,
               StreamContinue(i, u, c) \/ StreamClose(i, u, c)
        PROVE  WireLive'
    <3>1. wire[c] = <<>>
      BY <2>2 DEF StreamContinue, UC!StreamContinue, StreamClose, Held, Staged, WireLive
    <3>2. /\ UNCHANGED <<wire, link>>
          /\ \A d \in Conns : d # c => stage'[d] = stage[d]
      BY <2>2 DEF StreamContinue, StreamClose, browser, TypeOK
    <3>3. QED
      BY <3>1, <3>2, WireLiveBut
  <2>3. ASSUME NEW t \in Tabs, NEW leaves \in BOOLEAN, Disconnect(t, leaves)
        PROVE  WireLive'
    <3>1. /\ link[t] \in Conns /\ wire'[link[t]] = <<>> /\ stage' = stage
          /\ \A d \in Conns : d # link[t] => wire'[d] = wire[d]
          /\ \A v \in Tabs : v # t => link'[v] = link[v]
      BY <2>3 DEF Disconnect, Unlink, server, TypeOK
    <3>2. QED
      BY <3>1, WireLiveBut
  <2>4. ASSUME NEW i \in Instances, SubscribeRejects(i)
        PROVE  WireLive'
    <3> DEFINE c == Head(cmds[i]).conn
    <3>1. cmds[i] # <<>> /\ Head(cmds[i]).op = "SUBSCRIBE" /\ UNCHANGED <<wire, stage>>
      BY <2>4 DEF SubscribeRejects, UC!SubscribeRejects, server
    <3>2. IsSubscribe(i, 1) /\ Head(cmds[i]) = cmds[i][1]
      BY <3>1, QueuePopped DEF IsSubscribe, TypeOK, UC!TypeOK
    <3>3. c \in Conns /\ stage[c] = "none"
      BY <3>2, Awaited
    <3>4. \A t \in Tabs : link[t] # c => link'[t] = link[t]
      BY <2>4 DEF SubscribeRejects, Unlink, browser, TypeOK
    <3>5. QED
      BY <3>1, <3>3, <3>4, WireLiveBut DEF WireLive
  <2>5. ASSUME NEW c \in Conns, FindMissed(c) \/ MarkMissed(c)
        PROVE  WireLive'
    <3>1. /\ stage[c] # "live" /\ UNCHANGED <<wire, link>>
          /\ \A d \in Conns : d # c => stage'[d] = stage[d]
      BY <2>5 DEF FindMissed, MarkMissed, browser, TypeOK
    <3>2. QED
      BY <3>1, WireLiveBut DEF WireLive
  <2>6. ASSUME NEW c \in Conns, Replay(c)
        PROVE  WireLive'
    <3>1. /\ stage[c] \in {"found", "marked"} /\ UNCHANGED link
          /\ \A d \in Conns : d # c => wire'[d] = wire[d] /\ stage'[d] = stage[d]
      BY <2>6 DEF Replay, Executed, Settle, browser, TypeOK
    <3>2. CASE Linked(c)
      <4>1. pc[c] = "open"
        BY <3>1, <3>2 DEF Held, Staged, NowhereHeld
      <4>2. stage'[c] = "live" /\ Linked(c)'
        BY <2>6, <3>1, <3>2, <4>1 DEF Replay, Settle, TypeOK, Linked
      <4>3. \A d \in Conns : Linked(d) => Linked(d)'
        BY <3>1 DEF Linked
      <4>4. QED
        BY <3>1, <4>2, <4>3 DEF WireLive
    <3>3. CASE ~Linked(c)
      <4>1. wire' = wire
        BY <2>6, <3>3 DEF Replay
      <4>2. QED
        BY <3>1, <4>1, WireLiveBut DEF WireLive
    <3>4. QED
      BY <3>2, <3>3
  <2>7. ASSUME NEW c \in Conns, ReplayFails(c)
        PROVE  WireLive'
    <3>1. /\ wire'[c] = <<>>
          /\ \A d \in Conns : d # c => wire'[d] = wire[d] /\ stage'[d] = stage[d]
      BY <2>7 DEF ReplayFails, Settle, TypeOK
    <3>2. \A t \in Tabs : link[t] # c => link'[t] = link[t]
      BY <2>7 DEF ReplayFails, Unlink, browser, TypeOK
    <3>3. QED
      BY <3>1, <3>2, WireLiveBut
  <2>8. ASSUME NEW t \in Tabs, TabReceive(t)
        PROVE  WireLive'
    <3>1. /\ wire[link[t]] # <<>> /\ UNCHANGED <<stage, link>>
          /\ \A d \in Conns : d # link[t] => wire'[d] = wire[d]
      BY <2>8 DEF TabReceive, server, TypeOK
    <3>2. QED
      BY <3>1 DEF WireLive, Linked
  <2>9. ASSUME NEW i \in Instances, HandleRedisMessage(i)
        PROVE  WireLive'
    <3>1. UNCHANGED <<stage, link>> /\ (wire' = wire \/ \E S : Emit(S, Head(inbox[i])))
      BY <2>9 DEF HandleRedisMessage, server, browser
    <3>2. \A d \in Conns : wire'[d] # wire[d] => Receiving(d)
      BY <3>1 DEF Emit, TypeOK
    <3>3. QED
      BY <3>1, <3>2 DEF WireLive, Receiving, Linked
  <2>10. ASSUME NEW i \in Instances, Restart(i)
         PROVE  WireLive'
    <3> DEFINE Dead(c) == req[c] # NoRequest /\ req[c].at = i
    <3>1. /\ \A c \in Conns : Dead(c) => wire'[c] = <<>>
          /\ \A c \in Conns : ~Dead(c) => wire'[c] = wire[c] /\ stage'[c] = stage[c]
      BY <2>10 DEF Restart, TypeOK
    <3>2. \A t \in Tabs : link[t] \in Conns /\ ~Dead(link[t]) => link'[t] = link[t]
      BY <2>10 DEF Restart, TypeOK
    <3>3. ASSUME NEW c \in Conns, ~Dead(c), Linked(c) PROVE Linked(c)'
      BY <3>2, <3>3 DEF Linked
    <3>4. QED
      BY <3>1, <3>3 DEF WireLive
  <2>11. CASE UNCHANGED <<wire, stage, link>>
    BY <2>11 DEF WireLive, Linked
  <2>12. ASSUME NEW b \in Bodies, Create(b[1], b[2])
         PROVE  WireLive'
    BY <2>11, <2>12 DEF Create, server, browser
  <2>13. ASSUME NEW i \in Instances, NEW n \in Ids, Publish(i, n) \/ UpdateStatus(i, n)
         PROVE  WireLive'
    BY <2>11, <2>13 DEF Publish, UpdateStatus, server, browser
  <2>14. ASSUME NEW n \in Ids, PublishFails(n) \/ MarkAsRead(n)
         PROVE  WireLive'
    BY <2>11, <2>14 DEF PublishFails, MarkAsRead, server, browser
  <2>15. ASSUME NEW i \in Instances, SubscriberReopens(i) \/ RedisExecutes(i)
         PROVE  WireLive'
    BY <2>11, <2>15 DEF SubscriberReopens, RedisExecutes, server, browser
  <2>16. ASSUME NEW c \in Conns, CloseUnheard(c)
         PROVE  WireLive'
    BY <2>11, <2>16 DEF CloseUnheard, server, browser
  <2>17. CASE UNCHANGED vars
    BY <2>11, <2>17 DEF vars, server, browser
  <2>18. QED
    BY <2>1, <2>2, <2>3, <2>4, <2>5, <2>6, <2>7, <2>8, <2>9, <2>10, <2>12, <2>13, <2>14,
       <2>15, <2>16, <2>17 DEF Next
<1>3. QED
  BY <1>1, <1>2, TypeCorrect, HeldInvariant, PTL DEF SafetySpec

-----------------------------------------------------------------------------
(* What a step may do to a wire: leave it, lose it, take its head off, add *)
(* what a handled message says, or put the rows found on an empty one.     *)
Handled(c, n) ==
  \E i \in Instances : /\ inbox[i] # <<>> /\ n = Head(inbox[i])
                       /\ c \in Recipients(i, rows[n].channel)

WireBecomes(c) ==
  \/ wire'[c] = wire[c]
  \/ wire'[c] = <<>>
  \/ wire[c] # <<>> /\ wire'[c] = Tail(wire[c])
  \/ \E n \in Ids : /\ Handled(c, n) /\ stage[c] = "live"
                    /\ wire'[c] = Append(wire[c], [id |-> n, how |-> "live"])
  \/ \E s \in Replayed(missed[c]) : /\ wire[c] = <<>> /\ stage[c] \in {"found", "marked"}
                                   /\ wire'[c] = Replays(s)

LEMMA WireEffect ==
  ASSUME TypeOK, WireLive, [Next]_vars
  PROVE  \A c \in Conns : WireBecomes(c)
<1>1. ASSUME NEW t \in Tabs, NEW leaves \in BOOLEAN, Disconnect(t, leaves)
      PROVE  \A c \in Conns : WireBecomes(c)
  BY <1>1 DEF Disconnect, TypeOK, WireBecomes
<1>2. ASSUME NEW d \in Conns, Replay(d)
      PROVE  \A c \in Conns : WireBecomes(c)
  <2>1. stage[d] \in {"found", "marked"} /\ wire[d] = <<>>
    BY <1>2 DEF Replay, Executed, WireLive
  <2>2. ASSUME NEW s \in Replayed(missed[d]), wire' = [wire EXCEPT ![d] = @ \o Replays(s)]
        PROVE  \A c \in Conns : WireBecomes(c)
    <3>1. Replays(s) \in Seq(Event)
      BY ReplayTyped DEF TypeOK
    <3>2. wire[d] \o Replays(s) = Replays(s)
      BY <2>1, <3>1, ConcatEmptySeq
    <3>3. QED
      BY <2>1, <2>2, <3>2 DEF WireBecomes, TypeOK
  <2>3. QED
    BY <1>2, <2>2 DEF Replay, Replays, WireBecomes
<1>3. ASSUME NEW d \in Conns, ReplayFails(d)
      PROVE  \A c \in Conns : WireBecomes(c)
  BY <1>3 DEF ReplayFails, TypeOK, WireBecomes
<1>4. ASSUME NEW t \in Tabs, TabReceive(t)
      PROVE  \A c \in Conns : WireBecomes(c)
  BY <1>4 DEF TabReceive, TypeOK, WireBecomes
<1>5. ASSUME NEW i \in Instances, HandleRedisMessage(i)
      PROVE  \A c \in Conns : WireBecomes(c)
  <2> DEFINE n == Head(inbox[i])
  <2>1. inbox[i] # <<>> /\ n \in Ids
    BY <1>5, QueuePopped DEF HandleRedisMessage, TypeOK
  <2>2. wire' = wire \/ Emit(Recipients(i, rows[n].channel), n)
    BY <1>5 DEF HandleRedisMessage
  <2>3. CASE wire' = wire
    BY <2>3 DEF WireBecomes
  <2>4. CASE Emit(Recipients(i, rows[n].channel), n)
    <3>1. ASSUME NEW c \in Conns, c \in Recipients(i, rows[n].channel)
          PROVE  Handled(c, n)
      BY <2>1, <3>1 DEF Handled
    <3>2. \A c \in Conns :
            \/ wire'[c] = wire[c]
            \/ /\ c \in Recipients(i, rows[n].channel) /\ Receiving(c)
               /\ wire'[c] = Append(wire[c], [id |-> n, how |-> "live"])
      BY <2>1, <2>4, EmitTyped DEF TypeOK
    <3>3. QED
      BY <2>1, <3>1, <3>2 DEF WireBecomes, Receiving
  <2>5. QED
    BY <2>2, <2>3, <2>4
<1>6. ASSUME NEW i \in Instances, Restart(i)
      PROVE  \A c \in Conns : WireBecomes(c)
  BY <1>6 DEF Restart, WireBecomes
<1>7. CASE UNCHANGED wire
  BY <1>7 DEF WireBecomes
<1>8. ASSUME NEW t \in Tabs, NEW i \in Instances, NEW c \in Conns, Connect(t, i, c)
      PROVE  UNCHANGED wire
  BY <1>8 DEF Connect
<1>9. ASSUME NEW i \in Instances, NEW u \in Users, NEW c \in Conns,
             StreamContinue(i, u, c) \/ StreamClose(i, u, c)
      PROVE  UNCHANGED wire
  BY <1>9 DEF StreamContinue, StreamClose
<1>10. ASSUME NEW i \in Instances,
              SubscribeRejects(i) \/ RedisExecutes(i) \/ SubscriberReopens(i)
       PROVE  UNCHANGED wire
  BY <1>10 DEF SubscribeRejects, RedisExecutes, SubscriberReopens
<1>11. ASSUME NEW c \in Conns, FindMissed(c) \/ MarkMissed(c) \/ CloseUnheard(c)
       PROVE  UNCHANGED wire
  BY <1>11 DEF FindMissed, MarkMissed, CloseUnheard
<1>12. ASSUME NEW b \in Bodies, Create(b[1], b[2])
       PROVE  UNCHANGED wire
  BY <1>12 DEF Create
<1>13. ASSUME NEW i \in Instances, NEW n \in Ids, Publish(i, n) \/ UpdateStatus(i, n)
       PROVE  UNCHANGED wire
  BY <1>13 DEF Publish, UpdateStatus
<1>14. ASSUME NEW n \in Ids, PublishFails(n) \/ MarkAsRead(n)
       PROVE  UNCHANGED wire
  BY <1>14 DEF PublishFails, MarkAsRead
<1>15. CASE UNCHANGED vars
  BY <1>7, <1>15 DEF vars
<1>16. QED
  BY <1>1, <1>2, <1>3, <1>4, <1>5, <1>6, <1>7, <1>8, <1>9, <1>10, <1>11, <1>12, <1>13,
     <1>14, <1>15 DEF Next

(* README, section 4: on every connection, the missed notifications come   *)
(* before the live ones and in the order of their ids.  It is inductive on *)
(* its own given what a step may do to a wire, which needs WireLive: a     *)
(* replay meets an empty wire.                                             *)
THEOREM MissedComeFirst == SafetySpec => []ReplayFirst
<1>1. Init => ReplayFirst
  BY EmptySeq DEF Init, ReplayFirst
<1>2. TypeOK /\ WireLive /\ ReplayFirst /\ [Next]_vars => ReplayFirst'
  <2> SUFFICES ASSUME TypeOK, WireLive, ReplayFirst, [Next]_vars, NEW c \in Conns,
                      NEW k \in DOMAIN wire'[c], NEW l \in DOMAIN wire'[c],
                      k < l, wire'[c][l].how = "replay"
               PROVE  wire'[c][k].how = "replay" /\ wire'[c][k].id < wire'[c][l].id
    BY DEF ReplayFirst
  <2>1. WireBecomes(c) /\ wire[c] \in Seq(Event)
    BY WireEffect DEF TypeOK
  <2>2. Len(wire[c]) \in Nat /\ DOMAIN wire[c] = 1..Len(wire[c])
    BY <2>1, LenProperties
  <2>3. CASE wire'[c] = wire[c]
    BY <2>3 DEF ReplayFirst
  <2>4. CASE wire'[c] = <<>>
    BY <2>4, EmptySeq
  <2>5. CASE wire[c] # <<>> /\ wire'[c] = Tail(wire[c])
    <3>1. /\ Len(wire'[c]) = Len(wire[c]) - 1 /\ DOMAIN wire'[c] = 1..Len(wire'[c])
          /\ \A m \in 1..Len(wire'[c]) : wire'[c][m] = wire[c][m + 1]
      BY <2>1, <2>5, HeadTailProperties, LenProperties
    <3>2. k + 1 \in DOMAIN wire[c] /\ l + 1 \in DOMAIN wire[c] /\ k + 1 < l + 1
      BY <2>2, <3>1
    <3>3. wire'[c][k] = wire[c][k + 1] /\ wire'[c][l] = wire[c][l + 1]
      BY <3>1
    <3>4. QED
      BY <3>2, <3>3 DEF ReplayFirst
  <2>6. ASSUME NEW n \in Ids, wire'[c] = Append(wire[c], [id |-> n, how |-> "live"])
        PROVE  wire'[c][k].how = "replay" /\ wire'[c][k].id < wire'[c][l].id
    <3>1. [id |-> n, how |-> "live"] \in Event
      BY DEF Event
    <3>2. /\ DOMAIN wire'[c] = 1..(Len(wire[c]) + 1)
          /\ \A m \in 1..Len(wire[c]) : wire'[c][m] = wire[c][m]
          /\ wire'[c][Len(wire[c]) + 1] = [id |-> n, how |-> "live"]
      BY <2>1, <2>6, <3>1, AppendProperties, LenProperties
    <3>3. l # Len(wire[c]) + 1
      BY <3>2
    <3>4. k \in DOMAIN wire[c] /\ l \in DOMAIN wire[c]
      BY <2>2, <3>2, <3>3
    <3>5. QED
      BY <2>2, <3>2, <3>4 DEF ReplayFirst
  <2>7. ASSUME NEW s \in Replayed(missed[c]), wire'[c] = Replays(s)
        PROVE  wire'[c][k].how = "replay" /\ wire'[c][k].id < wire'[c][l].id
    <3>1. missed[c] \subseteq Ids
      BY DEF TypeOK
    <3>2. /\ Len(wire'[c]) = Len(s) /\ wire'[c] \in Seq(Event)
          /\ \A m \in 1..Len(s) : wire'[c][m] = [id |-> s[m], how |-> "replay"]
          /\ \A m, p \in 1..Len(s) : m < p => s[m] < s[p]
      BY <2>7, <3>1, ReplayTyped
    <3>3. k \in 1..Len(s) /\ l \in 1..Len(s)
      BY <3>2, LenProperties
    <3>4. wire'[c][k].how = "replay" /\ wire'[c][k].id = s[k] /\ wire'[c][l].id = s[l]
      <4>1. /\ wire'[c][k] = [id |-> s[k], how |-> "replay"]
            /\ wire'[c][l] = [id |-> s[l], how |-> "replay"]
        BY <3>2, <3>3
      <4>2. QED
        BY <4>1
    <3>5. s[k] < s[l]
      BY <3>2, <3>3
    <3>6. QED
      BY <3>4, <3>5
  <2>8. QED
    BY <2>1, <2>3, <2>4, <2>5, <2>6, <2>7 DEF WireBecomes
<1>3. QED
  BY <1>1, <1>2, TypeCorrect, WireLiveInvariant, PTL DEF SafetySpec

-----------------------------------------------------------------------------
(* Owned: whose rows are under way.  A row keeps its user and its channel, *)
(* so what was true of them when a message was sent stays true.            *)
RowsOwn == \A n \in DOMAIN rows : rows[n].channel \in {rows[n].to, Broadcast}

Known ==
  /\ unpub \subseteq DOMAIN rows
  /\ \A i \in Instances : \A k \in DOMAIN inbox[i] : inbox[i][k] \in DOMAIN rows

MissedOwn ==
  \A c \in Conns : \A n \in missed[c] :
    n \in DOMAIN rows /\ rows[n].to = req[c].user /\ stage[c] \in {"found", "marked"}

IsFor(n, u) == n \in DOMAIN rows /\ rows[n].channel \in {u, Broadcast}

WireOwn == \A c \in Conns : \A k \in DOMAIN wire[c] : IsFor(wire[c][k].id, req[c].user)

SeenOwn == \A t \in Tabs : \A n \in seen[t] : IsFor(n, UserOf[t])

Owned == RowsOwn /\ Known /\ MissedOwn /\ WireOwn /\ SeenOwn

(* The table grows, its rows keep their user and their channel, and what   *)
(* is sent to an instance was waiting to be published.                     *)
RowsKeep ==
  \A n \in DOMAIN rows :
    n \in DOMAIN rows' /\ rows'[n].to = rows[n].to /\ rows'[n].channel = rows[n].channel

TableGrows ==
  /\ RowsKeep
  /\ \A n \in DOMAIN rows' : n \notin DOMAIN rows => rows'[n].channel \in {rows'[n].to, Broadcast}
  /\ unpub' \subseteq unpub \cup DOMAIN rows'
  /\ \A i \in Instances : \A k \in DOMAIN inbox'[i] :
       inbox'[i][k] \in unpub \/ \E l \in DOMAIN inbox[i] : inbox'[i][k] = inbox[i][l]

LEMMA TableEffect == TypeOK /\ [Next]_vars => TableGrows
<1> SUFFICES ASSUME TypeOK, [Next]_vars PROVE TableGrows
  OBVIOUS
<1>1. Len(rows) \in Nat /\ DOMAIN rows = 1..Len(rows) /\ rows \in Seq(Row)
  BY LenProperties DEF TypeOK
<1>2. ASSUME NEW b \in Bodies, Create(b[1], b[2])
      PROVE  TableGrows
  <2> DEFINE r == [to |-> b[1], channel |-> IF b[2] THEN Broadcast ELSE b[1], status |-> "pending"]
  <2>1. rows' = Append(rows, r) /\ unpub' = unpub \cup {Len(rows) + 1} /\ inbox' = inbox
    BY <1>2 DEF Create
  <2>2. r \in Row
    BY ValidBodies DEF Row, Body
  <2>3. /\ rows' \in Seq(Row) /\ DOMAIN rows' = 1..(Len(rows) + 1)
        /\ \A n \in 1..Len(rows) : rows'[n] = rows[n]
        /\ rows'[Len(rows) + 1] = r
    BY <1>1, <2>1, <2>2, AppendProperties, LenProperties
  <2>4. RowsKeep
    BY <1>1, <2>3 DEF RowsKeep
  <2>5. r.channel \in {r.to, Broadcast}
    OBVIOUS
  <2>6. \A n \in DOMAIN rows' : n \notin DOMAIN rows => n = Len(rows) + 1
    BY <1>1, <2>3
  <2>7. Len(rows) + 1 \in DOMAIN rows'
    BY <1>1, <2>3
  <2>8. QED
    BY <2>1, <2>3, <2>4, <2>5, <2>6, <2>7 DEF TableGrows
<1>3. ASSUME NEW S, NEW status \in {"pending", "delivered", "read"}, SetStatus(S, status)
      PROVE  RowsKeep /\ DOMAIN rows' = DOMAIN rows
  BY <1>1, <1>3, StatusTyped, LenProperties DEF TypeOK, RowsKeep
<1>4. ASSUME \/ rows' = rows
             \/ RowsKeep /\ DOMAIN rows' = DOMAIN rows,
             unpub' \subseteq unpub,
             \A i \in Instances : \A k \in DOMAIN inbox'[i] :
               inbox'[i][k] \in unpub \/ \E l \in DOMAIN inbox[i] : inbox'[i][k] = inbox[i][l]
      PROVE  TableGrows
  BY <1>4 DEF TableGrows, RowsKeep
<1>5. ASSUME NEW i \in Instances, NEW n \in Ids, Publish(i, n)
      PROVE  TableGrows
  <2>1. ASSUME NEW j \in Instances, NEW k \in DOMAIN inbox'[j]
        PROVE  inbox'[j][k] \in unpub \/ \E l \in DOMAIN inbox[j] : inbox'[j][k] = inbox[j][l]
    <3>1. inbox'[j] = inbox[j] \/ inbox'[j] = Append(inbox[j], n)
      BY <1>5 DEF Publish
    <3>2. CASE inbox'[j] = Append(inbox[j], n)
      <4>1. /\ DOMAIN inbox[j] = 1..Len(inbox[j]) /\ DOMAIN inbox'[j] = 1..(Len(inbox[j]) + 1)
            /\ Len(inbox[j]) \in Nat
            /\ \A l \in 1..Len(inbox[j]) : inbox'[j][l] = inbox[j][l]
            /\ inbox'[j][Len(inbox[j]) + 1] = n
        BY <3>2, AppendProperties, LenProperties DEF TypeOK
      <4>2. k \in 1..Len(inbox[j]) \/ k = Len(inbox[j]) + 1
        BY <4>1
      <4>3. n \in unpub
        BY <1>5 DEF Publish
      <4>4. QED
        BY <4>1, <4>2, <4>3
    <3>3. QED
      BY <3>1, <3>2
  <2>2. rows' = rows /\ unpub' \subseteq unpub
    BY <1>5 DEF Publish
  <2>3. QED
    BY <1>4, <2>1, <2>2
<1>6. ASSUME NEW i \in Instances, HandleRedisMessage(i)
      PROVE  TableGrows
  <2>1. inbox[i] # <<>> /\ inbox' = [inbox EXCEPT ![i] = Tail(@)] /\ UNCHANGED <<rows, unpub>>
    BY <1>6 DEF HandleRedisMessage
  <2>2. inbox[i] \in Seq(Ids)
    BY DEF TypeOK
  <2>3. /\ DOMAIN inbox[i] = 1..Len(inbox[i]) /\ DOMAIN Tail(inbox[i]) = 1..(Len(inbox[i]) - 1)
        /\ Len(inbox[i]) \in Nat
        /\ \A k \in 1..(Len(inbox[i]) - 1) : Tail(inbox[i])[k] = inbox[i][k + 1]
    BY <2>1, <2>2, HeadTailProperties, LenProperties
  <2>4. ASSUME NEW j \in Instances, NEW k \in DOMAIN inbox'[j]
        PROVE  \E l \in DOMAIN inbox[j] : inbox'[j][k] = inbox[j][l]
    <3>1. CASE j = i
      <4>1. inbox'[j] = Tail(inbox[i])
        BY <2>1, <3>1 DEF TypeOK
      <4>2. k \in 1..(Len(inbox[i]) - 1) /\ k + 1 \in 1..Len(inbox[i])
        BY <2>3, <4>1
      <4>3. QED
        BY <2>3, <3>1, <4>1, <4>2
    <3>2. CASE j # i
      BY <2>1, <3>2 DEF TypeOK
    <3>3. QED
      BY <3>1, <3>2
  <2>5. QED
    BY <1>4, <2>1, <2>4
<1>7. ASSUME NEW i \in Instances, SubscriberReopens(i) \/ Restart(i)
      PROVE  TableGrows
  <2>1. inbox' = [inbox EXCEPT ![i] = <<>>] /\ UNCHANGED <<rows, unpub>>
    BY <1>7 DEF SubscriberReopens, Restart, table
  <2>2. \A j \in Instances : \A k \in DOMAIN inbox'[j] : k \in DOMAIN inbox[j] /\ inbox'[j][k] = inbox[j][k]
    BY <2>1, EmptySeq DEF TypeOK
  <2>3. QED
    BY <1>4, <2>1, <2>2
<1>8. ASSUME NEW n \in Ids, PublishFails(n) \/ MarkAsRead(n)
      PROVE  TableGrows
  <2>1. /\ rows' = rows \/ SetStatus({n}, "read")
        /\ unpub' \subseteq unpub /\ inbox' = inbox
    BY <1>8 DEF PublishFails, MarkAsRead
  <2>2. rows' = rows \/ (RowsKeep /\ DOMAIN rows' = DOMAIN rows)
    BY <1>3, <2>1
  <2>3. QED
    BY <1>4, <2>1, <2>2
<1>9. ASSUME NEW i \in Instances, NEW n \in Ids, UpdateStatus(i, n)
      PROVE  TableGrows
  <2>1. SetStatus({n}, "delivered") /\ UNCHANGED <<unpub, inbox>>
    BY <1>9 DEF UpdateStatus
  <2>2. RowsKeep /\ DOMAIN rows' = DOMAIN rows
    BY <1>3, <2>1
  <2>3. QED
    BY <1>4, <2>1, <2>2
<1>10. ASSUME NEW c \in Conns, MarkMissed(c)
       PROVE  TableGrows
  <2>1. SetStatus(missed[c], "delivered") /\ UNCHANGED <<unpub, inbox>>
    BY <1>10 DEF MarkMissed
  <2>2. RowsKeep /\ DOMAIN rows' = DOMAIN rows
    BY <1>3, <2>1
  <2>3. QED
    BY <1>4, <2>1, <2>2
<1>11. ASSUME UNCHANGED <<rows, unpub, inbox>>
       PROVE  TableGrows
  BY <1>4, <1>11
<1>12. ASSUME NEW t \in Tabs, TabReceive(t) \/ \E leaves \in BOOLEAN : Disconnect(t, leaves)
       PROVE  UNCHANGED <<rows, unpub, inbox>>
  BY <1>12 DEF TabReceive, Disconnect, table
<1>13. ASSUME NEW t \in Tabs, NEW i \in Instances, NEW c \in Conns, Connect(t, i, c)
       PROVE  UNCHANGED <<rows, unpub, inbox>>
  BY <1>13 DEF Connect, table
<1>14. ASSUME NEW i \in Instances, NEW u \in Users, NEW c \in Conns,
              StreamContinue(i, u, c) \/ StreamClose(i, u, c)
       PROVE  UNCHANGED <<rows, unpub, inbox>>
  BY <1>14 DEF StreamContinue, StreamClose, table
<1>15. ASSUME NEW i \in Instances, SubscribeRejects(i) \/ RedisExecutes(i)
       PROVE  UNCHANGED <<rows, unpub, inbox>>
  BY <1>15 DEF SubscribeRejects, RedisExecutes, table
<1>16. ASSUME NEW c \in Conns, FindMissed(c) \/ Replay(c) \/ ReplayFails(c) \/ CloseUnheard(c)
       PROVE  UNCHANGED <<rows, unpub, inbox>>
  BY <1>16 DEF FindMissed, Replay, ReplayFails, CloseUnheard, table
<1>17. CASE UNCHANGED vars
  BY <1>11, <1>17 DEF vars, table
<1>18. QED
  BY <1>2, <1>5, <1>6, <1>7, <1>8, <1>9, <1>10, <1>11, <1>12, <1>13, <1>14, <1>15, <1>16,
     <1>17 DEF Next

(* A request keeps its user while its observable runs, what a replay holds *)
(* was found for it, and a tab sees what was at the head of its wire.      *)
MissedFrom(c) ==
  \A n \in missed'[c] :
    /\ stage[c] # "none" /\ stage'[c] \in {"found", "marked"}
    /\ n \in missed[c] \/ (n \in DOMAIN rows /\ rows[n].to = req[c].user)

RequestKeeps(c) == stage[c] # "none" /\ stage'[c] # "none" => req'[c] = req[c]

SeenFrom(t) ==
  \A n \in seen'[t] :
    \/ n \in seen[t]
    \/ link[t] \in Conns /\ wire[link[t]] # <<>> /\ n = Head(wire[link[t]]).id

RequestsMove ==
  /\ \A c \in Conns : MissedFrom(c) /\ RequestKeeps(c)
  /\ \A t \in Tabs : SeenFrom(t)

(* All but connection c stay as they are, and no tab sees anything.        *)
LEMMA OneMoves ==
  ASSUME MissedOwn, NEW c \in Conns, MissedFrom(c), RequestKeeps(c),
         \A d \in Conns : d # c =>
           req'[d] = req[d] /\ stage'[d] = stage[d] /\ missed'[d] = missed[d],
         \A t \in Tabs : seen'[t] \subseteq seen[t]
  PROVE  RequestsMove
<1>1. ASSUME NEW d \in Conns, d # c PROVE MissedFrom(d) /\ RequestKeeps(d)
  BY <1>1 DEF MissedFrom, RequestKeeps, MissedOwn
<1>2. \A t \in Tabs : SeenFrom(t)
  BY DEF SeenFrom
<1>3. QED
  BY <1>1, <1>2 DEF RequestsMove

LEMMA NoneMoves ==
  ASSUME MissedOwn, UNCHANGED <<req, stage, missed>>, \A t \in Tabs : SeenFrom(t)
  PROVE  RequestsMove
  BY DEF RequestsMove, MissedFrom, RequestKeeps, MissedOwn

LEMMA RequestsEffect == TypeOK /\ Held /\ MissedOwn /\ [Next]_vars => RequestsMove
<1> SUFFICES ASSUME TypeOK, Held, MissedOwn, [Next]_vars PROVE RequestsMove
  OBVIOUS
<1>0. ASSUME NEW c \in Conns, stage[c] = "none", missed' = missed
      PROVE  MissedFrom(c) /\ RequestKeeps(c)
  BY <1>0 DEF MissedFrom, RequestKeeps, MissedOwn
<1>1. ASSUME NEW t \in Tabs, NEW i \in Instances, NEW c \in Conns, Connect(t, i, c)
      PROVE  RequestsMove
  <2>1. stage[c] = "none"
    BY <1>1, HeldNew DEF Connect
  <2>2. /\ \A d \in Conns : d # c => req'[d] = req[d] /\ stage'[d] = stage[d]
        /\ UNCHANGED <<missed, seen>>
    BY <1>1 DEF Connect, TypeOK
  <2>3. QED
    BY <1>0, <2>1, <2>2, OneMoves
<1>2. ASSUME NEW i \in Instances, NEW u \in Users, NEW c \in Conns, StreamContinue(i, u, c)
      PROVE  RequestsMove
  <2>1. stage[c] = "none"
    BY <1>2 DEF StreamContinue, UC!StreamContinue, Held, Staged
  <2>2. /\ \A d \in Conns : d # c => req'[d] = req[d] /\ stage'[d] = stage[d]
        /\ UNCHANGED <<missed, seen>>
    BY <1>2 DEF StreamContinue, browser, TypeOK
  <2>3. QED
    BY <1>0, <2>1, <2>2, OneMoves
<1>3. ASSUME NEW i \in Instances, NEW u \in Users, NEW c \in Conns, StreamClose(i, u, c)
      PROVE  RequestsMove
  <2>1. /\ \A d \in Conns : d # c => req'[d] = req[d] /\ stage'[d] = stage[d]
        /\ \/ stage[c] = "live" /\ stage'[c] = "none"
           \/ stage'[c] = stage[c] /\ req'[c] = req[c]
        /\ UNCHANGED <<missed, seen>>
    BY <1>3 DEF StreamClose, browser, TypeOK
  <2>2. MissedFrom(c) /\ RequestKeeps(c)
    BY <2>1 DEF MissedFrom, RequestKeeps, MissedOwn
  <2>3. QED
    BY <2>1, <2>2, OneMoves
<1>4. ASSUME NEW c \in Conns, FindMissed(c)
      PROVE  RequestsMove
  <2>1. /\ stage[c] = "querying" /\ stage'[c] = "found" /\ UNCHANGED <<req, seen>>
        /\ \A n \in missed'[c] : n \in DOMAIN rows /\ rows[n].to = req[c].user
        /\ \A d \in Conns : d # c => stage'[d] = stage[d] /\ missed'[d] = missed[d]
    BY <1>4 DEF FindMissed, browser, TypeOK
  <2>2. MissedFrom(c) /\ RequestKeeps(c)
    BY <2>1 DEF MissedFrom, RequestKeeps
  <2>3. QED
    BY <2>1, <2>2, OneMoves
<1>5. ASSUME NEW c \in Conns, MarkMissed(c)
      PROVE  RequestsMove
  <2>1. /\ stage[c] = "found" /\ stage'[c] = "marked" /\ UNCHANGED <<req, missed, seen>>
        /\ \A d \in Conns : d # c => stage'[d] = stage[d]
    BY <1>5 DEF MarkMissed, browser, TypeOK
  <2>2. MissedFrom(c) /\ RequestKeeps(c)
    BY <2>1 DEF MissedFrom, RequestKeeps
  <2>3. QED
    BY <2>1, <2>2, OneMoves
<1>6. ASSUME NEW c \in Conns, Replay(c) \/ ReplayFails(c)
      PROVE  RequestsMove
  <2>1. Settle(c) /\ \A t \in Tabs : seen'[t] \subseteq seen[t]
    BY <1>6 DEF Replay, ReplayFails, Unlink, browser, TypeOK
  <2>2. /\ missed'[c] = {} /\ (req'[c] = req[c] \/ stage'[c] = "none")
        /\ \A d \in Conns : d # c =>
             req'[d] = req[d] /\ stage'[d] = stage[d] /\ missed'[d] = missed[d]
    BY <2>1 DEF Settle, TypeOK
  <2>3. MissedFrom(c) /\ RequestKeeps(c)
    BY <2>2 DEF MissedFrom, RequestKeeps
  <2>4. QED
    BY <2>1, <2>2, <2>3, OneMoves
<1>7. ASSUME NEW i \in Instances, Restart(i)
      PROVE  RequestsMove
  <2> DEFINE Dead(c) == req[c] # NoRequest /\ req[c].at = i
  <2>1. /\ \A c \in Conns : Dead(c) => stage'[c] = "none" /\ missed'[c] = {}
        /\ \A c \in Conns : ~Dead(c) =>
             req'[c] = req[c] /\ stage'[c] = stage[c] /\ missed'[c] = missed[c]
        /\ seen' = seen
    BY <1>7 DEF Restart, TypeOK
  <2>2. ASSUME NEW c \in Conns PROVE MissedFrom(c) /\ RequestKeeps(c)
    BY <2>1 DEF MissedFrom, RequestKeeps, MissedOwn
  <2>3. QED
    BY <2>1, <2>2 DEF RequestsMove, SeenFrom
<1>8. ASSUME NEW t \in Tabs, TabReceive(t)
      PROVE  RequestsMove
  <2>1. /\ link[t] \in Conns /\ wire[link[t]] # <<>> /\ UNCHANGED <<req, stage, missed>>
        /\ seen' = [seen EXCEPT ![t] = @ \cup {Head(wire[link[t]]).id}]
    BY <1>8 DEF TabReceive, server, TypeOK
  <2>2. \A v \in Tabs : SeenFrom(v)
    BY <2>1 DEF SeenFrom, TypeOK
  <2>3. QED
    BY <2>1, <2>2, NoneMoves
<1>9. ASSUME UNCHANGED <<req, stage, missed>>, \A t \in Tabs : seen'[t] \subseteq seen[t]
      PROVE  RequestsMove
  BY <1>9, NoneMoves DEF SeenFrom
<1>10. ASSUME NEW t \in Tabs, NEW leaves \in BOOLEAN, Disconnect(t, leaves)
       PROVE  RequestsMove
  BY <1>9, <1>10 DEF Disconnect, Unlink, server, TypeOK
<1>11. ASSUME NEW i \in Instances, SubscribeRejects(i)
       PROVE  RequestsMove
  BY <1>9, <1>11 DEF SubscribeRejects, Unlink, server, browser, TypeOK
<1>12. ASSUME NEW i \in Instances,
              HandleRedisMessage(i) \/ SubscriberReopens(i) \/ RedisExecutes(i)
       PROVE  RequestsMove
  BY <1>9, <1>12 DEF HandleRedisMessage, SubscriberReopens, RedisExecutes, server, browser
<1>13. ASSUME NEW b \in Bodies, Create(b[1], b[2])
       PROVE  RequestsMove
  BY <1>9, <1>13 DEF Create, server, browser
<1>14. ASSUME NEW i \in Instances, NEW n \in Ids, Publish(i, n) \/ UpdateStatus(i, n)
       PROVE  RequestsMove
  BY <1>9, <1>14 DEF Publish, UpdateStatus, server, browser
<1>15. ASSUME NEW n \in Ids, PublishFails(n) \/ MarkAsRead(n)
       PROVE  RequestsMove
  BY <1>9, <1>15 DEF PublishFails, MarkAsRead, server, browser
<1>16. ASSUME NEW c \in Conns, CloseUnheard(c)
       PROVE  RequestsMove
  BY <1>9, <1>16 DEF CloseUnheard, server, browser
<1>17. CASE UNCHANGED vars
  BY <1>9, <1>17 DEF vars, server, browser
<1>18. QED
  BY <1>1, <1>2, <1>3, <1>4, <1>5, <1>6, <1>7, <1>8, <1>10, <1>11, <1>12, <1>13, <1>14,
     <1>15, <1>16, <1>17 DEF Next

LEMMA OwnedInvariant == SafetySpec => []Owned
<1>1. Init => Owned
  <2> SUFFICES ASSUME Init PROVE Owned
    OBVIOUS
  <2>1. \A c \in Conns : DOMAIN wire[c] = {}
    BY EmptySeq DEF Init
  <2>2. DOMAIN rows = {} /\ \A i \in Instances : DOMAIN inbox[i] = {}
    BY EmptySeq DEF Init
  <2>3. QED
    BY <2>1, <2>2 DEF Init, Owned, RowsOwn, Known, MissedOwn, WireOwn, SeenOwn
<1>2. TypeOK /\ Held /\ WireLive /\ WireLive' /\ Owned /\ [Next]_vars => Owned'
  <2> SUFFICES ASSUME TypeOK, Held, WireLive, WireLive', Owned, [Next]_vars PROVE Owned'
    OBVIOUS
  <2>1. TableGrows /\ RowsKeep
    BY TableEffect DEF TableGrows
  <2>2. RequestsMove
    BY RequestsEffect DEF Owned
  <2>3. RowsOwn'
    BY <2>1 DEF TableGrows, RowsKeep, Owned, RowsOwn
  <2>4. Known'
    <3>1. unpub' \subseteq DOMAIN rows'
      BY <2>1 DEF TableGrows, RowsKeep, Owned, Known
    <3>2. ASSUME NEW i \in Instances, NEW k \in DOMAIN inbox'[i]
          PROVE  inbox'[i][k] \in DOMAIN rows'
      <4>1. inbox'[i][k] \in unpub \/ \E l \in DOMAIN inbox[i] : inbox'[i][k] = inbox[i][l]
        BY <2>1 DEF TableGrows
      <4>2. inbox'[i][k] \in DOMAIN rows
        BY <4>1 DEF Owned, Known
      <4>3. QED
        BY <2>1, <4>2 DEF RowsKeep
    <3>3. QED
      BY <3>1, <3>2 DEF Known
  <2>5. MissedOwn'
    <3> SUFFICES ASSUME NEW c \in Conns, NEW n \in missed'[c]
                 PROVE  /\ n \in DOMAIN rows' /\ rows'[n].to = req'[c].user
                        /\ stage'[c] \in {"found", "marked"}
      BY DEF MissedOwn
    <3>1. /\ stage[c] # "none" /\ stage'[c] \in {"found", "marked"}
          /\ n \in DOMAIN rows /\ rows[n].to = req[c].user
      BY <2>2 DEF RequestsMove, MissedFrom, Owned, MissedOwn
    <3>2. req'[c] = req[c]
      BY <2>2, <3>1 DEF RequestsMove, RequestKeeps
    <3>3. QED
      BY <2>1, <3>1, <3>2 DEF RowsKeep
  <2>6. WireOwn'
    <3> SUFFICES ASSUME NEW c \in Conns, NEW k \in DOMAIN wire'[c]
                 PROVE  IsFor(wire[c][k].id, req[c].user)'
      BY DEF WireOwn
    <3>1. wire'[c] # <<>>
      BY EmptySeq
    <3>2. stage'[c] = "live" /\ WireBecomes(c) /\ wire[c] \in Seq(Event)
      BY <3>1, WireEffect DEF WireLive, TypeOK
    <3>3. \E n \in Ids : n = wire'[c][k].id /\ IsFor(n, req[c].user) /\ stage[c] # "none"
      <4>1. CASE wire'[c] = wire[c]
        <5>1. k \in DOMAIN wire[c] /\ wire[c] # <<>>
          BY <3>1, <4>1
        <5>2. wire[c][k] \in Event
          BY <3>2, <5>1, LenProperties, ElementOfSeq
        <5>3. QED
          BY <4>1, <5>1, <5>2 DEF Owned, WireOwn, WireLive, Event
      <4>2. CASE wire[c] # <<>> /\ wire'[c] = Tail(wire[c])
        <5>1. /\ Len(wire[c]) \in Nat /\ k \in 1..(Len(wire[c]) - 1)
              /\ DOMAIN wire[c] = 1..Len(wire[c]) /\ wire'[c][k] = wire[c][k + 1]
          BY <3>2, <4>2, HeadTailProperties, LenProperties
        <5>2. k + 1 \in DOMAIN wire[c]
          BY <5>1
        <5>3. wire[c][k + 1] \in Event
          BY <3>2, <5>1, <5>2, ElementOfSeq
        <5>4. QED
          BY <4>2, <5>1, <5>2, <5>3 DEF Owned, WireOwn, WireLive, Event
      <4>3. ASSUME NEW n \in Ids, Handled(c, n), stage[c] = "live",
                   wire'[c] = Append(wire[c], [id |-> n, how |-> "live"])
            PROVE  \E m \in Ids : m = wire'[c][k].id /\ IsFor(m, req[c].user) /\ stage[c] # "none"
        <5>1. IsFor(n, req[c].user)
          <6>1. PICK i \in Instances : /\ inbox[i] # <<>> /\ n = Head(inbox[i])
                                       /\ c \in Recipients(i, rows[n].channel)
            BY <4>3 DEF Handled
          <6>2. 1 \in DOMAIN inbox[i] /\ n = inbox[i][1]
            BY <6>1, EmptySeq, LenProperties DEF TypeOK
          <6>3. n \in DOMAIN rows
            BY <6>2 DEF Owned, Known
          <6>4. rows[n].channel \in Users \cup {Broadcast}
            <7>1. rows[n] \in Row
              BY <6>3, LenProperties, ElementOfSeq DEF TypeOK
            <7>2. QED
              BY <7>1 DEF Row
          <6>5. rows[n].channel # Broadcast => req[c].user = rows[n].channel
            BY <6>1, <6>4 DEF Recipients, Held, Placed
          <6>6. QED
            BY <6>3, <6>5 DEF IsFor
        <5>2. [id |-> n, how |-> "live"] \in Event
          BY DEF Event
        <5>3. /\ Len(wire[c]) \in Nat /\ DOMAIN wire[c] = 1..Len(wire[c])
              /\ DOMAIN wire'[c] = 1..(Len(wire[c]) + 1)
              /\ \A l \in 1..Len(wire[c]) : wire'[c][l] = wire[c][l] /\ wire[c][l] \in Event
              /\ wire'[c][Len(wire[c]) + 1] = [id |-> n, how |-> "live"]
          BY <3>2, <4>3, <5>2, AppendProperties, LenProperties, ElementOfSeq
        <5>4. CASE k = Len(wire[c]) + 1
          BY <4>3, <5>1, <5>3, <5>4
        <5>5. CASE k # Len(wire[c]) + 1
          <6>1. k \in 1..Len(wire[c]) /\ wire'[c][k] = wire[c][k] /\ wire[c][k] \in Event
            BY <5>3, <5>5
          <6>2. QED
            BY <4>3, <5>3, <6>1 DEF Owned, WireOwn, Event
        <5>6. QED
          BY <5>4, <5>5
      <4>4. ASSUME NEW s \in Replayed(missed[c]), stage[c] \in {"found", "marked"},
                   wire'[c] = Replays(s)
            PROVE  \E m \in Ids : m = wire'[c][k].id /\ IsFor(m, req[c].user) /\ stage[c] # "none"
        <5>1. missed[c] \subseteq Ids
          BY DEF TypeOK
        <5>2. /\ k \in 1..Len(s) /\ wire'[c][k] = [id |-> s[k], how |-> "replay"]
              /\ s[k] \in missed[c]
          <6>1. /\ Replays(s) \in Seq(Event) /\ Len(Replays(s)) = Len(s)
                /\ \A m \in 1..Len(s) : /\ Replays(s)[m] = [id |-> s[m], how |-> "replay"]
                                        /\ s[m] \in missed[c]
            BY <4>4, <5>1, ReplayTyped
          <6>2. k \in 1..Len(s)
            BY <4>4, <6>1, LenProperties
          <6>3. QED
            BY <4>4, <6>1, <6>2
        <5>3. IsFor(s[k], req[c].user)
          BY <5>2 DEF Owned, MissedOwn, RowsOwn, IsFor
        <5>4. QED
          BY <4>4, <5>1, <5>2, <5>3
      <4>5. QED
        BY <3>1, <3>2, <4>1, <4>2, <4>3, <4>4 DEF WireBecomes
    <3>4. PICK n \in Ids : n = wire'[c][k].id /\ IsFor(n, req[c].user) /\ stage[c] # "none"
      BY <3>3
    <3>5. req'[c] = req[c]
      BY <2>2, <3>2, <3>4 DEF RequestsMove, RequestKeeps
    <3>6. n \in DOMAIN rows' /\ rows'[n].channel \in {req'[c].user, Broadcast}
      BY <2>1, <3>4, <3>5 DEF IsFor, RowsKeep
    <3>7. QED
      BY <3>4, <3>6 DEF IsFor
  <2>7. SeenOwn'
    <3> SUFFICES ASSUME NEW t \in Tabs, NEW n \in seen'[t]
                 PROVE  IsFor(n, UserOf[t])'
      BY DEF SeenOwn
    <3>1. CASE n \in seen[t]
      BY <2>1, <3>1 DEF Owned, SeenOwn, IsFor, RowsKeep
    <3>2. CASE link[t] \in Conns /\ wire[link[t]] # <<>> /\ n = Head(wire[link[t]]).id
      <4>1. 1 \in DOMAIN wire[link[t]] /\ Head(wire[link[t]]) = wire[link[t]][1]
        BY <3>2, EmptySeq, LenProperties DEF TypeOK
      <4>2. IsFor(n, req[link[t]].user)
        BY <3>2, <4>1 DEF Owned, WireOwn
      <4>3. req[link[t]].user = UserOf[t]
        BY <3>2, NoConnIsNone DEF Held, LinkOwn
      <4>4. QED
        BY <2>1, <4>2, <4>3 DEF IsFor, RowsKeep
    <3>3. QED
      BY <2>2, <3>1, <3>2 DEF RequestsMove, SeenFrom
  <2>8. QED
    BY <2>3, <2>4, <2>5, <2>6, <2>7 DEF Owned
<1>3. QED
  BY <1>1, <1>2, TypeCorrect, HeldInvariant, WireLiveInvariant, PTL DEF SafetySpec

(* Fan-out: a tab is only ever sent what was published on its own user's   *)
(* channel or on the broadcast channel, live or replayed, whatever         *)
(* connections, restarts and lost references did in between.               *)
THEOREM OnlyAddressed == SafetySpec => []Addressed
<1>1. TypeOK /\ Held /\ Owned => Addressed
  <2> SUFFICES ASSUME TypeOK, Held, Owned, NEW t \in Tabs
               PROVE  /\ \A n \in seen[t] : rows[n].channel \in {UserOf[t], Broadcast}
                      /\ link[t] # NoConn =>
                           \A k \in DOMAIN wire[link[t]] :
                             rows[wire[link[t]][k].id].channel \in {UserOf[t], Broadcast}
    BY DEF Addressed
  <2>1. \A n \in seen[t] : rows[n].channel \in {UserOf[t], Broadcast}
    BY DEF Owned, SeenOwn, IsFor
  <2>2. ASSUME link[t] # NoConn, NEW k \in DOMAIN wire[link[t]]
        PROVE  rows[wire[link[t]][k].id].channel \in {UserOf[t], Broadcast}
    BY <2>2 DEF TypeOK, Held, LinkOwn, Owned, WireOwn, IsFor
  <2>3. QED
    BY <2>1, <2>2
<1>2. QED
  BY <1>1, TypeCorrect, HeldInvariant, OwnedInvariant, PTL

-----------------------------------------------------------------------------
(* What is owed stays in flight.  Linkage: a connection has one tab, and   *)
(* while it has it the subject is in the Map of the instance, which is     *)
(* where messages for the tab are handled.                                 *)
LinkOne == \A s, t \in Tabs : link[s] = link[t] /\ link[s] # NoConn => s = t

LinkHeld ==
  \A t \in Tabs : link[t] # NoConn => link[t] \in streams[req[link[t]].at][UserOf[t]]

Linkage == LinkOne /\ LinkHeld

(* Connections only lose tabs, and those that keep theirs lose nothing.    *)
LEMMA LinkageKept ==
  ASSUME TypeOK, Linkage, \A t \in Tabs : link'[t] \in {link[t], NoConn},
         \A t \in Tabs : link'[t] # NoConn =>
           /\ req'[link[t]] = req[link[t]]
           /\ \A i \in Instances, u \in Users :
                link[t] \in streams[i][u] /\ i = req[link[t]].at => link[t] \in streams'[i][u],
         Held
  PROVE  Linkage'
<1>1. LinkOne'
  BY DEF Linkage, LinkOne
<1>2. ASSUME NEW t \in Tabs, link'[t] # NoConn
      PROVE  link'[t] \in streams'[req'[link'[t]].at][UserOf[t]]
  <2>1. link'[t] = link[t] /\ link[t] \in Conns /\ req'[link[t]] = req[link[t]]
    BY <1>2 DEF TypeOK
  <2>2. req[link[t]] \in Request
    BY <2>1, NoConnIsNone DEF TypeOK, Held, LinkOwn
  <2>3. req[link[t]].at \in Instances /\ UserOf[t] \in Users
    BY <2>2, UserOfTabs DEF Request
  <2>4. link[t] \in streams[req[link[t]].at][UserOf[t]]
    BY <1>2, <2>1 DEF Linkage, LinkHeld
  <2>5. QED
    BY <1>2, <2>1, <2>3, <2>4
<1>3. QED
  BY <1>1, <1>2 DEF Linkage, LinkHeld

LEMMA LinkageInvariant == SafetySpec => []Linkage
<1>1. Init => Linkage
  BY DEF Init, Linkage, LinkOne, LinkHeld
<1>2. TypeOK /\ Held /\ Linkage /\ [Next]_vars => Linkage'
  <2> SUFFICES ASSUME TypeOK, Held, Linkage, [Next]_vars PROVE Linkage'
    OBVIOUS
  <2>1. ASSUME NEW t \in Tabs, NEW i \in Instances, NEW c \in Conns, Connect(t, i, c)
        PROVE  Linkage'
    <3>1. ~Linked(c) /\ c # NoConn /\ UserOf[t] \in Users
      BY <2>1, HeldNew, NoConnIsNone, UserOfTabs DEF Connect, NowhereHeld
    <3>2. /\ link' = [link EXCEPT ![t] = c]
          /\ req' = [req EXCEPT ![c] = [at |-> i, user |-> UserOf[t], after |-> lastId[t]]]
          /\ streams' = [streams EXCEPT ![i][UserOf[t]] = @ \cup {c}]
      BY <2>1 DEF Connect, UC!StreamFirst, UC!StreamAnother
    <3>3. LinkOne'
      BY <3>1, <3>2 DEF Linkage, LinkOne, Linked, TypeOK
    <3>4. ASSUME NEW v \in Tabs, link'[v] # NoConn
          PROVE  link'[v] \in streams'[req'[link'[v]].at][UserOf[v]]
      <4>1. CASE v = t
        <5>1. link'[v] = c /\ req'[c].at = i
          BY <3>2, <4>1 DEF TypeOK
        <5>2. c \in streams'[i][UserOf[v]]
          BY <3>1, <3>2, <4>1 DEF TypeOK, UC!TypeOK
        <5>3. QED
          BY <5>1, <5>2
      <4>2. CASE v # t
        <5>1. link'[v] = link[v] /\ link[v] \in Conns /\ link[v] # c
          BY <3>1, <3>2, <3>4, <4>2 DEF TypeOK, Linked
        <5>2. req'[link[v]] = req[link[v]] /\ req[link[v]] # NoRequest
          BY <3>2, <5>1, NoConnIsNone DEF TypeOK, Held, LinkOwn
        <5>3. req[link[v]].at \in Instances /\ UserOf[v] \in Users
          BY <5>1, <5>2, UserOfTabs DEF TypeOK, Request
        <5>4. streams[req[link[v]].at][UserOf[v]] \subseteq streams'[req[link[v]].at][UserOf[v]]
          BY <3>1, <3>2, <5>3 DEF TypeOK, UC!TypeOK
        <5>5. QED
          BY <3>4, <5>1, <5>2, <5>4 DEF Linkage, LinkHeld
      <4>3. QED
        BY <4>1, <4>2
    <3>5. QED
      BY <3>3, <3>4 DEF Linkage, LinkHeld
  <2>2. ASSUME NEW i \in Instances, NEW u \in Users, NEW c \in Conns, StreamClose(i, u, c)
        PROVE  Linkage'
    <3>1. /\ ~Linked(c) /\ link' = link
          /\ streams' = [streams EXCEPT ![i][u] = @ \ {c}]
          /\ \A d \in Conns : d # c => req'[d] = req[d]
      BY <2>2 DEF StreamClose, UC!StreamClose, browser, TypeOK
    <3>2. \A t \in Tabs : link'[t] # NoConn => link[t] \in Conns /\ link[t] # c
      BY <3>1 DEF TypeOK, Linked
    <3>3. \A j \in Instances, v \in Users : streams[j][v] \ {c} \subseteq streams'[j][v]
      BY <3>1 DEF TypeOK, UC!TypeOK
    <3>4. QED
      BY <3>1, <3>2, <3>3, LinkageKept
  <2>3. ASSUME NEW i \in Instances, Restart(i)
        PROVE  Linkage'
    <3> DEFINE Dead(c) == req[c] # NoRequest /\ req[c].at = i
    <3>1. /\ \A t \in Tabs : link'[t] = IF link[t] \in Conns /\ Dead(link[t]) THEN NoConn ELSE link[t]
          /\ \A c \in Conns : ~Dead(c) => req'[c] = req[c]
          /\ \A j \in Instances : j # i => streams'[j] = streams[j]
      BY <2>3 DEF Restart, UC!Restart, TypeOK, UC!TypeOK
    <3>2. \A t \in Tabs : link'[t] # NoConn => link[t] \in Conns /\ ~Dead(link[t]) /\ req[link[t]] # NoRequest
      BY <3>1 DEF TypeOK, Held, LinkOwn
    <3>3. QED
      BY <3>1, <3>2, LinkageKept
  <2>4. ASSUME NEW c \in Conns, Replay(c) \/ ReplayFails(c)
        PROVE  Linkage'
    <3>1. /\ stage[c] # "none" /\ Settle(c) /\ streams' = streams
          /\ \A t \in Tabs : link'[t] \in {link[t], NoConn}
      BY <2>4 DEF Replay, ReplayFails, Executed, Unlink, browser, channel, TypeOK
    <3>2. pc[c] # "open" => ~Linked(c)
      BY <3>1 DEF Held, Staged, NowhereHeld
    <3>3. req' = req \/ (~Linked(c) /\ \A d \in Conns : d # c => req'[d] = req[d])
      BY <3>1, <3>2 DEF Settle, TypeOK
    <3>4. \A t \in Tabs : link'[t] # NoConn => req'[link[t]] = req[link[t]]
      BY <3>1, <3>3 DEF TypeOK, Linked
    <3>5. QED
      BY <3>1, <3>4, LinkageKept
  <2>5. ASSUME UNCHANGED <<req, streams>>, \A t \in Tabs : link'[t] \in {link[t], NoConn}
        PROVE  Linkage'
    BY <2>5, LinkageKept
  <2>6. ASSUME NEW i \in Instances, SubscribeRejects(i)
        PROVE  Linkage'
    BY <2>5, <2>6 DEF SubscribeRejects, UC!SubscribeRejects, Unlink, server, browser, TypeOK
  <2>7. ASSUME NEW t \in Tabs, NEW leaves \in BOOLEAN, Disconnect(t, leaves)
        PROVE  Linkage'
    BY <2>5, <2>7 DEF Disconnect, Unlink, channel, server, TypeOK
  <2>8. ASSUME UNCHANGED <<req, streams, link>>
        PROVE  Linkage'
    BY <2>5, <2>8
  <2>9. ASSUME NEW b \in Bodies, Create(b[1], b[2])
        PROVE  Linkage'
    BY <2>8, <2>9 DEF Create, channel, server, browser
  <2>10. ASSUME NEW i \in Instances, NEW n \in Ids, Publish(i, n) \/ UpdateStatus(i, n)
         PROVE  Linkage'
    BY <2>8, <2>10 DEF Publish, UpdateStatus, channel, server, browser
  <2>11. ASSUME NEW n \in Ids, PublishFails(n) \/ MarkAsRead(n)
         PROVE  Linkage'
    BY <2>8, <2>11 DEF PublishFails, MarkAsRead, channel, server, browser
  <2>12. ASSUME NEW i \in Instances, HandleRedisMessage(i) \/ SubscriberReopens(i) \/ RedisExecutes(i)
         PROVE  Linkage'
    BY <2>8, <2>12 DEF HandleRedisMessage, SubscriberReopens, RedisExecutes, UC!RedisExecutes,
                       channel, server, browser
  <2>13. ASSUME NEW c \in Conns, FindMissed(c) \/ MarkMissed(c) \/ CloseUnheard(c)
         PROVE  Linkage'
    BY <2>8, <2>13 DEF FindMissed, MarkMissed, CloseUnheard, UC!CloseUnheard, channel, server, browser
  <2>14. ASSUME NEW t \in Tabs, TabReceive(t)
         PROVE  Linkage'
    BY <2>8, <2>14 DEF TabReceive, channel, server
  <2>15. ASSUME NEW i \in Instances, NEW u \in Users, NEW c \in Conns, StreamContinue(i, u, c)
         PROVE  Linkage'
    BY <2>8, <2>15 DEF StreamContinue, UC!StreamContinue, browser
  <2>16. CASE UNCHANGED vars
    BY <2>8, <2>16 DEF vars, channel, server, browser
  <2>17. QED
    BY <2>1, <2>2, <2>3, <2>4, <2>6, <2>7, <2>9, <2>10, <2>11, <2>12, <2>13, <2>14, <2>15,
       <2>16 DEF Next
<1>3. QED
  BY <1>1, <1>2, TypeCorrect, HeldInvariant, PTL DEF SafetySpec


(* A replay sends every row found: its order is a one-to-one map of as     *)
(* many positions as there are rows.                                       *)
LEMMA ReplayCovers ==
  ASSUME NEW S, S \subseteq Ids, NEW s \in Replayed(S), NEW n \in S
  PROVE  \E k \in DOMAIN Replays(s) : Replays(s)[k].id = n
<1>1. IsFiniteSet(S) /\ Cardinality(S) \in Nat
  <2>1. IsFiniteSet(Ids)
    BY FS_Interval, MaxIdIsNat DEF Ids
  <2>2. QED
    BY <2>1, FS_Subset, FS_CardinalityType
<1> DEFINE P == 1..Cardinality(S)
<1>2. s \in [P -> S] /\ \A k, l \in P : k < l => s[k] < s[l]
  BY DEF Replayed, InOrder
<1>3. s \in Injection(P, S)
  <2>1. ASSUME NEW k \in P, NEW l \in P, s[k] = s[l]
        PROVE  k = l
    <3>1. s[k] \in Nat /\ s[l] \in Nat
      <4>1. Ids \subseteq Nat
        BY MaxIdIsNat DEF Ids
      <4>2. s[k] \in S /\ s[l] \in S
        BY <1>2
      <4>3. QED
        BY <4>1, <4>2
    <3>2. ~(s[k] < s[l]) /\ ~(s[l] < s[k])
      BY <2>1, <3>1
    <3>3. ~(k < l) /\ ~(l < k) /\ k \in Int /\ l \in Int
      BY <1>2, <3>2
    <3>4. QED
      BY <3>3
  <2>2. QED
    BY <1>2, <2>1 DEF Injection, IsInjective
<1>4. Cardinality(P) = Cardinality(S)
  BY <1>1, FS_Interval
<1>5. s \in Surjection(P, S)
  BY <1>1, <1>3, <1>4, FS_Injection
<1>6. PICK k \in P : s[k] = n
  BY <1>5 DEF Surjection
<1>7. /\ s \in Seq(S) /\ Replays(s) \in Seq(Event) /\ Len(Replays(s)) = Len(s)
      /\ \A m \in 1..Len(s) : Replays(s)[m] = [id |-> s[m], how |-> "replay"]
  BY ReplayTyped
<1>8. k \in 1..Len(s) /\ DOMAIN Replays(s) = 1..Len(s)
  BY <1>1, <1>2, <1>7, LenProperties
<1>9. Replays(s)[k] = [id |-> s[k], how |-> "replay"]
  BY <1>7, <1>8
<1>10. QED
  BY <1>6, <1>8, <1>9

OnWire(c, n)  == \E k \in DOMAIN wire[c] : wire[c][k].id = n
InInbox(c, n) == stage[c] = "live" /\ \E k \in DOMAIN inbox[req[c].at] : inbox[req[c].at][k] = n
InFlight(c, n) == OnWire(c, n) \/ n \in missed[c] \/ InInbox(c, n)

(* What is owed to a tab is on the way to the connection the tab is on,    *)
(* and addressed to it.                                                    *)
Lands(t, n) == \E c \in Conns : link[t] = c /\ IsFor(n, UserOf[t]) /\ InFlight(c, n)
Flying == \A t \in Tabs, n \in Ids : <<t, n>> \in owed => Lands(t, n)

(* Connection c of tab t is where it was.                                  *)
Unmoved(t, c) ==
  /\ link'[t] = c /\ wire'[c] = wire[c] /\ missed'[c] = missed[c] /\ req'[c] = req[c]
  /\ stage[c] = "live" => stage'[c] = "live"
  /\ inbox'[req[c].at] = inbox[req[c].at]

LEMMA LandsUnmoved ==
  ASSUME RowsKeep, NEW t \in Tabs, NEW n \in Ids, Lands(t, n),
         \A c \in Conns : link[t] = c => Unmoved(t, c)
  PROVE  Lands(t, n)'
<1>1. PICK c \in Conns : link[t] = c /\ IsFor(n, UserOf[t]) /\ InFlight(c, n)
  BY DEF Lands
<1>2. Unmoved(t, c)
  BY <1>1
<1>3. IsFor(n, UserOf[t])'
  BY <1>1 DEF IsFor, RowsKeep
<1>4. InFlight(c, n)'
  BY <1>1, <1>2 DEF InFlight, OnWire, InInbox, Unmoved
<1>5. QED
  BY <1>2, <1>3, <1>4 DEF Lands, Unmoved

LEMMA FlyingUnmoved ==
  ASSUME RowsKeep, Flying, owed' \subseteq owed,
         \A t \in Tabs, n \in Ids, c \in Conns :
           <<t, n>> \in owed' /\ link[t] = c => Unmoved(t, c)
  PROVE  Flying'
<1> SUFFICES ASSUME NEW t \in Tabs, NEW n \in Ids, <<t, n>> \in owed' PROVE Lands(t, n)'
  BY DEF Flying
<1>1. Lands(t, n)
  BY DEF Flying
<1>2. QED
  BY <1>1, LandsUnmoved

(* A publication to a tab of its audience reaches the inbox of the tab's   *)
(* instance, since that instance is subscribed to the user's channel.      *)
LEMMA FlyingPublished ==
  ASSUME TypeOK, Held, Linkage, Owned, UC!ExactUnlessOverlap, RowsKeep, Flying,
         NEW i \in Instances, NEW n \in Ids, Publish(i, n)
  PROVE  Flying'
<1>1. /\ UNCHANGED <<streams, pc, subs, overlap, rows, req, stage, missed, wire, link>>
      /\ n \in DOMAIN rows
      /\ owed' = owed \cup (Audience(n) \X {n})
  BY DEF Publish, channel, server, browser, Owned, Known
<1>2. ASSUME NEW j \in Instances
      PROVE  /\ \A k \in DOMAIN inbox[j] : k \in DOMAIN inbox'[j] /\ inbox'[j][k] = inbox[j][k]
             /\ j \in DeliveredTo(i, n) => \E k \in DOMAIN inbox'[j] : inbox'[j][k] = n
  <2>1. inbox[j] \in Seq(Ids) /\ Len(inbox[j]) \in Nat /\ DOMAIN inbox[j] = 1..Len(inbox[j])
    BY LenProperties DEF TypeOK
  <2>2. inbox'[j] = IF j \in DeliveredTo(i, n) THEN Append(inbox[j], n) ELSE inbox[j]
    BY DEF Publish
  <2>3. CASE j \notin DeliveredTo(i, n)
    BY <2>2, <2>3
  <2>4. CASE j \in DeliveredTo(i, n)
    <3>1. /\ DOMAIN inbox'[j] = 1..(Len(inbox[j]) + 1)
          /\ \A k \in 1..Len(inbox[j]) : inbox'[j][k] = inbox[j][k]
          /\ inbox'[j][Len(inbox[j]) + 1] = n
      BY <2>1, <2>2, <2>4, AppendProperties, LenProperties
    <3>2. Len(inbox[j]) + 1 \in DOMAIN inbox'[j]
      BY <2>1, <3>1
    <3>3. \A k \in DOMAIN inbox[j] : k \in DOMAIN inbox'[j] /\ inbox'[j][k] = inbox[j][k]
      BY <2>1, <3>1
    <3>4. QED
      BY <3>1, <3>2, <3>3
  <2>5. QED
    BY <2>3, <2>4
<1> SUFFICES ASSUME NEW t \in Tabs, NEW m \in Ids, <<t, m>> \in owed' PROVE Lands(t, m)'
  BY DEF Flying
<1>3. ASSUME NEW c \in Conns, link[t] = c
      PROVE  req[c].at \in Instances /\ req[c].user = UserOf[t] /\ UserOf[t] \in Users
  BY <1>3, NoConnIsNone, UserOfTabs DEF TypeOK, Held, LinkOwn, Request
<1>4. CASE <<t, m>> \in owed
  <2>1. PICK c \in Conns : link[t] = c /\ IsFor(m, UserOf[t]) /\ InFlight(c, m)
    BY <1>4 DEF Flying, Lands
  <2>2. req[c].at \in Instances
    BY <1>3, <2>1
  <2>3. InFlight(c, m)'
    BY <1>1, <1>2, <2>1, <2>2 DEF InFlight, OnWire, InInbox
  <2>4. QED
    BY <1>1, <2>1, <2>3 DEF Lands, IsFor
<1>5. CASE t \in Audience(n) /\ m = n
  <2>1. PICK c \in Conns :
          /\ link[t] = c /\ stage[c] = "live"
          /\ \/ rows[n].channel = Broadcast
             \/ rows[n].channel = UserOf[t] /\ ~overlap[req[c].at][UserOf[t]]
    BY <1>5 DEF Audience
  <2> DEFINE j == req[c].at
  <2>2. j \in Instances /\ UserOf[t] \in Users
    BY <1>3, <2>1
  <2>3. c \in streams[j][UserOf[t]]
    BY <2>1, NoConnIsNone DEF Linkage, LinkHeld
  <2>4. pc[c] = "open"
    BY <2>1, <2>2, <2>3 DEF Held, Staged, NowhereHeld
  <2>5. ~overlap[j][UserOf[t]] => UserOf[t] \in subs[j]
    BY <2>2, <2>3, <2>4 DEF UC!ExactUnlessOverlap, UC!Open
  <2>6. j \in DeliveredTo(i, n)
    BY <2>1, <2>2, <2>5 DEF DeliveredTo
  <2>7. InInbox(c, n)'
    BY <1>1, <1>2, <2>1, <2>2, <2>6 DEF InInbox
  <2>8. IsFor(n, UserOf[t])'
    BY <1>1, <2>1 DEF IsFor
  <2>9. QED
    BY <1>1, <1>5, <2>1, <2>7, <2>8 DEF Lands, InFlight
<1>6. QED
  BY <1>1, <1>4, <1>5

(* The message an instance handles is emitted to the connection it is owed *)
(* to, which is in the Map of that instance.                               *)
LEMMA FlyingHandled ==
  ASSUME TypeOK, Held, Linkage, RowsKeep, Flying,
         NEW i \in Instances, HandleRedisMessage(i)
  PROVE  Flying'
<1> DEFINE h == Head(inbox[i])
<1>1. /\ UNCHANGED <<req, stage, missed, link, owed>>
      /\ inbox[i] # <<>> /\ inbox' = [inbox EXCEPT ![i] = Tail(@)]
      /\ \/ Emit(Recipients(i, rows[h].channel), h)
         \/ rows[h].channel # Broadcast /\ streams[i][rows[h].channel] = {} /\ wire' = wire
  BY DEF HandleRedisMessage, server, browser
<1>2. h \in Ids /\ h = inbox[i][1] /\ Len(inbox[i]) \in Nat /\ DOMAIN inbox[i] = 1..Len(inbox[i])
  BY <1>1, QueuePopped, LenProperties DEF TypeOK
<1>3. /\ Len(Tail(inbox[i])) = Len(inbox[i]) - 1
      /\ DOMAIN Tail(inbox[i]) = 1..(Len(inbox[i]) - 1)
      /\ \A k \in 1..Len(Tail(inbox[i])) : Tail(inbox[i])[k] = inbox[i][k + 1]
  BY <1>1, QueuePopped, LenProperties DEF TypeOK
<1>4. ASSUME NEW c \in Conns
      PROVE  \A k \in DOMAIN wire[c] : k \in DOMAIN wire'[c] /\ wire'[c][k] = wire[c][k]
  <2>1. wire'[c] = wire[c] \/ wire'[c] = Append(wire[c], [id |-> h, how |-> "live"])
    BY <1>1, <1>2, EmitTyped DEF TypeOK
  <2>2. wire[c] \in Seq(Event) /\ [id |-> h, how |-> "live"] \in Event
    BY <1>2 DEF TypeOK, Event
  <2>3. CASE wire'[c] = wire[c]
    BY <2>3
  <2>4. CASE wire'[c] = Append(wire[c], [id |-> h, how |-> "live"])
    BY <2>2, <2>4, AppendProperties, LenProperties
  <2>5. QED
    BY <2>1, <2>3, <2>4
<1> SUFFICES ASSUME NEW t \in Tabs, NEW m \in Ids, <<t, m>> \in owed PROVE Lands(t, m)'
  BY <1>1 DEF Flying
<1>5. PICK c \in Conns : link[t] = c /\ IsFor(m, UserOf[t]) /\ InFlight(c, m)
  BY DEF Flying, Lands
<1>6. req[c].at \in Instances
  BY <1>5, NoConnIsNone DEF TypeOK, Held, LinkOwn, Request
<1>7. ASSUME OnWire(c, m)
      PROVE  InFlight(c, m)'
  BY <1>4, <1>7 DEF OnWire, InFlight
<1>8. ASSUME m \in missed[c]
      PROVE  InFlight(c, m)'
  BY <1>1, <1>8 DEF InFlight
<1>9. ASSUME InInbox(c, m)
      PROVE  InFlight(c, m)'
  <2>1. PICK k \in DOMAIN inbox[req[c].at] : inbox[req[c].at][k] = m
    BY <1>9 DEF InInbox
  <2>2. stage[c] = "live"
    BY <1>9 DEF InInbox
  <2>3. CASE req[c].at # i
    <3>1. inbox'[req[c].at] = inbox[req[c].at]
      BY <1>1, <1>6, <2>3 DEF TypeOK
    <3>2. QED
      BY <1>1, <2>1, <2>2, <3>1 DEF InFlight, InInbox
  <2>4. CASE req[c].at = i /\ k # 1
    <3>1. inbox'[i] = Tail(inbox[i])
      BY <1>1 DEF TypeOK
    <3>2. k - 1 \in DOMAIN Tail(inbox[i]) /\ Tail(inbox[i])[k - 1] = m
      BY <1>2, <1>3, <2>1, <2>4
    <3>3. QED
      BY <1>1, <2>2, <2>4, <3>1, <3>2 DEF InFlight, InInbox
  <2>5. CASE req[c].at = i /\ k = 1
    <3>1. m = h /\ c \in streams[i][UserOf[t]] /\ UserOf[t] \in Users
      BY <1>2, <1>5, <2>1, <2>5, NoConnIsNone, UserOfTabs DEF Linkage, LinkHeld
    <3>2. rows[h].channel \in {UserOf[t], Broadcast}
      BY <1>5, <3>1 DEF IsFor
    <3>3. c \in Recipients(i, rows[h].channel)
      BY <3>1, <3>2 DEF Recipients, UC!AtInstance
    <3>4. Emit(Recipients(i, rows[h].channel), h)
      BY <1>1, <3>1, <3>2
    <3>5. Receiving(c)
      BY <1>5, <2>2 DEF Receiving, Linked
    <3>6. wire'[c] = Append(wire[c], [id |-> h, how |-> "live"])
      BY <3>3, <3>4, <3>5 DEF Emit
    <3>7. wire[c] \in Seq(Event) /\ [id |-> h, how |-> "live"] \in Event
      BY <1>2 DEF TypeOK, Event
    <3>8. /\ Len(wire[c]) + 1 \in DOMAIN wire'[c]
          /\ wire'[c][Len(wire[c]) + 1] = [id |-> h, how |-> "live"]
      BY <3>6, <3>7, AppendProperties, LenProperties
    <3>9. OnWire(c, m)'
      BY <3>1, <3>8 DEF OnWire
    <3>10. QED
      BY <3>9 DEF InFlight
  <2>6. QED
    BY <2>3, <2>4, <2>5
<1>10. InFlight(c, m)'
  BY <1>5, <1>7, <1>8, <1>9 DEF InFlight
<1>11. IsFor(m, UserOf[t])'
  BY <1>5 DEF IsFor, RowsKeep
<1>12. QED
  BY <1>1, <1>5, <1>10, <1>11 DEF Lands

(* The connection a replay runs for: it has no events and nothing of it is *)
(* handled live, so what is owed to it is among the rows found.            *)
LEMMA FlyingFound ==
  ASSUME TypeOK, Held, Linkage, WireLive, Owned, RowsKeep, Flying, NEW c \in Conns, FindMissed(c)
  PROVE  Flying'
<1>1. /\ stage[c] = "querying" /\ \A d \in Conns : d # c => stage'[d] = stage[d]
      /\ UNCHANGED <<rows, inbox, req, wire, link>>
      /\ missed'[c] = {n \in DOMAIN rows : /\ rows[n].to = req[c].user
                                          /\ n > req[c].after
                                          /\ rows[n].status = "pending"}
      /\ \A d \in Conns : d # c => missed'[d] = missed[d]
      /\ owed' = owed \cup {t \in Tabs : link[t] = c} \X missed'[c]
  BY DEF FindMissed, table, browser, TypeOK
<1> SUFFICES ASSUME NEW t \in Tabs, NEW n \in Ids, <<t, n>> \in owed' PROVE Lands(t, n)'
  BY DEF Flying
<1>2. CASE link[t] = c /\ n \in missed'[c]
  <2>1. req[c].user = UserOf[t]
    BY <1>2, NoConnIsNone DEF Held, LinkOwn
  <2>2. IsFor(n, UserOf[t])
    BY <1>1, <1>2, <2>1 DEF IsFor, Owned, RowsOwn
  <2>3. IsFor(n, UserOf[t])'
    BY <2>2 DEF IsFor, RowsKeep
  <2>4. QED
    BY <1>1, <1>2, <2>3 DEF Lands, InFlight
<1>3. CASE <<t, n>> \in owed
  <2>1. Lands(t, n)
    BY <1>3 DEF Flying
  <2>2. ~(link[t] = c /\ InFlight(c, n))
    BY <1>1, EmptySeq DEF InFlight, InInbox, OnWire, WireLive, Owned, MissedOwn
  <2>3. link[t] # c
    BY <2>1, <2>2 DEF Lands
  <2>4. \A d \in Conns : link[t] = d => Unmoved(t, d)
    BY <1>1, <2>3 DEF Unmoved
  <2>5. QED
    BY <2>1, <2>4, LandsUnmoved
<1>4. QED
  BY <1>1, <1>2, <1>3

LEMMA FlyingReplayed ==
  ASSUME TypeOK, Held, Linkage, WireLive, RowsKeep, Flying, NEW c \in Conns, Replay(c)
  PROVE  Flying'
<1>1. /\ stage[c] \in {"found", "marked"} /\ Settle(c)
      /\ UNCHANGED <<inbox, link, owed>>
      /\ \A d \in Conns : d # c => /\ wire'[d] = wire[d] /\ missed'[d] = missed[d]
                                   /\ stage'[d] = stage[d] /\ req'[d] = req[d]
      /\ Linked(c) => \E s \in Replayed(missed[c]) : wire'[c] = wire[c] \o Replays(s)
  BY DEF Replay, Executed, Settle, Replays, table, browser, TypeOK
<1> SUFFICES ASSUME NEW t \in Tabs, NEW n \in Ids, <<t, n>> \in owed PROVE Lands(t, n)'
  BY <1>1 DEF Flying
<1>2. PICK d \in Conns : link[t] = d /\ IsFor(n, UserOf[t]) /\ InFlight(d, n)
  BY DEF Flying, Lands
<1>3. CASE d # c
  <2>1. \A e \in Conns : link[t] = e => Unmoved(t, e)
    BY <1>1, <1>2, <1>3 DEF Unmoved
  <2>2. QED
    BY <1>2, <2>1, LandsUnmoved DEF Lands
<1>4. CASE d = c
  <2>1. wire[c] = <<>> /\ n \in missed[c]
    BY <1>1, <1>2, <1>4, EmptySeq DEF InFlight, InInbox, OnWire, WireLive
  <2>2. missed[c] \subseteq Ids
    BY DEF TypeOK
  <2>3. PICK s \in Replayed(missed[c]) : wire'[c] = wire[c] \o Replays(s)
    BY <1>1, <1>2, <1>4 DEF Linked
  <2>4. Replays(s) \in Seq(Event)
    BY <2>2, ReplayTyped
  <2>5. wire'[c] = Replays(s)
    BY <2>1, <2>3, <2>4, ConcatEmptySeq
  <2>6. \E k \in DOMAIN Replays(s) : Replays(s)[k].id = n
    BY <2>1, <2>2, ReplayCovers
  <2>7. InFlight(c, n)'
    BY <2>5, <2>6 DEF InFlight, OnWire
  <2>8. IsFor(n, UserOf[t])'
    BY <1>2 DEF IsFor, RowsKeep
  <2>9. QED
    BY <1>1, <1>2, <1>4, <2>7, <2>8 DEF Lands
<1>5. QED
  BY <1>3, <1>4

(* An event received is no longer owed; the others have moved one place.   *)
LEMMA FlyingReceived ==
  ASSUME TypeOK, Linkage, RowsKeep, Flying, NEW v \in Tabs, TabReceive(v)
  PROVE  Flying'
<1> DEFINE c == link[v]
<1>1. /\ c \in Conns /\ wire[c] # <<>> /\ wire' = [wire EXCEPT ![c] = Tail(@)]
      /\ UNCHANGED <<inbox, req, stage, missed, link>>
      /\ owed' = owed \ {<<v, Head(wire[c]).id>>}
  BY DEF TabReceive, server, TypeOK
<1> SUFFICES ASSUME NEW t \in Tabs, NEW n \in Ids, <<t, n>> \in owed, <<t, n>> # <<v, Head(wire[c]).id>>
             PROVE  Lands(t, n)'
  BY <1>1 DEF Flying
<1>2. Lands(t, n)
  BY DEF Flying
<1>3. CASE t # v
  <2>1. \A d \in Conns : link[t] = d => d # c
    BY <1>1, <1>3, NoConnIsNone DEF Linkage, LinkOne
  <2>2. \A d \in Conns : link[t] = d => Unmoved(t, d)
    BY <1>1, <2>1 DEF Unmoved, TypeOK
  <2>3. QED
    BY <1>2, <2>2, LandsUnmoved
<1>4. CASE t = v
  <2>1. IsFor(n, UserOf[t]) /\ InFlight(c, n)
    BY <1>2, <1>4 DEF Lands
  <2>2. OnWire(c, n) => \E k \in DOMAIN wire'[c] : wire'[c][k].id = n
    <3>1. SUFFICES ASSUME NEW k \in DOMAIN wire[c], wire[c][k].id = n
                   PROVE  \E l \in DOMAIN wire'[c] : wire'[c][l].id = n
      BY DEF OnWire
    <3>2. wire[c] \in Seq(Event) /\ wire'[c] = Tail(wire[c])
      BY <1>1 DEF TypeOK
    <3>3. /\ Len(wire[c]) \in Nat /\ DOMAIN wire[c] = 1..Len(wire[c])
          /\ DOMAIN wire'[c] = 1..(Len(wire[c]) - 1) /\ Head(wire[c]) = wire[c][1]
          /\ \A l \in 1..(Len(wire[c]) - 1) : wire'[c][l] = wire[c][l + 1]
      <4>1. Len(wire[c]) \in Nat \ {0} /\ DOMAIN wire[c] = 1..Len(wire[c])
        BY <1>1, <3>2, LenProperties, EmptySeq
      <4>2. /\ Tail(wire[c]) \in Seq(Event) /\ Len(Tail(wire[c])) = Len(wire[c]) - 1
            /\ \A l \in 1..Len(Tail(wire[c])) : Tail(wire[c])[l] = wire[c][l + 1]
            /\ Head(wire[c]) = wire[c][1]
        BY <1>1, <3>2, HeadTailProperties
      <4>3. DOMAIN Tail(wire[c]) = 1..Len(Tail(wire[c]))
        BY <4>2, LenProperties
      <4>4. QED
        BY <3>2, <4>1, <4>2, <4>3
    <3>4. k # 1
      BY <1>4, <3>1, <3>3
    <3>5. k - 1 \in DOMAIN wire'[c] /\ wire'[c][k - 1] = wire[c][k]
      BY <3>3, <3>4
    <3>6. QED
      BY <3>1, <3>5
  <2>3. PICK d \in Conns : d = c
    BY <1>1
  <2>4. InFlight(d, n)'
    BY <1>1, <2>1, <2>2, <2>3 DEF InFlight, OnWire, InInbox
  <2>5. IsFor(n, UserOf[t])'
    BY <2>1 DEF IsFor, RowsKeep
  <2>6. QED
    BY <1>1, <1>4, <2>3, <2>4, <2>5 DEF Lands
<1>5. QED
  BY <1>3, <1>4

(* A connection that is lost takes what is owed to its tab with it, and    *)
(* its tab is the only one it had.                                         *)
LEMMA FlyingUnlinked ==
  ASSUME TypeOK, Linkage, RowsKeep, Flying, NEW v \in Tabs, NEW leaves \in BOOLEAN, Unlink(v, leaves),
         UNCHANGED inbox,
         \A c \in Conns : c # link[v] =>
           /\ wire'[c] = wire[c] /\ missed'[c] = missed[c] /\ req'[c] = req[c]
           /\ stage[c] = "live" => stage'[c] = "live"
  PROVE  Flying'
<1>1. owed' \subseteq owed /\ \A t \in Tabs, n \in Ids : <<t, n>> \in owed' => t # v
  BY DEF Unlink
<1>2. \A t \in Tabs : t # v => link'[t] = link[t]
  BY DEF Unlink, TypeOK
<1>3. \A t \in Tabs, c \in Conns : t # v /\ link[t] = c => c # link[v]
  BY NoConnIsNone DEF Linkage, LinkOne
<1>4. \A t \in Tabs, n \in Ids, c \in Conns :
        <<t, n>> \in owed' /\ link[t] = c => Unmoved(t, c)
  BY <1>1, <1>2, <1>3 DEF Unmoved
<1>5. QED
  BY <1>1, <1>4, FlyingUnmoved

LEMMA FlyingKept ==
  ASSUME TypeOK, Held, Linkage, WireLive, Owned, UC!ExactUnlessOverlap, Flying, [Next]_vars
  PROVE  Flying'
<1>0. RowsKeep
  BY TableEffect DEF TableGrows
<1>1. ASSUME UNCHANGED <<link, wire, missed, req, inbox, owed>>,
             \A c \in Conns : stage[c] = "live" => stage'[c] = "live"
      PROVE  Flying'
  BY <1>0, <1>1, FlyingUnmoved DEF Unmoved
<1>2. ASSUME NEW b \in Bodies, Create(b[1], b[2])
      PROVE  Flying'
  BY <1>1, <1>2 DEF Create, server, browser
<1>3. ASSUME NEW n \in Ids, PublishFails(n) \/ MarkAsRead(n)
      PROVE  Flying'
  BY <1>1, <1>3 DEF PublishFails, MarkAsRead, server, browser
<1>4. ASSUME NEW i \in Instances, NEW n \in Ids, Publish(i, n)
      PROVE  Flying'
  BY <1>0, <1>4, FlyingPublished
<1>5. ASSUME NEW i \in Instances, NEW n \in Ids, UpdateStatus(i, n)
      PROVE  Flying'
  BY <1>1, <1>5 DEF UpdateStatus, server, browser
<1>6. ASSUME NEW i \in Instances, HandleRedisMessage(i)
      PROVE  Flying'
  BY <1>0, <1>6, FlyingHandled
<1>7. ASSUME NEW i \in Instances, RedisExecutes(i)
      PROVE  Flying'
  BY <1>1, <1>7 DEF RedisExecutes, table, server, browser
<1>8. ASSUME NEW i \in Instances, SubscribeRejects(i)
      PROVE  Flying'
  <2>1. UNCHANGED <<inbox, wire, req, stage, missed>>
    BY <1>8 DEF SubscribeRejects, server
  <2>2. (\E t \in Tabs : Unlink(t, TRUE)) \/ UNCHANGED <<link, owed>>
    BY <1>8 DEF SubscribeRejects, browser
  <2>3. QED
    BY <1>0, <1>1, <2>1, <2>2, FlyingUnlinked
<1>9. ASSUME NEW i \in Instances, SubscriberReopens(i)
      PROVE  Flying'
  <2>1. /\ UNCHANGED <<wire, req, stage, missed, link>>
        /\ \A j \in Instances : j # i => inbox'[j] = inbox[j]
        /\ owed' \subseteq owed
        /\ \A t \in Tabs, n \in Ids : <<t, n>> \in owed' =>
             req[link[t]].at # i \/ \A k \in DOMAIN inbox[i] : inbox[i][k] # n
    BY <1>9 DEF SubscriberReopens, server, browser, TypeOK
  <2> SUFFICES ASSUME NEW t \in Tabs, NEW n \in Ids, <<t, n>> \in owed' PROVE Lands(t, n)'
    BY DEF Flying
  <2>2. PICK c \in Conns : link[t] = c /\ IsFor(n, UserOf[t]) /\ InFlight(c, n)
    BY <2>1 DEF Flying, Lands
  <2>3. req[c].at \in Instances
    BY <2>2, NoConnIsNone DEF TypeOK, Held, LinkOwn, Request
  <2>4. InFlight(c, n)'
    BY <2>1, <2>2, <2>3 DEF InFlight, OnWire, InInbox
  <2>5. IsFor(n, UserOf[t])'
    BY <1>0, <2>2 DEF IsFor, RowsKeep
  <2>6. QED
    BY <2>1, <2>2, <2>4, <2>5 DEF Lands
<1>10. ASSUME NEW i \in Instances, Restart(i)
       PROVE  Flying'
  <2> DEFINE Dead(c) == req[c] # NoRequest /\ req[c].at = i
  <2>1. /\ owed' \subseteq owed
        /\ \A t \in Tabs, n \in Ids, c \in Conns : <<t, n>> \in owed' /\ link[t] = c => ~Dead(c)
        /\ \A t \in Tabs, c \in Conns : link[t] = c /\ ~Dead(c) => link'[t] = c
        /\ \A c \in Conns : ~Dead(c) => /\ wire'[c] = wire[c] /\ missed'[c] = missed[c]
                                        /\ req'[c] = req[c] /\ stage'[c] = stage[c]
        /\ \A j \in Instances : j # i => inbox'[j] = inbox[j]
    BY <1>10 DEF Restart, TypeOK
  <2>2. \A t \in Tabs, c \in Conns : link[t] = c => req[c] # NoRequest /\ req[c].at \in Instances
    BY NoConnIsNone DEF TypeOK, Held, LinkOwn, Request
  <2>3. \A t \in Tabs, n \in Ids, c \in Conns :
          <<t, n>> \in owed' /\ link[t] = c => Unmoved(t, c)
    BY <2>1, <2>2 DEF Unmoved
  <2>4. QED
    BY <1>0, <2>1, <2>3, FlyingUnmoved
<1>11. ASSUME NEW t \in Tabs, NEW i \in Instances, NEW c \in Conns, Connect(t, i, c)
       PROVE  Flying'
  <2>1. /\ link[t] = NoConn /\ req[c] = NoRequest
        /\ UNCHANGED <<inbox, missed, wire, owed>>
        /\ \A v \in Tabs : v # t => link'[v] = link[v]
        /\ \A d \in Conns : d # c => req'[d] = req[d] /\ stage'[d] = stage[d]
    BY <1>11 DEF Connect, table, TypeOK
  <2>2. \A v \in Tabs, d \in Conns : link[v] = d => d # c /\ v # t
    BY <2>1, NoConnIsNone DEF Held, LinkOwn
  <2>3. \A v \in Tabs, d \in Conns : link[v] = d => Unmoved(v, d)
    BY <2>1, <2>2 DEF Unmoved
  <2>4. QED
    BY <1>0, <2>1, <2>3, FlyingUnmoved
<1>12. ASSUME NEW t \in Tabs, NEW leaves \in BOOLEAN, Disconnect(t, leaves)
       PROVE  Flying'
  <2>1. /\ Unlink(t, leaves) /\ UNCHANGED <<inbox, missed, req, stage>>
        /\ \A c \in Conns : c # link[t] => wire'[c] = wire[c]
    BY <1>12 DEF Disconnect, server, TypeOK
  <2>2. QED
    BY <1>0, <2>1, FlyingUnlinked
<1>13. ASSUME NEW t \in Tabs, TabReceive(t)
       PROVE  Flying'
  BY <1>0, <1>13, FlyingReceived
<1>14. ASSUME NEW i \in Instances, NEW u \in Users, NEW c \in Conns, StreamContinue(i, u, c)
       PROVE  Flying'
  <2>1. stage[c] = "none"
    BY <1>14 DEF StreamContinue, UC!StreamContinue, Held, Staged
  <2>2. \A d \in Conns : stage[d] = "live" => stage'[d] = "live"
    BY <1>14, <2>1 DEF StreamContinue, TypeOK
  <2>3. QED
    BY <1>1, <1>14, <2>2 DEF StreamContinue, browser
<1>15. ASSUME NEW i \in Instances, NEW u \in Users, NEW c \in Conns, StreamClose(i, u, c)
       PROVE  Flying'
  <2>1. /\ ~Linked(c) /\ UNCHANGED <<inbox, missed, wire, link, owed>>
        /\ \A d \in Conns : d # c => req'[d] = req[d] /\ stage'[d] = stage[d]
    BY <1>15 DEF StreamClose, browser, TypeOK
  <2>2. \A v \in Tabs, d \in Conns : link[v] = d => Unmoved(v, d)
    BY <2>1 DEF Unmoved, Linked
  <2>3. QED
    BY <1>0, <2>1, <2>2, FlyingUnmoved
<1>16. ASSUME NEW c \in Conns, CloseUnheard(c)
       PROVE  Flying'
  BY <1>1, <1>16 DEF CloseUnheard, server, browser
<1>17. ASSUME NEW c \in Conns, FindMissed(c)
       PROVE  Flying'
  BY <1>0, <1>17, FlyingFound
<1>18. ASSUME NEW c \in Conns, MarkMissed(c)
       PROVE  Flying'
  BY <1>1, <1>18 DEF MarkMissed, browser, TypeOK
<1>19. ASSUME NEW c \in Conns, Replay(c)
       PROVE  Flying'
  BY <1>0, <1>19, FlyingReplayed
<1>20. ASSUME NEW c \in Conns, ReplayFails(c)
       PROVE  Flying'
  <2>1. /\ inbox' = inbox
        /\ \A d \in Conns : d # c => /\ wire'[d] = wire[d] /\ missed'[d] = missed[d]
                                     /\ stage'[d] = stage[d] /\ req'[d] = req[d]
    BY <1>20 DEF ReplayFails, Settle, TypeOK
  <2>2. CASE \E t \in Tabs : link[t] = c /\ Unlink(t, FALSE)
    BY <1>0, <2>1, <2>2, FlyingUnlinked
  <2>3. CASE ~Linked(c) /\ UNCHANGED <<browser, owed>>
    <3>1. \A v \in Tabs, d \in Conns : link[v] = d => Unmoved(v, d)
      BY <2>1, <2>3 DEF Unmoved, Linked, browser
    <3>2. QED
      BY <1>0, <2>3, <3>1, FlyingUnmoved
  <2>4. QED
    BY <1>20, <2>2, <2>3 DEF ReplayFails
<1>21. CASE UNCHANGED vars
  BY <1>1, <1>21 DEF vars, table, server, browser
<1>22. QED
  BY <1>2, <1>3, <1>4, <1>5, <1>6, <1>7, <1>8, <1>9, <1>10, <1>11, <1>12, <1>13, <1>14,
     <1>15, <1>16, <1>17, <1>18, <1>19, <1>20, <1>21 DEF Next

(* What the server has taken on to deliver is never lost while the tab     *)
(* keeps its connection, through publications, handlers, replays, failures *)
(* and restarts in any order.  That connections without a lost reference   *)
(* hear their channel comes from UserChannel, by RegistrationsHold.        *)
THEOREM NothingOwedIsLost == SafetySpec => []OwedInFlight
<1>1. Init => Flying
  BY DEF Init, Flying
<1>2. /\ TypeOK /\ Held /\ Linkage /\ WireLive /\ Owned /\ UC!ExactUnlessOverlap
      /\ Flying /\ [Next]_vars
      => Flying'
  BY FlyingKept
<1>3. TypeOK /\ Flying => OwedInFlight
  <2> SUFFICES ASSUME TypeOK, Flying, NEW o \in owed
               PROVE  \/ \E k \in DOMAIN wire[link[o[1]]] : wire[link[o[1]]][k].id = o[2]
                      \/ o[2] \in missed[link[o[1]]]
                      \/ /\ stage[link[o[1]]] = "live"
                         /\ \E k \in DOMAIN inbox[req[link[o[1]]].at] :
                              inbox[req[link[o[1]]].at][k] = o[2]
    BY DEF OwedInFlight
  <2>1. PICK t \in Tabs, n \in Ids : o = <<t, n>>
    BY DEF TypeOK
  <2>2. Lands(t, n)
    BY <2>1 DEF Flying
  <2>3. QED
    BY <2>1, <2>2 DEF Lands, InFlight, OnWire, InInbox
<1>4. QED
  BY <1>1, <1>2, <1>3, TypeCorrect, HeldInvariant, LinkageInvariant, WireLiveInvariant,
     OwnedInvariant, RegistrationsHold, PTL DEF SafetySpec

-----------------------------------------------------------------------------
(* What nothing else will bring waits for the replay of a tab.             *)
Found(t, n) ==
  \/ Awaits(t, n)'
  \/ \E c \in Conns : n \in missed'[c]
  \/ link'[t] = NoConn
  \/ rows'[n].status = "read"

(* A step that keeps the tab on its request leaves it waiting for the row. *)
LEMMA StillAwaits ==
  ASSUME NEW t \in Tabs, NEW n \in Ids, Awaits(t, n), LeftOver(n)', rows'[n].to = rows[n].to,
         link'[t] = link[t], stage'[link[t]] = stage[link[t]] \/ stage'[link[t]] = "querying",
         req'[link[t]] = req[link[t]]
  PROVE  Found(t, n)
BY DEF Awaits, Found

(* A tab that loses its connection waits for nothing any more.             *)
LEMMA AwaitsUnlinked ==
  ASSUME TypeOK, NEW t \in Tabs, NEW n \in Ids, Awaits(t, n), NEW v \in Tabs,
         NEW leaves \in BOOLEAN, Unlink(v, leaves), UNCHANGED table, UNCHANGED inbox,
         v # t => stage'[link[t]] = stage[link[t]] /\ req'[link[t]] = req[link[t]]
  PROVE  Found(t, n)
<1>1. CASE v = t
  BY <1>1 DEF Unlink, Found, TypeOK
<1>2. CASE v # t
  <2>1. LeftOver(n)' /\ rows' = rows
    BY DEF Awaits, LeftOver, table
  <2>2. link'[t] = link[t]
    BY <1>2 DEF Unlink, TypeOK
  <2>3. QED
    BY <1>2, <2>1, <2>2, StillAwaits
<1>3. QED
  BY <1>1, <1>2

LEMMA AwaitsKept ==
  ASSUME TypeOK, Held, Linkage, [Next]_vars, NEW t \in Tabs, NEW n \in Ids, Awaits(t, n)
  PROVE  Found(t, n)
<1> DEFINE c == link[t]
<1>0. /\ c \in Conns /\ c # NoConn /\ stage[c] \in {"none", "querying"}
      /\ req[c] # NoRequest /\ req[c].user = UserOf[t]
      /\ req[c].after > 0 /\ req[c].after < n
      /\ LeftOver(n) /\ rows[n].to = UserOf[t]
  BY DEF Awaits, TypeOK, Held, LinkOwn
<1> HIDE DEF c
<1>a. ASSUME UNCHANGED <<rows, unpub, updates, inbox>> PROVE LeftOver(n)'
  BY <1>0, <1>a DEF LeftOver
<1>b. ASSUME LeftOver(n)', rows'[n].to = rows[n].to, UNCHANGED <<link, stage, req>>
      PROVE  Found(t, n)
  BY <1>b, StillAwaits
<1>1. ASSUME NEW b \in Bodies, Create(b[1], b[2])
      PROVE  Found(t, n)
  <2>1. rows' = Append(rows, [to |-> b[1], channel |-> IF b[2] THEN Broadcast ELSE b[1],
                              status |-> "pending"])
    BY <1>1 DEF Create
  <2>2. /\ n \in DOMAIN rows /\ DOMAIN rows = 1..Len(rows) /\ Len(rows) \in Nat
        /\ rows \in Seq(Row)
    BY <1>0, LenProperties DEF LeftOver, TypeOK
  <2>3. n \in DOMAIN rows' /\ rows'[n] = rows[n] /\ n # Len(rows) + 1
    BY <2>1, <2>2
  <2>4. LeftOver(n)'
    BY <1>0, <1>1, <2>3 DEF LeftOver, Create
  <2>5. QED
    BY <1>1, <1>b, <2>3, <2>4 DEF Create, server, browser
<1>2. ASSUME NEW m \in Ids, PublishFails(m)
      PROVE  Found(t, n)
  <2>1. LeftOver(n)'
    BY <1>0, <1>2 DEF LeftOver, PublishFails
  <2>2. QED
    BY <1>2, <1>b, <2>1 DEF PublishFails, server, browser
<1>3. ASSUME NEW m \in Ids, MarkAsRead(m)
      PROVE  Found(t, n)
  <2>1. n \in DOMAIN rows
    BY <1>0 DEF LeftOver
  <2>2. CASE m = n
    <3>1. rows'[n] = [rows[n] EXCEPT !.status = "read"] /\ rows[n] \in Row
      BY <1>3, <2>1, <2>2 DEF MarkAsRead, SetStatus, TypeOK
    <3>2. QED
      BY <3>1 DEF Found, Row
  <2>3. CASE m # n
    <3>1. n \in DOMAIN rows' /\ rows'[n] = rows[n]
      BY <1>3, <2>1, <2>3 DEF MarkAsRead, SetStatus
    <3>2. LeftOver(n)'
      BY <1>0, <1>3, <3>1 DEF LeftOver, MarkAsRead
    <3>3. QED
      BY <1>3, <1>b, <3>1, <3>2 DEF MarkAsRead, server, browser
  <2>4. QED
    BY <2>2, <2>3
<1>4. ASSUME NEW i \in Instances, NEW m \in Ids, Publish(i, m)
      PROVE  Found(t, n)
  <2>1. \A j \in Instances : \A k \in DOMAIN inbox'[j] :
          inbox'[j][k] \in unpub \/ \E l \in DOMAIN inbox[j] : inbox'[j][k] = inbox[j][l]
    BY TableEffect DEF TableGrows
  <2>2. LeftOver(n)'
    BY <1>0, <1>4, <2>1 DEF LeftOver, Publish
  <2>3. QED
    BY <1>4, <1>b, <2>2 DEF Publish, server, browser
<1>5. ASSUME NEW i \in Instances, NEW m \in Ids, UpdateStatus(i, m)
      PROVE  Found(t, n)
  <2>1. n \in DOMAIN rows /\ m # n
    BY <1>0, <1>5 DEF LeftOver, UpdateStatus
  <2>2. n \in DOMAIN rows' /\ rows'[n] = rows[n]
    BY <1>5, <2>1 DEF UpdateStatus, SetStatus
  <2>3. \A j \in Instances : updates'[j] \subseteq updates[j]
    BY <1>5 DEF UpdateStatus, TypeOK
  <2>4. LeftOver(n)'
    BY <1>0, <1>5, <2>2, <2>3 DEF LeftOver, UpdateStatus
  <2>5. QED
    BY <1>5, <1>b, <2>2, <2>4 DEF UpdateStatus, server, browser
<1>6. ASSUME NEW i \in Instances, HandleRedisMessage(i)
      PROVE  Found(t, n)
  <2>1. Head(inbox[i]) # n
    BY <1>0, <1>6, HeadTailProperties, LenProperties DEF LeftOver, HandleRedisMessage, TypeOK
  <2>2. \A j \in Instances : n \notin updates'[j]
    <3>1. \/ updates' = [updates EXCEPT ![i] = @ \cup {Head(inbox[i])}]
          \/ updates' = updates
      BY <1>6 DEF HandleRedisMessage
    <3>2. \A j \in Instances : n \notin updates[j]
      BY <1>0 DEF LeftOver
    <3>3. DOMAIN updates = Instances
      BY DEF TypeOK
    <3>4. QED
      BY <2>1, <3>1, <3>2, <3>3
  <2>3. \A j \in Instances : \A k \in DOMAIN inbox'[j] :
          inbox'[j][k] \in unpub \/ \E l \in DOMAIN inbox[j] : inbox'[j][k] = inbox[j][l]
    BY TableEffect DEF TableGrows
  <2>4. LeftOver(n)'
    BY <1>0, <1>6, <2>2, <2>3 DEF LeftOver, HandleRedisMessage
  <2>5. QED
    BY <1>6, <1>b, <2>4 DEF HandleRedisMessage, server, browser
<1>7. ASSUME NEW i \in Instances, SubscriberReopens(i)
      PROVE  Found(t, n)
  <2>1. \A j \in Instances : inbox'[j] = inbox[j] \/ inbox'[j] = <<>>
    BY <1>7 DEF SubscriberReopens, TypeOK
  <2>2. LeftOver(n)'
    BY <1>0, <1>7, <2>1 DEF LeftOver, SubscriberReopens, table
  <2>3. QED
    BY <1>7, <1>b, <2>2 DEF SubscriberReopens, table, server, browser
<1>8. ASSUME NEW i \in Instances, RedisExecutes(i)
      PROVE  Found(t, n)
  BY <1>8, <1>a, <1>b DEF RedisExecutes, table, server, browser
<1>9. ASSUME NEW i \in Instances, SubscribeRejects(i)
      PROVE  Found(t, n)
  <2>1. UNCHANGED <<rows, unpub, updates, inbox, req, stage>>
    BY <1>9 DEF SubscribeRejects, table, server
  <2>2. (\E v \in Tabs : Unlink(v, TRUE)) \/ UNCHANGED link
    BY <1>9 DEF SubscribeRejects, browser
  <2>3. QED
    BY <1>a, <1>b, <2>1, <2>2, AwaitsUnlinked DEF table
<1>10. ASSUME NEW v \in Tabs, NEW i \in Instances, NEW d \in Conns, Connect(v, i, d)
       PROVE  Found(t, n)
  <2>1. v # t /\ d # c
    BY <1>0, <1>10 DEF Connect, c
  <2>2. link'[t] = link[t] /\ stage'[c] = stage[c] /\ req'[c] = req[c]
    BY <1>0, <1>10, <2>1 DEF Connect, TypeOK
  <2>3. LeftOver(n)' /\ rows' = rows
    BY <1>10, <1>a DEF Connect, table
  <2>4. QED
    BY <2>2, <2>3, StillAwaits DEF c
<1>11. ASSUME NEW v \in Tabs, NEW leaves \in BOOLEAN, Disconnect(v, leaves)
       PROVE  Found(t, n)
  BY <1>11, AwaitsUnlinked DEF Disconnect, server
<1>12. ASSUME NEW v \in Tabs, TabReceive(v)
       PROVE  Found(t, n)
  BY <1>12, <1>a, <1>b DEF TabReceive, table, server
<1>13. ASSUME NEW i \in Instances, NEW u \in Users, NEW d \in Conns, StreamContinue(i, u, d)
       PROVE  Found(t, n)
  <2>1. stage'[c] = stage[c] \/ stage'[c] = "querying"
    BY <1>0, <1>13 DEF StreamContinue, FirstStage, TypeOK
  <2>2. LeftOver(n)' /\ UNCHANGED <<rows, link, req>>
    BY <1>13, <1>a DEF StreamContinue, table, browser
  <2>3. QED
    BY <2>1, <2>2, StillAwaits DEF c
<1>14. ASSUME NEW i \in Instances, NEW u \in Users, NEW d \in Conns, StreamClose(i, u, d)
       PROVE  Found(t, n)
  <2>1. d # c
    BY <1>14 DEF StreamClose, Linked, c
  <2>2. stage'[c] = stage[c] /\ req'[c] = req[c]
    BY <1>0, <1>14, <2>1 DEF StreamClose, TypeOK
  <2>3. LeftOver(n)' /\ UNCHANGED <<rows, link>>
    BY <1>14, <1>a DEF StreamClose, table, browser
  <2>4. QED
    BY <2>2, <2>3, StillAwaits DEF c
<1>15. ASSUME NEW d \in Conns, CloseUnheard(d)
       PROVE  Found(t, n)
  BY <1>15, <1>a, <1>b DEF CloseUnheard, table, server, browser
<1>16. ASSUME NEW d \in Conns, FindMissed(d)
       PROVE  Found(t, n)
  <2>1. CASE d = c
    <3>1. n \in missed'[c]
      BY <1>0, <1>16, <2>1 DEF FindMissed, LeftOver, TypeOK
    <3>2. QED
      BY <1>0, <3>1 DEF Found
  <2>2. CASE d # c
    <3>1. stage'[c] = stage[c] /\ req'[c] = req[c]
      BY <1>0, <1>16, <2>2 DEF FindMissed, TypeOK
    <3>2. LeftOver(n)' /\ UNCHANGED <<rows, link>>
      BY <1>16, <1>a DEF FindMissed, table, browser
    <3>3. QED
      BY <3>1, <3>2, StillAwaits DEF c
  <2>3. QED
    BY <2>1, <2>2
<1>17. ASSUME NEW d \in Conns, MarkMissed(d)
       PROVE  Found(t, n)
  <2>1. CASE n \in missed[d]
    BY <1>17, <2>1 DEF MarkMissed, Found
  <2>2. CASE n \notin missed[d]
    <3>1. n \in DOMAIN rows' /\ rows'[n] = rows[n]
      BY <1>0, <1>17, <2>2 DEF MarkMissed, SetStatus, LeftOver
    <3>2. LeftOver(n)'
      BY <1>0, <1>17, <3>1 DEF LeftOver, MarkMissed
    <3>3. stage'[c] = stage[c]
      BY <1>0, <1>17 DEF MarkMissed, TypeOK
    <3>4. QED
      BY <1>17, <3>1, <3>2, <3>3, StillAwaits DEF MarkMissed, browser, c
  <2>3. QED
    BY <2>1, <2>2
<1>18. ASSUME NEW d \in Conns, Replay(d)
       PROVE  Found(t, n)
  <2>1. stage[d] \in {"found", "marked"}
    BY <1>18 DEF Replay, Executed
  <2>2. stage'[c] = stage[c] /\ req'[c] = req[c]
    BY <1>0, <1>18, <2>1 DEF Replay, Settle, TypeOK
  <2>3. LeftOver(n)' /\ UNCHANGED <<rows, link>>
    BY <1>18, <1>a DEF Replay, table, browser
  <2>4. QED
    BY <2>2, <2>3, StillAwaits DEF c
<1>19. ASSUME NEW d \in Conns, ReplayFails(d)
       PROVE  Found(t, n)
  <2>1. UNCHANGED table /\ UNCHANGED inbox
    BY <1>19 DEF ReplayFails
  <2>2. d # c => stage'[c] = stage[c] /\ req'[c] = req[c]
    BY <1>0, <1>19 DEF ReplayFails, Settle, TypeOK
  <2>3. CASE \E v \in Tabs : link[v] = d /\ Unlink(v, FALSE)
    <3>1. PICK v \in Tabs : link[v] = d /\ Unlink(v, FALSE)
      BY <2>3
    <3>2. v # t => d # c
      BY <1>0, <3>1 DEF Linkage, LinkOne, c
    <3>3. QED
      BY <2>1, <2>2, <3>1, <3>2, AwaitsUnlinked DEF c
  <2>4. CASE ~Linked(d) /\ UNCHANGED <<browser, owed>>
    <3>1. d # c
      BY <2>4 DEF Linked, c
    <3>2. LeftOver(n)' /\ UNCHANGED <<rows, link>>
      BY <2>1, <2>4, <1>a DEF table, browser
    <3>3. QED
      BY <2>2, <3>1, <3>2, StillAwaits DEF c
  <2>5. QED
    BY <1>19, <2>3, <2>4 DEF ReplayFails
<1>20. ASSUME NEW i \in Instances, Restart(i)
       PROVE  Found(t, n)
  <2>1. /\ \A j \in Instances : updates'[j] \subseteq updates[j]
        /\ \A j \in Instances : inbox'[j] = inbox[j] \/ inbox'[j] = <<>>
        /\ UNCHANGED <<rows, unpub>>
    BY <1>20 DEF Restart, TypeOK
  <2>2. LeftOver(n)'
    BY <1>0, <2>1 DEF LeftOver
  <2>3. CASE req[c].at = i
    BY <1>0, <1>20, <2>3 DEF Restart, Found, c
  <2>4. CASE req[c].at # i
    <3>1. stage'[c] = stage[c] /\ req'[c] = req[c] /\ link'[t] = c
      BY <1>0, <1>20, <2>4 DEF Restart, c
    <3>2. QED
      BY <2>1, <2>2, <3>1, StillAwaits DEF c
  <2>5. QED
    BY <2>3, <2>4
<1>21. CASE UNCHANGED vars
  BY <1>21, <1>a, <1>b DEF vars, table, server, browser
<1>22. QED
  BY <1>1, <1>2, <1>3, <1>4, <1>5, <1>6, <1>7, <1>8, <1>9, <1>10, <1>11, <1>12, <1>13, <1>14,
     <1>15, <1>16, <1>17, <1>18, <1>19, <1>20, <1>21 DEF Next

(* A row whose publish failed stays to be found by the replay of any tab   *)
(* of its user that reconnects, for any number of tabs and instances.      *)
THEOREM FailuresAreFound == SafetySpec => FailedIsFound
<1>1. TypeOK /\ Held /\ Linkage /\ [Next]_vars =>
        [\A t \in Tabs, n \in Ids : Awaits(t, n) => Found(t, n)]_vars
  BY AwaitsKept
<1>2. [\A t \in Tabs, n \in Ids : Awaits(t, n) => Found(t, n)]_vars =>
        [\A t \in Tabs, n \in Ids : Awaits(t, n) =>
           \/ Awaits(t, n)'
           \/ \E c \in Conns : n \in missed'[c]
           \/ link'[t] = NoConn
           \/ rows'[n].status = "read"]_vars
  BY DEF Found
<1>3. QED
  BY <1>1, <1>2, TypeCorrect, HeldInvariant, LinkageInvariant, PTL
     DEF SafetySpec, FailedIsFound

-----------------------------------------------------------------------------
(* The server of each tab: every step is one of PageServer's for the tab,  *)
(* or none of its concern.                                                 *)
PageStep(t) == [PS(t)!ServerNext]_(PS(t)!serverVars)

(* The tab stays on its connection, and nothing moves there.               *)
PageStill(t) ==
  /\ link'[t] = link[t]
  /\ link[t] # NoConn => /\ wire'[link[t]] = wire[link[t]]
                         /\ stage'[link[t]] = "none" <=> stage[link[t]] = "none"

LEMMA StillPage ==
  ASSUME NEW t \in Tabs, PageStill(t)
  PROVE  UNCHANGED <<Connected(t), WireOf(t)>>
BY DEF PageStill, Connected, WireOf

LEMMA PageUnmoved ==
  ASSUME NEW t \in Tabs, PageStill(t), UNCHANGED rows
  PROVE  PageStep(t)
<1>1. UNCHANGED PS(t)!serverVars
  BY StillPage DEF PS!serverVars
<1>2. QED
  BY <1>1 DEF PageStep

(* A tab that has no connection after a step has lost one or none.         *)
LEMMA PageClosed ==
  ASSUME TypeOK, WireLive, NEW t \in Tabs, link'[t] = NoConn, UNCHANGED rows
  PROVE  PageStep(t)
<1>1. ~Connected(t)' /\ WireOf(t)' = {}
  BY DEF Connected, WireOf
<1>2. CASE Connected(t)
  <2>1. PS(t)!Close
    BY <1>1, <1>2 DEF PS!Close
  <2>2. QED
    BY <2>1 DEF PageStep, PS!ServerNext
<1>3. CASE ~Connected(t)
  <2>1. link[t] # NoConn => DOMAIN wire[link[t]] = {}
    BY <1>3, EmptySeq DEF TypeOK, WireLive, Connected
  <2>2. WireOf(t) = {}
    BY <2>1 DEF WireOf
  <2>3. UNCHANGED PS(t)!serverVars
    BY <1>1, <1>3, <2>2 DEF PS!serverVars, Connected
  <2>4. QED
    BY <2>3 DEF PageStep
<1>4. QED
  BY <1>2, <1>3

(* The table is written, and on the tab's connection nothing moves.        *)
LEMMA PageStatus ==
  ASSUME NEW t \in Tabs, PageStill(t), NEW S, S \subseteq Ids,
         NEW status \in {"delivered", "read"}, SetStatus(S, status)
  PROVE  PageStep(t)
<1>1. PS(t)!SetStatus(S, status)
  BY StillPage DEF PS!SetStatus, SetStatus
<1>2. S \in SUBSET PS(t)!Ids
  BY DEF PS!Ids, Ids
<1>3. QED
  BY <1>1, <1>2 DEF PageStep, PS!ServerNext

LEMMA PageInserted ==
  ASSUME NEW t \in Tabs, NEW b \in Bodies, Create(b[1], b[2])
  PROVE  PageStep(t)
<1> DEFINE p == <<b[1], IF b[2] THEN Broadcast ELSE b[1]>>
<1>1. PageStill(t)
  BY DEF Create, PageStill, server, browser
<1>2. p \in PageBodies
  BY DEF PageBodies
<1>3. PS(t)!Insert(p[1], p[2])
  BY <1>1, StillPage DEF Create, PS!Insert
<1>4. QED
  BY <1>2, <1>3 DEF PageStep, PS!ServerNext

(* Events of S are added to what is on the tab's connection.               *)
LEMMA PageSent ==
  ASSUME NEW t \in Tabs, NEW S, S \subseteq Ids, Connected(t), Connected(t)', UNCHANGED rows,
         WireOf(t)' = WireOf(t) \cup S, \A n \in S : IsFor(n, UserOf[t])
  PROVE  PageStep(t)
<1>1. PS(t)!Send(S)
  BY DEF PS!Send, IsFor
<1>2. S \in SUBSET PS(t)!Ids
  BY DEF PS!Ids, Ids
<1>3. QED
  BY <1>1, <1>2 DEF PageStep, PS!ServerNext

LEMMA PageHandled ==
  ASSUME TypeOK, Held, Owned, NEW t \in Tabs, NEW i \in Instances, HandleRedisMessage(i)
  PROVE  PageStep(t)
<1> DEFINE h == Head(inbox[i])
<1>1. /\ UNCHANGED <<req, stage, link, rows>>
      /\ inbox[i] # <<>>
      /\ Emit(Recipients(i, rows[h].channel), h) \/ wire' = wire
  BY DEF HandleRedisMessage, server, browser
<1>2. h \in Ids /\ h = inbox[i][1] /\ 1 \in DOMAIN inbox[i]
  BY <1>1, QueuePopped, LenProperties DEF TypeOK
<1>3. CASE link[t] = NoConn \/ wire'[link[t]] = wire[link[t]]
  BY <1>1, <1>3, PageUnmoved DEF PageStill
<1>4. CASE link[t] # NoConn /\ wire'[link[t]] # wire[link[t]]
  <2>1. PICK c \in Conns : c = link[t]
    BY <1>4 DEF TypeOK
  <2>2. /\ c \in Recipients(i, rows[h].channel) /\ Receiving(c)
        /\ wire'[c] = Append(wire[c], [id |-> h, how |-> "live"])
    BY <1>1, <1>2, <1>4, <2>1, EmitTyped DEF TypeOK
  <2>3. req[c].user = UserOf[t]
    BY <1>4, <2>1 DEF Held, LinkOwn
  <2>4. IsFor(h, UserOf[t])
    <3>1. h \in DOMAIN rows
      BY <1>2 DEF Owned, Known
    <3>2. rows[h] \in Row
      BY <3>1, LenProperties, ElementOfSeq DEF TypeOK
    <3>3. rows[h].channel # Broadcast => req[c].user = rows[h].channel
      BY <2>2, <3>2 DEF Recipients, Held, Placed, Row
    <3>4. QED
      BY <2>3, <3>1, <3>3 DEF IsFor
  <2>5. /\ wire[c] \in Seq(Event) /\ DOMAIN wire[c] = 1..Len(wire[c]) /\ Len(wire[c]) \in Nat
        /\ DOMAIN wire'[c] = 1..(Len(wire[c]) + 1)
        /\ \A k \in 1..Len(wire[c]) : wire'[c][k] = wire[c][k]
        /\ wire'[c][Len(wire[c]) + 1].id = h
    <3>1. wire[c] \in Seq(Event) /\ [id |-> h, how |-> "live"] \in Event
      BY <1>2 DEF TypeOK, Event
    <3>2. QED
      BY <2>2, <3>1, AppendProperties, LenProperties
  <2>6. {wire'[c][k].id : k \in DOMAIN wire'[c]} = {wire[c][k].id : k \in DOMAIN wire[c]} \cup {h}
    BY <2>5
  <2>7. WireOf(t)' = WireOf(t) \cup {h}
    BY <1>1, <1>4, <2>1, <2>6 DEF WireOf
  <2>8. Connected(t) /\ Connected(t)'
    BY <1>1, <1>4, <2>1, <2>2 DEF Connected, Receiving
  <2>9. {h} \subseteq Ids /\ \A n \in {h} : IsFor(n, UserOf[t])
    BY <1>2, <2>4
  <2>10. UNCHANGED rows
    BY <1>1
  <2> DEFINE S == {h}
  <2>11. S \subseteq Ids /\ \A n \in S : IsFor(n, UserOf[t])
    BY <2>9
  <2>12. WireOf(t)' = WireOf(t) \cup S
    BY <2>7
  <2> HIDE DEF S
  <2>13. QED
    BY <2>8, <2>10, <2>11, <2>12, PageSent
<1>5. QED
  BY <1>3, <1>4

LEMMA PageReplayed ==
  ASSUME TypeOK, Held, Owned, WireLive, NEW t \in Tabs, NEW c \in Conns, Replay(c)
  PROVE  PageStep(t)
<1>1. /\ stage[c] \in {"found", "marked"} /\ Settle(c)
      /\ UNCHANGED <<rows, link>>
      /\ \A d \in Conns : d # c => wire'[d] = wire[d] /\ stage'[d] = stage[d]
      /\ Linked(c) => \E s \in Replayed(missed[c]) : wire'[c] = wire[c] \o Replays(s)
  BY DEF Replay, Executed, Settle, Replays, table, browser, TypeOK
<1>2. CASE link[t] # c
  BY <1>1, <1>2, PageUnmoved DEF PageStill, TypeOK
<1>3. CASE link[t] = c
  <2>1. Linked(c) /\ wire[c] = <<>> /\ missed[c] \subseteq Ids
    BY <1>1, <1>3 DEF Linked, WireLive, TypeOK
  <2>2. pc[c] = "open"
    BY <1>1, <2>1 DEF Held, Staged, NowhereHeld
  <2>3. stage'[c] = "live"
    BY <1>1, <2>2 DEF Settle, TypeOK
  <2>4. PICK s \in Replayed(missed[c]) : wire'[c] = wire[c] \o Replays(s)
    BY <1>1, <2>1
  <2>5. /\ Replays(s) \in Seq(Event) /\ Len(Replays(s)) = Len(s)
        /\ \A k \in 1..Len(s) : Replays(s)[k] = [id |-> s[k], how |-> "replay"] /\ s[k] \in missed[c]
    BY <2>1, ReplayTyped
  <2>6. wire'[c] = Replays(s) /\ DOMAIN wire'[c] = 1..Len(s)
    BY <2>1, <2>4, <2>5, ConcatEmptySeq, LenProperties
  <2> DEFINE S == {s[k] : k \in 1..Len(s)}
  <2>7. S \subseteq missed[c] /\ {wire'[c][k].id : k \in DOMAIN wire'[c]} = S
    BY <2>5, <2>6
  <2>8. DOMAIN wire[c] = {}
    BY <2>1, EmptySeq
  <2>9. WireOf(t)' = WireOf(t) \cup S
    BY <1>1, <1>3, <2>7, <2>8, NoConnIsNone DEF WireOf
  <2>10. \A n \in S : IsFor(n, UserOf[t])
    <3>1. req[c].user = UserOf[t]
      BY <1>3, NoConnIsNone DEF Held, LinkOwn
    <3>2. QED
      BY <2>7, <3>1 DEF Owned, MissedOwn, RowsOwn, IsFor
  <2>11. Connected(t) /\ Connected(t)'
    BY <1>1, <1>3, <2>3, NoConnIsNone DEF Connected
  <2>12. S \subseteq Ids
    BY <2>1, <2>7
  <2> HIDE DEF S
  <2>13. QED
    BY <1>1, <2>9, <2>10, <2>11, <2>12, PageSent
<1>4. QED
  BY <1>2, <1>3

LEMMA PageHeard ==
  ASSUME TypeOK, Linkage, NEW t \in Tabs, NEW v \in Tabs, TabReceive(v)
  PROVE  PageStep(t)
<1> DEFINE c == link[v]
           h == Head(wire[c]).id
<1>1. /\ c \in Conns /\ wire[c] # <<>> /\ wire' = [wire EXCEPT ![c] = Tail(@)]
      /\ UNCHANGED <<rows, stage, link>>
  BY DEF TabReceive, server, table, TypeOK
<1>2. CASE t # v
  <2>1. link[t] # c
    BY <1>1, <1>2, NoConnIsNone DEF Linkage, LinkOne
  <2>2. QED
    BY <1>1, <2>1, PageUnmoved DEF PageStill, TypeOK
<1>3. CASE t = v
  <2>1. /\ wire[c] \in Seq(Event) /\ Len(wire[c]) \in Nat \ {0} /\ DOMAIN wire[c] = 1..Len(wire[c])
        /\ wire'[c] = Tail(wire[c]) /\ Head(wire[c]) = wire[c][1] /\ wire[c][1] \in Event
    BY <1>1, LenProperties, EmptySeq, ElementOfSeq, HeadTailProperties DEF TypeOK
  <2>2. /\ DOMAIN wire'[c] = 1..(Len(wire[c]) - 1)
        /\ \A k \in 1..(Len(wire[c]) - 1) : wire'[c][k] = wire[c][k + 1]
    <3>1. /\ Tail(wire[c]) \in Seq(Event) /\ Len(Tail(wire[c])) = Len(wire[c]) - 1
          /\ \A k \in 1..Len(Tail(wire[c])) : Tail(wire[c])[k] = wire[c][k + 1]
      BY <1>1, <2>1, HeadTailProperties
    <3>2. QED
      BY <2>1, <3>1, LenProperties
  <2> DEFINE before == {wire[c][k].id : k \in DOMAIN wire[c]}
             after  == {wire'[c][k].id : k \in DOMAIN wire'[c]}
  <2>3. h \in before /\ h \in Ids
    BY <2>1 DEF Event
  <2>4. after \subseteq before /\ before \subseteq after \cup {h}
    <3>1. ASSUME NEW k \in DOMAIN wire'[c] PROVE wire'[c][k].id \in before
      <4>1. k + 1 \in DOMAIN wire[c] /\ wire'[c][k] = wire[c][k + 1]
        BY <2>1, <2>2
      <4>2. QED
        BY <4>1
    <3>2. ASSUME NEW k \in DOMAIN wire[c] PROVE wire[c][k].id \in after \cup {h}
      <4>1. CASE k = 1
        BY <2>1, <4>1
      <4>2. CASE k # 1
        <5>1. k - 1 \in DOMAIN wire'[c] /\ wire'[c][k - 1] = wire[c][k]
          BY <2>1, <2>2, <4>2
        <5>2. QED
          BY <5>1
      <4>3. QED
        BY <4>1, <4>2
    <3>3. QED
      BY <3>1, <3>2
  <2>5. after \in {before, before \ {h}}
    BY <2>4
  <2>6. WireOf(t) = before /\ WireOf(t)' = after
    BY <1>1, <1>3, NoConnIsNone DEF WireOf
  <2>7. UNCHANGED Connected(t)
    BY <1>1, <1>3 DEF Connected
  <2> HIDE DEF before, after, h
  <2>8. PS(t)!Hear(h) /\ h \in PS(t)!Ids
    BY <1>1, <2>3, <2>5, <2>6, <2>7 DEF PS!Hear, PS!Ids, Ids
  <2>9. QED
    BY <2>8 DEF PageStep, PS!ServerNext
<1>4. QED
  BY <1>2, <1>3

(* A connection is opened by the turn that subscribes to its observable,   *)
(* with nothing on its wire.                                               *)
LEMMA PageOpened ==
  ASSUME NEW t \in Tabs, ~Connected(t), Connected(t)', WireOf(t)' = WireOf(t), UNCHANGED rows
  PROVE  PageStep(t)
<1>1. PS(t)!Open
  BY UserOfTabs DEF PS!Open
<1>2. QED
  BY <1>1 DEF PageStep, PS!ServerNext

LEMMA PageConnected ==
  ASSUME TypeOK, Held, WireLive, NEW t \in Tabs,
         NEW v \in Tabs, NEW i \in Instances, NEW c \in Conns, Connect(v, i, c)
  PROVE  PageStep(t)
<1>1. /\ link[v] = NoConn /\ link' = [link EXCEPT ![v] = c] /\ UNCHANGED <<rows, wire>>
      /\ \A d \in Conns : d # c => stage'[d] = stage[d]
  BY DEF Connect, table, TypeOK
<1>2. stage[c] = "none" /\ ~Linked(c)
  BY HeldNew DEF Connect, NowhereHeld
<1>3. CASE t # v
  <2>1. link'[t] = link[t] /\ link[t] # c
    BY <1>1, <1>2, <1>3 DEF TypeOK, Linked
  <2>2. QED
    BY <1>1, <2>1, PageUnmoved DEF PageStill, TypeOK
<1>4. CASE t = v
  <2>1. DOMAIN wire'[c] = {}
    BY <1>1, <1>2, EmptySeq DEF WireLive
  <2>2. link[t] = NoConn /\ link'[t] = c
    BY <1>1, <1>4 DEF TypeOK
  <2>3. ~Connected(t) /\ WireOf(t) = {} /\ WireOf(t)' = {}
    BY <2>1, <2>2 DEF Connected, WireOf
  <2>4. CASE Connected(t)'
    BY <1>1, <2>3, <2>4, PageOpened
  <2>5. CASE ~Connected(t)'
    <3>1. UNCHANGED PS(t)!serverVars
      BY <1>1, <2>3, <2>5 DEF PS!serverVars, Connected
    <3>2. QED
      BY <3>1 DEF PageStep
  <2>6. QED
    BY <2>4, <2>5
<1>5. QED
  BY <1>3, <1>4

LEMMA PageContinued ==
  ASSUME TypeOK, Held, NEW t \in Tabs,
         NEW i \in Instances, NEW u \in Users, NEW c \in Conns, StreamContinue(i, u, c)
  PROVE  PageStep(t)
<1>1. /\ stage' = [stage EXCEPT ![c] = FirstStage(req[c].after)]
      /\ UNCHANGED <<rows, wire, link>>
  BY DEF StreamContinue, table, browser
<1>2. stage[c] = "none" /\ stage'[c] # "none"
  BY <1>1 DEF StreamContinue, UC!StreamContinue, Held, Staged, FirstStage, TypeOK
<1>3. CASE link[t] # c
  BY <1>1, <1>3, PageUnmoved DEF PageStill, TypeOK
<1>4. CASE link[t] = c
  <2>1. ~Connected(t) /\ Connected(t)'
    BY <1>1, <1>2, <1>4, NoConnIsNone DEF Connected
  <2>2. WireOf(t)' = WireOf(t)
    BY <1>1 DEF WireOf
  <2>3. QED
    BY <1>1, <2>1, <2>2, PageOpened
<1>5. QED
  BY <1>3, <1>4

(* Tab v loses its connection, which no other tab has.                     *)
LEMMA PageUnlinked ==
  ASSUME TypeOK, Linkage, WireLive, NEW t \in Tabs,
         NEW v \in Tabs, NEW leaves \in BOOLEAN, Unlink(v, leaves), UNCHANGED rows,
         \A c \in Conns : c # link[v] => wire'[c] = wire[c] /\ stage'[c] = stage[c]
  PROVE  PageStep(t)
<1>1. link' = [link EXCEPT ![v] = NoConn]
  BY DEF Unlink
<1>2. CASE t = v
  BY <1>1, <1>2, PageClosed DEF TypeOK
<1>3. CASE t # v
  <2>1. link'[t] = link[t] /\ (link[t] # NoConn => link[t] # link[v])
    BY <1>1, <1>3 DEF TypeOK, Linkage, LinkOne
  <2>2. QED
    BY <2>1, PageUnmoved DEF PageStill, TypeOK
<1>4. QED
  BY <1>2, <1>3

LEMMA StepServes ==
  ASSUME TypeOK, Held, Linkage, WireLive, Owned, [Next]_vars, NEW t \in Tabs
  PROVE  PageStep(t)
<1>1. ASSUME UNCHANGED <<rows, link, wire>>,
             \A c \in Conns : stage'[c] = "none" <=> stage[c] = "none"
      PROVE  PageStep(t)
  BY <1>1, PageUnmoved DEF PageStill, TypeOK
<1>2. ASSUME NEW b \in Bodies, Create(b[1], b[2])
      PROVE  PageStep(t)
  BY <1>2, PageInserted
<1>3. ASSUME NEW n \in Ids, PublishFails(n)
      PROVE  PageStep(t)
  BY <1>1, <1>3 DEF PublishFails, server, browser
<1>4. ASSUME NEW n \in Ids, MarkAsRead(n)
      PROVE  PageStep(t)
  <2>1. PageStill(t) /\ {n} \subseteq Ids /\ SetStatus({n}, "read")
    BY <1>4 DEF MarkAsRead, PageStill, server, browser
  <2>2. QED
    BY <2>1, PageStatus
<1>5. ASSUME NEW i \in Instances, NEW n \in Ids, Publish(i, n)
      PROVE  PageStep(t)
  BY <1>1, <1>5 DEF Publish, server, browser
<1>6. ASSUME NEW i \in Instances, NEW n \in Ids, UpdateStatus(i, n)
      PROVE  PageStep(t)
  <2>1. PageStill(t) /\ {n} \subseteq Ids /\ SetStatus({n}, "delivered")
    BY <1>6 DEF UpdateStatus, PageStill, server, browser
  <2>2. QED
    BY <2>1, PageStatus
<1>7. ASSUME NEW i \in Instances, HandleRedisMessage(i)
      PROVE  PageStep(t)
  BY <1>7, PageHandled
<1>8. ASSUME NEW i \in Instances, RedisExecutes(i) \/ SubscriberReopens(i)
      PROVE  PageStep(t)
  BY <1>1, <1>8 DEF RedisExecutes, SubscriberReopens, table, server, browser
<1>9. ASSUME NEW i \in Instances, SubscribeRejects(i)
      PROVE  PageStep(t)
  <2>1. UNCHANGED <<rows, wire, stage>>
    BY <1>9 DEF SubscribeRejects, table, server
  <2>2. (\E v \in Tabs : Unlink(v, TRUE)) \/ UNCHANGED link
    BY <1>9 DEF SubscribeRejects, browser
  <2>3. QED
    BY <1>1, <2>1, <2>2, PageUnlinked
<1>10. ASSUME NEW i \in Instances, Restart(i)
       PROVE  PageStep(t)
  <2> DEFINE Dead(c) == req[c] # NoRequest /\ req[c].at = i
  <2>1. /\ UNCHANGED rows
        /\ link'[t] = IF link[t] \in Conns /\ Dead(link[t]) THEN NoConn ELSE link[t]
        /\ \A c \in Conns : ~Dead(c) => wire'[c] = wire[c] /\ stage'[c] = stage[c]
    BY <1>10 DEF Restart, TypeOK
  <2>2. CASE link[t] \in Conns /\ Dead(link[t])
    BY <2>1, <2>2, PageClosed
  <2>3. CASE ~(link[t] \in Conns /\ Dead(link[t]))
    BY <2>1, <2>3, PageUnmoved DEF PageStill, TypeOK
  <2>4. QED
    BY <2>2, <2>3
<1>11. ASSUME NEW v \in Tabs, NEW i \in Instances, NEW c \in Conns, Connect(v, i, c)
       PROVE  PageStep(t)
  BY <1>11, PageConnected
<1>12. ASSUME NEW v \in Tabs, NEW leaves \in BOOLEAN, Disconnect(v, leaves)
       PROVE  PageStep(t)
  <2>1. /\ Unlink(v, leaves) /\ UNCHANGED <<rows, stage>>
        /\ \A c \in Conns : c # link[v] => wire'[c] = wire[c]
    BY <1>12 DEF Disconnect, table, server, TypeOK
  <2>2. QED
    BY <2>1, PageUnlinked
<1>13. ASSUME NEW v \in Tabs, TabReceive(v)
       PROVE  PageStep(t)
  BY <1>13, PageHeard
<1>14. ASSUME NEW i \in Instances, NEW u \in Users, NEW c \in Conns, StreamContinue(i, u, c)
       PROVE  PageStep(t)
  BY <1>14, PageContinued
<1>15. ASSUME NEW i \in Instances, NEW u \in Users, NEW c \in Conns, StreamClose(i, u, c)
       PROVE  PageStep(t)
  <2>1. /\ ~Linked(c) /\ UNCHANGED <<rows, wire, link>>
        /\ \A d \in Conns : d # c => stage'[d] = stage[d]
    BY <1>15 DEF StreamClose, table, browser, TypeOK
  <2>2. QED
    BY <2>1, PageUnmoved DEF PageStill, Linked, TypeOK
<1>16. ASSUME NEW c \in Conns, CloseUnheard(c)
       PROVE  PageStep(t)
  BY <1>1, <1>16 DEF CloseUnheard, table, server, browser
<1>17. ASSUME NEW c \in Conns, FindMissed(c)
       PROVE  PageStep(t)
  BY <1>1, <1>17 DEF FindMissed, table, browser, TypeOK
<1>18. ASSUME NEW c \in Conns, MarkMissed(c)
       PROVE  PageStep(t)
  <2>1. /\ stage[c] = "found" /\ stage' = [stage EXCEPT ![c] = "marked"]
        /\ UNCHANGED <<wire, link>>
        /\ missed[c] \subseteq Ids /\ SetStatus(missed[c], "delivered")
    BY <1>18 DEF MarkMissed, browser, TypeOK
  <2>2. PageStill(t)
    BY <2>1 DEF PageStill, TypeOK
  <2>3. QED
    BY <2>1, <2>2, PageStatus
<1>19. ASSUME NEW c \in Conns, Replay(c)
       PROVE  PageStep(t)
  BY <1>19, PageReplayed
<1>20. ASSUME NEW c \in Conns, ReplayFails(c)
       PROVE  PageStep(t)
  <2>1. /\ UNCHANGED rows
        /\ \A d \in Conns : d # c => wire'[d] = wire[d] /\ stage'[d] = stage[d]
    BY <1>20 DEF ReplayFails, Settle, table, TypeOK
  <2>2. CASE \E v \in Tabs : link[v] = c /\ Unlink(v, FALSE)
    BY <2>1, <2>2, PageUnlinked
  <2>3. CASE ~Linked(c) /\ UNCHANGED <<browser, owed>>
    BY <2>1, <2>3, PageUnmoved DEF PageStill, Linked, browser, TypeOK
  <2>4. QED
    BY <1>20, <2>2, <2>3 DEF ReplayFails
<1>21. CASE UNCHANGED vars
  BY <1>1, <1>21 DEF vars, table, server, browser
<1>22. QED
  BY <1>2, <1>3, <1>4, <1>5, <1>6, <1>7, <1>8, <1>9, <1>10, <1>11, <1>12, <1>13, <1>14,
     <1>15, <1>16, <1>17, <1>18, <1>19, <1>20, <1>21 DEF Next

(* The server that Dashboard is built on is what every tab has, any number *)
(* of instances, connections, replays, restarts and other tabs behind it.  *)
THEOREM PagesAreServed == SafetySpec => ServesPages
<1>1. ASSUME Init, NEW t \in Tabs PROVE PS(t)!ServerInit
  BY <1>1 DEF Init, PS!ServerInit, Connected, WireOf
<1>2. /\ TypeOK /\ Held /\ Linkage /\ WireLive /\ Owned
      /\ [Next]_vars
      => [\A t \in Tabs : UNCHANGED PS(t)!serverVars \/ PS(t)!ServerNext]_vars
  BY StepServes DEF PageStep
<1>3. Init => \A t \in Tabs : PS(t)!ServerInit
  BY <1>1
<1>4. QED
  BY <1>2, <1>3, TypeCorrect, HeldInvariant, LinkageInvariant, WireLiveInvariant,
     OwnedInvariant, PTL DEF SafetySpec, ServesPages
=============================================================================
