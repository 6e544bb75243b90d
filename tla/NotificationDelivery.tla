------------------------ MODULE NotificationDelivery ------------------------
(***************************************************************************)
(* From POST /notifications to the browser: a row is inserted, published   *)
(* on a Redis channel, handled by every instance subscribed to it, emitted *)
(* to the SSE connections of the user, and replayed from the database to a *)
(* connection that presents a Last-Event-ID.  Registration of connections  *)
(* and channels is UserChannel, whose actions these ones extend.           *)
(***************************************************************************)
EXTENDS Naturals, Sequences, FiniteSets

CONSTANTS
  Instances, Users, Conns,  \* as in UserChannel
  Tabs,       \* EventSource clients
  UserOf,     \* the user each tab belongs to
  Bodies,     \* bodies of POST /notifications: <<userId or Broadcast, broadcast>>
  MaxId,      \* bound on the notifications created
  Broadcast,  \* BROADCAST_USER_ID and the broadcast channel
  NoConn, NoRequest

ASSUME FiniteConns == IsFiniteSet(Conns)
ASSUME UserOfTabs == UserOf \in [Tabs -> Users]
ASSUME MaxIdIsNat == MaxId \in Nat
ASSUME NoConnIsNone == NoConn \notin Conns

(* CreateNotificationDto, and the validation of CreateNotificationUseCase: *)
(* a body without a userId is refused unless it is a broadcast.            *)
Body == {b \in (Users \cup {Broadcast}) \X BOOLEAN : b[1] = Broadcast => b[2]}
ASSUME ValidBodies == Bodies \subseteq Body

VARIABLES
  streams, refs, pc, gone, cmds, subs, overlap,  \* UserChannel
  rows,      \* the notifications table, a row's id being its position
  unpub,     \* rows inserted and not yet published
  inbox,     \* inbox[i]: messages Redis has sent to i and i has not handled
  updates,   \* updates[i]: DELIVERED writes i has started and not awaited
  req,       \* req[c]: instance, user and Last-Event-ID of a stream request
  stage,     \* stage[c]: what the observable of a connection is doing
  missed,    \* missed[c]: rows found by findMissed for the connection
  wire,      \* wire[c]: events written to the socket, not yet received
  link,      \* link[t]: the connection a tab is on
  lastId,    \* lastId[t]: the Last-Event-ID the tab would send, 0 for none
  seen,      \* seen[t]: ids the tab has received since it was opened
  owed       \* history: <<tab, id>> the server took on to deliver

channel == <<streams, refs, pc, gone, cmds, subs, overlap>>
table   == <<rows, unpub, updates>>
server  == <<req, stage, missed>>
browser == <<link, lastId, seen>>
vars == <<channel, table, inbox, server, wire, browser, owed>>

UC == INSTANCE UserChannel

Ids == 1..MaxId

(***************************************************************************)
(* "none"      no observable yet, or none any more                         *)
(* "querying"  findAndMarkMissedUseCase.execute has called findMissed      *)
(* "found"     the database has read the rows                              *)
(* "marked"    the database has run updateManyStatus on them               *)
(* "live"      reconnect$ is complete and the subject is subscribed to     *)
(***************************************************************************)
Stage == {"none", "querying", "found", "marked", "live"}

Row     == [to: Users \cup {Broadcast}, channel: Users \cup {Broadcast},
            status: {"pending", "delivered", "read"}]
Request == [at: Instances, user: Users, after: 0..MaxId]
Event   == [id: Ids, how: {"replay", "live"}]
ASSUME NoRequestIsNone == NoRequest \notin Request

TypeOK ==
  /\ UC!TypeOK
  /\ rows \in Seq(Row) /\ Len(rows) <= MaxId
  /\ unpub \subseteq Ids
  /\ inbox \in [Instances -> Seq(Ids)]
  /\ updates \in [Instances -> SUBSET Ids]
  /\ req \in [Conns -> Request \cup {NoRequest}]
  /\ stage \in [Conns -> Stage]
  /\ missed \in [Conns -> SUBSET Ids]
  /\ wire \in [Conns -> Seq(Event)]
  /\ link \in [Tabs -> Conns \cup {NoConn}]
  /\ lastId \in [Tabs -> 0..MaxId]
  /\ seen \in [Tabs -> SUBSET Ids]
  /\ owed \subseteq Tabs \X Ids

Linked(c) == \E t \in Tabs : link[t] = c

(* What reaches the browser of the events the subject is given: those of   *)
(* the live stage, as concat runs the live observable after reconnect$.    *)
(* The slip is merge in the place of concat.                               *)
MutReceivingMerged(c) == stage[c] # "none" /\ Linked(c)
Receiving(c) == stage[c] = "live" /\ Linked(c)

Init ==
  /\ UC!Init
  /\ rows = <<>>
  /\ unpub = {}
  /\ inbox = [i \in Instances |-> <<>>]
  /\ updates = [i \in Instances |-> {}]
  /\ req = [c \in Conns |-> NoRequest]
  /\ stage = [c \in Conns |-> "none"]
  /\ missed = [c \in Conns |-> {}]
  /\ wire = [c \in Conns |-> <<>>]
  /\ link = [t \in Tabs |-> NoConn]
  /\ lastId = [t \in Tabs |-> 0]
  /\ seen = [t \in Tabs |-> {}]
  /\ owed = {}

-----------------------------------------------------------------------------
(* POST /notifications: the insert.  userId and broadcast may both be      *)
(* given: the row then belongs to the user, its channel is the broadcast.  *)
Create(to, broadcast) ==
  /\ Len(rows) < MaxId
  /\ rows' = Append(rows, [to |-> to, channel |-> IF broadcast THEN Broadcast ELSE to,
                           status |-> "pending"])
  /\ unpub' = unpub \cup {Len(rows) + 1}
  /\ UNCHANGED <<channel, updates, inbox, server, wire, browser, owed>>

(* The tabs a publication must reach: connected, past their replay, and    *)
(* for a user's channel without a lost reference (UserChannel, overlap).   *)
Audience(n) ==
  {t \in Tabs : \E c \in Conns :
     /\ link[t] = c /\ stage[c] = "live"
     /\ \/ rows[n].channel = Broadcast
        \/ rows[n].channel = UserOf[t] /\ ~overlap[req[c].at][UserOf[t]]}

(* The instances Redis delivers a row's channel to: all of them subscribe  *)
(* to the broadcast channel at start-up.  The slip knows one instance.     *)
MutDeliveredLocally(i, n) == {i}
DeliveredTo(i, n) == {j \in Instances : rows[n].channel \in subs[j] \cup {Broadcast}}

(* publisher.publish on instance i.                                        *)
Publish(i, n) ==
  /\ n \in unpub
  /\ unpub' = unpub \ {n}
  /\ inbox' = [j \in Instances |->
                 IF j \in DeliveredTo(i, n) THEN Append(inbox[j], n) ELSE inbox[j]]
  /\ owed' = owed \cup (Audience(n) \X {n})
  /\ UNCHANGED <<channel, rows, updates, server, wire, browser>>

(* publish rejects and the request ends in 500, or its process dies: the   *)
(* row stays PENDING.                                                      *)
PublishFails(n) ==
  /\ n \in unpub
  /\ unpub' = unpub \ {n}
  /\ UNCHANGED <<channel, rows, updates, inbox, server, wire, browser, owed>>

(* subject.next on each subject of S; the hot subject drops what nobody is *)
(* subscribed to, and a socket without a client drops what it is given.    *)
Emit(S, n) ==
  LET R == {c \in S : Receiving(c)} IN
  wire' = [c \in Conns |-> IF c \in R THEN Append(wire[c], [id |-> n, how |-> "live"])
                                      ELSE wire[c]]

(* emitToAll or emit.  The slip is emitToAll in both branches.             *)
MutRecipientsAll(i, u) == UC!AtInstance(i)
Recipients(i, u) == IF u = Broadcast THEN UC!AtInstance(i) ELSE streams[i][u]

(* handleRedisMessage, with its unawaited updateStatus; a user without a   *)
(* connection on this instance is left to the others.                      *)
HandleRedisMessage(i) ==
  /\ inbox[i] # <<>>
  /\ inbox' = [inbox EXCEPT ![i] = Tail(@)]
  /\ LET n == Head(inbox[i])
         u == rows[n].channel IN
       \/ /\ u # Broadcast => streams[i][u] # {}
          /\ Emit(Recipients(i, u), n)
          /\ updates' = [updates EXCEPT ![i] = @ \cup {n}]
       \/ /\ u # Broadcast
          /\ streams[i][u] = {}
          /\ UNCHANGED <<wire, updates>>
  /\ UNCHANGED <<channel, rows, unpub, server, browser, owed>>

(* ioredis reopens the subscriber connection of i and subscribes again to  *)
(* what it was subscribed to: what Redis sent to i and published meanwhile *)
(* is gone.  (What is published meanwhile is as if sent before.)           *)
SubscriberReopens(i) ==
  /\ inbox[i] # <<>>
  /\ inbox' = [inbox EXCEPT ![i] = <<>>]
  /\ owed' = {o \in owed : req[link[o[1]]].at # i \/ \A k \in DOMAIN inbox[i] : inbox[i][k] # o[2]}
  /\ UNCHANGED <<channel, table, server, wire, browser>>

SetStatus(S, status) ==
  rows' = [n \in DOMAIN rows |-> IF n \in S THEN [rows[n] EXCEPT !.status = status] ELSE rows[n]]

(* The database runs UPDATE ... SET status, whatever the row's status is.  *)
UpdateStatus(i, n) ==
  /\ n \in updates[i]
  /\ updates' = [updates EXCEPT ![i] = @ \ {n}]
  /\ SetStatus({n}, "delivered")
  /\ UNCHANGED <<channel, unpub, inbox, server, wire, browser, owed>>

(* PATCH /notifications/:id/read.  What findById and save read does not    *)
(* matter: a save that finds READ already set leaves the status alone.     *)
MarkAsRead(n) ==
  /\ n \in DOMAIN rows
  /\ SetStatus({n}, "read")
  /\ UNCHANGED <<channel, unpub, updates, inbox, server, wire, browser, owed>>

-----------------------------------------------------------------------------
(* The observable starts with the query when there is a Last-Event-ID.     *)
FirstStage(after) == IF after = 0 THEN "live" ELSE "querying"

(* GET /notifications/stream from a tab without a connection.              *)
Connect(t, i, c) ==
  LET u == UserOf[t] IN
  /\ link[t] = NoConn
  /\ req[c] = NoRequest
  /\ link' = [link EXCEPT ![t] = c]
  /\ req' = [req EXCEPT ![c] = [at |-> i, user |-> u, after |-> lastId[t]]]
  /\ \/ UC!StreamFirst(i, u, c) /\ UNCHANGED stage
     \/ UC!StreamAnother(i, u, c) /\ stage' = [stage EXCEPT ![c] = FirstStage(lastId[t])]
  /\ UNCHANGED <<table, inbox, missed, wire, lastId, seen, owed>>

RedisExecutes(i) ==
  /\ UC!RedisExecutes(i)
  /\ UNCHANGED <<table, inbox, server, wire, browser, owed>>

StreamContinue(i, u, c) ==
  /\ UC!StreamContinue(i, u, c)
  /\ stage' = [stage EXCEPT ![c] = FirstStage(req[c].after)]
  /\ UNCHANGED <<table, inbox, req, missed, wire, browser, owed>>

(* What tab t loses with its connection; a page that was left starts over. *)
Unlink(t, leaves) ==
  /\ link' = [link EXCEPT ![t] = NoConn]
  /\ lastId' = [lastId EXCEPT ![t] = IF leaves THEN 0 ELSE @]
  /\ seen' = [seen EXCEPT ![t] = IF leaves THEN {} ELSE @]
  /\ owed' = {o \in owed : o[1] # t}

(* The connection of a tab breaks, or useNotificationStream closes it.     *)
Disconnect(t, leaves) ==
  /\ link[t] # NoConn
  /\ Unlink(t, leaves)
  /\ wire' = [wire EXCEPT ![link[t]] = <<>>]
  /\ UNCHANGED <<channel, table, inbox, server>>

(* subscribe rejects: the tab gets a 500, which EventSource does not retry. *)
SubscribeRejects(i) ==
  /\ UC!SubscribeRejects(i)
  /\ LET c == Head(cmds[i]).conn IN
       \/ \E t \in Tabs : link[t] = c /\ Unlink(t, TRUE)
       \/ ~Linked(c) /\ UNCHANGED <<browser, owed>>
  /\ UNCHANGED <<table, inbox, server, wire>>

(* The server notices the disconnection.  The observable is unsubscribed;  *)
(* a replay under way finishes its database work without an audience.      *)
CloseUnheard(c) ==
  /\ ~Linked(c)
  /\ UC!CloseUnheard(c)
  /\ UNCHANGED <<table, inbox, server, wire, browser, owed>>

StreamClose(i, u, c) ==
  /\ ~Linked(c)
  /\ UC!StreamClose(i, u, c)
  /\ \/ /\ stage[c] = "live"
        /\ stage' = [stage EXCEPT ![c] = "none"]
        /\ req' = [req EXCEPT ![c] = NoRequest]
     \/ stage[c] # "live" /\ UNCHANGED <<stage, req>>
  /\ UNCHANGED <<table, inbox, missed, wire, browser, owed>>

-----------------------------------------------------------------------------
(* findMissed: rows of the user, PENDING, with a greater id.               *)
FindMissed(c) ==
  /\ stage[c] = "querying"
  /\ stage' = [stage EXCEPT ![c] = "found"]
  /\ missed' = [missed EXCEPT ![c] =
       {n \in DOMAIN rows : /\ rows[n].to = req[c].user
                            /\ n > req[c].after
                            /\ rows[n].status = "pending"}]
  /\ owed' = owed \cup {t \in Tabs : link[t] = c} \X missed'[c]
  /\ UNCHANGED <<channel, table, inbox, req, wire, browser>>

MarkMissed(c) ==
  /\ stage[c] = "found"
  /\ missed[c] # {}
  /\ stage' = [stage EXCEPT ![c] = "marked"]
  /\ SetStatus(missed[c], "delivered")
  /\ UNCHANGED <<channel, unpub, updates, inbox, req, missed, wire, browser, owed>>

(* When execute resolves: at once if nothing was found.  The slip waits    *)
(* for a database write that is not made.                                  *)
MutExecutedMarked(c) == stage[c] = "marked"
Executed(c) == stage[c] = "marked" \/ (stage[c] = "found" /\ missed[c] = {})

InOrder(S) == {s \in [1..Cardinality(S) -> S] : \A k, l \in DOMAIN s : k < l => s[k] < s[l]}

(* The rows found, in the order of their ids.  The slip sends those that   *)
(* are PENDING once the rows found have been marked.                       *)
MutReplayedPending(found) == InOrder({n \in found : rows[n].status = "pending"})
Replayed(found) == InOrder(found)

(* The promise of execute is settled: the request is over if its           *)
(* connection has been closed meanwhile.                                   *)
Settle(c) ==
  /\ missed' = [missed EXCEPT ![c] = {}]
  /\ \/ /\ pc[c] = "open"
        /\ stage' = [stage EXCEPT ![c] = "live"]
        /\ UNCHANGED req
     \/ /\ pc[c] # "open"
        /\ stage' = [stage EXCEPT ![c] = "none"]
        /\ req' = [req EXCEPT ![c] = NoRequest]

(* execute resolves: mergeMap emits the rows found, reconnect$ completes   *)
(* and concat subscribes to the live subject, all in one turn.             *)
Replay(c) ==
  /\ Executed(c)
  /\ Settle(c)
  /\ \/ /\ Linked(c)
        /\ \E s \in Replayed(missed[c]) :
             wire' = [wire EXCEPT ![c] =
                        @ \o [k \in 1..Len(s) |-> [id |-> s[k], how |-> "replay"]]]
     \/ ~Linked(c) /\ UNCHANGED wire
  /\ UNCHANGED <<channel, table, inbox, browser, owed>>

(* A database call of execute rejects, executed or not: the observable     *)
(* errors, Nest ends the response, and the tab reconnects with the same    *)
(* Last-Event-ID.  Rows that were marked are not sent.                     *)
ReplayFails(c) ==
  /\ stage[c] \in {"querying", "found", "marked"}
  /\ Settle(c)
  /\ \/ \E t \in Tabs : link[t] = c /\ Unlink(t, FALSE)
     \/ ~Linked(c) /\ UNCHANGED <<browser, owed>>
  /\ wire' = [wire EXCEPT ![c] = <<>>]
  /\ UNCHANGED <<channel, table, inbox>>

(* The tab receives an event, whose id becomes its Last-Event-ID.          *)
TabReceive(t) ==
  LET c == link[t] IN
  /\ c # NoConn
  /\ wire[c] # <<>>
  /\ wire' = [wire EXCEPT ![c] = Tail(@)]
  /\ seen' = [seen EXCEPT ![t] = @ \cup {Head(wire[c]).id}]
  /\ lastId' = [lastId EXCEPT ![t] = Head(wire[c]).id]
  /\ owed' = owed \ {<<t, Head(wire[c]).id>>}
  /\ UNCHANGED <<channel, table, inbox, server, link>>

(* An instance dies and comes back: connections, messages, and started   *)
(* writes of it are lost; tabs reconnect on their own.  A status write     *)
(* that rejects does it too: the rejection is handled nowhere.             *)
Restart(i) ==
  LET dead == {c \in Conns : req[c] # NoRequest /\ req[c].at = i} IN
  /\ UC!Restart(i)
  /\ updates' = [updates EXCEPT ![i] = {}]
  /\ inbox' = [inbox EXCEPT ![i] = <<>>]
  /\ req' = [c \in Conns |-> IF c \in dead THEN NoRequest ELSE req[c]]
  /\ stage' = [c \in Conns |-> IF c \in dead THEN "none" ELSE stage[c]]
  /\ missed' = [c \in Conns |-> IF c \in dead THEN {} ELSE missed[c]]
  /\ wire' = [c \in Conns |-> IF c \in dead THEN <<>> ELSE wire[c]]
  /\ link' = [t \in Tabs |-> IF link[t] \in dead THEN NoConn ELSE link[t]]
  /\ owed' = {o \in owed : link[o[1]] \notin dead}
  /\ UNCHANGED <<rows, unpub, lastId, seen>>

Next ==
  \/ \E b \in Bodies : Create(b[1], b[2])
  \/ \E n \in Ids : PublishFails(n) \/ MarkAsRead(n)
  \/ \E i \in Instances, n \in Ids : Publish(i, n) \/ UpdateStatus(i, n)
  \/ \E i \in Instances : \/ HandleRedisMessage(i) \/ RedisExecutes(i)
                          \/ SubscribeRejects(i)
                          \/ SubscriberReopens(i) \/ Restart(i)
  \/ \E t \in Tabs, i \in Instances, c \in Conns : Connect(t, i, c)
  \/ \E t \in Tabs, leaves \in BOOLEAN : Disconnect(t, leaves)
  \/ \E t \in Tabs : TabReceive(t)
  \/ \E i \in Instances, u \in Users, c \in Conns : StreamContinue(i, u, c) \/ StreamClose(i, u, c)
  \/ \E c \in Conns : CloseUnheard(c) \/ FindMissed(c) \/ MarkMissed(c) \/ Replay(c) \/ ReplayFails(c)

ReplayStep(c) == FindMissed(c) \/ MarkMissed(c) \/ Replay(c)

(* The database, the event loop and a live socket make progress; users,    *)
(* failures and restarts owe nothing.                                      *)
Fairness ==
  /\ \A i \in Instances : WF_vars(HandleRedisMessage(i))
  /\ \A c \in Conns : WF_vars(ReplayStep(c))
  /\ \A t \in Tabs : WF_vars(TabReceive(t))

SafetySpec == Init /\ [][Next]_vars
Spec == SafetySpec /\ Fairness

-----------------------------------------------------------------------------
(* Fan-out (README, section 3): a tab is only ever sent what was published *)
(* on its own user's channel or on the broadcast channel.                  *)
Addressed ==
  \A t \in Tabs :
    /\ \A n \in seen[t] : rows[n].channel \in {UserOf[t], Broadcast}
    /\ link[t] # NoConn =>
         \A k \in DOMAIN wire[link[t]] : rows[wire[link[t]][k].id].channel \in {UserOf[t], Broadcast}

(* What the server has taken on to deliver is never lost while the tab     *)
(* keeps its connection: a publication to a tab past its replay, or a row  *)
(* its replay has found, is on the way in the inbox of the tab's instance, *)
(* in the replay, or on the wire.                                          *)
OwedInFlight ==
  \A o \in owed : LET c == link[o[1]] IN
    \/ \E k \in DOMAIN wire[c] : wire[c][k].id = o[2]
    \/ o[2] \in missed[c]
    \/ stage[c] = "live" /\ \E k \in DOMAIN inbox[req[c].at] : inbox[req[c].at][k] = o[2]

(* README, section 4: missed notifications come before live ones, in the   *)
(* order of their ids, on every connection.                                *)
ReplayFirst ==
  \A c \in Conns : \A k, l \in DOMAIN wire[c] :
    k < l /\ wire[c][l].how = "replay" =>
      wire[c][k].how = "replay" /\ wire[c][k].id < wire[c][l].id

(* The connection of a tab is open once its observable has been subscribed *)
(* to, and the events on it are known by their ids.                        *)
Connected(t) == link[t] # NoConn /\ stage[link[t]] # "none"
WireOf(t) ==
  IF link[t] = NoConn THEN {}
  ELSE {wire[link[t]][k].id : k \in DOMAIN wire[link[t]]}

PageBodies == {<<b[1], IF b[2] THEN Broadcast ELSE b[1]>> : b \in Bodies}
PS(t) == INSTANCE PageServer
           WITH Bodies <- PageBodies, MaxRows <- MaxId,
                user <- UserOf[t], connected <- Connected(t), wire <- WireOf(t)

(* To each tab the instances, their table and their replays are the server *)
(* that Dashboard takes for granted: whatever else goes on, an event that  *)
(* comes is of a row in the table, for the tab's user, on the connection   *)
(* it has now; and statuses are only written.                              *)
ServesPages ==
  /\ \A t \in Tabs : PS(t)!ServerInit
  /\ [][\A t \in Tabs : UNCHANGED PS(t)!serverVars \/ PS(t)!ServerNext]_vars

(* What the server has taken on to deliver arrives, unless the tab loses   *)
(* its connection first.                                                   *)
OwedDelivered ==
  \A t \in Tabs, n \in Ids : <<t, n>> \in owed ~> <<t, n>> \notin owed

(* A reconnection does not stay in its replay: it comes to the live        *)
(* subject, also when nothing was missed.                                  *)
ReplayEnds ==
  \A c \in Conns : stage[c] = "querying" ~> stage[c] \in {"live", "none"}

(* A row whose publication has failed, or been in vain: only a replay can  *)
(* still bring it.                                                         *)
LeftOver(n) ==
  /\ n \in DOMAIN rows \ unpub
  /\ rows[n].status = "pending"
  /\ \A i \in Instances : n \notin updates[i] /\ \A k \in DOMAIN inbox[i] : inbox[i][k] # n

(* The tab has reconnected with a Last-Event-ID below the row, and its     *)
(* replay has not read the table yet.                                      *)
Awaits(t, n) ==
  LET c == link[t] IN
  /\ c # NoConn
  /\ stage[c] \in {"none", "querying"}
  /\ req[c].after > 0 /\ req[c].after < n
  /\ LeftOver(n) /\ rows[n].to = UserOf[t]

(* A notification whose publish failed is not lost on a tab of its user    *)
(* that reconnects: from the request on it waits, PENDING, until a replay  *)
(* has found it, its own or one of another tab of the user, whatever is    *)
(* created, published, marked, closed and restarted meanwhile, unless the  *)
(* tab loses its connection or the row is marked as read.  (What a replay  *)
(* has found is owed to the tab of that replay.)                           *)
FailedIsFound ==
  [][\A t \in Tabs, n \in Ids : Awaits(t, n) =>
       \/ Awaits(t, n)'
       \/ \E c \in Conns : n \in missed'[c]
       \/ link'[t] = NoConn
       \/ rows'[n].status = "read"]_vars

-----------------------------------------------------------------------------
(* README, "notification state machine": PENDING, then DELIVERED, then     *)
(* READ; a row that is READ stays READ.                                    *)
ReadIsFinal ==
  [][\A n \in DOMAIN rows : rows[n].status = "read" => rows'[n].status = "read"]_vars

(* README, section 4: a tab that has reconnected has lost nothing of what  *)
(* its user was sent since its Last-Event-ID: what is marked as delivered  *)
(* it has, or it is on the way to it.                                      *)
NothingLost ==
  \A t \in Tabs, c \in Conns : link[t] = c /\ stage[c] = "live" /\ req[c].after > 0 =>
    \A n \in DOMAIN rows :
      rows[n].to = UserOf[t] /\ rows[n].status = "delivered" /\ n > req[c].after =>
        n \in seen[t] \/ \E k \in DOMAIN wire[c] : wire[c][k].id = n
=============================================================================
