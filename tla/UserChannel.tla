---------------------------- MODULE UserChannel ----------------------------
(***************************************************************************)
(* SSE stream registration and the per-user Redis channel.                 *)
(*                                                                         *)
(* Every application instance keeps a Map of the SSE subjects per user     *)
(* (SseManagerService.streams) and a reference count per user              *)
(* (NotificationEventService.userChannelRefs), and asks Redis, over one    *)
(* pipelined subscriber connection, to subscribe to a user's channel when  *)
(* the count leaves 0 and to unsubscribe when it returns to 0.             *)
(* JavaScript runs a handler without interruption up to its next await, so *)
(* an action is one such stretch of NotificationsController.stream.        *)
(***************************************************************************)
EXTENDS Naturals, Sequences, FiniteSets

CONSTANTS
  Instances,  \* application processes (app1, app2 of docker-compose.scale.yml)
  Users,      \* user ids
  Conns       \* stream requests that can exist at the same time

ASSUME FiniteConns == IsFiniteSet(Conns)

VARIABLES
  streams,  \* streams[i][u]: connections whose subject instance i holds for user u
  refs,     \* refs[i][u]: userChannelRefs, a missing key being 0
  pc,       \* how far the stream handler of a connection has come
  gone,     \* connections whose client left before a close listener existed
  cmds,     \* cmds[i]: commands sent on i's subscriber connection, not yet answered
  subs,     \* subs[i]: users whose channel Redis delivers to instance i
  overlap   \* history: overlap[i][u], two first connections of u awaited Redis at once

vars == <<streams, refs, pc, gone, cmds, subs, overlap>>

(***************************************************************************)
(* "idle"         no request                                               *)
(* "subscribing"  the handler awaits subscriber.subscribe                  *)
(* "subscribed"   Redis has subscribed, the continuation has not run       *)
(* "open"         counted, close listener registered                       *)
(* "failed"       subscriber.subscribe rejected, the request ended in 500  *)
(***************************************************************************)
Phase == {"idle", "subscribing", "subscribed", "open", "failed"}

Command == [op: {"SUBSCRIBE", "UNSUBSCRIBE"}, user: Users, conn: Conns]

SubscribeCmd(u, c)   == [op |-> "SUBSCRIBE", user |-> u, conn |-> c]
UnsubscribeCmd(u, c) == [op |-> "UNSUBSCRIBE", user |-> u, conn |-> c]

TypeOK ==
  /\ streams \in [Instances -> [Users -> SUBSET Conns]]
  /\ refs \in [Instances -> [Users -> Nat]]
  /\ pc \in [Conns -> Phase]
  /\ gone \subseteq Conns
  /\ cmds \in [Instances -> Seq(Command)]
  /\ subs \in [Instances -> SUBSET Users]
  /\ overlap \in [Instances -> [Users -> BOOLEAN]]

Open(i, u)    == {c \in streams[i][u] : pc[c] = "open"}
Opening(i, u) == {c \in streams[i][u] : pc[c] \in {"subscribing", "subscribed"}}
AtInstance(i) == UNION {streams[i][u] : u \in Users}

Init ==
  /\ streams = [i \in Instances |-> [u \in Users |-> {}]]
  /\ refs = [i \in Instances |-> [u \in Users |-> 0]]
  /\ pc = [c \in Conns |-> "idle"]
  /\ gone = {}
  /\ cmds = [i \in Instances |-> <<>>]
  /\ subs = [i \in Instances |-> {}]
  /\ overlap = [i \in Instances |-> [u \in Users |-> FALSE]]

-----------------------------------------------------------------------------
(***************************************************************************)
(* The count a new stream writes, and whether a closing one is the last:   *)
(* both on the value of userChannelRefs the method has read.  Each is      *)
(* followed by plausible slips that the properties below must detect.      *)
(***************************************************************************)
MutNotCounted(current) == current
Counted(current) == current + 1

MutLastBelowOne(current) == current < 1
MutLastIsOne(current)    == current = 1
IsLast(current) == current <= 1

(***************************************************************************)
(* GET /notifications/stream: sseManager.subscribe, then                   *)
(* subscribeUserChannel reads the count.  A count of 0 sends SUBSCRIBE and *)
(* suspends the handler; otherwise it runs on to the close listener.       *)
(***************************************************************************)
MutCountedBeforeAwait(i, u, c) ==
  /\ pc[c] = "idle"
  /\ refs[i][u] = 0
  /\ streams' = [streams EXCEPT ![i][u] = @ \cup {c}]
  /\ refs' = [refs EXCEPT ![i][u] = 1]
  /\ cmds' = [cmds EXCEPT ![i] = Append(@, SubscribeCmd(u, c))]
  /\ pc' = [pc EXCEPT ![c] = "subscribing"]
  /\ UNCHANGED <<gone, subs, overlap>>

StreamFirst(i, u, c) ==
  /\ pc[c] = "idle"
  /\ refs[i][u] = 0
  /\ streams' = [streams EXCEPT ![i][u] = @ \cup {c}]
  /\ cmds' = [cmds EXCEPT ![i] = Append(@, SubscribeCmd(u, c))]
  /\ pc' = [pc EXCEPT ![c] = "subscribing"]
  /\ overlap' = [overlap EXCEPT ![i][u] = @ \/ Opening(i, u) # {}]
  /\ UNCHANGED <<refs, gone, subs>>

(* Slip: SseManagerService.subscribe replaces the Set of the user.         *)
MutSetReplaced(i, u, c) ==
  /\ pc[c] = "idle"
  /\ refs[i][u] # 0
  /\ streams' = [streams EXCEPT ![i][u] = {c}]
  /\ refs' = [refs EXCEPT ![i][u] = Counted(@)]
  /\ pc' = [pc EXCEPT ![c] = "open"]
  /\ UNCHANGED <<gone, cmds, subs, overlap>>

StreamAnother(i, u, c) ==
  /\ pc[c] = "idle"
  /\ refs[i][u] # 0
  /\ streams' = [streams EXCEPT ![i][u] = @ \cup {c}]
  /\ refs' = [refs EXCEPT ![i][u] = Counted(@)]
  /\ pc' = [pc EXCEPT ![c] = "open"]
  /\ UNCHANGED <<gone, cmds, subs, overlap>>

(* Slip: the answer to SUBSCRIBE does not resume the handler.              *)
MutAnswerLost(i) ==
  /\ cmds[i] # <<>>
  /\ cmds' = [cmds EXCEPT ![i] = Tail(@)]
  /\ subs' = [subs EXCEPT ![i] = @ \cup {Head(cmds[i]).user}]
  /\ UNCHANGED <<streams, refs, pc, gone, overlap>>

(* Redis executes the oldest command of the connection; the answer that    *)
(* resumes a suspended handler is on its way (StreamContinue).             *)
RedisExecutes(i) ==
  /\ cmds[i] # <<>>
  /\ cmds' = [cmds EXCEPT ![i] = Tail(@)]
  /\ LET cmd == Head(cmds[i]) IN
       \/ /\ cmd.op = "SUBSCRIBE"
          /\ subs' = [subs EXCEPT ![i] = @ \cup {cmd.user}]
          /\ pc' = [pc EXCEPT ![cmd.conn] = "subscribed"]
       \/ /\ cmd.op = "UNSUBSCRIBE"
          /\ subs' = [subs EXCEPT ![i] = @ \ {cmd.user}]
          /\ UNCHANGED pc
  /\ UNCHANGED <<streams, refs, gone, overlap>>

(* The continuation of the await: the count becomes current + 1, where     *)
(* current is the 0 read before the await, and the listener is registered. *)
StreamContinue(i, u, c) ==
  /\ c \in streams[i][u]
  /\ pc[c] = "subscribed"
  /\ refs' = [refs EXCEPT ![i][u] = Counted(0)]
  /\ pc' = [pc EXCEPT ![c] = "open"]
  /\ UNCHANGED <<streams, gone, cmds, subs, overlap>>

(* subscriber.subscribe rejects: stream() throws before the count and the  *)
(* listener, so the subject stays in the Map.                              *)
SubscribeRejects(i) ==
  /\ cmds[i] # <<>>
  /\ Head(cmds[i]).op = "SUBSCRIBE"
  /\ cmds' = [cmds EXCEPT ![i] = Tail(@)]
  /\ pc' = [pc EXCEPT ![Head(cmds[i]).conn] = "failed"]
  /\ UNCHANGED <<streams, refs, gone, subs, overlap>>

(* The client disconnects while the handler is suspended: the request's    *)
(* close event has no listener and nothing is undone.                      *)
CloseUnheard(c) ==
  /\ pc[c] \in {"subscribing", "subscribed"}
  /\ c \notin gone
  /\ gone' = gone \cup {c}
  /\ UNCHANGED <<streams, refs, pc, cmds, subs, overlap>>

(* The close listener: sseManager.unsubscribe and unsubscribeUserChannel.  *)
StreamClose(i, u, c) ==
  /\ c \in streams[i][u]
  /\ pc[c] = "open"
  /\ c \notin gone
  /\ streams' = [streams EXCEPT ![i][u] = @ \ {c}]
  /\ pc' = [pc EXCEPT ![c] = "idle"]
  /\ \/ /\ IsLast(refs[i][u])
        /\ refs' = [refs EXCEPT ![i][u] = 0]
        /\ cmds' = [cmds EXCEPT ![i] = Append(@, UnsubscribeCmd(u, c))]
     \/ /\ ~IsLast(refs[i][u])
        /\ refs' = [refs EXCEPT ![i][u] = @ - 1]
        /\ UNCHANGED cmds
  /\ UNCHANGED <<gone, subs, overlap>>

(* An instance dies and comes back: its Maps are empty and Redis has       *)
(* dropped the subscriptions of its connection.                            *)
Restart(i) ==
  /\ streams' = [streams EXCEPT ![i] = [u \in Users |-> {}]]
  /\ refs' = [refs EXCEPT ![i] = [u \in Users |-> 0]]
  /\ pc' = [c \in Conns |-> IF c \in AtInstance(i) THEN "idle" ELSE pc[c]]
  /\ gone' = gone \ AtInstance(i)
  /\ cmds' = [cmds EXCEPT ![i] = <<>>]
  /\ subs' = [subs EXCEPT ![i] = {}]
  /\ overlap' = [overlap EXCEPT ![i] = [u \in Users |-> FALSE]]

Next ==
  \/ \E i \in Instances, u \in Users, c \in Conns :
       \/ StreamFirst(i, u, c)
       \/ StreamAnother(i, u, c)
       \/ StreamContinue(i, u, c)
       \/ StreamClose(i, u, c)
  \/ \E i \in Instances : RedisExecutes(i) \/ SubscribeRejects(i) \/ Restart(i)
  \/ \E c \in Conns : CloseUnheard(c)

(* Redis keeps answering and the event loop keeps running continuations;   *)
(* clients, failures and restarts owe nothing.                             *)
Fairness ==
  /\ \A i \in Instances : WF_vars(RedisExecutes(i))
  /\ \A i \in Instances, u \in Users, c \in Conns : WF_vars(StreamContinue(i, u, c))

SafetySpec == Init /\ [][Next]_vars
Spec == SafetySpec /\ Fairness

-----------------------------------------------------------------------------
Pending(i, op, u) == \E k \in 1..Len(cmds[i]) : cmds[i][k].op = op /\ cmds[i][k].user = u

(* The reference count never exceeds the connections that have a close     *)
(* listener, although subscribeUserChannel writes a count it read before   *)
(* an await: every counted reference has a connection left to return it.   *)
RefsBounded ==
  \A i \in Instances, u \in Users : refs[i][u] <= Cardinality(Open(i, u))

(* Once an instance holds no stream of a user and Redis has answered       *)
(* everything, it is not subscribed to the user's channel: whatever the    *)
(* order of opens, closes and stale counts, no subscription is leaked.     *)
NoChannelLeak ==
  \A i \in Instances, u \in Users :
    streams[i][u] = {} /\ cmds[i] = <<>> => u \notin subs[i]

(* Unless two first connections of a user overlapped on an instance, the   *)
(* count is exact and every connection past its await hears the channel.   *)
ExactUnlessOverlap ==
  \A i \in Instances, u \in Users :
    ~overlap[i][u] =>
      /\ refs[i][u] = Cardinality(Open(i, u))
      /\ Open(i, u) # {} => u \in subs[i] /\ ~Pending(i, "UNSUBSCRIBE", u)

(* A handler suspended on SUBSCRIBE does not stay suspended.               *)
StreamOpens ==
  \A c \in Conns : pc[c] = "subscribing" ~> pc[c] \in {"open", "failed", "idle"}

(* When the last stream of a user leaves, Redis stops delivering the       *)
(* user's channel to the instance, unless a new stream arrives.            *)
ChannelReleased ==
  \A i \in Instances, u \in Users :
    streams[i][u] = {} ~> (u \notin subs[i] \/ streams[i][u] # {})

-----------------------------------------------------------------------------
(* README, "유저 채널 ref-count": the channel of a user with several tabs   *)
(* is unsubscribed only when the last connection closes.                   *)
UnsubscribeOnlyWithLast ==
  \A i \in Instances, u \in Users : Open(i, u) # {} => u \in subs[i]

=============================================================================
