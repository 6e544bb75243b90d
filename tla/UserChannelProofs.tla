------------------------- MODULE UserChannelProofs -------------------------
(***************************************************************************)
(* Proofs about UserChannel, for any number of instances, users and        *)
(* connections.  The inductive invariant is built in layers, each proved   *)
(* from the ones before it: TypeOK; Placement and CmdsMatch, where a       *)
(* connection and its SUBSCRIBE are; RefsBounded; Released, which yields   *)
(* NoChannelLeak.                                                          *)
(***************************************************************************)
EXTENDS UserChannel, FiniteSetTheorems, SequenceTheorems, TLAPS

IsSubscribe(i, k) == cmds[i][k].op = "SUBSCRIBE"

(* A connection has at most one subject, and none before its request.      *)
Placement ==
  /\ \A i, j \in Instances, u, v \in Users, c \in Conns :
       c \in streams[i][u] /\ c \in streams[j][v] => i = j /\ u = v
  /\ \A i \in Instances, u \in Users, c \in Conns : c \in streams[i][u] => pc[c] # "idle"

(* A SUBSCRIBE under way belongs to one handler suspended on it.           *)
Suspended(i, k) ==
  /\ cmds[i][k].conn \in streams[i][cmds[i][k].user]
  /\ pc[cmds[i][k].conn] = "subscribing"

OneCommandEach(i) ==
  \A k, l \in 1..Len(cmds[i]) :
    IsSubscribe(i, k) /\ IsSubscribe(i, l) /\ cmds[i][k].conn = cmds[i][l].conn => k = l

CmdsMatch ==
  \A i \in Instances :
    /\ \A k \in 1..Len(cmds[i]) : IsSubscribe(i, k) => Suspended(i, k)
    /\ OneCommandEach(i)

(* Connections of u on i that Redis has subscribed the channel for.        *)
Heard(i, u) == {c \in streams[i][u] : pc[c] \in {"subscribed", "open"}}

(* A subscription without a connection to serve is about to be given up.   *)
Released ==
  \A i \in Instances, u \in Users :
    Heard(i, u) = {} => u \notin subs[i] \/ Pending(i, "UNSUBSCRIBE", u)

-----------------------------------------------------------------------------
(* What the updates in UserChannel change: one entry of a function of      *)
(* instances and users, the phase of one connection, one queue of cmds.    *)
EntryBecomes(f, g, i, u, e) ==
  /\ g[i][u] = e
  /\ \A j \in Instances, v \in Users : j # i \/ v # u => g[j][v] = f[j][v]

PhaseBecomes(c, p) == pc'[c] = p /\ \A d \in Conns : d # c => pc'[d] = pc[d]

SubsBecome(i, S) == subs'[i] = S /\ \A j \in Instances : j # i => subs'[j] = subs[j]

QueueGrows(q, r, i, cmd) ==
  /\ \A j \in Instances : j # i => r[j] = q[j]
  /\ Len(r[i]) = Len(q[i]) + 1
  /\ \A k \in 1..Len(q[i]) : r[i][k] = q[i][k]
  /\ r[i][Len(q[i]) + 1] = cmd

QueueLosesHead(q, r, i) ==
  /\ \A j \in Instances : j # i => r[j] = q[j]
  /\ Len(q[i]) > 0 /\ Len(r[i]) = Len(q[i]) - 1
  /\ \A k \in 1..Len(r[i]) : r[i][k] = q[i][k + 1]

(* The parts of TypeOK the proofs below use.                               *)
Typing ==
  /\ \A i \in Instances, u \in Users : streams[i][u] \subseteq Conns /\ refs[i][u] \in Nat
  /\ \A i \in Instances : Len(cmds[i]) \in Nat
  /\ \A i \in Instances : \A k \in 1..Len(cmds[i]) :
       /\ cmds[i][k].conn \in Conns /\ cmds[i][k].user \in Users
       /\ cmds[i][k].op \in {"SUBSCRIBE", "UNSUBSCRIBE"}

LEMMA Typed == TypeOK => Typing
<1> SUFFICES ASSUME TypeOK PROVE Typing
  OBVIOUS
<1>1. \A i \in Instances : Len(cmds[i]) \in Nat
  BY LenProperties DEF TypeOK
<1>2. \A i \in Instances : \A k \in 1..Len(cmds[i]) : cmds[i][k] \in Command
  BY ElementOfSeq DEF TypeOK
<1>3. QED
  BY <1>1, <1>2 DEF TypeOK, Command, Typing

LEMMA QueueAppended ==
  ASSUME NEW q \in [Instances -> Seq(Command)], NEW i \in Instances, NEW cmd \in Command,
         NEW r, r = [q EXCEPT ![i] = Append(@, cmd)]
  PROVE  r \in [Instances -> Seq(Command)] /\ QueueGrows(q, r, i, cmd)
<1>1. q[i] \in Seq(Command) /\ r[i] = Append(q[i], cmd)
  OBVIOUS
<1>2. Append(q[i], cmd) \in Seq(Command)
  BY <1>1, AppendProperties
<1>3. /\ Len(r[i]) = Len(q[i]) + 1
      /\ \A k \in 1..Len(q[i]) : r[i][k] = q[i][k]
      /\ r[i][Len(q[i]) + 1] = cmd
  BY <1>1, AppendProperties, LenProperties
<1>4. QED
  BY <1>2, <1>3 DEF QueueGrows

LEMMA QueuePopped ==
  ASSUME NEW q \in [Instances -> Seq(Command)], NEW i \in Instances, q[i] # <<>>,
         NEW r, r = [q EXCEPT ![i] = Tail(@)]
  PROVE  /\ r \in [Instances -> Seq(Command)] /\ QueueLosesHead(q, r, i)
         /\ Head(q[i]) = q[i][1] /\ q[i][1] \in Command
<1>1. q[i] \in Seq(Command) /\ r[i] = Tail(q[i])
  OBVIOUS
<1>2. Tail(q[i]) \in Seq(Command) /\ Head(q[i]) \in Command
  BY <1>1, HeadTailProperties
<1>3. Len(q[i]) \in Nat /\ Len(q[i]) > 0
  BY <1>1, LenProperties, EmptySeq
<1>4. Len(r[i]) = Len(q[i]) - 1 /\ \A k \in 1..Len(r[i]) : r[i][k] = q[i][k + 1]
  BY <1>1, HeadTailProperties
<1>5. Head(q[i]) = q[i][1]
  BY <1>1
<1>6. QED
  BY <1>1, <1>2, <1>3, <1>4, <1>5 DEF QueueLosesHead

(* The effect of each action, entry by entry; the proofs below use these   *)
(* instead of the actions.                                                 *)
StreamFirstChange(i, u, c) ==
  /\ pc[c] = "idle" /\ refs[i][u] = 0
  /\ EntryBecomes(streams, streams', i, u, streams[i][u] \cup {c})
  /\ QueueGrows(cmds, cmds', i, SubscribeCmd(u, c))
  /\ PhaseBecomes(c, "subscribing")
  /\ \A j \in Instances, v \in Users :
       overlap'[j][v] <=> overlap[j][v] \/ (j = i /\ v = u /\ Opening(i, u) # {})
  /\ UNCHANGED <<refs, gone, subs>>

StreamAnotherChange(i, u, c) ==
  /\ pc[c] = "idle" /\ refs[i][u] # 0
  /\ EntryBecomes(streams, streams', i, u, streams[i][u] \cup {c})
  /\ EntryBecomes(refs, refs', i, u, refs[i][u] + 1)
  /\ PhaseBecomes(c, "open")
  /\ UNCHANGED <<gone, cmds, subs, overlap>>

StreamContinueChange(i, u, c) ==
  /\ c \in streams[i][u] /\ pc[c] = "subscribed"
  /\ EntryBecomes(refs, refs', i, u, 1)
  /\ PhaseBecomes(c, "open")
  /\ UNCHANGED <<streams, gone, cmds, subs, overlap>>

StreamCloseChange(i, u, c) ==
  /\ c \in streams[i][u] /\ pc[c] = "open"
  /\ EntryBecomes(streams, streams', i, u, streams[i][u] \ {c})
  /\ PhaseBecomes(c, "idle")
  /\ \/ /\ refs[i][u] <= 1
        /\ EntryBecomes(refs, refs', i, u, 0)
        /\ QueueGrows(cmds, cmds', i, UnsubscribeCmd(u, c))
     \/ /\ refs[i][u] > 1
        /\ EntryBecomes(refs, refs', i, u, refs[i][u] - 1)
        /\ UNCHANGED cmds
  /\ UNCHANGED <<gone, subs, overlap>>

CommandChange(i) ==
  /\ cmds[i] # <<>> /\ QueueLosesHead(cmds, cmds', i)
  /\ LET cmd == cmds[i][1] IN
       \/ /\ cmd.op = "SUBSCRIBE"
          /\ SubsBecome(i, subs[i] \cup {cmd.user})
          /\ PhaseBecomes(cmd.conn, "subscribed")
       \/ /\ cmd.op = "UNSUBSCRIBE"
          /\ SubsBecome(i, subs[i] \ {cmd.user})
          /\ UNCHANGED pc
       \/ /\ cmd.op = "SUBSCRIBE"
          /\ UNCHANGED subs
          /\ PhaseBecomes(cmd.conn, "failed")
  /\ UNCHANGED <<streams, refs, gone, overlap>>

RestartChange(i) ==
  /\ \A u \in Users : streams'[i][u] = {} /\ refs'[i][u] = 0 /\ ~overlap'[i][u]
  /\ Len(cmds'[i]) = 0 /\ subs'[i] = {}
  /\ \A c \in Conns : c \in AtInstance(i) => pc'[c] = "idle"
  /\ \A c \in Conns : c \notin AtInstance(i) => pc'[c] = pc[c]
  /\ \A j \in Instances : j # i => cmds'[j] = cmds[j] /\ subs'[j] = subs[j]
  /\ \A j \in Instances, u \in Users : j # i =>
       /\ streams'[j][u] = streams[j][u]
       /\ refs'[j][u] = refs[j][u]
       /\ overlap'[j][u] <=> overlap[j][u]

LEMMA StreamFirstEffect ==
  ASSUME TypeOK, NEW i \in Instances, NEW u \in Users, NEW c \in Conns, StreamFirst(i, u, c)
  PROVE  TypeOK' /\ StreamFirstChange(i, u, c)
<1>1. SubscribeCmd(u, c) \in Command
  BY DEF SubscribeCmd, Command
<1>2. cmds' \in [Instances -> Seq(Command)] /\ QueueGrows(cmds, cmds', i, SubscribeCmd(u, c))
  BY <1>1, QueueAppended DEF TypeOK, StreamFirst
<1>3. /\ streams' \in [Instances -> [Users -> SUBSET Conns]]
      /\ EntryBecomes(streams, streams', i, u, streams[i][u] \cup {c})
  BY DEF TypeOK, StreamFirst, EntryBecomes
<1>4. /\ overlap' \in [Instances -> [Users -> BOOLEAN]]
      /\ \A j \in Instances, v \in Users :
           overlap'[j][v] <=> overlap[j][v] \/ (j = i /\ v = u /\ Opening(i, u) # {})
  BY Zenon DEF TypeOK, StreamFirst, EntryBecomes
<1>5. QED
  BY <1>2, <1>3, <1>4 DEF TypeOK, StreamFirst, Phase, StreamFirstChange, PhaseBecomes, SubsBecome

LEMMA StreamAnotherEffect ==
  ASSUME TypeOK, NEW i \in Instances, NEW u \in Users, NEW c \in Conns, StreamAnother(i, u, c)
  PROVE  TypeOK' /\ StreamAnotherChange(i, u, c)
<1>1. /\ streams' \in [Instances -> [Users -> SUBSET Conns]]
      /\ EntryBecomes(streams, streams', i, u, streams[i][u] \cup {c})
  BY DEF TypeOK, StreamAnother, EntryBecomes
<1>2. /\ refs' \in [Instances -> [Users -> Nat]]
      /\ EntryBecomes(refs, refs', i, u, refs[i][u] + 1)
  BY DEF TypeOK, StreamAnother, Counted, EntryBecomes
<1>3. QED
  BY <1>1, <1>2 DEF TypeOK, StreamAnother, Phase, StreamAnotherChange, PhaseBecomes, SubsBecome

LEMMA StreamContinueEffect ==
  ASSUME TypeOK, NEW i \in Instances, NEW u \in Users, NEW c \in Conns, StreamContinue(i, u, c)
  PROVE  TypeOK' /\ StreamContinueChange(i, u, c)
<1>1. /\ refs' \in [Instances -> [Users -> Nat]]
      /\ EntryBecomes(refs, refs', i, u, 1)
  BY DEF TypeOK, StreamContinue, Counted, EntryBecomes
<1>2. QED
  BY <1>1 DEF TypeOK, StreamContinue, Phase, StreamContinueChange, PhaseBecomes, SubsBecome

LEMMA StreamCloseEffect ==
  ASSUME TypeOK, NEW i \in Instances, NEW u \in Users, NEW c \in Conns, StreamClose(i, u, c)
  PROVE  TypeOK' /\ StreamCloseChange(i, u, c)
<1>1. /\ streams' \in [Instances -> [Users -> SUBSET Conns]]
      /\ EntryBecomes(streams, streams', i, u, streams[i][u] \ {c})
  BY DEF TypeOK, StreamClose, EntryBecomes
<1>2. refs[i][u] \in Nat
  BY DEF TypeOK
<1>3. CASE IsLast(refs[i][u])
  <2>1. UnsubscribeCmd(u, c) \in Command
    BY DEF UnsubscribeCmd, Command
  <2>2. cmds' = [cmds EXCEPT ![i] = Append(@, UnsubscribeCmd(u, c))]
    BY <1>3 DEF StreamClose
  <2>3. cmds' \in [Instances -> Seq(Command)] /\ QueueGrows(cmds, cmds', i, UnsubscribeCmd(u, c))
    BY <2>1, <2>2, QueueAppended DEF TypeOK
  <2>4. refs' \in [Instances -> [Users -> Nat]] /\ EntryBecomes(refs, refs', i, u, 0)
    <3>1. refs' = [refs EXCEPT ![i][u] = 0]
      BY <1>3 DEF StreamClose
    <3>2. QED
      BY <3>1 DEF TypeOK, EntryBecomes
  <2>5. QED
    BY <1>1, <1>2, <1>3, <2>3, <2>4 DEF TypeOK, StreamClose, Phase, StreamCloseChange, PhaseBecomes, SubsBecome, IsLast
<1>4. CASE ~IsLast(refs[i][u])
  <2>1. refs' \in [Instances -> [Users -> Nat]] /\ EntryBecomes(refs, refs', i, u, refs[i][u] - 1)
    <3>1. refs[i][u] - 1 \in Nat /\ refs' = [refs EXCEPT ![i][u] = refs[i][u] - 1]
      BY <1>2, <1>4 DEF StreamClose, IsLast
    <3>2. QED
      BY <3>1 DEF TypeOK, EntryBecomes
  <2>2. QED
    BY <1>1, <1>2, <1>4, <2>1 DEF TypeOK, StreamClose, Phase, StreamCloseChange, PhaseBecomes, SubsBecome, IsLast
<1>5. QED
  BY <1>3, <1>4

LEMMA CommandEffect ==
  ASSUME TypeOK, NEW i \in Instances, RedisExecutes(i) \/ SubscribeRejects(i)
  PROVE  TypeOK' /\ CommandChange(i)
<1>1. cmds[i] # <<>> /\ cmds' = [cmds EXCEPT ![i] = Tail(@)]
  BY DEF RedisExecutes, SubscribeRejects
<1>2. cmds' \in [Instances -> Seq(Command)] /\ QueueLosesHead(cmds, cmds', i)
  BY <1>1, QueuePopped DEF TypeOK
<1>3. Head(cmds[i]) = cmds[i][1] /\ cmds[i][1] \in Command
  BY <1>1, QueuePopped DEF TypeOK
<1>4. CASE RedisExecutes(i)
  <2>1. CASE cmds[i][1].op = "SUBSCRIBE"
    <3>1. /\ subs' = [subs EXCEPT ![i] = @ \cup {cmds[i][1].user}]
          /\ pc' = [pc EXCEPT ![cmds[i][1].conn] = "subscribed"]
          /\ UNCHANGED <<streams, refs, gone, overlap>>
      BY <1>3, <1>4, <2>1 DEF RedisExecutes
    <3>2. QED
      BY <1>1, <1>2, <1>3, <2>1, <3>1 DEF TypeOK, Phase, Command, CommandChange, PhaseBecomes, SubsBecome
  <2>2. CASE cmds[i][1].op = "UNSUBSCRIBE"
    <3>1. /\ subs' = [subs EXCEPT ![i] = @ \ {cmds[i][1].user}]
          /\ UNCHANGED <<streams, refs, pc, gone, overlap>>
      BY <1>3, <1>4, <2>2 DEF RedisExecutes
    <3>2. QED
      BY <1>1, <1>2, <1>3, <2>2, <3>1 DEF TypeOK, Command, CommandChange, SubsBecome
  <2>3. QED
    BY <1>3, <2>1, <2>2 DEF Command
<1>5. CASE SubscribeRejects(i)
  BY <1>2, <1>3, <1>5 DEF TypeOK, SubscribeRejects, Phase, Command, CommandChange, PhaseBecomes, SubsBecome
<1>6. QED
  BY <1>4, <1>5

LEMMA RestartEffect ==
  ASSUME TypeOK, NEW i \in Instances, Restart(i)
  PROVE  TypeOK' /\ RestartChange(i)
  BY DEF TypeOK, Restart, Phase, RestartChange, PhaseBecomes, SubsBecome

(* Every variable keeps its type: counts stay natural numbers although a   *)
(* close may meet a count that is already 0.                               *)
THEOREM TypeCorrect == SafetySpec => []TypeOK
<1>1. Init => TypeOK
  BY SMT DEF Init, TypeOK, Phase
<1>2. TypeOK /\ [Next]_vars => TypeOK'
  <2> SUFFICES ASSUME TypeOK, [Next]_vars
               PROVE  TypeOK'
    OBVIOUS
  <2>1. ASSUME NEW i \in Instances, NEW u \in Users, NEW c \in Conns, StreamFirst(i, u, c)
        PROVE  TypeOK'
    BY <2>1, StreamFirstEffect
  <2>2. ASSUME NEW i \in Instances, NEW u \in Users, NEW c \in Conns, StreamAnother(i, u, c)
        PROVE  TypeOK'
    BY <2>2, StreamAnotherEffect
  <2>3. ASSUME NEW i \in Instances, NEW u \in Users, NEW c \in Conns, StreamContinue(i, u, c)
        PROVE  TypeOK'
    BY <2>3, StreamContinueEffect
  <2>4. ASSUME NEW i \in Instances, NEW u \in Users, NEW c \in Conns, StreamClose(i, u, c)
        PROVE  TypeOK'
    BY <2>4, StreamCloseEffect
  <2>5. ASSUME NEW i \in Instances, RedisExecutes(i) \/ SubscribeRejects(i)
        PROVE  TypeOK'
    BY <2>5, CommandEffect
  <2>6. ASSUME NEW i \in Instances, Restart(i)
        PROVE  TypeOK'
    BY <2>6, RestartEffect
  <2>7. ASSUME NEW c \in Conns, CloseUnheard(c)
        PROVE  TypeOK'
    BY <2>7 DEF CloseUnheard, TypeOK
  <2>8. CASE UNCHANGED vars
    BY <2>8 DEF vars, TypeOK
  <2>9. QED
    BY <2>1, <2>2, <2>3, <2>4, <2>5, <2>6, <2>7, <2>8 DEF Next
<1>3. QED
  BY <1>1, <1>2, PTL DEF SafetySpec

-----------------------------------------------------------------------------
(* A step that adds at most one connection, of one user on one instance,   *)
(* which had no subject, leaves every connection with one subject.         *)
LEMMA PlacementKept ==
  ASSUME Placement, NEW i \in Instances, NEW u \in Users, NEW c \in Conns,
         \A j \in Instances, v \in Users : c \notin streams[j][v],
         \A j \in Instances, v \in Users, d \in Conns :
           d \in streams'[j][v] => d \in streams[j][v] \/ (d = c /\ j = i /\ v = u),
         pc'[c] # "idle", \A d \in Conns : d # c => pc'[d] = pc[d]
  PROVE  Placement'
<1>1. ASSUME NEW j \in Instances, NEW l \in Instances, NEW v \in Users, NEW w \in Users,
             NEW d \in Conns, d \in streams'[j][v], d \in streams'[l][w]
      PROVE  j = l /\ v = w
  <2>1. CASE d = c
    BY <1>1, <2>1
  <2>2. CASE d # c
    BY <1>1, <2>2 DEF Placement
  <2>3. QED
    BY <2>1, <2>2
<1>2. ASSUME NEW j \in Instances, NEW v \in Users, NEW d \in Conns, d \in streams'[j][v]
      PROVE  pc'[d] # "idle"
  BY <1>2 DEF Placement
<1>3. QED
  BY <1>1, <1>2 DEF Placement

(* Where connections and their commands are: no connection is in two sets  *)
(* of subjects, and each SUBSCRIBE has its own suspended handler.          *)
LEMMA PlacementInvariant == SafetySpec => [](Placement /\ CmdsMatch)
<1>1. Init => Placement /\ CmdsMatch
  BY DEF Init, Placement, CmdsMatch, Suspended, OneCommandEach, IsSubscribe
<1>2. TypeOK /\ Placement /\ CmdsMatch /\ [Next]_vars => (Placement /\ CmdsMatch)'
  <2> SUFFICES ASSUME TypeOK, Placement, CmdsMatch, [Next]_vars
               PROVE  (Placement /\ CmdsMatch)'
    OBVIOUS
  <2>0. Typing
    BY Typed
  <2>1. ASSUME NEW i \in Instances, NEW u \in Users, NEW c \in Conns, StreamFirst(i, u, c)
        PROVE  (Placement /\ CmdsMatch)'
    <3>1. StreamFirstChange(i, u, c)
      BY <2>1, StreamFirstEffect
    <3>2. Placement'
      <4>1. \A j \in Instances, v \in Users : c \notin streams[j][v]
        BY <3>1 DEF StreamFirstChange, Placement
      <4>2. \A j \in Instances, v \in Users, d \in Conns :
              d \in streams'[j][v] => d \in streams[j][v] \/ (d = c /\ j = i /\ v = u)
        BY <3>1 DEF StreamFirstChange, EntryBecomes
      <4>3. pc'[c] # "idle" /\ \A d \in Conns : d # c => pc'[d] = pc[d]
        BY <3>1 DEF StreamFirstChange, PhaseBecomes
      <4>4. QED
        BY <4>1, <4>2, <4>3, PlacementKept
    <3>3. ASSUME NEW j \in Instances, NEW k \in 1..Len(cmds[j]), IsSubscribe(j, k)
          PROVE  /\ cmds[j][k].conn # c
                 /\ cmds[j][k].conn \in streams'[j][cmds[j][k].user]
                 /\ pc'[cmds[j][k].conn] = "subscribing"
      BY <2>0, <3>1, <3>3 DEF Typing, CmdsMatch, Suspended, StreamFirstChange, EntryBecomes, PhaseBecomes
    <3>4. ASSUME NEW k \in 1..Len(cmds'[i]), IsSubscribe(i, k)'
          PROVE  /\ Suspended(i, k)'
                 /\ \A l \in 1..Len(cmds'[i]) :
                      IsSubscribe(i, l)' /\ cmds'[i][k].conn = cmds'[i][l].conn => k = l
      <4>0. /\ Len(cmds[i]) \in Nat /\ Len(cmds'[i]) = Len(cmds[i]) + 1
            /\ cmds'[i][Len(cmds[i]) + 1] = SubscribeCmd(u, c)
            /\ \A l \in 1..Len(cmds[i]) : cmds'[i][l] = cmds[i][l]
        BY <2>0, <3>1 DEF Typing, StreamFirstChange, QueueGrows
      <4>1. CASE k = Len(cmds[i]) + 1
        <5>1. cmds'[i][k].conn = c /\ cmds'[i][k].user = u
          BY <4>0, <4>1 DEF SubscribeCmd
        <5>2. Suspended(i, k)'
          BY <3>1, <5>1 DEF Suspended, StreamFirstChange, EntryBecomes, PhaseBecomes
        <5>3. ASSUME NEW l \in 1..Len(cmds'[i]), IsSubscribe(i, l)', cmds'[i][l].conn = c
              PROVE  l = k
          BY <3>3, <4>0, <4>1, <5>3 DEF IsSubscribe
        <5>4. QED
          BY <5>1, <5>2, <5>3
      <4>2. CASE k \in 1..Len(cmds[i])
        <5>1. cmds'[i][k] = cmds[i][k] /\ IsSubscribe(i, k)
          BY <3>4, <4>0, <4>2 DEF IsSubscribe
        <5>2. Suspended(i, k)'
          BY <3>3, <4>2, <5>1 DEF Suspended
        <5>3. ASSUME NEW l \in 1..Len(cmds'[i]), IsSubscribe(i, l)', cmds'[i][k].conn = cmds'[i][l].conn
              PROVE  k = l
          <6>1. cmds[i][k].conn # c
            BY <3>3, <4>2, <5>1
          <6>2. l \in 1..Len(cmds[i])
            BY <4>0, <5>1, <5>3, <6>1 DEF SubscribeCmd
          <6>3. QED
            BY <4>0, <4>2, <5>1, <5>3, <6>2 DEF CmdsMatch, OneCommandEach, IsSubscribe
        <5>4. QED
          BY <5>2, <5>3
      <4>3. QED
        BY <4>0, <4>1, <4>2
    <3>5. ASSUME NEW j \in Instances, j # i
          PROVE  (/\ \A k \in 1..Len(cmds[j]) : IsSubscribe(j, k) => Suspended(j, k)
                  /\ OneCommandEach(j))'
      <4>1. cmds'[j] = cmds[j]
        BY <3>1, <3>5 DEF StreamFirstChange, QueueGrows
      <4>2. \A k \in 1..Len(cmds[j]) : IsSubscribe(j, k) => Suspended(j, k)'
        BY <3>3, <4>1 DEF Suspended
      <4>3. QED
        BY <4>1, <4>2 DEF CmdsMatch, OneCommandEach, IsSubscribe
    <3>6. CmdsMatch'
      BY <3>4, <3>5 DEF CmdsMatch, OneCommandEach
    <3>7. QED
      BY <3>2, <3>6
  <2>2. ASSUME NEW i \in Instances, NEW u \in Users, NEW c \in Conns, StreamAnother(i, u, c)
        PROVE  (Placement /\ CmdsMatch)'
    <3>1. StreamAnotherChange(i, u, c)
      BY <2>2, StreamAnotherEffect
    <3>2. Placement'
      <4>1. \A j \in Instances, v \in Users : c \notin streams[j][v]
        BY <3>1 DEF StreamAnotherChange, Placement
      <4>2. \A j \in Instances, v \in Users, d \in Conns :
              d \in streams'[j][v] => d \in streams[j][v] \/ (d = c /\ j = i /\ v = u)
        BY <3>1 DEF StreamAnotherChange, EntryBecomes
      <4>3. pc'[c] # "idle" /\ \A d \in Conns : d # c => pc'[d] = pc[d]
        BY <3>1 DEF StreamAnotherChange, PhaseBecomes
      <4>4. QED
        BY <4>1, <4>2, <4>3, PlacementKept
    <3>3. CmdsMatch'
      BY <2>0, <3>1
         DEF Typing, CmdsMatch, Suspended, OneCommandEach, IsSubscribe, PhaseBecomes, StreamAnotherChange, EntryBecomes
    <3>4. QED
      BY <3>2, <3>3
  <2>3. ASSUME NEW i \in Instances, NEW u \in Users, NEW c \in Conns, StreamContinue(i, u, c)
        PROVE  (Placement /\ CmdsMatch)'
    <3>1. StreamContinueChange(i, u, c)
      BY <2>3, StreamContinueEffect
    <3>2. Placement'
      BY <3>1 DEF PhaseBecomes, StreamContinueChange, Placement
    <3>3. CmdsMatch'
      BY <2>0, <3>1 DEF Typing, CmdsMatch, Suspended, OneCommandEach, IsSubscribe, PhaseBecomes, StreamContinueChange
    <3>4. QED
      BY <3>2, <3>3
  <2>4. ASSUME NEW i \in Instances, NEW u \in Users, NEW c \in Conns, StreamClose(i, u, c)
        PROVE  (Placement /\ CmdsMatch)'
    <3>1. StreamCloseChange(i, u, c)
      BY <2>4, StreamCloseEffect
    <3>2. Placement'
      <4>1. \A j \in Instances, v \in Users, d \in Conns :
              d \in streams'[j][v] => d \in streams[j][v] /\ d # c
        BY <3>1 DEF StreamCloseChange, EntryBecomes, Placement
      <4>2. \A d \in Conns : d # c => pc'[d] = pc[d]
        BY <3>1 DEF StreamCloseChange, PhaseBecomes
      <4>3. QED
        BY <4>1, <4>2 DEF Placement
    <3>3. ASSUME NEW j \in Instances, NEW k \in 1..Len(cmds[j]), IsSubscribe(j, k)
          PROVE  /\ cmds[j][k].conn \in streams'[j][cmds[j][k].user]
                 /\ pc'[cmds[j][k].conn] = "subscribing"
      BY <2>0, <3>1, <3>3 DEF Typing, CmdsMatch, Suspended, StreamCloseChange, EntryBecomes, PhaseBecomes
    <3>4. ASSUME NEW j \in Instances, NEW k \in 1..Len(cmds'[j]), IsSubscribe(j, k)'
          PROVE  k \in 1..Len(cmds[j]) /\ cmds'[j][k] = cmds[j][k] /\ IsSubscribe(j, k)
      <4>1. CASE cmds' = cmds
        BY <3>4, <4>1 DEF IsSubscribe
      <4>2. CASE QueueGrows(cmds, cmds', i, UnsubscribeCmd(u, c))
        BY <2>0, <3>4, <4>2 DEF Typing, IsSubscribe, QueueGrows, UnsubscribeCmd
      <4>3. QED
        BY <3>1, <4>1, <4>2 DEF StreamCloseChange
    <3>5. CmdsMatch'
      <4>1. \A j \in Instances : \A k \in 1..Len(cmds'[j]) : IsSubscribe(j, k)' => Suspended(j, k)'
        BY <3>3, <3>4 DEF Suspended
      <4>2. \A j \in Instances : OneCommandEach(j)'
        BY <3>4 DEF CmdsMatch, OneCommandEach
      <4>3. QED
        BY <4>1, <4>2 DEF CmdsMatch
    <3>6. QED
      BY <3>2, <3>5
  <2>5. ASSUME NEW i \in Instances, RedisExecutes(i) \/ SubscribeRejects(i)
        PROVE  (Placement /\ CmdsMatch)'
    <3>1. /\ QueueLosesHead(cmds, cmds', i)
          /\ streams' = streams
          /\ \/ ~IsSubscribe(i, 1) /\ pc' = pc
             \/ IsSubscribe(i, 1) /\ \E p \in {"subscribed", "failed"} : PhaseBecomes(cmds[i][1].conn, p)
      BY <2>5, CommandEffect DEF CommandChange, IsSubscribe
    <3>2. /\ 1 \in 1..Len(cmds[i])
          /\ cmds[i][1].conn \in Conns /\ cmds[i][1].user \in Users
      BY <2>0, <3>1 DEF Typing, QueueLosesHead
    <3>3. Placement'
      BY <3>1, <3>2 DEF Placement, PhaseBecomes
    <3>4. ASSUME NEW j \in Instances, NEW k \in 1..Len(cmds[j]), j # i \/ k # 1, IsSubscribe(j, k)
          PROVE  /\ cmds[j][k].conn \in streams[j][cmds[j][k].user]
                 /\ pc'[cmds[j][k].conn] = "subscribing"
      <4>1. Suspended(j, k) /\ (IsSubscribe(i, 1) => Suspended(i, 1))
        BY <3>2, <3>4 DEF CmdsMatch
      <4>2. IsSubscribe(i, 1) => cmds[j][k].conn # cmds[i][1].conn
        <5>1. CASE j = i
          BY <3>2, <3>4, <5>1 DEF CmdsMatch, OneCommandEach
        <5>2. CASE j # i
          BY <2>0, <3>2, <4>1, <5>2 DEF Typing, Suspended, Placement
        <5>3. QED
          BY <5>1, <5>2
      <4>3. QED
        BY <2>0, <3>1, <4>1, <4>2 DEF Typing, Suspended, PhaseBecomes
    <3>5. ASSUME NEW j \in Instances
          PROVE  (/\ \A k \in 1..Len(cmds[j]) : IsSubscribe(j, k) => Suspended(j, k)
                  /\ OneCommandEach(j))'
      <4>1. CASE j = i
        <5>1. \A k \in 1..Len(cmds'[i]) : k + 1 \in 1..Len(cmds[i]) /\ cmds'[i][k] = cmds[i][k + 1]
          BY <2>0, <3>1 DEF Typing, QueueLosesHead
        <5>2. \A k \in 1..Len(cmds'[i]) : IsSubscribe(i, k)' => Suspended(i, k)'
          BY <3>1, <3>4, <5>1 DEF IsSubscribe, Suspended
        <5>3. OneCommandEach(i)'
          <6> SUFFICES ASSUME NEW k \in 1..Len(cmds'[i]), NEW l \in 1..Len(cmds'[i]),
                              IsSubscribe(i, k)', IsSubscribe(i, l)',
                              cmds'[i][k].conn = cmds'[i][l].conn
                       PROVE  k = l
            BY DEF OneCommandEach
          <6>0. IsSubscribe(i, k + 1) /\ IsSubscribe(i, l + 1) /\ cmds[i][k + 1].conn = cmds[i][l + 1].conn
            BY <5>1 DEF IsSubscribe
          <6>1. k + 1 = l + 1
            BY <5>1, <6>0 DEF CmdsMatch, OneCommandEach
          <6>2. QED
            BY <6>1
        <5>4. QED
          BY <4>1, <5>2, <5>3
      <4>2. CASE j # i
        BY <3>1, <3>4, <4>2 DEF CmdsMatch, Suspended, OneCommandEach, IsSubscribe, QueueLosesHead
      <4>3. QED
        BY <4>1, <4>2
    <3>6. QED
      BY <3>3, <3>5 DEF CmdsMatch
  <2>6. ASSUME NEW i \in Instances, Restart(i)
        PROVE  (Placement /\ CmdsMatch)'
    <3>1. RestartChange(i)
      BY <2>6, RestartEffect
    <3>0. /\ \A v \in Users : streams'[i][v] = {}
          /\ \A j \in Instances, v \in Users : j # i => streams'[j][v] = streams[j][v]
          /\ Len(cmds'[i]) = 0
          /\ \A j \in Instances : j # i => cmds'[j] = cmds[j]
      BY <3>1 DEF RestartChange
    <3>2. \A j \in Instances, v \in Users, c \in Conns :
            j # i /\ c \in streams[j][v] => pc'[c] = pc[c]
      BY <3>1 DEF RestartChange, Placement, AtInstance
    <3>3. \A j \in Instances, v \in Users, c \in Conns :
            c \in streams'[j][v] => j # i /\ c \in streams[j][v]
      BY <3>0
    <3>4. Placement'
      BY <3>2, <3>3 DEF Placement
    <3>5. ASSUME NEW j \in Instances, NEW k \in 1..Len(cmds'[j])
          PROVE  j # i /\ cmds'[j] = cmds[j]
      BY <3>0, <3>5
    <3>6. ASSUME NEW j \in Instances, j # i, NEW k \in 1..Len(cmds[j]), Suspended(j, k)
          PROVE  Suspended(j, k)'
      BY <2>0, <3>0, <3>2, <3>6 DEF Typing, Suspended
    <3>7. CmdsMatch'
      BY <3>5, <3>6 DEF CmdsMatch, OneCommandEach, IsSubscribe
    <3>8. QED
      BY <3>4, <3>7
  <2>7. ASSUME NEW c \in Conns, CloseUnheard(c)
        PROVE  (Placement /\ CmdsMatch)'
    BY <2>7 DEF CloseUnheard, Placement, CmdsMatch, Suspended, OneCommandEach, IsSubscribe
  <2>8. CASE UNCHANGED vars
    BY <2>8 DEF vars, Placement, CmdsMatch, Suspended, OneCommandEach, IsSubscribe
  <2>9. QED
    BY <2>1, <2>2, <2>3, <2>4, <2>5, <2>6, <2>7, <2>8 DEF Next
<1>3. QED
  BY <1>1, <1>2, TypeCorrect, PTL DEF SafetySpec

-----------------------------------------------------------------------------
(* How an action changes the connections that are counted on to return     *)
(* their reference.                                                        *)
Joins(i, u, c)  == c \notin Open(i, u) /\ Open(i, u)' = Open(i, u) \cup {c}
Leaves(i, u, c) == c \in Open(i, u) /\ Open(i, u)' = Open(i, u) \ {c}
Kept(i, u) ==
  Open(i, u)' = Open(i, u) /\ Opening(i, u)' = Opening(i, u) /\ Heard(i, u)' = Heard(i, u)
OthersKept(i, u) ==
  \A j \in Instances, v \in Users : j # i \/ v # u => Kept(j, v)

LEMMA OpenFinite ==
  ASSUME Typing
  PROVE  \A i \in Instances, u \in Users :
           IsFiniteSet(Open(i, u)) /\ Cardinality(Open(i, u)) \in Nat
<1>1. \A i \in Instances, u \in Users : Open(i, u) \in SUBSET Conns
  BY DEF Typing, Open
<1>2. QED
  BY <1>1, FiniteConns, FS_Subset, FS_CardinalityType

(* A step that moves one connection, of one user on one instance, leaves   *)
(* the connections of all the others in place.                             *)
LEMMA OthersUnmoved ==
  ASSUME Typing, NEW i \in Instances, NEW u \in Users, NEW c \in Conns,
         \A j \in Instances, v \in Users : j # i \/ v # u =>
           streams'[j][v] = streams[j][v] /\ c \notin streams[j][v],
         \A d \in Conns : d # c => pc'[d] = pc[d]
  PROVE  OthersKept(i, u)
<1>1. ASSUME NEW j \in Instances, NEW v \in Users, j # i \/ v # u
      PROVE  streams'[j][v] = streams[j][v] /\ \A d \in streams[j][v] : pc'[d] = pc[d]
  BY <1>1 DEF Typing
<1>2. QED
  BY <1>1 DEF OthersKept, Kept, Open, Opening, Heard

LEMMA OpenChanges ==
  ASSUME TypeOK, Typing, Placement, CmdsMatch
  PROVE  /\ \A i \in Instances, u \in Users, c \in Conns :
              /\ StreamFirst(i, u, c) => OthersKept(i, u) /\ Open(i, u)' = Open(i, u)
              /\ StreamAnother(i, u, c) => OthersKept(i, u) /\ Joins(i, u, c)
              /\ StreamContinue(i, u, c) => OthersKept(i, u) /\ Joins(i, u, c)
              /\ StreamClose(i, u, c) => OthersKept(i, u) /\ Leaves(i, u, c)
         /\ \A i, j \in Instances, u \in Users :
              RedisExecutes(i) \/ SubscribeRejects(i) =>
                /\ Open(j, u)' = Open(j, u)
                /\ j # i \/ u # cmds[i][1].user \/ cmds[i][1].op = "UNSUBSCRIBE" => Kept(j, u)
         /\ \A i, j \in Instances, u \in Users :
              Restart(i) => IF j = i THEN Open(j, u)' = {} ELSE Kept(j, u)
<1>1. ASSUME NEW i \in Instances, NEW u \in Users, NEW c \in Conns, StreamFirst(i, u, c)
      PROVE  OthersKept(i, u) /\ Open(i, u)' = Open(i, u)
  <2>1. StreamFirstChange(i, u, c)
    BY <1>1, StreamFirstEffect
  <2>2. \A j \in Instances, v \in Users : c \notin streams[j][v]
    BY <2>1 DEF Placement, StreamFirstChange
  <2>3. OthersKept(i, u)
    BY <2>1, <2>2, OthersUnmoved DEF StreamFirstChange, EntryBecomes, PhaseBecomes
  <2>4. Open(i, u)' = Open(i, u)
    BY <2>1, <2>2 DEF Typing, StreamFirstChange, Open, EntryBecomes, PhaseBecomes
  <2>5. QED
    BY <2>3, <2>4
<1>2. ASSUME NEW i \in Instances, NEW u \in Users, NEW c \in Conns, StreamAnother(i, u, c)
      PROVE  OthersKept(i, u) /\ Joins(i, u, c)
  <2>1. StreamAnotherChange(i, u, c)
    BY <1>2, StreamAnotherEffect
  <2>2. \A j \in Instances, v \in Users : c \notin streams[j][v]
    BY <2>1 DEF Placement, StreamAnotherChange
  <2>3. OthersKept(i, u)
    BY <2>1, <2>2, OthersUnmoved DEF StreamAnotherChange, EntryBecomes, PhaseBecomes
  <2>4. Joins(i, u, c)
    BY <2>1, <2>2 DEF Typing, StreamAnotherChange, Joins, Open, EntryBecomes, PhaseBecomes
  <2>5. QED
    BY <2>3, <2>4
<1>3. ASSUME NEW i \in Instances, NEW u \in Users, NEW c \in Conns, StreamContinue(i, u, c)
      PROVE  OthersKept(i, u) /\ Joins(i, u, c)
  <2>1. StreamContinueChange(i, u, c)
    BY <1>3, StreamContinueEffect
  <2>2. \A j \in Instances, v \in Users : j # i \/ v # u => c \notin streams[j][v]
    BY <2>1 DEF Placement, StreamContinueChange
  <2>3. OthersKept(i, u)
    BY <2>1, <2>2, OthersUnmoved DEF StreamContinueChange, PhaseBecomes
  <2>4. Joins(i, u, c)
    BY <2>1, <2>2 DEF Typing, StreamContinueChange, Joins, Open, PhaseBecomes
  <2>5. QED
    BY <2>3, <2>4
<1>4. ASSUME NEW i \in Instances, NEW u \in Users, NEW c \in Conns, StreamClose(i, u, c)
      PROVE  OthersKept(i, u) /\ Leaves(i, u, c)
  <2>1. StreamCloseChange(i, u, c)
    BY <1>4, StreamCloseEffect
  <2>2. \A j \in Instances, v \in Users : j # i \/ v # u => c \notin streams[j][v]
    BY <2>1 DEF Placement, StreamCloseChange
  <2>3. OthersKept(i, u)
    BY <2>1, <2>2, OthersUnmoved DEF StreamCloseChange, EntryBecomes, PhaseBecomes
  <2>4. Leaves(i, u, c)
    BY <2>1, <2>2 DEF Typing, StreamCloseChange, Leaves, Open, EntryBecomes, PhaseBecomes
  <2>5. QED
    BY <2>3, <2>4
<1>5. ASSUME NEW i \in Instances, RedisExecutes(i) \/ SubscribeRejects(i),
             NEW j \in Instances, NEW u \in Users
      PROVE  /\ Open(j, u)' = Open(j, u)
             /\ j # i \/ u # cmds[i][1].user \/ cmds[i][1].op = "UNSUBSCRIBE" => Kept(j, u)
  <2>1. CommandChange(i)
    BY <1>5, CommandEffect
  <2>2. 1 \in 1..Len(cmds[i])
    BY <2>1 DEF CommandChange, QueueLosesHead, Typing
  <2>3. cmds[i][1].op = "SUBSCRIBE" => cmds[i][1].conn \in Conns /\ pc[cmds[i][1].conn] = "subscribing"
    BY <2>2 DEF Typing, CmdsMatch, Suspended, IsSubscribe
  <2>4. \A c \in Conns : pc'[c] = "open" <=> pc[c] = "open"
    BY <2>1, <2>3 DEF CommandChange, PhaseBecomes
  <2>5. Open(j, u)' = Open(j, u)
    BY <2>1, <2>4 DEF Typing, CommandChange, Open
  <2>6. ASSUME j # i \/ u # cmds[i][1].user, cmds[i][1].op = "SUBSCRIBE"
        PROVE  Kept(j, u)
    <3>1. cmds[i][1].conn \notin streams[j][u]
      BY <2>2, <2>6 DEF Typing, Placement, CmdsMatch, Suspended, IsSubscribe
    <3>2. streams'[j][u] = streams[j][u] /\ \A c \in streams[j][u] : pc'[c] = pc[c]
      BY <2>1, <2>6, <3>1 DEF Typing, CommandChange, PhaseBecomes
    <3>3. QED
      BY <3>2 DEF Kept, Open, Opening, Heard
  <2>7. ASSUME cmds[i][1].op = "UNSUBSCRIBE"
        PROVE  Kept(j, u)
    BY <2>1, <2>7 DEF CommandChange, Kept, Open, Opening, Heard
  <2>8. cmds[i][1].op \in {"SUBSCRIBE", "UNSUBSCRIBE"}
    BY <2>2 DEF Typing
  <2>9. QED
    BY <2>5, <2>6, <2>7, <2>8
<1>6. ASSUME NEW i \in Instances, Restart(i), NEW j \in Instances, NEW u \in Users
      PROVE  IF j = i THEN Open(j, u)' = {} ELSE Kept(j, u)
  <2>1. RestartChange(i)
    BY <1>6, RestartEffect
  <2>2. CASE j = i
    BY <2>1, <2>2 DEF RestartChange, Open
  <2>3. CASE j # i
    <3>1. \A c \in streams[j][u] : c \in Conns /\ c \notin AtInstance(i)
      BY <2>3 DEF Typing, Placement, AtInstance
    <3>2. streams'[j][u] = streams[j][u] /\ \A c \in streams[j][u] : pc'[c] = pc[c]
      BY <2>1, <2>3, <3>1 DEF RestartChange
    <3>3. QED
      BY <2>3, <3>2 DEF Kept, Open, Opening, Heard
  <2>4. QED
    BY <2>2, <2>3
<1>7. QED
  BY <1>1, <1>2, <1>3, <1>4, <1>5, <1>6

(* No close can take the count below the connections left: the last one to *)
(* close always finds a count of at most 1 and sends UNSUBSCRIBE.          *)
THEOREM RefsAlwaysBounded == SafetySpec => []RefsBounded
<1>1. Init => RefsBounded
  BY FS_EmptySet DEF Init, RefsBounded, Open
<1>2. TypeOK /\ Placement /\ CmdsMatch /\ RefsBounded /\ [Next]_vars => RefsBounded'
  <2> SUFFICES ASSUME TypeOK, Placement, CmdsMatch, RefsBounded, [Next]_vars
               PROVE  RefsBounded'
    OBVIOUS
  <2>0. Typing
    BY Typed
  <2>1. \A j \in Instances, v \in Users :
          /\ IsFiniteSet(Open(j, v)) /\ Cardinality(Open(j, v)) \in Nat
          /\ refs[j][v] \in Nat /\ refs[j][v] <= Cardinality(Open(j, v))
    BY <2>0, OpenFinite DEF Typing, RefsBounded
  <2>2. ASSUME NEW i \in Instances, NEW u \in Users, NEW c \in Conns, StreamFirst(i, u, c)
        PROVE  RefsBounded'
    <3>1. StreamFirstChange(i, u, c) /\ OthersKept(i, u) /\ Open(i, u)' = Open(i, u)
      BY <2>0, <2>2, StreamFirstEffect, OpenChanges
    <3>2. QED
      BY <2>1, <3>1 DEF RefsBounded, StreamFirstChange, OthersKept, Kept
  <2>3. ASSUME NEW i \in Instances, NEW u \in Users, NEW c \in Conns, StreamAnother(i, u, c)
        PROVE  RefsBounded'
    <3>1. StreamAnotherChange(i, u, c) /\ OthersKept(i, u) /\ Joins(i, u, c)
      BY <2>0, <2>3, StreamAnotherEffect, OpenChanges
    <3>2. Cardinality(Open(i, u)') = Cardinality(Open(i, u)) + 1
      BY <2>1, <3>1, FS_AddElement DEF Joins
    <3>3. QED
      BY <2>1, <3>1, <3>2 DEF RefsBounded, StreamAnotherChange, EntryBecomes, OthersKept, Kept
  <2>4. ASSUME NEW i \in Instances, NEW u \in Users, NEW c \in Conns, StreamContinue(i, u, c)
        PROVE  RefsBounded'
    <3>1. StreamContinueChange(i, u, c) /\ OthersKept(i, u) /\ Joins(i, u, c)
      BY <2>0, <2>4, StreamContinueEffect, OpenChanges
    <3>2. Cardinality(Open(i, u)') = Cardinality(Open(i, u)) + 1
      BY <2>1, <3>1, FS_AddElement DEF Joins
    <3>3. QED
      BY <2>1, <3>1, <3>2 DEF RefsBounded, StreamContinueChange, EntryBecomes, OthersKept, Kept
  <2>5. ASSUME NEW i \in Instances, NEW u \in Users, NEW c \in Conns, StreamClose(i, u, c)
        PROVE  RefsBounded'
    <3>1. StreamCloseChange(i, u, c) /\ OthersKept(i, u) /\ Leaves(i, u, c)
      BY <2>0, <2>5, StreamCloseEffect, OpenChanges
    <3>2. Cardinality(Open(i, u)') = Cardinality(Open(i, u)) - 1 /\ Cardinality(Open(i, u)') \in Nat
      BY <2>1, <3>1, FS_RemoveElement, FS_CardinalityType DEF Leaves
    <3>3. refs'[i][u] <= Cardinality(Open(i, u)')
      BY <2>1, <3>1, <3>2 DEF StreamCloseChange, EntryBecomes
    <3>4. QED
      BY <2>1, <3>1, <3>3 DEF RefsBounded, StreamCloseChange, EntryBecomes, OthersKept, Kept
  <2>6. ASSUME NEW i \in Instances, RedisExecutes(i) \/ SubscribeRejects(i)
        PROVE  RefsBounded'
    <3>1. CommandChange(i) /\ \A j \in Instances, u \in Users : Open(j, u)' = Open(j, u)
      BY <2>0, <2>6, CommandEffect, OpenChanges
    <3>2. QED
      BY <2>1, <3>1 DEF RefsBounded, CommandChange
  <2>7. ASSUME NEW i \in Instances, Restart(i)
        PROVE  RefsBounded'
    <3>1. RestartChange(i)
      BY <2>7, RestartEffect
    <3>2. \A j \in Instances, u \in Users : IF j = i THEN Open(j, u)' = {} ELSE Kept(j, u)
      BY <2>0, <2>7, OpenChanges
    <3>3. ASSUME NEW j \in Instances, NEW u \in Users
          PROVE  refs'[j][u] <= Cardinality(Open(j, u)')
      <4>1. CASE j = i
        <5>1. Open(j, u)' = {} /\ refs'[j][u] = 0
          BY <3>1, <3>2, <4>1 DEF RestartChange
        <5>2. QED
          BY <5>1, FS_EmptySet
      <4>2. CASE j # i
        BY <2>1, <3>1, <3>2, <4>2 DEF RestartChange, Kept
      <4>3. QED
        BY <4>1, <4>2
    <3>4. QED
      BY <3>3 DEF RefsBounded
  <2>8. CASE UNCHANGED vars \/ \E c \in Conns : CloseUnheard(c)
    BY <2>8 DEF vars, CloseUnheard, RefsBounded, Open
  <2>9. QED
    BY <2>2, <2>3, <2>4, <2>5, <2>6, <2>7, <2>8 DEF Next
<1>3. QED
  BY <1>1, <1>2, TypeCorrect, PlacementInvariant, PTL DEF SafetySpec

(* What the two changes of a queue do to a pending command.                *)
LEMMA PendingKept ==
  ASSUME Typing, NEW i \in Instances, NEW j \in Instances, NEW v \in Users, NEW cmd \in Command
  PROVE  /\ QueueGrows(cmds, cmds', i, cmd) /\ Pending(j, "UNSUBSCRIBE", v) =>
              Pending(j, "UNSUBSCRIBE", v)'
         /\ QueueGrows(cmds, cmds', i, UnsubscribeCmd(v, cmd.conn)) => Pending(i, "UNSUBSCRIBE", v)'
         /\ QueueLosesHead(cmds, cmds', i) /\ Pending(j, "UNSUBSCRIBE", v) =>
              \/ Pending(j, "UNSUBSCRIBE", v)'
              \/ j = i /\ cmds[i][1].op = "UNSUBSCRIBE" /\ cmds[i][1].user = v
<1>1. Len(cmds[i]) \in Nat
  BY DEF Typing
<1>2. ASSUME QueueGrows(cmds, cmds', i, cmd), Pending(j, "UNSUBSCRIBE", v)
      PROVE  Pending(j, "UNSUBSCRIBE", v)'
  BY <1>1, <1>2 DEF Pending, QueueGrows
<1>3. ASSUME QueueGrows(cmds, cmds', i, UnsubscribeCmd(v, cmd.conn))
      PROVE  Pending(i, "UNSUBSCRIBE", v)'
  <2>1. LET k == Len(cmds[i]) + 1 IN
          /\ k \in 1..Len(cmds'[i]) /\ cmds'[i][k].op = "UNSUBSCRIBE" /\ cmds'[i][k].user = v
    BY <1>1, <1>3 DEF QueueGrows, UnsubscribeCmd
  <2>2. QED
    BY <2>1 DEF Pending
<1>4. ASSUME QueueLosesHead(cmds, cmds', i), Pending(j, "UNSUBSCRIBE", v),
             ~(j = i /\ cmds[i][1].op = "UNSUBSCRIBE" /\ cmds[i][1].user = v)
      PROVE  Pending(j, "UNSUBSCRIBE", v)'
  <2>1. CASE j = i
    <3>1. PICK k \in 1..Len(cmds[i]) : cmds[i][k].op = "UNSUBSCRIBE" /\ cmds[i][k].user = v
      BY <1>4, <2>1 DEF Pending
    <3>2. k # 1
      BY <1>4, <2>1, <3>1
    <3>3. k - 1 \in 1..Len(cmds'[i]) /\ cmds'[i][k - 1] = cmds[i][(k - 1) + 1]
      BY <1>1, <1>4, <3>2 DEF QueueLosesHead
    <3>4. cmds'[i][k - 1] = cmds[i][k]
      BY <3>3
    <3>5. QED
      BY <2>1, <3>1, <3>3, <3>4 DEF Pending
  <2>2. CASE j # i
    BY <1>4, <2>2 DEF QueueLosesHead, Pending
  <2>3. QED
    BY <2>1, <2>2
<1>5. QED
  BY <1>2, <1>3, <1>4

(* An instance subscribed to the channel of a user it has no answered      *)
(* connection of has already sent the UNSUBSCRIBE.                         *)
LEMMA ReleasedInvariant == SafetySpec => []Released
<1>1. Init => Released
  BY DEF Init, Released
<1>2. TypeOK /\ Placement /\ CmdsMatch /\ RefsBounded /\ Released /\ [Next]_vars => Released'
  <2> SUFFICES ASSUME TypeOK, Placement, CmdsMatch, RefsBounded, Released, [Next]_vars
               PROVE  Released'
    OBVIOUS
  <2>0. Typing
    BY Typed
  <2>1. ASSUME NEW i \in Instances, NEW u \in Users, NEW c \in Conns, StreamFirst(i, u, c)
        PROVE  Released'
    <3>1. StreamFirstChange(i, u, c)
      BY <2>1, StreamFirstEffect
    <3>2. \A j \in Instances, v \in Users : Heard(j, v) \subseteq Heard(j, v)'
      BY <2>0, <3>1 DEF Typing, StreamFirstChange, EntryBecomes, PhaseBecomes, Heard
    <3>3. SubscribeCmd(u, c) \in Command
      BY DEF SubscribeCmd, Command
    <3>4. \A j \in Instances, v \in Users : Pending(j, "UNSUBSCRIBE", v) => Pending(j, "UNSUBSCRIBE", v)'
      BY <2>0, <3>1, <3>3, PendingKept DEF StreamFirstChange
    <3>5. QED
      BY <3>1, <3>2, <3>4 DEF Released, StreamFirstChange
  <2>2. ASSUME NEW i \in Instances, NEW u \in Users, NEW c \in Conns,
               StreamAnother(i, u, c) \/ StreamContinue(i, u, c)
        PROVE  Released'
    <3>1. StreamAnotherChange(i, u, c) \/ StreamContinueChange(i, u, c)
      BY <2>2, StreamAnotherEffect, StreamContinueEffect
    <3>2. \A j \in Instances, v \in Users : Heard(j, v) \subseteq Heard(j, v)'
      <4>1. \A j \in Instances, v \in Users : streams[j][v] \subseteq streams'[j][v]
        BY <3>1 DEF StreamAnotherChange, StreamContinueChange, EntryBecomes
      <4>2. pc'[c] = "open" /\ \A d \in Conns : d # c => pc'[d] = pc[d]
        BY <3>1 DEF StreamAnotherChange, StreamContinueChange, PhaseBecomes
      <4>3. QED
        BY <2>0, <4>1, <4>2 DEF Typing, Heard
    <3>3. subs' = subs /\ cmds' = cmds
      BY <3>1 DEF StreamAnotherChange, StreamContinueChange
    <3>4. QED
      BY <3>2, <3>3 DEF Released, Pending
  <2>3. ASSUME NEW i \in Instances, NEW u \in Users, NEW c \in Conns, StreamClose(i, u, c)
        PROVE  Released'
    <3>1. StreamCloseChange(i, u, c) /\ OthersKept(i, u) /\ Leaves(i, u, c)
      BY <2>0, <2>3, StreamCloseEffect, OpenChanges
    <3>2. UnsubscribeCmd(u, c) \in Command /\ UnsubscribeCmd(u, c).conn = c
      BY DEF UnsubscribeCmd, Command
    <3>3. \A j \in Instances, v \in Users : Pending(j, "UNSUBSCRIBE", v) => Pending(j, "UNSUBSCRIBE", v)'
      <4>1. CASE UNCHANGED cmds
        BY <4>1 DEF Pending
      <4>2. CASE QueueGrows(cmds, cmds', i, UnsubscribeCmd(u, c))
        BY <2>0, <3>2, <4>2, PendingKept
      <4>3. QED
        BY <3>1, <4>1, <4>2 DEF StreamCloseChange
    <3>4. Heard(i, u)' = {} => Pending(i, "UNSUBSCRIBE", u)'
      <4>1. SUFFICES ASSUME Heard(i, u)' = {}
                     PROVE  Pending(i, "UNSUBSCRIBE", u)'
        OBVIOUS
      <4>2. Open(i, u)' = {}
        BY <4>1 DEF Open, Heard
      <4>3. Open(i, u) = {c}
        BY <3>1, <4>2 DEF Leaves
      <4>4. refs[i][u] <= 1
        BY <4>3, FS_Singleton DEF RefsBounded
      <4>5. QueueGrows(cmds, cmds', i, UnsubscribeCmd(u, c))
        BY <2>0, <3>1, <4>4 DEF StreamCloseChange, Typing
      <4>6. QED
        BY <2>0, <3>2, <4>5, PendingKept
    <3>5. QED
      BY <3>1, <3>3, <3>4 DEF Released, StreamCloseChange, OthersKept, Kept
  <2>4. ASSUME NEW i \in Instances, RedisExecutes(i) \/ SubscribeRejects(i)
        PROVE  Released'
    <3>1. CommandChange(i) /\ QueueLosesHead(cmds, cmds', i)
      BY <2>4, CommandEffect DEF CommandChange
    <3>2. 1 \in 1..Len(cmds[i]) /\ cmds[i][1].user \in Users
      BY <2>0, <3>1 DEF QueueLosesHead, Typing
    <3>3. \A j \in Instances, v \in Users : Pending(j, "UNSUBSCRIBE", v) =>
            \/ Pending(j, "UNSUBSCRIBE", v)'
            \/ j = i /\ cmds[i][1].op = "UNSUBSCRIBE" /\ cmds[i][1].user = v
      <4>1. cmds[i] # <<>> /\ cmds[i][1] \in Command
        BY <3>1, <3>2, ElementOfSeq DEF CommandChange, TypeOK
      <4>2. QED
        BY <2>0, <3>1, <4>1, PendingKept
    <3>4. cmds[i][1].op = "SUBSCRIBE" =>
            /\ cmds[i][1].conn \in Conns /\ pc[cmds[i][1].conn] = "subscribing"
            /\ cmds[i][1].conn \in streams[i][cmds[i][1].user]
      BY <2>0, <3>2 DEF Typing, CmdsMatch, Suspended, IsSubscribe
    <3>5. \A j \in Instances, v \in Users : Heard(j, v) \subseteq Heard(j, v)'
      BY <2>0, <3>1, <3>4 DEF Typing, CommandChange, PhaseBecomes, Heard
    <3>6. ASSUME NEW j \in Instances, NEW v \in Users, Heard(j, v)' = {}, v \in subs'[j]
          PROVE  Pending(j, "UNSUBSCRIBE", v)'
      <4>1. Heard(j, v) = {}
        BY <3>5, <3>6
      <4>2. v \in subs[j] /\ ~(j = i /\ cmds[i][1].op = "UNSUBSCRIBE" /\ cmds[i][1].user = v)
        <5>1. CASE /\ cmds[i][1].op = "SUBSCRIBE"
                   /\ SubsBecome(i, subs[i] \cup {cmds[i][1].user})
                   /\ PhaseBecomes(cmds[i][1].conn, "subscribed")
          <6>1. PICK w \in Users, d \in Conns : w = cmds[i][1].user /\ d = cmds[i][1].conn
            BY <3>2, <3>4, <5>1
          <6>2. d \in Heard(i, w)'
            BY <3>1, <3>4, <5>1, <6>1 DEF CommandChange, PhaseBecomes, Heard
          <6>3. ~(j = i /\ v = cmds[i][1].user)
            BY <3>6, <6>1, <6>2
          <6>4. CASE j = i
            BY <3>6, <5>1, <6>3, <6>4 DEF SubsBecome
          <6>5. CASE j # i
            BY <3>6, <5>1, <6>5 DEF SubsBecome
          <6>6. QED
            BY <6>4, <6>5
        <5>2. CASE cmds[i][1].op = "UNSUBSCRIBE" /\ SubsBecome(i, subs[i] \ {cmds[i][1].user})
          BY <3>6, <5>2 DEF SubsBecome
        <5>3. CASE cmds[i][1].op = "SUBSCRIBE" /\ UNCHANGED subs
          BY <3>6, <5>3
        <5>4. QED
          BY <3>1, <5>1, <5>2, <5>3 DEF CommandChange
      <4>3. QED
        BY <3>3, <4>1, <4>2 DEF Released
    <3>7. QED
      BY <3>6 DEF Released
  <2>5. ASSUME NEW i \in Instances, Restart(i)
        PROVE  Released'
    <3>1. /\ RestartChange(i)
          /\ \A j \in Instances, u \in Users : IF j = i THEN Open(j, u)' = {} ELSE Kept(j, u)
      BY <2>0, <2>5, RestartEffect, OpenChanges
    <3>2. ASSUME NEW j \in Instances, NEW v \in Users, Heard(j, v)' = {}, v \in subs'[j]
          PROVE  Pending(j, "UNSUBSCRIBE", v)'
      <4>1. j # i
        BY <3>1, <3>2 DEF RestartChange
      <4>2. Heard(j, v) = {} /\ v \in subs[j] /\ cmds'[j] = cmds[j]
        BY <3>1, <3>2, <4>1 DEF RestartChange, Kept
      <4>3. QED
        BY <4>2 DEF Released, Pending
    <3>3. QED
      BY <3>2 DEF Released
  <2>6. CASE UNCHANGED vars \/ \E c \in Conns : CloseUnheard(c)
    BY <2>6 DEF vars, CloseUnheard, Released, Heard, Pending
  <2>7. QED
    BY <2>1, <2>2, <2>3, <2>4, <2>5, <2>6 DEF Next
<1>3. QED
  BY <1>1, <1>2, TypeCorrect, PlacementInvariant, RefsAlwaysBounded, PTL DEF SafetySpec

(* An instance without streams of a user, once its commands are answered,  *)
(* is not subscribed to the user's channel.                                *)
THEOREM NoChannelLeaks == SafetySpec => []NoChannelLeak
<1>1. Released => NoChannelLeak
  BY DEF Released, NoChannelLeak, Heard, Pending
<1>2. QED
  BY <1>1, ReleasedInvariant, PTL

-----------------------------------------------------------------------------
(* Exactness.  As long as two first connections have not overlapped, there *)
(* is at most one connection opening and then none open; its SUBSCRIBE has *)
(* been sent after every UNSUBSCRIBE; and once Redis has answered it, the  *)
(* channel stays subscribed until the last connection closes.              *)
IsUnsubscribe(i, k, u) == cmds[i][k].op = "UNSUBSCRIBE" /\ cmds[i][k].user = u

Asked(i, u, c) ==
  \E k \in 1..Len(cmds[i]) :
    /\ IsSubscribe(i, k) /\ cmds[i][k].conn = c
    /\ \A l \in 1..Len(cmds[i]) : l > k => ~IsUnsubscribe(i, l, u)

Exact(i, u) ==
  ~overlap[i][u] =>
    /\ refs[i][u] = Cardinality(Open(i, u))
    /\ \A c, d \in Opening(i, u) : c = d
    /\ Opening(i, u) # {} => Open(i, u) = {}
    /\ Heard(i, u) # {} => u \in subs[i] /\ ~Pending(i, "UNSUBSCRIBE", u)
    /\ \A c \in Opening(i, u) \ Heard(i, u) : Asked(i, u, c)

(* What a change of a queue leaves true of another user's commands.        *)
AskedKept(j, v) ==
  /\ Pending(j, "UNSUBSCRIBE", v)' => Pending(j, "UNSUBSCRIBE", v)
  /\ \A d \in Conns : Asked(j, v, d) => Asked(j, v, d)'

LEMMA AskedGrows ==
  ASSUME Typing, NEW i \in Instances, NEW cmd \in Command, QueueGrows(cmds, cmds', i, cmd),
         NEW j \in Instances, NEW v \in Users, j # i \/ cmd.op # "UNSUBSCRIBE" \/ cmd.user # v
  PROVE  AskedKept(j, v)
<1>1. CASE j # i
  BY <1>1 DEF QueueGrows, AskedKept, Pending, Asked, IsSubscribe, IsUnsubscribe
<1>2. CASE j = i
  <2>1. /\ Len(cmds[i]) \in Nat /\ Len(cmds'[i]) = Len(cmds[i]) + 1
        /\ \A k \in 1..Len(cmds[i]) : cmds'[i][k] = cmds[i][k]
        /\ cmds'[i][Len(cmds[i]) + 1] = cmd
    BY DEF Typing, QueueGrows
  <2>2. \A l \in 1..Len(cmds'[i]) : IsUnsubscribe(i, l, v)' => l \in 1..Len(cmds[i]) /\ IsUnsubscribe(i, l, v)
    BY <1>2, <2>1 DEF IsUnsubscribe
  <2>3. Pending(i, "UNSUBSCRIBE", v)' => Pending(i, "UNSUBSCRIBE", v)
    BY <2>2 DEF Pending, IsUnsubscribe
  <2>4. ASSUME NEW d \in Conns, Asked(i, v, d)
        PROVE  Asked(i, v, d)'
    <3>1. PICK k \in 1..Len(cmds[i]) :
            /\ IsSubscribe(i, k) /\ cmds[i][k].conn = d
            /\ \A l \in 1..Len(cmds[i]) : l > k => ~IsUnsubscribe(i, l, v)
      BY <2>4 DEF Asked
    <3>2. k \in 1..Len(cmds'[i]) /\ IsSubscribe(i, k)' /\ cmds'[i][k].conn = d
      BY <2>1, <3>1 DEF IsSubscribe
    <3>3. \A l \in 1..Len(cmds'[i]) : l > k => ~IsUnsubscribe(i, l, v)'
      BY <2>2, <3>1
    <3>4. QED
      BY <3>2, <3>3 DEF Asked
  <2>5. QED
    BY <1>2, <2>3, <2>4 DEF AskedKept
<1>3. QED
  BY <1>1, <1>2

LEMMA AskedPops ==
  ASSUME Typing, NEW i \in Instances, QueueLosesHead(cmds, cmds', i),
         NEW j \in Instances, NEW v \in Users
  PROVE  /\ Pending(j, "UNSUBSCRIBE", v)' => Pending(j, "UNSUBSCRIBE", v)
         /\ \A d \in Conns : Asked(j, v, d) =>
              Asked(j, v, d)' \/ (j = i /\ IsSubscribe(i, 1) /\ cmds[i][1].conn = d)
<1>1. CASE j # i
  BY <1>1 DEF QueueLosesHead, Pending, Asked, IsSubscribe, IsUnsubscribe
<1>2. CASE j = i
  <2>1. /\ Len(cmds[i]) \in Nat /\ Len(cmds[i]) > 0 /\ Len(cmds'[i]) = Len(cmds[i]) - 1
        /\ \A k \in 1..Len(cmds'[i]) : cmds'[i][k] = cmds[i][k + 1]
    BY DEF Typing, QueueLosesHead
  <2>2. ASSUME NEW l \in 1..Len(cmds'[i]), IsUnsubscribe(i, l, v)'
        PROVE  l + 1 \in 1..Len(cmds[i]) /\ IsUnsubscribe(i, l + 1, v)
    BY <2>1, <2>2 DEF IsUnsubscribe
  <2>3. ASSUME Pending(i, "UNSUBSCRIBE", v)'
        PROVE  Pending(i, "UNSUBSCRIBE", v)
    <3>1. PICK l \in 1..Len(cmds'[i]) : IsUnsubscribe(i, l, v)'
      BY <2>3 DEF Pending, IsUnsubscribe
    <3>2. l + 1 \in 1..Len(cmds[i]) /\ IsUnsubscribe(i, l + 1, v)
      BY <2>2, <3>1
    <3>3. QED
      BY <3>2 DEF Pending, IsUnsubscribe
  <2>4. ASSUME NEW d \in Conns, Asked(i, v, d), ~(IsSubscribe(i, 1) /\ cmds[i][1].conn = d)
        PROVE  Asked(i, v, d)'
    <3>1. PICK k \in 1..Len(cmds[i]) :
            /\ IsSubscribe(i, k) /\ cmds[i][k].conn = d
            /\ \A l \in 1..Len(cmds[i]) : l > k => ~IsUnsubscribe(i, l, v)
      BY <2>4 DEF Asked
    <3>2. PICK m \in 1..Len(cmds'[i]) : k = m + 1
      <4>1. k # 1
        BY <2>4, <3>1
      <4>2. k - 1 \in 1..Len(cmds'[i]) /\ k = (k - 1) + 1
        BY <2>1, <4>1
      <4>3. QED
        BY <4>2
    <3>3. IsSubscribe(i, m)' /\ cmds'[i][m].conn = d
      BY <2>1, <3>1, <3>2 DEF IsSubscribe
    <3>4. ASSUME NEW l \in 1..Len(cmds'[i]), l > m, IsUnsubscribe(i, l, v)'
          PROVE  FALSE
      <4>1. l + 1 \in 1..Len(cmds[i]) /\ IsUnsubscribe(i, l + 1, v)
        BY <2>2, <3>4
      <4>2. l + 1 > k
        BY <3>2, <3>4
      <4>3. QED
        BY <3>1, <4>1, <4>2
    <3>5. QED
      BY <3>3, <3>4 DEF Asked
  <2>5. QED
    BY <1>2, <2>3, <2>4
<1>3. QED
  BY <1>1, <1>2

(* A step that moves no connection of a user on an instance keeps it exact. *)
LEMMA ExactKept ==
  ASSUME NEW j \in Instances, NEW v \in Users, Typing, Exact(j, v), Kept(j, v), AskedKept(j, v),
         refs'[j][v] = refs[j][v], overlap'[j][v] <=> overlap[j][v],
         v \in subs[j] => v \in subs'[j] \/ Pending(j, "UNSUBSCRIBE", v)
  PROVE  Exact(j, v)'
<1>1. \A d \in Opening(j, v) : d \in Conns
  BY DEF Typing, Opening
<1>2. QED
  BY <1>1 DEF Exact, Kept, AskedKept

(* The four stretches of a stream's handler, for the user of the stream.   *)
LEMMA ExactFirst ==
  ASSUME TypeOK, Placement, CmdsMatch, NEW i \in Instances, NEW u \in Users, NEW c \in Conns,
         Exact(i, u), StreamFirst(i, u, c)
  PROVE  Exact(i, u)'
<1> SUFFICES ASSUME ~overlap'[i][u] PROVE Exact(i, u)'
  BY DEF Exact
<1>1. Typing /\ StreamFirstChange(i, u, c) /\ Open(i, u)' = Open(i, u)
  BY Typed, StreamFirstEffect, OpenChanges
<1>2. c \notin streams[i][u] /\ streams'[i][u] = streams[i][u] \cup {c}
  BY <1>1 DEF Placement, StreamFirstChange, EntryBecomes
<1>3. Opening(i, u)' = Opening(i, u) \cup {c} /\ Heard(i, u)' = Heard(i, u)
  BY <1>1, <1>2 DEF Typing, StreamFirstChange, PhaseBecomes, Opening, Heard
<1>4. ~overlap[i][u] /\ Opening(i, u) = {} /\ refs[i][u] = 0 /\ refs'[i][u] = 0
  BY <1>1 DEF StreamFirstChange
<1>5. Cardinality(Open(i, u)) = 0
  BY <1>4 DEF Exact
<1>6. Open(i, u) = {}
  BY <1>1, <1>5, OpenFinite, FS_EmptySet
<1>7. Heard(i, u) = {}
  BY <1>4, <1>6 DEF Open, Opening, Heard
<1>8. Asked(i, u, c)'
  <2>1. PICK k \in 1..Len(cmds'[i]) : k = Len(cmds'[i]) /\ cmds'[i][k] = SubscribeCmd(u, c)
    BY <1>1 DEF Typing, StreamFirstChange, QueueGrows
  <2>2. IsSubscribe(i, k)' /\ cmds'[i][k].conn = c
    BY <2>1 DEF IsSubscribe, SubscribeCmd
  <2>3. \A l \in 1..Len(cmds'[i]) : ~(l > k)
    BY <2>1
  <2>4. QED
    BY <2>2, <2>3 DEF Asked
<1>9. QED
  BY <1>1, <1>3, <1>4, <1>5, <1>6, <1>7, <1>8 DEF Exact

LEMMA ExactAnother ==
  ASSUME TypeOK, Placement, CmdsMatch, NEW i \in Instances, NEW u \in Users, NEW c \in Conns,
         Exact(i, u), StreamAnother(i, u, c)
  PROVE  Exact(i, u)'
<1> SUFFICES ASSUME ~overlap'[i][u] PROVE Exact(i, u)'
  BY DEF Exact
<1>1. Typing /\ StreamAnotherChange(i, u, c) /\ Joins(i, u, c)
  BY Typed, StreamAnotherEffect, OpenChanges
<1>2. c \notin streams[i][u] /\ streams'[i][u] = streams[i][u] \cup {c}
  BY <1>1 DEF Placement, StreamAnotherChange, EntryBecomes
<1>3. Opening(i, u)' = Opening(i, u)
  BY <1>1, <1>2 DEF Typing, StreamAnotherChange, PhaseBecomes, Opening
<1>4. /\ ~overlap[i][u] /\ refs[i][u] # 0 /\ refs'[i][u] = refs[i][u] + 1
      /\ cmds' = cmds /\ subs' = subs
  BY <1>1 DEF StreamAnotherChange, EntryBecomes
<1>5. IsFiniteSet(Open(i, u)) /\ Cardinality(Open(i, u)) = refs[i][u]
  BY <1>1, <1>4, OpenFinite DEF Exact
<1>6. Open(i, u) # {}
  BY <1>4, <1>5, FS_EmptySet
<1>7. Opening(i, u) = {} /\ u \in subs[i] /\ ~Pending(i, "UNSUBSCRIBE", u)
  BY <1>4, <1>6 DEF Exact, Open, Heard
<1>8. Cardinality(Open(i, u)') = Cardinality(Open(i, u)) + 1
  BY <1>1, <1>5, FS_AddElement DEF Joins
<1>9. QED
  BY <1>3, <1>4, <1>5, <1>7, <1>8 DEF Exact, Pending

LEMMA ExactContinue ==
  ASSUME TypeOK, Placement, CmdsMatch, NEW i \in Instances, NEW u \in Users, NEW c \in Conns,
         Exact(i, u), StreamContinue(i, u, c)
  PROVE  Exact(i, u)'
<1> SUFFICES ASSUME ~overlap'[i][u] PROVE Exact(i, u)'
  BY DEF Exact
<1>1. Typing /\ StreamContinueChange(i, u, c) /\ Joins(i, u, c)
  BY Typed, StreamContinueEffect, OpenChanges
<1>2. /\ ~overlap[i][u] /\ refs'[i][u] = 1 /\ cmds' = cmds /\ subs' = subs
      /\ c \in Opening(i, u) /\ c \in Heard(i, u)
  BY <1>1 DEF StreamContinueChange, EntryBecomes, Opening, Heard
<1>3. Open(i, u) = {} /\ Opening(i, u) = {c} /\ u \in subs[i] /\ ~Pending(i, "UNSUBSCRIBE", u)
  BY <1>2 DEF Exact
<1>4. Open(i, u)' = {c} /\ Opening(i, u)' = {}
  BY <1>1, <1>3 DEF Typing, StreamContinueChange, PhaseBecomes, Joins, Opening
<1>5. Cardinality({c}) = 1
  BY FS_Singleton
<1>6. QED
  BY <1>2, <1>3, <1>4, <1>5 DEF Exact, Pending

LEMMA ExactClose ==
  ASSUME TypeOK, Placement, CmdsMatch, NEW i \in Instances, NEW u \in Users, NEW c \in Conns,
         Exact(i, u), StreamClose(i, u, c)
  PROVE  Exact(i, u)'
<1> SUFFICES ASSUME ~overlap'[i][u] PROVE Exact(i, u)'
  BY DEF Exact
<1>1. Typing /\ StreamCloseChange(i, u, c) /\ Leaves(i, u, c)
  BY Typed, StreamCloseEffect, OpenChanges
<1>2. /\ ~overlap[i][u] /\ subs' = subs /\ c \in Open(i, u)
      /\ streams'[i][u] = streams[i][u] \ {c}
  BY <1>1 DEF StreamCloseChange, EntryBecomes, Leaves
<1>3. /\ Opening(i, u) = {} /\ refs[i][u] = Cardinality(Open(i, u))
      /\ u \in subs[i] /\ ~Pending(i, "UNSUBSCRIBE", u)
  BY <1>2 DEF Exact, Open, Heard
<1>4. Opening(i, u)' = {}
  BY <1>1, <1>2, <1>3 DEF Typing, StreamCloseChange, PhaseBecomes, Opening
<1>5. /\ IsFiniteSet(Open(i, u)) /\ IsFiniteSet(Open(i, u)')
      /\ Cardinality(Open(i, u)') = Cardinality(Open(i, u)) - 1
  BY <1>1, OpenFinite, FS_RemoveElement DEF Leaves
<1>6. CASE /\ refs[i][u] <= 1 /\ EntryBecomes(refs, refs', i, u, 0)
  <2>1. Cardinality(Open(i, u)') = 0 /\ refs'[i][u] = 0
    <3>1. Cardinality(Open(i, u)') \in Nat
      BY <1>5, FS_CardinalityType
    <3>2. Cardinality(Open(i, u)) \in Nat
      BY <1>5, FS_CardinalityType
    <3>3. QED
      BY <1>3, <1>5, <1>6, <3>1, <3>2 DEF EntryBecomes
  <2>2. Open(i, u)' = {}
    BY <1>5, <2>1, FS_EmptySet
  <2>3. Heard(i, u)' = {}
    BY <1>4, <2>2 DEF Open, Opening, Heard
  <2>4. QED
    BY <1>4, <2>1, <2>3 DEF Exact
<1>7. CASE /\ EntryBecomes(refs, refs', i, u, refs[i][u] - 1) /\ UNCHANGED cmds
  BY <1>2, <1>3, <1>4, <1>5, <1>7 DEF Exact, EntryBecomes, Pending
<1>8. QED
  BY <1>1, <1>6, <1>7 DEF StreamCloseChange

(* Redis answers the oldest command, executed or rejected.                 *)
LEMMA ExactCommand ==
  ASSUME TypeOK, Placement, CmdsMatch, NEW i \in Instances, RedisExecutes(i) \/ SubscribeRejects(i),
         NEW j \in Instances, NEW v \in Users, Exact(j, v)
  PROVE  Exact(j, v)'
<1> SUFFICES ASSUME ~overlap'[j][v] PROVE Exact(j, v)'
  BY DEF Exact
<1> DEFINE user == cmds[i][1].user
           conn == cmds[i][1].conn
<1>1. Typing /\ CommandChange(i) /\ QueueLosesHead(cmds, cmds', i)
  BY Typed, CommandEffect DEF CommandChange
<1>2. /\ 1 \in 1..Len(cmds[i]) /\ user \in Users /\ conn \in Conns
      /\ cmds[i][1].op \in {"SUBSCRIBE", "UNSUBSCRIBE"}
  BY <1>1 DEF QueueLosesHead, Typing
<1>3. /\ ~overlap[j][v] /\ refs' = refs /\ streams' = streams
      /\ Open(j, v)' = Open(j, v)
      /\ j # i \/ v # user \/ cmds[i][1].op = "UNSUBSCRIBE" => Kept(j, v)
  BY <1>1, OpenChanges DEF CommandChange
<1>4. /\ Pending(j, "UNSUBSCRIBE", v)' => Pending(j, "UNSUBSCRIBE", v)
      /\ \A d \in Conns : Asked(j, v, d) =>
           Asked(j, v, d)' \/ (j = i /\ IsSubscribe(i, 1) /\ conn = d)
  BY <1>1, AskedPops
<1>5. CASE j # i \/ v # user
  <2>1. IsSubscribe(i, 1) => conn \notin streams[j][v]
    BY <1>1, <1>2, <1>5 DEF CmdsMatch, Suspended, Placement
  <2>2. \A d \in Opening(j, v) : d \in Conns /\ d \in streams[j][v]
    BY <1>1 DEF Typing, Opening
  <2>3. Kept(j, v) /\ \A d \in Opening(j, v) : Asked(j, v, d) => Asked(j, v, d)'
    BY <1>3, <1>4, <1>5, <2>1, <2>2
  <2>4. v \in subs[j] => v \in subs'[j]
    BY <1>1, <1>5 DEF CommandChange, SubsBecome
  <2>5. QED
    BY <1>3, <1>4, <2>3, <2>4 DEF Exact, Kept
<1>6. CASE j = i /\ v = user /\ cmds[i][1].op = "UNSUBSCRIBE"
  <2>1. Pending(i, "UNSUBSCRIBE", v)
    BY <1>2, <1>6 DEF Pending
  <2>2. Kept(j, v) /\ Heard(j, v) = {}
    BY <1>3, <1>6, <2>1 DEF Exact
  <2>3. \A d \in Opening(j, v) : Asked(j, v, d) => Asked(j, v, d)'
    BY <1>1, <1>4, <1>6 DEF IsSubscribe, Typing, Opening
  <2>4. QED
    BY <1>3, <2>2, <2>3 DEF Exact, Kept
<1>7. CASE j = i /\ v = user /\ cmds[i][1].op = "SUBSCRIBE"
  <2>1. IsSubscribe(i, 1) /\ conn \in streams[j][v] /\ pc[conn] = "subscribing"
    BY <1>2, <1>7 DEF IsSubscribe, CmdsMatch, Suspended
  <2>2. conn \in Opening(j, v) /\ conn \notin Heard(j, v)
    BY <2>1 DEF Opening, Heard
  <2>3. Opening(j, v) = {conn} /\ Open(j, v) = {} /\ Asked(i, v, conn) /\ refs[j][v] = Cardinality(Open(j, v))
    BY <1>3, <1>7, <2>2 DEF Exact
  <2>4. Heard(j, v) = {}
    BY <2>2, <2>3 DEF Open, Opening, Heard
  <2>5. ~Pending(i, "UNSUBSCRIBE", v)
    <3>1. PICK k \in 1..Len(cmds[i]) :
            /\ IsSubscribe(i, k) /\ cmds[i][k].conn = conn
            /\ \A l \in 1..Len(cmds[i]) : l > k => ~IsUnsubscribe(i, l, v)
      BY <2>3 DEF Asked
    <3>2. k = 1
      BY <1>2, <2>1, <3>1 DEF CmdsMatch, OneCommandEach
    <3>3. \A l \in 1..Len(cmds[i]) : ~IsUnsubscribe(i, l, v)
      BY <2>1, <3>1, <3>2 DEF IsUnsubscribe, IsSubscribe
    <3>4. QED
      BY <3>3 DEF Pending, IsUnsubscribe
  <2>6. CASE SubsBecome(i, subs[i] \cup {user}) /\ PhaseBecomes(conn, "subscribed")
    <3>1. v \in subs'[j] /\ Opening(j, v)' = Opening(j, v) /\ Heard(j, v)' = {conn}
      <4>1. v \in subs'[j]
        BY <1>7, <2>6 DEF SubsBecome
      <4>2. Opening(j, v)' = Opening(j, v)
        BY <1>1, <1>3, <2>1, <2>6 DEF Typing, PhaseBecomes, Opening
      <4>3. Heard(j, v)' = Heard(j, v) \cup {conn}
        BY <1>1, <1>3, <2>1, <2>6 DEF Typing, PhaseBecomes, Heard
      <4>4. QED
        BY <2>4, <4>1, <4>2, <4>3
    <3>2. QED
      BY <1>3, <1>4, <1>7, <2>3, <2>5, <3>1 DEF Exact
  <2>7. CASE PhaseBecomes(conn, "failed")
    <3>1. Opening(j, v)' = Opening(j, v) \ {conn}
      BY <1>1, <1>3, <2>7 DEF Typing, PhaseBecomes, Opening
    <3>2. Heard(j, v)' = Heard(j, v)
      BY <1>1, <1>3, <2>2, <2>7 DEF Typing, PhaseBecomes, Heard
    <3>3. QED
      BY <1>3, <2>3, <2>4, <3>1, <3>2 DEF Exact
  <2>8. QED
    BY <1>1, <1>7, <2>6, <2>7 DEF CommandChange
<1>8. QED
  BY <1>2, <1>5, <1>6, <1>7

(* While no two first connections of a user have overlapped on an          *)
(* instance, its reference count equals its open connections and every     *)
(* one of them hears the user's channel.                                   *)
THEOREM CountExact == SafetySpec => []ExactUnlessOverlap
<1> DEFINE AllExact == \A j \in Instances, v \in Users : Exact(j, v)
<1>1. Init => AllExact
  BY FS_EmptySet DEF Init, Exact, Open, Opening, Heard
<1>2. TypeOK /\ Placement /\ CmdsMatch /\ AllExact /\ [Next]_vars => AllExact'
  <2> SUFFICES ASSUME TypeOK, Placement, CmdsMatch, AllExact, [Next]_vars,
                      NEW j \in Instances, NEW v \in Users
               PROVE  Exact(j, v)'
    OBVIOUS
  <2>0. Typing /\ Exact(j, v)
    BY Typed
  <2>1. ASSUME NEW i \in Instances, NEW u \in Users, NEW c \in Conns, StreamFirst(i, u, c)
        PROVE  Exact(j, v)'
    <3>1. CASE j = i /\ v = u
      BY <2>0, <2>1, <3>1, ExactFirst
    <3>2. CASE j # i \/ v # u
      <4>1. StreamFirstChange(i, u, c) /\ Kept(j, v)
        BY <2>0, <2>1, <3>2, StreamFirstEffect, OpenChanges DEF OthersKept
      <4>2. SubscribeCmd(u, c) \in Command /\ SubscribeCmd(u, c).op # "UNSUBSCRIBE"
        BY DEF SubscribeCmd, Command
      <4>3. AskedKept(j, v)
        BY <2>0, <4>1, <4>2, AskedGrows DEF StreamFirstChange
      <4>4. QED
        BY <2>0, <3>2, <4>1, <4>3, ExactKept DEF StreamFirstChange
    <3>3. QED
      BY <3>1, <3>2
  <2>2. ASSUME NEW i \in Instances, NEW u \in Users, NEW c \in Conns,
               StreamAnother(i, u, c) \/ StreamContinue(i, u, c)
        PROVE  Exact(j, v)'
    <3>1. CASE j = i /\ v = u
      BY <2>0, <2>2, <3>1, ExactAnother, ExactContinue
    <3>2. CASE j # i \/ v # u
      <4>1. /\ StreamAnotherChange(i, u, c) \/ StreamContinueChange(i, u, c)
            /\ Kept(j, v)
        BY <2>0, <2>2, <3>2, StreamAnotherEffect, StreamContinueEffect, OpenChanges DEF OthersKept
      <4>2. cmds' = cmds /\ subs' = subs /\ overlap' = overlap /\ refs'[j][v] = refs[j][v]
        BY <3>2, <4>1 DEF StreamAnotherChange, StreamContinueChange, EntryBecomes
      <4>3. AskedKept(j, v)
        BY <4>2 DEF AskedKept, Pending, Asked, IsSubscribe, IsUnsubscribe
      <4>4. QED
        BY <2>0, <4>1, <4>2, <4>3, ExactKept
    <3>3. QED
      BY <3>1, <3>2
  <2>3. ASSUME NEW i \in Instances, NEW u \in Users, NEW c \in Conns, StreamClose(i, u, c)
        PROVE  Exact(j, v)'
    <3>1. CASE j = i /\ v = u
      BY <2>0, <2>3, <3>1, ExactClose
    <3>2. CASE j # i \/ v # u
      <4>1. StreamCloseChange(i, u, c) /\ Kept(j, v)
        BY <2>0, <2>3, <3>2, StreamCloseEffect, OpenChanges DEF OthersKept
      <4>2. UnsubscribeCmd(u, c) \in Command /\ UnsubscribeCmd(u, c).user = u
        BY DEF UnsubscribeCmd, Command
      <4>3. AskedKept(j, v)
        <5>1. CASE UNCHANGED cmds
          BY <5>1 DEF AskedKept, Pending, Asked, IsSubscribe, IsUnsubscribe
        <5>2. CASE QueueGrows(cmds, cmds', i, UnsubscribeCmd(u, c))
          BY <2>0, <3>2, <4>2, <5>2, AskedGrows
        <5>3. QED
          BY <4>1, <5>1, <5>2 DEF StreamCloseChange
      <4>4. subs' = subs /\ overlap' = overlap /\ refs'[j][v] = refs[j][v]
        BY <3>2, <4>1 DEF StreamCloseChange, EntryBecomes
      <4>5. QED
        BY <2>0, <4>1, <4>3, <4>4, ExactKept
    <3>3. QED
      BY <3>1, <3>2
  <2>4. ASSUME NEW i \in Instances, RedisExecutes(i) \/ SubscribeRejects(i)
        PROVE  Exact(j, v)'
    BY <2>0, <2>4, ExactCommand
  <2>5. ASSUME NEW i \in Instances, Restart(i)
        PROVE  Exact(j, v)'
    <3>1. RestartChange(i) /\ IF j = i THEN Open(j, v)' = {} ELSE Kept(j, v)
      BY <2>0, <2>5, RestartEffect, OpenChanges
    <3>2. CASE j = i
      <4>1. streams'[j][v] = {} /\ refs'[j][v] = 0
        BY <3>1, <3>2 DEF RestartChange
      <4>2. Open(j, v)' = {} /\ Opening(j, v)' = {} /\ Heard(j, v)' = {} /\ Cardinality({}) = 0
        BY <4>1, FS_EmptySet DEF Open, Opening, Heard
      <4>3. QED
        BY <4>1, <4>2 DEF Exact
    <3>3. CASE j # i
      <4>1. /\ Kept(j, v) /\ cmds'[j] = cmds[j] /\ subs'[j] = subs[j]
            /\ refs'[j][v] = refs[j][v] /\ (overlap'[j][v] <=> overlap[j][v])
        BY <3>1, <3>3 DEF RestartChange
      <4>2. AskedKept(j, v)
        BY <4>1 DEF AskedKept, Pending, Asked, IsSubscribe, IsUnsubscribe
      <4>3. QED
        BY <2>0, <4>1, <4>2, ExactKept
    <3>4. QED
      BY <3>2, <3>3
  <2>6. CASE UNCHANGED vars \/ \E c \in Conns : CloseUnheard(c)
    BY <2>0, <2>6 DEF vars, CloseUnheard, Exact, Open, Opening, Heard, Pending, Asked,
                      IsSubscribe, IsUnsubscribe
  <2>7. QED
    BY <2>1, <2>2, <2>3, <2>4, <2>5, <2>6 DEF Next
<1>3. AllExact => ExactUnlessOverlap
  BY DEF Exact, ExactUnlessOverlap, Open, Heard
<1>4. QED
  BY <1>1, <1>2, <1>3, TypeCorrect, PlacementInvariant, PTL DEF SafetySpec

=============================================================================
