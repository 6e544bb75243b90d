------------------------------ MODULE PageServer ------------------------------
(***************************************************************************)
(* The server as the page of a user can tell it: the table that its lists  *)
(* are read from, and the connection of its EventSource with the events on *)
(* their way.  Dashboard is built on it; NotificationDelivery is such a    *)
(* server to each of its tabs.  It says whose events come, and leaves open *)
(* when, how often and whether they do, and when a status is written.      *)
(***************************************************************************)
EXTENDS Naturals, Sequences

CONSTANTS
  Users,
  Bodies,    \* <<row's user, channel>> of the notifications that are posted
  MaxRows,   \* bound on them
  Broadcast  \* the broadcast channel

VARIABLES
  rows,      \* the notifications table, a row's id being its position
  user,      \* the user of the page
  connected, \* its EventSource is connected
  wire       \* ids of the events sent on the connection and not yet received

serverVars == <<rows, user, connected, wire>>

Ids == 1..MaxRows

ServerInit == rows = <<>> /\ connected = FALSE /\ wire = {}

Insert(to, channel) ==
  /\ Len(rows) < MaxRows
  /\ rows' = Append(rows, [to |-> to, channel |-> channel, status |-> "pending"])
  /\ UNCHANGED <<user, connected, wire>>

(* UPDATE ... SET status, whatever the status of the rows is.              *)
SetStatus(S, status) ==
  /\ rows' = [n \in DOMAIN rows |->
                IF n \in S THEN [rows[n] EXCEPT !.status = status] ELSE rows[n]]
  /\ UNCHANGED <<user, connected, wire>>

(* Events are those of rows in the table, published for the page's user or *)
(* for all; one turn of the server may write several.                      *)
Send(S) ==
  /\ connected
  /\ S \subseteq DOMAIN rows
  /\ \A n \in S : rows[n].channel \in {user, Broadcast}
  /\ wire' = wire \cup S
  /\ UNCHANGED <<rows, user, connected>>

(* An event may have been sent more than once.                             *)
Hear(n) ==
  /\ n \in wire
  /\ wire' \in {wire, wire \ {n}}
  /\ UNCHANGED <<rows, user, connected>>

Open ==
  /\ user \in Users /\ ~connected
  /\ connected' = TRUE
  /\ UNCHANGED <<rows, user, wire>>

(* What is on its way is lost with the connection.                         *)
Close ==
  /\ connected
  /\ connected' = FALSE /\ wire' = {}
  /\ UNCHANGED <<rows, user>>

(* The page turns to another user, and to another connection for it.       *)
Turn(u) ==
  /\ user' = u
  /\ connected' = FALSE /\ wire' = {}
  /\ UNCHANGED rows

ServerNext ==
  \/ \E b \in Bodies : Insert(b[1], b[2])
  \/ \E S \in SUBSET Ids : \/ SetStatus(S, "delivered") \/ SetStatus(S, "read")
                           \/ Send(S)
  \/ \E n \in Ids : Hear(n)
  \/ Open \/ Close
  \/ \E u \in Users : Turn(u)

Serving == ServerInit /\ [][ServerNext]_serverVars
=============================================================================
