------------------------------ MODULE Dashboard ------------------------------
(***************************************************************************)
(* The page of the client: one EventSource for the user chosen, the events *)
(* received, and the list of notifications that react-query caches under   *)
(* the user's key and fetches again when an event or the answer of a PATCH *)
(* invalidates it.  The server is PageServer, whose actions these extend   *)
(* and which NotificationDelivery is to every tab.                         *)
(***************************************************************************)
EXTENDS Naturals, Sequences, FiniteSets

CONSTANTS
  Users,
  Bodies,    \* bodies of POST /notifications: <<row's user, channel>>
  MaxRows,   \* bound on the notifications created
  Broadcast, \* BROADCAST_USER_ID and the broadcast channel
  NoUser,    \* the store before a user is chosen
  NoData     \* a query without data

ASSUME BoundIsNat == MaxRows \in Nat
ASSUME NoUserIsNone == NoUser \notin Users \cup {Broadcast}

(* A body without broadcast is published to the user it names.             *)
Body == {b \in (Users \cup {Broadcast}) \X (Users \cup {Broadcast}) : b[2] \in {b[1], Broadcast}}
ASSUME BodiesValid == Bodies \subseteq Body

VARIABLES
  rows,     \* the notifications table, a row's id being its position
  user,     \* userId of the store
  connected,\* ConnectionStatus is CONNECTED, as the EventSource is
  wire,     \* ids of the events sent to it and not yet received
  live,     \* the ids in liveEvents
  query,    \* query[u]: the cached query of u's list
  patch,    \* patch[n]: PATCH /notifications/n/read of this page
  read      \* history: rows this page was answered are READ, and that are

server == <<rows, user, connected, wire>>
page   == <<live, query, patch, read>>
vars == <<server, page>>

PS == INSTANCE PageServer

Ids == 1..MaxRows
Status == {"pending", "delivered", "read"}
Row  == [to: Users \cup {Broadcast}, channel: Users \cup {Broadcast}, status: Status]
List == UNION {[S -> Status] : S \in SUBSET Ids}
ASSUME NoDataIsNoList == NoData \notin List

(* early: what has been told since the fetch began and did not restart it. *)
Query == [data: List \cup {NoData}, error: BOOLEAN, fetch: {"idle", "asked", "retried", "answered"},
          answer: List \cup {NoData}, early: SUBSET Ids]
NoQuery == [data |-> NoData, error |-> FALSE, fetch |-> "idle", answer |-> NoData,
            early |-> {}]

TypeOK ==
  /\ rows \in Seq(Row) /\ Len(rows) <= MaxRows
  /\ user \in Users \cup {NoUser}
  /\ connected \in BOOLEAN /\ (connected => user # NoUser) /\ (~connected => wire = {})
  /\ wire \subseteq DOMAIN rows /\ live \subseteq DOMAIN rows
  /\ query \in [Users -> Query]
  /\ \A u \in Users : query[u].answer # NoData <=> query[u].fetch = "answered"
  /\ patch \in [Ids -> {"none", "asked", "done"}]
  /\ read \subseteq DOMAIN rows

Init ==
  /\ PS!ServerInit
  /\ user = NoUser
  /\ live = {}
  /\ query = [u \in Users |-> NoQuery]
  /\ patch = [n \in Ids |-> "none"]
  /\ read = {}

-----------------------------------------------------------------------------
(* The fetch of a query, from the beginning.  An error stays on display    *)
(* where there is data.                                                    *)
Begin(q) == [q EXCEPT !.fetch = "asked", !.answer = NoData, !.early = {},
                      !.error = @ /\ q.data # NoData]

(* A fetch on mount, or back online, joins one that is under way.          *)
Join(q) == IF q.fetch = "idle" THEN Begin(q) ELSE q

(* invalidateQueries on the key of all lists: the list displayed is        *)
(* fetched from the beginning, unless its first fetch is under way, which  *)
(* is then joined; the others wait until they are displayed.               *)
Invalidated(n) ==
  [u \in Users |->
     IF u = user /\ (query[u].fetch = "idle" \/ query[u].data # NoData) THEN Begin(query[u])
     ELSE IF query[u].fetch # "idle" /\ rows[n].to = u THEN [query[u] EXCEPT !.early = @ \cup {n}]
     ELSE query[u]]

(* setUserId: useEffect closes the EventSource and opens another, and      *)
(* useQuery turns to the other user's query.  liveEvents stays.            *)
(* Slip: the EventSource is not closed.                                    *)
MutNotClosed(u) ==
  /\ u # user
  /\ user' = u
  /\ connected' = FALSE /\ UNCHANGED <<rows, wire>>
  /\ query' = [query EXCEPT ![u] = Join(@)]
  /\ UNCHANGED <<live, patch, read>>
SelectUser(u) ==
  /\ u # user
  /\ PS!Turn(u)
  /\ query' = [query EXCEPT ![u] = Join(@)]
  /\ UNCHANGED <<live, patch, read>>

(* onopen, for the first time or again, and onerror.  Nothing is fetched   *)
(* on account of either.                                                   *)
Open  == PS!Open /\ UNCHANGED page
Break == PS!Close /\ UNCHANGED page

(* handleNotification, with the callback of App.  Slip: no callback.       *)
MutNoCallback(n) ==
  /\ PS!Hear(n)
  /\ live' = live \cup {n}
  /\ UNCHANGED <<query, patch, read>>
Receive(n) ==
  /\ PS!Hear(n)
  /\ live' = live \cup {n}
  /\ query' = Invalidated(n)
  /\ UNCHANGED <<patch, read>>

-----------------------------------------------------------------------------
Asking(u) == query[u].fetch \in {"asked", "retried"}

(* GET /notifications of u's query: findAll by userId, so no broadcast.    *)
FindAll(u) ==
  /\ Asking(u)
  /\ LET own == {n \in DOMAIN rows : rows[n].to = u} IN
       query' = [query EXCEPT ![u].fetch = "answered",
                              ![u].answer = [n \in own |-> rows[n].status]]
  /\ UNCHANGED <<server, live, patch, read>>

Filled(q, list) == [q EXCEPT !.data = list, !.error = FALSE, !.fetch = "idle",
                             !.answer = NoData]

(* The answer comes, for the displayed list or another.  The slip keeps    *)
(* the lists of all users under one key.                                   *)
MutOneKey(u) ==
  /\ query[u].fetch = "answered"
  /\ query' = [query EXCEPT ![u] = [@ EXCEPT !.fetch = "idle", !.answer = NoData],
                            ![user] = Filled(@, query[u].answer)]
  /\ UNCHANGED <<server, live, patch, read>>
Fill(u) ==
  /\ query[u].fetch = "answered"
  /\ query' = [query EXCEPT ![u] = Filled(@, @.answer)]
  /\ UNCHANGED <<server, live, patch, read>>

(* retry: 1, and only of a list that is displayed.                         *)
Retries(u) == u = user /\ query[u].fetch = "asked"

(* The request fails; one whose answer is lost read nothing that stays.    *)
FetchFails(u) ==
  /\ Asking(u)
  /\ query' = [query EXCEPT ![u] =
       IF Retries(u) THEN [Begin(@) EXCEPT !.fetch = "retried"]
       ELSE [@ EXCEPT !.error = TRUE, !.fetch = "idle"]]
  /\ UNCHANGED <<server, live, patch, read>>

(* The browser is online again: react-query fetches the displayed list.    *)
BackOnline ==
  /\ user # NoUser
  /\ query' = [query EXCEPT ![user] = Join(@)]
  /\ UNCHANGED <<server, live, patch, read>>

(* A query that is not displayed is dropped after its gcTime.              *)
Collect(u) ==
  /\ u # user /\ query[u].fetch = "idle"
  /\ query' = [query EXCEPT ![u] = NoQuery]
  /\ UNCHANGED <<server, live, patch, read>>

-----------------------------------------------------------------------------
(* NotificationList, which shows an error in the place of what it has.     *)
Displayed(n) ==
  /\ user # NoUser
  /\ query[user].data # NoData /\ ~query[user].error
  /\ n \in DOMAIN query[user].data

(* The button of NotificationItem.                                         *)
ClickRead(n) ==
  /\ Displayed(n)
  /\ query[user].data[n] # "read"
  /\ patch[n] = "none"
  /\ patch' = [patch EXCEPT ![n] = "asked"]
  /\ UNCHANGED <<server, live, query, read>>

MarkAsRead(n) ==
  /\ patch[n] = "asked"
  /\ patch' = [patch EXCEPT ![n] = "done"]
  /\ PS!SetStatus({n}, "read")
  /\ UNCHANGED <<live, query, read>>

(* onSuccess of useMarkAsRead.  The slip invalidates when the request is   *)
(* sent (onMutate), and not when it is answered.                           *)
MutReadAnswered(n) ==
  /\ patch[n] = "done"
  /\ patch' = [patch EXCEPT ![n] = "none"]
  /\ read' = IF rows[n].status = "read" THEN read \cup {n} ELSE read
  /\ UNCHANGED <<server, live, query>>
ReadAnswered(n) ==
  /\ patch[n] = "done"
  /\ patch' = [patch EXCEPT ![n] = "none"]
  /\ read' = IF rows[n].status = "read" THEN read \cup {n} ELSE read
  /\ query' = Invalidated(n)
  /\ UNCHANGED <<server, live>>

(* No onError: the list stays as it is.                                    *)
PatchFails(n) ==
  /\ patch[n] # "none"
  /\ patch' = [patch EXCEPT ![n] = "none"]
  /\ UNCHANGED <<server, live, query, read>>

(* POST /notifications, of this page or another client, inserts the row.   *)
(* To the page's own request its answer is nothing but the end of it: the  *)
(* onSuccess of App replaces the one of useCreateNotification, which would *)
(* invalidate the lists.                                                   *)
Post(to, channel) == PS!Insert(to, channel) /\ UNCHANGED page

(* Events are written to this page's connection: live ones, or the replay  *)
(* after a reconnection.                                                   *)
Emit(S) == PS!Send(S) /\ UNCHANGED page

(* A DELIVERED write, on account of this page's connection or of others.   *)
UpdateStatus(S) ==
  /\ PS!SetStatus(S, "delivered")
  /\ read' = read \ S
  /\ UNCHANGED <<live, query, patch>>

(* PATCH /notifications/n/read of another page, which tells this one of    *)
(* nothing, or of this one, with the answer lost.                          *)
ReadElsewhere(n) == PS!SetStatus({n}, "read") /\ UNCHANGED page

-----------------------------------------------------------------------------
Fetching(u) == FindAll(u) \/ Fill(u) \/ FetchFails(u)

Next ==
  \/ \E u \in Users : SelectUser(u) \/ Fetching(u) \/ Collect(u)
  \/ Open \/ Break \/ BackOnline
  \/ \E n \in Ids : \/ Receive(n) \/ ClickRead(n) \/ MarkAsRead(n) \/ ReadAnswered(n)
                    \/ PatchFails(n) \/ ReadElsewhere(n)
  \/ \E S \in SUBSET Ids : Emit(S) \/ UpdateStatus(S)
  \/ \E b \in Bodies : Post(b[1], b[2])

(* The page's event loop runs, and requests are answered or fail.  The     *)
(* notifications being bounded, so are the events about them: from some    *)
(* point on none is sent, and what is received is not on its way again.    *)
Fairness ==
  /\ \A u \in Users : WF_vars(Fetching(u))
  /\ \A n \in Ids : WF_vars(Receive(n))
  /\ <>[][/\ \A S \in SUBSET Ids : ~Emit(S)
          /\ \A n \in Ids : Receive(n) => n \notin wire']_vars

SafetySpec == Init /\ [][Next]_vars
Spec == SafetySpec /\ Fairness

-----------------------------------------------------------------------------
Shows(list, n, S) == list # NoData /\ n \in DOMAIN list /\ list[n] \in S

(* The list of u will show entry n with a status in S: it does, or a fetch *)
(* is under way that reads the table later or has read it so.  Not when    *)
(* the fetch has failed, which the page displays instead of the list.      *)
WillShow(u, n, S) ==
  \/ Asking(u)
  \/ Shows(query[u].answer, n, S)
  \/ query[u].fetch = "idle" /\ (query[u].error \/ Shows(query[u].data, n, S))

Own(n) == n \in DOMAIN rows /\ rows[n].to = user

(* An event of the user's own that is among liveEvents is in the list, or  *)
(* will be by the fetch under way, in whatever order events, answers,      *)
(* failures and changes of the user come; unless it came while a fetch was *)
(* under way that it could not restart, the first one of a list.           *)
EventsShown ==
  \A n \in live : Own(n) /\ n \notin query[user].early => WillShow(user, n, Status)

(* A notification that the page was answered is READ is displayed as READ, *)
(* or will be, although lists read before the PATCH arrive after it.       *)
ReadsShown ==
  \A n \in read : Own(n) /\ n \notin query[user].early => WillShow(user, n, {"read"})

(* Whatever answers come late, the list displayed is the chosen user's.    *)
OwnList ==
  user # NoUser /\ query[user].data # NoData =>
    \A n \in DOMAIN query[user].data : Own(n)

(* An event of the user's own on its way ends up in the list, or the page  *)
(* says that the fetch failed or that it is disconnected: it does not go   *)
(* on loading.                                                             *)
HeardIsListed ==
  \A n \in Ids :
    (n \in wire /\ Own(n))
      ~> (\/ ~Own(n) \/ ~connected
          \/ LET q == query[user] IN
             \/ n \in q.early \/ q.error
             \/ Shows(q.data, n, Status))

=============================================================================
