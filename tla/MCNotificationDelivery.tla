----------------------- MODULE MCNotificationDelivery -----------------------
(* Small instances of NotificationDelivery for TLC.                         *)
EXTENDS NotificationDelivery, TLC

(* Every tab is a tab of the same user, or one user has a single tab and   *)
(* another has the rest.                                                   *)
Single == CHOOSE t \in Tabs : TRUE
First  == CHOOSE u \in Users : TRUE
Second == CHOOSE u \in Users : u # First
OneUser    == [t \in Tabs |-> First]
SharedUser == [t \in Tabs |-> IF t = Single THEN First ELSE Second]

(* Every valid body, the ones addressed to users only, or one to a user     *)
(* with several tabs and one to all.                                        *)
AllBodies  == Body
UserBodies == Users \X {FALSE}
OneOfEach  == {<<Second, FALSE>>, <<Broadcast, TRUE>>}

(* Connection slots are interchangeable, and so are instances and the tabs *)
(* of one user.                                                            *)
Symmetry == Permutations(Conns) \cup Permutations(Instances)
              \cup {p \in Permutations(Tabs) : \A t \in Tabs : UserOf[p[t]] = UserOf[t]}
=============================================================================
