----------------------------- MODULE LeaseLock -----------------------------
(***************************************************************************)
(* What LockService promises its callers, for one key: acquire gives the   *)
(* key to one request at a time, for the length of a lease that nobody     *)
(* renews; release gives up the caller's own lease and no other.           *)
(* SetnxLock and RedlockLock implement it and IssueCoupon is built on it.  *)
(***************************************************************************)
CONSTANTS
  Requests,  \* calls of acquire, each with a fresh token: a request is its token
  Free       \* no token: the key does not exist

VARIABLES
  owner,  \* whose token the key holds in Redis
  at      \* how far a request has come

lockVars == <<owner, at>>

(* "in": from the grant to the release; the lease may have expired.        *)
Place == {"idle", "waiting", "in", "done"}

LockTypeOK ==
  /\ owner \in Requests \cup {Free}
  /\ at \in [Requests -> Place]

LockInit ==
  /\ owner = Free
  /\ at = [r \in Requests |-> "idle"]

Move(r, from, to) == at[r] = from /\ at' = [at EXCEPT ![r] = to]

(* What deleting its own token leaves.  The slip deletes any token.        *)
MutDroppedAny(r) == Free
Dropped(r) == IF owner = r THEN Free ELSE owner

Call(r) == Move(r, "idle", "waiting") /\ UNCHANGED owner

Grant(r) ==
  /\ owner = Free
  /\ owner' = r
  /\ Move(r, "waiting", "in")

(* The key is taken and the answer lost: the caller gives up or asks on.   *)
Strand(r) ==
  /\ owner = Free
  /\ owner' = r
  /\ \/ Move(r, "waiting", "done")
     \/ at[r] = "waiting" /\ UNCHANGED at

(* acquire resolves to null or rejects.                                    *)
Refuse(r) ==
  /\ Move(r, "waiting", "done")
  /\ owner' \in {owner, Dropped(r)}

Release(r) ==
  /\ Move(r, "in", "done")
  /\ owner' = Dropped(r)

(* The holder dies, or its release fails: the lease is left to expire.     *)
Abandon(r) == Move(r, "in", "done") /\ UNCHANGED owner

Expire ==
  /\ owner # Free
  /\ owner' = Free
  /\ UNCHANGED at

LockNext ==
  \/ \E r \in Requests : \/ Call(r) \/ Grant(r) \/ Strand(r) \/ Refuse(r)
                         \/ Release(r) \/ Abandon(r)
  \/ Expire

(* Every acquire is answered, and a lease left alone expires.              *)
LockFairness ==
  /\ \A r \in Requests : WF_lockVars(Grant(r) \/ Refuse(r))
  /\ WF_lockVars(Expire)

LockSafety == LockInit /\ [][LockNext]_lockVars
LockSpec == LockSafety /\ LockFairness
=============================================================================
