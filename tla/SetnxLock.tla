----------------------------- MODULE SetnxLock -----------------------------
(***************************************************************************)
(* SetnxLockService: SET key token PX ttl NX in a loop with exponential    *)
(* back-off, and a Lua script that deletes the key only when it holds the  *)
(* caller's token.  Time advances by Tick, in units of which the constants *)
(* are multiples (50 ms for the values of the code).                       *)
(***************************************************************************)
EXTENDS Naturals

CONSTANTS
  Requests, Free,          \* as in LeaseLock
  Ttl,                     \* ttlMs
  MaxWait,                 \* maxWaitMs
  InitialDelay, MaxDelay   \* initialDelayMs and the cap of the delay

ASSUME FreeIsNoRequest == Free \notin Requests
ASSUME Times ==
  /\ Ttl \in Nat \ {0} /\ MaxWait \in Nat \ {0}
  /\ MaxDelay \in Nat /\ InitialDelay \in 1..MaxDelay

VARIABLES
  key,    \* the token Redis holds, or Free
  ttl,    \* time until the key expires
  pc,     \* where a request is in acquire, its critical section, or release
  left,   \* left[r]: time until the deadline of acquire
  wake,   \* wake[r]: time until the sleep of the loop ends
  delay   \* delay[r]: the length of its next sleep

timers == <<left, wake, delay>>
vars == <<key, ttl, pc, timers>>

Waiting == {"asking", "sleeping"}
Inside  == {"held", "releasing"}

TypeOK ==
  /\ key \in Requests \cup {Free}
  /\ ttl \in 0..Ttl
  /\ pc \in [Requests -> {"idle", "done"} \cup Waiting \cup Inside]
  /\ left \in [Requests -> 0..MaxWait]
  /\ wake \in [Requests -> 0..MaxDelay]
  /\ delay \in [Requests -> 0..MaxDelay]

Init ==
  /\ key = Free
  /\ ttl = 0
  /\ pc = [r \in Requests |-> "idle"]
  /\ left = [r \in Requests |-> 0]
  /\ wake = [r \in Requests |-> 0]
  /\ delay = [r \in Requests |-> 0]

-----------------------------------------------------------------------------
Become(r, state) == pc' = [pc EXCEPT ![r] = state]

(* A request that has left acquire has no timers.                          *)
NoTimers(r) ==
  /\ left' = [left EXCEPT ![r] = 0]
  /\ wake' = [wake EXCEPT ![r] = 0]
  /\ delay' = [delay EXCEPT ![r] = 0]

(* acquire: the token, the deadline, and the first SET.                    *)
Acquire(r) ==
  /\ pc[r] = "idle"
  /\ Become(r, "asking")
  /\ left' = [left EXCEPT ![r] = MaxWait]
  /\ delay' = [delay EXCEPT ![r] = InitialDelay]
  /\ UNCHANGED <<key, ttl, wake>>

(* What SET writes.  The slip is SET NX without PX.                        *)
MutSetWithoutPx(r) == key' = r /\ ttl' = 0
SetKey(r) == key' = r /\ ttl' = Ttl

(* SET key token PX ttl NX answers OK, and acquire returns the handle.     *)
SetGranted(r) ==
  /\ pc[r] = "asking"
  /\ key = Free
  /\ SetKey(r)
  /\ Become(r, "held")
  /\ NoTimers(r)

(* The delay after a sleep of d.  The slip has no cap.                     *)
MutUncapped(d) == d * 2
NextDelay(d) == IF d * 2 < MaxDelay THEN d * 2 ELSE MaxDelay

(* SET answers nil: the loop sleeps and doubles the delay.                 *)
SetRefused(r) ==
  /\ pc[r] = "asking"
  /\ key # Free
  /\ Become(r, "sleeping")
  /\ wake' = [wake EXCEPT ![r] = delay[r]]
  /\ delay' = [delay EXCEPT ![r] = NextDelay(@)]
  /\ UNCHANGED <<key, ttl, left>>

(* The sleep ends before the deadline: another SET.                        *)
Retry(r) ==
  /\ pc[r] = "sleeping"
  /\ wake[r] = 0
  /\ left[r] > 0
  /\ Become(r, "asking")
  /\ UNCHANGED <<key, ttl, timers>>

(* The sleep ends after the deadline: acquire returns null.                *)
GiveUp(r) ==
  /\ pc[r] = "sleeping"
  /\ wake[r] = 0
  /\ left[r] = 0
  /\ Become(r, "done")
  /\ NoTimers(r)
  /\ UNCHANGED <<key, ttl>>

(* The SET rejects, executed by Redis or not: acquire rejects.             *)
SetRejects(r) ==
  /\ pc[r] = "asking"
  /\ Become(r, "done")
  /\ NoTimers(r)
  /\ \/ UNCHANGED <<key, ttl>>
     \/ key = Free /\ SetKey(r)

(* The caller has finished and calls release.                              *)
CallRelease(r) ==
  /\ pc[r] = "held"
  /\ Become(r, "releasing")
  /\ UNCHANGED <<key, ttl, timers>>

(* RELEASE_SCRIPT.  The slip is a plain DEL.                               *)
MutDeletesAnyKey(r) == key' = Free /\ ttl' = 0
RunScript(r) ==
  \/ key = r /\ key' = Free /\ ttl' = 0
  \/ key # r /\ UNCHANGED <<key, ttl>>

Released(r) ==
  /\ pc[r] = "releasing"
  /\ RunScript(r)
  /\ Become(r, "done")
  /\ UNCHANGED timers

(* EVAL rejects without having been executed: release rejects.             *)
ReleaseRejects(r) ==
  /\ pc[r] = "releasing"
  /\ Become(r, "done")
  /\ UNCHANGED <<key, ttl, timers>>

(* The process of the request dies.                                        *)
Crash(r) ==
  /\ pc[r] \in Waiting \cup Inside
  /\ Become(r, "done")
  /\ NoTimers(r)
  /\ UNCHANGED <<key, ttl>>

Less(t) == IF t = 0 THEN 0 ELSE t - 1

Tick ==
  /\ ttl' = Less(ttl)
  /\ key' = IF ttl = 1 THEN Free ELSE key
  /\ left' = [r \in Requests |-> Less(left[r])]
  /\ wake' = [r \in Requests |-> Less(wake[r])]
  /\ UNCHANGED <<pc, delay>>

(* Redis answers and sleeps end; the steps that lead acquire to its end.   *)
Proceed(r) == SetGranted(r) \/ SetRefused(r) \/ Retry(r) \/ GiveUp(r)

Next ==
  \/ \E r \in Requests : \/ Acquire(r) \/ SetGranted(r) \/ SetRefused(r) \/ Retry(r)
                         \/ GiveUp(r) \/ SetRejects(r) \/ CallRelease(r) \/ Released(r)
                         \/ ReleaseRejects(r) \/ Crash(r)
  \/ Tick

(* Time passes and Redis answers; a holder need never release.             *)
Fairness ==
  /\ WF_vars(Tick)
  /\ \A r \in Requests : WF_vars(Proceed(r))

SafetySpec == Init /\ [][Next]_vars
Spec == SafetySpec /\ Fairness

-----------------------------------------------------------------------------
at == [r \in Requests |-> CASE pc[r] \in Waiting -> "waiting"
                            [] pc[r] \in Inside  -> "in"
                            [] OTHER             -> pc[r]]

LL == INSTANCE LeaseLock WITH owner <- key

(* SetnxLockService keeps the promise of LockService: a key that a request *)
(* holds is given to no other and deleted by no other, also when a lease   *)
(* expires under its holder, an answer is lost or a process dies.          *)
ImplementsLease == LL!LockSafety

(* Every acquire is answered and every lease left alone expires: neither   *)
(* a holder that dies nor one that never releases blocks the key forever.  *)
ImplementsLeaseFairly == LL!LockFairness

=============================================================================
