-------------------------- MODULE SetnxLockProofs --------------------------
(***************************************************************************)
(* Proof that SetnxLock implements LeaseLock, for every set of requests,   *)
(* every time to live and every back-off.                                  *)
(***************************************************************************)
EXTENDS SetnxLock, TLAPS

USE DEF Waiting, Inside

LEMMA DelayCapped ==
  ASSUME NEW d \in 0..MaxDelay
  PROVE  NextDelay(d) \in 0..MaxDelay
BY Times DEF NextDelay

LEMMA LessBounded ==
  ASSUME NEW n \in Nat, NEW t \in 0..n
  PROVE  Less(t) \in 0..n
BY DEF Less

(* Tokens, places and timers have their types in every reachable state; no *)
(* delay of the back-off exceeds its cap.                                  *)
THEOREM TypeCorrect == SafetySpec => []TypeOK
<1>1. Init => TypeOK
  BY Times DEF Init, TypeOK
<1>2. TypeOK /\ [Next]_vars => TypeOK'
  <2> SUFFICES ASSUME TypeOK, [Next]_vars PROVE TypeOK'
    OBVIOUS
  <2> USE DEF TypeOK, Become, timers, NoTimers, SetKey
  <2>1. ASSUME NEW r \in Requests, Acquire(r) PROVE TypeOK'
    BY <2>1, Times DEF Acquire
  <2>2. ASSUME NEW r \in Requests, SetGranted(r) PROVE TypeOK'
    BY <2>2, Times DEF SetGranted
  <2>3. ASSUME NEW r \in Requests, SetRefused(r) PROVE TypeOK'
    BY <2>3, DelayCapped DEF SetRefused
  <2>4. ASSUME NEW r \in Requests, Retry(r) PROVE TypeOK'
    BY <2>4 DEF Retry
  <2>5. ASSUME NEW r \in Requests, GiveUp(r) PROVE TypeOK'
    BY <2>5, Times DEF GiveUp
  <2>6. ASSUME NEW r \in Requests, SetRejects(r) PROVE TypeOK'
    BY <2>6, Times DEF SetRejects
  <2>7. ASSUME NEW r \in Requests, CallRelease(r) \/ ReleaseRejects(r) PROVE TypeOK'
    BY <2>7 DEF CallRelease, ReleaseRejects
  <2>8. ASSUME NEW r \in Requests, Released(r) PROVE TypeOK'
    BY <2>8, Times DEF Released, RunScript
  <2>9. ASSUME NEW r \in Requests, Crash(r) PROVE TypeOK'
    BY <2>9, Times DEF Crash
  <2>10. CASE Tick
    <3>1. ttl' \in 0..Ttl /\ key' \in Requests \cup {Free}
      BY <2>10, Times, LessBounded DEF Tick
    <3>2. left' \in [Requests -> 0..MaxWait] /\ wake' \in [Requests -> 0..MaxDelay]
      BY <2>10, Times, LessBounded DEF Tick
    <3> QED
      BY <2>10, <3>1, <3>2 DEF Tick
  <2>11. CASE UNCHANGED vars
    BY <2>11 DEF vars
  <2> QED
    BY <2>1, <2>2, <2>3, <2>4, <2>5, <2>6, <2>7, <2>8, <2>9, <2>10, <2>11 DEF Next
<1> QED
  BY <1>1, <1>2, PTL DEF SafetySpec

-----------------------------------------------------------------------------
LEMMA InitImplements == Init => LL!LockInit
BY DEF Init, LL!LockInit, at

(* How a change of one request's place looks to LeaseLock.                 *)
LEMMA PlaceMoves ==
  ASSUME TypeOK, NEW r \in Requests, NEW state, Become(r, state),
         NEW from, at[r] = from, NEW to,
         to = IF state \in Waiting THEN "waiting" ELSE IF state \in Inside THEN "in" ELSE state
  PROVE  LL!Move(r, from, to)
<1>1. at' = [at EXCEPT ![r] = to]
  BY DEF TypeOK, Become, at
<1> QED
  BY <1>1 DEF LL!Move

LEMMA StepImplements == TypeOK /\ [Next]_vars => [LL!LockNext]_<<key, at>>
<1> SUFFICES ASSUME TypeOK, [Next]_vars PROVE LL!LockNext \/ UNCHANGED <<key, at>>
  OBVIOUS
<1>1. ASSUME NEW r \in Requests, Acquire(r) PROVE LL!Call(r)
  <2>1. Become(r, "asking") /\ at[r] = "idle"
    BY <1>1 DEF Acquire, at
  <2>2. LL!Move(r, "idle", "waiting")
    BY <2>1, PlaceMoves
  <2> QED
    BY <1>1, <2>2 DEF Acquire, LL!Call
<1>2. ASSUME NEW r \in Requests, SetGranted(r) PROVE LL!Grant(r)
  <2>1. Become(r, "held") /\ at[r] = "waiting"
    BY <1>2 DEF SetGranted, at
  <2>2. LL!Move(r, "waiting", "in")
    BY <2>1, PlaceMoves
  <2> QED
    BY <1>2, <2>2 DEF SetGranted, SetKey, LL!Grant
<1>3. ASSUME NEW r \in Requests, SetRefused(r) \/ Retry(r) PROVE UNCHANGED <<key, at>>
  BY <1>3 DEF SetRefused, Retry, Become, TypeOK, at
<1>4. ASSUME NEW r \in Requests, GiveUp(r) PROVE LL!Refuse(r)
  <2>1. Become(r, "done") /\ at[r] = "waiting"
    BY <1>4 DEF GiveUp, at
  <2>2. LL!Move(r, "waiting", "done")
    BY <2>1, PlaceMoves
  <2> QED
    BY <1>4, <2>2 DEF GiveUp, LL!Refuse
<1>5. ASSUME NEW r \in Requests, SetRejects(r) PROVE LL!Refuse(r) \/ LL!Strand(r)
  <2>1. Become(r, "done") /\ at[r] = "waiting"
    BY <1>5 DEF SetRejects, at
  <2>2. LL!Move(r, "waiting", "done")
    BY <2>1, PlaceMoves
  <2> QED
    BY <1>5, <2>2 DEF SetRejects, SetKey, LL!Refuse, LL!Strand
<1>6. ASSUME NEW r \in Requests, CallRelease(r) PROVE UNCHANGED <<key, at>>
  BY <1>6 DEF CallRelease, Become, TypeOK, at
<1>7. ASSUME NEW r \in Requests, Released(r) PROVE LL!Release(r)
  <2>1. Become(r, "done") /\ at[r] = "in"
    BY <1>7 DEF Released, at
  <2>2. LL!Move(r, "in", "done")
    BY <2>1, PlaceMoves
  <2> QED
    BY <1>7, <2>2 DEF Released, RunScript, LL!Release, LL!Dropped
<1>8. ASSUME NEW r \in Requests, ReleaseRejects(r) PROVE LL!Abandon(r)
  <2>1. Become(r, "done") /\ at[r] = "in"
    BY <1>8 DEF ReleaseRejects, at
  <2>2. LL!Move(r, "in", "done")
    BY <2>1, PlaceMoves
  <2> QED
    BY <1>8, <2>2 DEF ReleaseRejects, LL!Abandon
<1>9. ASSUME NEW r \in Requests, Crash(r) PROVE LL!Abandon(r) \/ LL!Refuse(r)
  <2>1. Become(r, "done") /\ at[r] \in {"waiting", "in"}
    BY <1>9 DEF Crash, at
  <2>2. LL!Move(r, "waiting", "done") \/ LL!Move(r, "in", "done")
    BY <2>1, PlaceMoves
  <2> QED
    BY <1>9, <2>2 DEF Crash, LL!Abandon, LL!Refuse
<1>10. CASE Tick
  BY <1>10 DEF Tick, LL!LockNext, LL!Expire, at
<1>11. CASE UNCHANGED vars
  BY <1>11 DEF vars, at
<1> QED
  BY <1>1, <1>2, <1>3, <1>4, <1>5, <1>6, <1>7, <1>8, <1>9, <1>10, <1>11 DEF Next, LL!LockNext

(* The SETNX lock is a LeaseLock: every behaviour of it grants, releases   *)
(* and loses the key as LockService promises.                              *)
THEOREM SetnxImplementsLease == SafetySpec => ImplementsLease
<1>1. Init => LL!LockInit
  BY InitImplements
<1>2. TypeOK /\ [Next]_vars => [LL!LockNext]_LL!lockVars
  BY StepImplements DEF LL!lockVars
<1> QED
  BY <1>1, <1>2, TypeCorrect, PTL DEF SafetySpec, ImplementsLease, LL!LockSafety
=============================================================================
