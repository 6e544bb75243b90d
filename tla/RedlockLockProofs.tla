------------------------- MODULE RedlockLockProofs -------------------------
(***************************************************************************)
(* Proof that RedlockLock implements LeaseLock, for every set of requests  *)
(* and every number of tries.                                              *)
(***************************************************************************)
EXTENDS RedlockLock, TLAPS

(* A try without a vote moves one request at most, and counts within its   *)
(* bound.                                                                  *)
LEMMA AgainstMoves ==
  ASSUME TypeOK, NEW r \in Requests, NEW from, NEW last \in Phase, Against(r, from, last)
  PROVE  /\ pc[r] = from
         /\ tries' \in [Requests -> 0..MaxTries - 1]
         /\ pc' = pc \/ pc' = [pc EXCEPT ![r] = last]
<1>1. CASE ~IsLastTry(tries[r])
  BY <1>1, SomeTry DEF Against, IsLastTry, CountTry, Move, NoTries, TypeOK
<1>2. CASE IsLastTry(tries[r])
  BY <1>2, SomeTry DEF Against, IsLastTry, CountTry, Move, NoTries, TypeOK
<1> QED
  BY <1>1, <1>2

(* Tokens, places, counts and the Map have their types: no script is tried *)
(* more than MaxTries times.                                               *)
THEOREM TypeCorrect == SafetySpec => []TypeOK
<1>1. Init => TypeOK
  BY SomeTry DEF Init, TypeOK, Phase
<1>2. TypeOK /\ [Next]_vars => TypeOK'
  <2> SUFFICES ASSUME TypeOK, [Next]_vars PROVE TypeOK'
    OBVIOUS
  <2> USE SomeTry DEF TypeOK, Phase, Move, NoTries
  <2>1. ASSUME NEW r \in Requests, Acquire(r) \/ AcquireVoted(r) PROVE TypeOK'
    BY <2>1 DEF Acquire, AcquireVoted
  <2>2. ASSUME NEW r \in Requests, AcquireAgainst(r) PROVE TypeOK'
    <3>1. tries' \in [Requests -> 0..MaxTries - 1] /\ pc' \in [Requests -> Phase]
      BY <2>2, AgainstMoves DEF AcquireAgainst
    <3> QED
      BY <2>2, <3>1 DEF AcquireAgainst
  <2>3. ASSUME NEW r \in Requests, CleanUp(r) \/ CallRelease(r) PROVE TypeOK'
    BY <2>3 DEF CleanUp, CallRelease, Dropped
  <2>4. ASSUME NEW r \in Requests, ReleaseVoted(r) PROVE TypeOK'
    BY <2>4 DEF ReleaseVoted
  <2>5. ASSUME NEW r \in Requests, ReleaseAgainst(r) PROVE TypeOK'
    <3>1. tries' \in [Requests -> 0..MaxTries - 1] /\ pc' \in [Requests -> Phase]
      BY <2>5, AgainstMoves DEF ReleaseAgainst
    <3> QED
      BY <2>5, <3>1 DEF ReleaseAgainst
  <2>6. ASSUME NEW r \in Requests, ReleaseUnheard(r) PROVE TypeOK'
    BY <2>6 DEF ReleaseUnheard, IsLastTry, CountTry
  <2>7. ASSUME NEW r \in Requests, Crash(r) PROVE TypeOK'
    BY <2>7 DEF Crash
  <2>8. CASE Expire
    BY <2>8 DEF Expire
  <2>9. CASE UNCHANGED vars
    BY <2>9 DEF vars
  <2> QED
    BY <2>1, <2>2, <2>3, <2>4, <2>5, <2>6, <2>7, <2>8, <2>9 DEF Next
<1> QED
  BY <1>1, <1>2, PTL DEF SafetySpec

-----------------------------------------------------------------------------
(* A change of one request's place moves that request, or nothing when     *)
(* LeaseLock does not tell the two places apart.                           *)
LEMMA PlaceMoves ==
  ASSUME TypeOK, NEW r \in Requests, NEW state, pc' = [pc EXCEPT ![r] = state]
  PROVE  /\ LL!Move(r, Seen(pc[r]), Seen(state))
         /\ Seen(state) = Seen(pc[r]) => at' = at
<1>1. at' = [at EXCEPT ![r] = Seen(state)] /\ at[r] = Seen(pc[r])
  BY DEF TypeOK, at, Seen
<1>2. at' = at \/ Seen(state) # Seen(pc[r])
  BY <1>1 DEF at, Seen
<1> QED
  BY <1>1, <1>2 DEF LL!Move

LEMMA StepImplements == TypeOK /\ [Next]_vars => [LL!LockNext]_<<key, at>>
<1> SUFFICES ASSUME TypeOK, [Next]_vars PROVE LL!LockNext \/ UNCHANGED <<key, at>>
  OBVIOUS
<1>1. ASSUME NEW r \in Requests, Acquire(r) PROVE LL!Call(r)
  BY <1>1, PlaceMoves DEF Acquire, Move, Seen, LL!Call
<1>2. ASSUME NEW r \in Requests, AcquireVoted(r) PROVE LL!Grant(r)
  BY <1>2, PlaceMoves DEF AcquireVoted, Move, Seen, LL!Grant
<1>3. ASSUME NEW r \in Requests, AcquireAgainst(r)
      PROVE  LL!Strand(r) \/ UNCHANGED <<key, at>>
  <2>1. pc[r] = "asking" /\ (pc' = pc \/ pc' = [pc EXCEPT ![r] = "cleaning"])
    BY <1>3, AgainstMoves DEF AcquireAgainst, Phase
  <2>2. at' = at /\ at[r] = "waiting"
    <3>1. CASE pc' = pc
      BY <2>1, <3>1 DEF at, Seen
    <3>2. CASE pc' = [pc EXCEPT ![r] = "cleaning"]
      BY <2>1, <3>2, PlaceMoves DEF Seen, at
    <3> QED
      BY <2>1, <3>1, <3>2
  <2> QED
    BY <1>3, <2>2 DEF AcquireAgainst, LL!Strand
<1>4. ASSUME NEW r \in Requests, CleanUp(r) PROVE LL!Refuse(r)
  BY <1>4, PlaceMoves DEF CleanUp, Move, Seen, Dropped, LL!Refuse, LL!Dropped
<1>5. ASSUME NEW r \in Requests, CallRelease(r) PROVE UNCHANGED <<key, at>>
  BY <1>5, PlaceMoves DEF CallRelease, Move, Seen
<1>6. ASSUME NEW r \in Requests, ReleaseVoted(r) PROVE LL!Release(r)
  BY <1>6, PlaceMoves DEF ReleaseVoted, Move, Seen, LL!Release, LL!Dropped
<1>7. ASSUME NEW r \in Requests, ReleaseAgainst(r)
      PROVE  LL!Abandon(r) \/ UNCHANGED <<key, at>>
  <2>1. /\ pc[r] \in {"releasing", "freed"}
        /\ pc' = pc \/ pc' = [pc EXCEPT ![r] = "done"]
    BY <1>7, AgainstMoves DEF ReleaseAgainst, Phase
  <2>2. CASE pc' = pc
    BY <1>7, <2>2 DEF ReleaseAgainst, at, Seen
  <2>3. CASE pc' = [pc EXCEPT ![r] = "done"]
    BY <1>7, <2>1, <2>3, PlaceMoves DEF ReleaseAgainst, Seen, LL!Abandon
  <2> QED
    BY <2>1, <2>2, <2>3
<1>8. ASSUME NEW r \in Requests, ReleaseUnheard(r) PROVE LL!Release(r)
  BY <1>8, PlaceMoves DEF ReleaseUnheard, Move, Seen, LL!Release, LL!Dropped
<1>9. ASSUME NEW r \in Requests, Crash(r)
      PROVE  LL!Abandon(r) \/ LL!Refuse(r) \/ UNCHANGED <<key, at>>
  <2>1. Seen(pc[r]) \in {"waiting", "in", "done"} /\ Seen("done") = "done"
    BY <1>9 DEF Crash, TypeOK, Phase, Seen
  <2> QED
    BY <1>9, <2>1, PlaceMoves DEF Crash, LL!Abandon, LL!Refuse
<1>10. CASE Expire
  BY <1>10 DEF Expire, LL!LockNext, LL!Expire, at, Seen
<1>11. CASE UNCHANGED vars
  BY <1>11 DEF vars, at, Seen
<1> QED
  BY <1>1, <1>2, <1>3, <1>4, <1>5, <1>6, <1>7, <1>8, <1>9, <1>10, <1>11 DEF Next, LL!LockNext

(* The lock of the redlock library on a single Redis is a LeaseLock.       *)
THEOREM RedlockImplementsLease == SafetySpec => ImplementsLease
<1>1. Init => LL!LockInit
  BY DEF Init, LL!LockInit, at, Seen
<1>2. TypeOK /\ [Next]_vars => [LL!LockNext]_LL!lockVars
  BY StepImplements DEF LL!lockVars
<1> QED
  BY <1>1, <1>2, TypeCorrect, PTL DEF SafetySpec, ImplementsLease, LL!LockSafety
=============================================================================
