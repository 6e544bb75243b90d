------------------------- MODULE IssueCouponProofs -------------------------
(***************************************************************************)
(* Proofs about IssueCoupon, for every set of requests and every stock.    *)
(***************************************************************************)
EXTENDS IssueCoupon, FiniteSetTheorems, TLAPS

(* A request is inside of the try block exactly while it has the lock.     *)
InTry == \A r \in Requests : step[r] # "none" <=> at[r] = "in"

(* Without a harmful lapse, a request that has yet to write the stock owns *)
(* the key, so there is one such request at most.                          *)
Protected ==
  ~lapsed => \A r \in Requests : step[r] \in {"find", "save"} => owner = r

(* What a request has read of the stock is positive, and still true.       *)
Fresh ==
  \A r \in Requests : step[r] = "save" =>
    /\ stock # NoCoupon
    /\ read[r] > 0
    /\ ~lapsed => read[r] = stock

(* A request writes the stock once.                                        *)
Once ==
  \A r \in Requests :
    /\ at[r] \in {"idle", "waiting"} \/ step[r] \in {"find", "save"} => r \notin saved
    /\ step[r] = "create" => r \in saved

NoneSaved == stock = NoCoupon => saved = {}

IInv == TypeOK /\ InTry /\ Protected /\ Fresh /\ Once /\ NoneSaved /\ StockCounted

USE DEF LL!Place, LL!LockTypeOK, Step, Status

-----------------------------------------------------------------------------
LEMMA SavedFinite ==
  ASSUME TypeOK
  PROVE  IsFiniteSet(saved) /\ Cardinality(saved) \in Nat
BY FiniteRequests, FS_Subset, FS_CardinalityType DEF TypeOK

LEMMA InitInvariant == Init => IInv
<1> SUFFICES ASSUME Init PROVE IInv
  OBVIOUS
<1>1. TypeOK
  BY DEF Init, LL!LockInit, TypeOK
<1>2. InTry /\ Protected /\ Fresh /\ Once /\ NoneSaved /\ StockCounted
  BY DEF Init, LL!LockInit, InTry, Protected, Fresh, Once, NoneSaved, StockCounted
<1> QED
  BY <1>1, <1>2 DEF IInv

LEMMA StepInvariant == IInv /\ [Next]_vars => IInv'
<1> SUFFICES ASSUME IInv, [Next]_vars PROVE IInv'
  OBVIOUS
<1> USE DEF IInv
<1>1. CASE Seed
  <2>1. TypeOK'
    BY <1>1, CountIsNat DEF Seed, TypeOK, lock
  <2>2. InTry' /\ Protected' /\ Once'
    BY <1>1 DEF Seed, InTry, Protected, Once, lock
  <2>3. Fresh' /\ NoneSaved'
    BY <1>1, CountIsNat, NoCouponIsNoCount DEF Seed, Fresh, NoneSaved
  <2>4. StockCounted'
    BY <1>1, CountIsNat, FS_EmptySet DEF Seed, NoneSaved, StockCounted
  <2> QED
    BY <2>1, <2>2, <2>3, <2>4
<1>2. ASSUME NEW r \in Requests, Call(r) PROVE IInv'
  <2> USE <1>2 DEF Call, LL!Call, LL!Move
  <2>1. TypeOK'
    BY DEF TypeOK, rows
  <2>2. InTry' /\ Protected' /\ Fresh' /\ Once'
    BY DEF TypeOK, InTry, Protected, Fresh, Once, rows
  <2>3. NoneSaved' /\ StockCounted'
    BY DEF rows, NoneSaved, StockCounted
  <2> QED
    BY <2>1, <2>2, <2>3
<1>3. ASSUME NEW r \in Requests, Acquired(r) PROVE IInv'
  <2> USE <1>3 DEF Acquired, LL!Grant, LL!Move
  <2>1. TypeOK'
    BY DEF TypeOK, rows
  <2>2. InTry' /\ Fresh' /\ Once'
    BY DEF TypeOK, InTry, Fresh, Once, rows
  <2>3. Protected'
    BY FreeIsNoRequest DEF TypeOK, Protected
  <2>4. NoneSaved' /\ StockCounted'
    BY DEF rows, NoneSaved, StockCounted
  <2> QED
    BY <2>1, <2>2, <2>3, <2>4
<1>4. ASSUME NEW r \in Requests, StrandedTry(r) PROVE IInv'
  <2> USE <1>4 DEF StrandedTry, LL!Strand, LL!Move
  <2>1. TypeOK'
    BY DEF TypeOK, rows
  <2>2. InTry' /\ Fresh' /\ Once'
    BY DEF TypeOK, InTry, Fresh, Once, rows
  <2>3. Protected'
    BY FreeIsNoRequest DEF TypeOK, Protected
  <2>4. NoneSaved' /\ StockCounted'
    BY DEF rows, NoneSaved, StockCounted
  <2> QED
    BY <2>1, <2>2, <2>3, <2>4
<1>5. ASSUME NEW r \in Requests, NotAcquired(r) PROVE IInv'
  <2> USE <1>5 DEF NotAcquired, LL!Refuse, LL!Strand, LL!Move, LL!Dropped
  <2>1. TypeOK'
    BY DEF TypeOK, rows
  <2>2. InTry' /\ Fresh' /\ Once'
    BY DEF TypeOK, InTry, Fresh, Once, rows
  <2>3. Protected'
    BY FreeIsNoRequest DEF TypeOK, InTry, Protected
  <2>4. NoneSaved' /\ StockCounted'
    BY DEF rows, NoneSaved, StockCounted
  <2> QED
    BY <2>1, <2>2, <2>3, <2>4
<1>6. ASSUME NEW r \in Requests, Find(r) PROVE IInv'
  <2> USE <1>6 DEF Find, Holding, Leave, lock, HasStock
  <2>1. TypeOK'
    BY DEF TypeOK, rows
  <2>2. InTry' /\ Protected' /\ Once'
    BY DEF TypeOK, InTry, Protected, Once, rows
  <2>3. Fresh'
    BY DEF TypeOK, Fresh, rows
  <2>4. NoneSaved' /\ StockCounted'
    BY DEF rows, NoneSaved, StockCounted
  <2> QED
    BY <2>1, <2>2, <2>3, <2>4
<1>7. ASSUME NEW r \in Requests, Save(r) PROVE IInv'
  <2> USE <1>7 DEF Save, Update, Holding, Leave, lock
  <2>1. r \notin saved /\ read[r] \in Nat \ {0} /\ stock # NoCoupon
    BY DEF TypeOK, Fresh, Once
  <2>2. TypeOK'
    BY <2>1 DEF TypeOK
  <2>3. InTry' /\ Once'
    BY DEF TypeOK, InTry, Once
  <2>4. ~lapsed => \A q \in Requests \ {r} : step[q] \notin {"find", "save"}
    BY DEF Protected
  <2>5. Protected'
    BY DEF TypeOK, Protected
  <2>6. Fresh'
    BY <2>1, <2>4, NoCouponIsNoCount DEF TypeOK, Fresh
  <2>7. NoneSaved'
    BY <2>1, NoCouponIsNoCount DEF NoneSaved
  <2>8. Cardinality(saved') = Cardinality(saved) + 1
    BY <2>1, SavedFinite, FS_AddElement
  <2>9. StockCounted'
    BY <2>1, <2>8, SavedFinite, CountIsNat DEF StockCounted, Fresh
  <2> QED
    BY <2>2, <2>3, <2>5, <2>6, <2>7, <2>9
<1>8. ASSUME NEW r \in Requests, Create(r) PROVE IInv'
  <2> USE <1>8 DEF Create, Holding, Leave, lock
  <2>1. TypeOK'
    BY DEF TypeOK, Once
  <2>2. InTry' /\ Protected' /\ Fresh' /\ Once'
    BY DEF TypeOK, InTry, Protected, Fresh, Once
  <2>3. NoneSaved' /\ StockCounted'
    BY DEF NoneSaved, StockCounted
  <2> QED
    BY <2>1, <2>2, <2>3
<1>9. ASSUME NEW r \in Requests, StatementFails(r) PROVE IInv'
  <2> USE <1>9 DEF StatementFails, Holding, Leave, lock
  <2>1. TypeOK'
    BY DEF TypeOK, rows
  <2>2. InTry' /\ Protected' /\ Fresh' /\ Once'
    BY DEF TypeOK, InTry, Protected, Fresh, Once, rows
  <2>3. NoneSaved' /\ StockCounted'
    BY DEF rows, NoneSaved, StockCounted
  <2> QED
    BY <2>1, <2>2, <2>3
<1>10. ASSUME NEW r \in Requests, Release(r) PROVE IInv'
  <2> USE <1>10 DEF Release, Holding, LL!Release, LL!Move, LL!Dropped
  <2>1. TypeOK'
    BY DEF TypeOK, rows
  <2>2. InTry' /\ Fresh' /\ Once'
    BY DEF TypeOK, InTry, Fresh, Once, rows
  <2>3. Protected'
    BY DEF TypeOK, Protected
  <2>4. NoneSaved' /\ StockCounted'
    BY DEF rows, NoneSaved, StockCounted
  <2> QED
    BY <2>1, <2>2, <2>3, <2>4
<1>11. ASSUME NEW r \in Requests, ReleaseFails(r) \/ Crash(r) PROVE IInv'
  <2> USE <1>11 DEF ReleaseFails, Crash, Holding, LL!Abandon, LL!Refuse, LL!Move
  <2>1. TypeOK'
    BY DEF TypeOK, rows
  <2>2. InTry' /\ Fresh' /\ Once'
    BY DEF TypeOK, InTry, Fresh, Once, rows
  <2>3. Protected'
    BY DEF TypeOK, Protected
  <2>4. NoneSaved' /\ StockCounted'
    BY DEF rows, NoneSaved, StockCounted
  <2> QED
    BY <2>1, <2>2, <2>3, <2>4
<1>12. CASE Expire
  <2> USE <1>12 DEF Expire, LL!Expire
  <2>1. TypeOK'
    BY DEF TypeOK, rows
  <2>2. InTry' /\ Fresh' /\ Once'
    BY DEF TypeOK, InTry, Fresh, Once, rows
  <2>3. Protected'
    BY DEF TypeOK, Protected
  <2>4. NoneSaved' /\ StockCounted'
    BY DEF rows, NoneSaved, StockCounted
  <2> QED
    BY <2>1, <2>2, <2>3, <2>4
<1>13. CASE UNCHANGED vars
  BY <1>13 DEF vars, lock, rows, TypeOK, InTry, Protected, Fresh, Once, NoneSaved, StockCounted
<1> QED
  BY <1>1, <1>2, <1>3, <1>4, <1>5, <1>6, <1>7, <1>8, <1>9, <1>10, <1>11, <1>12, <1>13
     DEF Next, Proceed

LEMMA InductiveInvariant == SafetySpec => []IInv
<1> QED
  BY InitInvariant, StepInvariant, PTL DEF SafetySpec

-----------------------------------------------------------------------------
(* The database rows, the places of the requests and what they remember    *)
(* have their types in every reachable state; the stock is never negative. *)
THEOREM TypeCorrect == SafetySpec => []TypeOK
<1>1. IInv => TypeOK
  BY DEF IInv
<1> QED
  BY <1>1, InductiveInvariant, PTL

(* No UPDATE of the stock is lost while no lease has expired between a     *)
(* read and its write.                                                     *)
THEOREM StockAlwaysCounted == SafetySpec => []StockCounted
<1>1. IInv => StockCounted
  BY DEF IInv
<1> QED
  BY <1>1, InductiveInvariant, PTL

(* Under the same condition the coupons issued never exceed the stock the  *)
(* coupon was seeded with: for any number of requests and any stock.       *)
THEOREM NeverOversells == SafetySpec => []NoOversell
<1>1. IInv => NoOversell
  <2> SUFFICES ASSUME IInv, ~lapsed PROVE Cardinality(issued) <= MaxCount
    BY DEF NoOversell
  <2>1. IsFiniteSet(saved) /\ Cardinality(saved) \in Nat
    BY SavedFinite DEF IInv
  <2>2. Cardinality(issued) \in Nat /\ Cardinality(issued) <= Cardinality(saved)
    BY <2>1, FS_Subset, FS_CardinalityType DEF IInv, TypeOK
  <2>3. Cardinality(saved) <= MaxCount
    BY <2>1, CountIsNat, FS_EmptySet DEF IInv, TypeOK, NoneSaved, StockCounted
  <2> QED
    BY <2>1, <2>2, <2>3, CountIsNat
<1> QED
  BY <1>1, InductiveInvariant, PTL

-----------------------------------------------------------------------------
(* A request has no answer before its try block ends.                      *)
Unanswered ==
  \A r \in Requests :
    at[r] \in {"idle", "waiting"} \/ step[r] \in {"find", "save", "create"} => answer[r] = 0

LEMMA AnswersStep ==
  ASSUME IInv, Unanswered, AnswersTrue, LockNotLeft, [Next]_vars
  PROVE  Unanswered' /\ AnswersTrue' /\ LockNotLeft'
<1> USE DEF IInv, TypeOK, InTry, Once, Unanswered, AnswersTrue, LockNotLeft
<1>1. CASE Seed
  BY <1>1 DEF Seed, lock
<1>2. ASSUME NEW r \in Requests, Call(r) PROVE Unanswered' /\ AnswersTrue' /\ LockNotLeft'
  BY <1>2 DEF Call, LL!Call, LL!Move, rows
<1>3. ASSUME NEW r \in Requests, Acquired(r) PROVE Unanswered' /\ AnswersTrue' /\ LockNotLeft'
  BY <1>3 DEF Acquired, LL!Grant, LL!Move, rows
<1>4. ASSUME NEW r \in Requests, StrandedTry(r) PROVE Unanswered' /\ AnswersTrue' /\ LockNotLeft'
  BY <1>4 DEF StrandedTry, LL!Strand, LL!Move, rows
<1>5. ASSUME NEW r \in Requests, NotAcquired(r) PROVE Unanswered' /\ AnswersTrue' /\ LockNotLeft'
  BY <1>5, FreeIsNoRequest DEF NotAcquired, LL!Refuse, LL!Strand, LL!Move, LL!Dropped, rows
<1>6. ASSUME NEW r \in Requests, Find(r) PROVE Unanswered' /\ AnswersTrue' /\ LockNotLeft'
  BY <1>6 DEF Find, Holding, Leave, lock, rows
<1>7. ASSUME NEW r \in Requests, Save(r) PROVE Unanswered' /\ AnswersTrue' /\ LockNotLeft'
  BY <1>7 DEF Save, Update, Holding, Leave, lock
<1>8. ASSUME NEW r \in Requests, Create(r) PROVE Unanswered' /\ AnswersTrue' /\ LockNotLeft'
  BY <1>8 DEF Create, Holding, Leave, lock
<1>9. ASSUME NEW r \in Requests, StatementFails(r) PROVE Unanswered' /\ AnswersTrue' /\ LockNotLeft'
  BY <1>9 DEF StatementFails, Holding, Leave, lock, rows
<1>10. ASSUME NEW r \in Requests, Release(r) PROVE Unanswered' /\ AnswersTrue' /\ LockNotLeft'
  BY <1>10, FreeIsNoRequest DEF Release, Holding, LL!Release, LL!Move, LL!Dropped, rows
<1>11. ASSUME NEW r \in Requests, ReleaseFails(r) \/ Crash(r)
       PROVE  Unanswered' /\ AnswersTrue' /\ LockNotLeft'
  BY <1>11 DEF ReleaseFails, Crash, Holding, LL!Abandon, LL!Refuse, LL!Move, rows
<1>12. CASE Expire
  BY <1>12, FreeIsNoRequest DEF Expire, LL!Expire, rows
<1>13. CASE UNCHANGED vars
  BY <1>13 DEF vars, lock, rows
<1> QED
  BY <1>1, <1>2, <1>3, <1>4, <1>5, <1>6, <1>7, <1>8, <1>9, <1>10, <1>11, <1>12, <1>13
     DEF Next, Proceed

LEMMA AnswersHold == SafetySpec => [](AnswersTrue /\ LockNotLeft)
<1>1. Init => Unanswered /\ AnswersTrue /\ LockNotLeft
  BY DEF Init, LL!LockInit, Unanswered, AnswersTrue, LockNotLeft
<1>2. IInv /\ Unanswered /\ AnswersTrue /\ LockNotLeft /\ [Next]_vars
        => Unanswered' /\ AnswersTrue' /\ LockNotLeft'
  BY AnswersStep
<1> QED
  BY <1>1, <1>2, InductiveInvariant, PTL DEF SafetySpec

(* A 201 is a row in issued_coupons, a 404 or 409 has taken nothing from   *)
(* the stock, whatever statements, releases and processes fail.            *)
THEOREM AnswersAreTrue == SafetySpec => []AnswersTrue
BY AnswersHold, PTL

(* The finally clause: no request answered 201 or 404 keeps the lock.      *)
THEOREM LockIsNotLeft == SafetySpec => []LockNotLeft
BY AnswersHold, PTL
=============================================================================
