---------------------------- MODULE IssueCoupon ----------------------------
(***************************************************************************)
(* POST /coupons/:id/issue for one coupon id: IssueCouponUseCase.execute   *)
(* under the lock of the coupon.  The lock is what LeaseLock promises, so  *)
(* what is shown here holds with either LockService.  Coupons with other   *)
(* ids have other keys and other rows.                                     *)
(* A database statement and the code up to the next await are one action:  *)
(* that code touches nothing another request can see.                      *)
(***************************************************************************)
EXTENDS Integers, FiniteSets

CONSTANTS
  Requests, Free,  \* as in LeaseLock: one request issues at most one coupon
  MaxCount,        \* the stock the coupon is seeded with
  NoCoupon         \* no row with this id

ASSUME FreeIsNoRequest == Free \notin Requests
ASSUME FiniteRequests == IsFiniteSet(Requests)
ASSUME CountIsNat == MaxCount \in Nat
ASSUME NoCouponIsNoCount == NoCoupon \notin Int

VARIABLES
  owner, at,  \* LeaseLock
  stock,      \* coupons.stock, or NoCoupon
  issued,     \* requests with a row in issued_coupons
  step,       \* step[r]: the statement a request is about to run
  read,       \* read[r]: the stock findById returned
  answer,     \* answer[r]: the HTTP status, 0 for none
  saved,      \* history: requests whose UPDATE of the stock was executed
  lapsed      \* history: a lease has expired under its holder

lock == <<owner, at>>
rows == <<stock, issued, saved>>
vars == <<lock, rows, step, read, answer, lapsed>>

LL == INSTANCE LeaseLock

Step   == {"none", "find", "save", "create", "release"}
Status == {0, 201, 404, 409, 500}

TypeOK ==
  /\ LL!LockTypeOK
  /\ stock \in {NoCoupon} \cup Nat
  /\ issued \subseteq saved
  /\ saved \subseteq Requests
  /\ step \in [Requests -> Step]
  /\ read \in [Requests -> Nat]
  /\ answer \in [Requests -> Status]
  /\ lapsed \in BOOLEAN

Init ==
  /\ LL!LockInit
  /\ stock = NoCoupon
  /\ issued = {}
  /\ saved = {}
  /\ step = [r \in Requests |-> "none"]
  /\ read = [r \in Requests |-> 0]
  /\ answer = [r \in Requests |-> 0]
  /\ lapsed = FALSE

-----------------------------------------------------------------------------
(* POST /coupons/seed.                                                     *)
Seed ==
  /\ stock = NoCoupon
  /\ stock' = MaxCount
  /\ UNCHANGED <<lock, issued, saved, step, read, answer, lapsed>>

(* execute: the acquire, outside of the try block.                         *)
Call(r) ==
  /\ LL!Call(r)
  /\ UNCHANGED <<rows, step, read, answer, lapsed>>

Acquired(r) ==
  /\ LL!Grant(r)
  /\ step' = [step EXCEPT ![r] = "find"]
  /\ UNCHANGED <<rows, read, answer, lapsed>>

(* A try of the acquire that takes the key without learning of it.         *)
StrandedTry(r) ==
  /\ LL!Strand(r)
  /\ at[r] = at'[r]
  /\ UNCHANGED <<rows, step, read, answer, lapsed>>

(* null ends in 409, a rejection in 500, whether or not the key was taken. *)
NotAcquired(r) ==
  /\ \/ LL!Refuse(r)
     \/ LL!Strand(r) /\ at[r] # at'[r]
  /\ \E status \in {409, 500} : answer' = [answer EXCEPT ![r] = status]
  /\ UNCHANGED <<rows, step, read, lapsed>>

-----------------------------------------------------------------------------
Holding(r, s) == at[r] = "in" /\ step[r] = s

(* The try block ends and its finally clause calls release.  The slip has  *)
(* no finally clause.                                                      *)
MutNoFinally(r, status) ==
  /\ step' = [step EXCEPT ![r] = "none"]
  /\ answer' = [answer EXCEPT ![r] = status]

Leave(r, status) ==
  /\ step' = [step EXCEPT ![r] = "release"]
  /\ answer' = [answer EXCEPT ![r] = status]

(* findById, the two refusals, and stock -= 1 on the object read.  Slip:   *)
(* the stock is compared with -1.                                          *)
MutHasStock(n) == n >= 0
HasStock(n) == n > 0

Find(r) ==
  /\ Holding(r, "find")
  /\ \/ stock = NoCoupon /\ Leave(r, 404) /\ UNCHANGED read
     \/ /\ stock # NoCoupon
        /\ \/ ~HasStock(stock) /\ Leave(r, 409) /\ UNCHANGED read
           \/ /\ HasStock(stock)
              /\ read' = [read EXCEPT ![r] = stock]
              /\ step' = [step EXCEPT ![r] = "save"]
              /\ UNCHANGED answer
  /\ UNCHANGED <<lock, rows, lapsed>>

(* couponRepo.save: UPDATE coupons SET stock = the value of the object.    *)
(* The slip saves the object as it was read.                               *)
MutUpdateNothing(r) == stock' = read[r] /\ saved' = saved \cup {r}
Update(r) == stock' = read[r] - 1 /\ saved' = saved \cup {r}

Save(r) ==
  /\ Holding(r, "save")
  /\ Update(r)
  /\ \/ step' = [step EXCEPT ![r] = "create"] /\ UNCHANGED answer
     \/ Leave(r, 500)   \* the answer, or the SELECT that follows, is lost
  /\ UNCHANGED <<lock, issued, read, lapsed>>

(* issuedCouponRepo.create: INSERT INTO issued_coupons.                    *)
Create(r) ==
  /\ Holding(r, "create")
  /\ issued' = issued \cup {r}
  /\ \E status \in {201, 500} : Leave(r, status)   \* 500: the answer is lost
  /\ UNCHANGED <<lock, stock, saved, read, lapsed>>

(* A statement rejects without having been executed.  The slip answers     *)
(* every error with a conflict.                                            *)
MutFailsAsConflict(r) ==
  /\ \E s \in {"find", "save", "create"} : Holding(r, s)
  /\ Leave(r, 409)
  /\ UNCHANGED <<lock, rows, read, lapsed>>

StatementFails(r) ==
  /\ \E s \in {"find", "save", "create"} : Holding(r, s)
  /\ Leave(r, 500)
  /\ UNCHANGED <<lock, rows, read, lapsed>>

(* Slip: release is called with another handle.                            *)
MutWrongHandle(r) ==
  /\ Holding(r, "release")
  /\ LL!Abandon(r)
  /\ step' = [step EXCEPT ![r] = "none"]
  /\ UNCHANGED <<rows, read, answer, lapsed>>

(* release: a lease that has expired is passed over (SetnxLock) or makes   *)
(* release, and with it execute, reject (RedlockLock).                     *)
Release(r) ==
  /\ Holding(r, "release")
  /\ LL!Release(r)
  /\ step' = [step EXCEPT ![r] = "none"]
  /\ \/ UNCHANGED answer
     \/ owner # r /\ answer' = [answer EXCEPT ![r] = 500]
  /\ UNCHANGED <<rows, read, lapsed>>

ReleaseFails(r) ==
  /\ Holding(r, "release")
  /\ LL!Abandon(r)
  /\ step' = [step EXCEPT ![r] = "none"]
  /\ answer' = [answer EXCEPT ![r] = 500]
  /\ UNCHANGED <<rows, read, lapsed>>

(* The process of the request dies: no answer, no finally clause.          *)
Crash(r) ==
  /\ LL!Abandon(r) \/ (LL!Refuse(r) /\ owner' = owner)
  /\ step' = [step EXCEPT ![r] = "none"]
  /\ answer' = [answer EXCEPT ![r] = 0]
  /\ UNCHANGED <<rows, read, lapsed>>

(* 5000 ms have passed.  Only a holder that has yet to run its UPDATE is   *)
(* hurt: what the lock protects is the stock from its read to its write.   *)
Expire ==
  /\ LL!Expire
  /\ lapsed' = (lapsed \/ step[owner] \in {"find", "save"})
  /\ UNCHANGED <<rows, step, read, answer>>

(* The steps of the acquire, of the try block and of the finally clause.   *)
AcquireEnds(r) == Acquired(r) \/ NotAcquired(r)
Proceed(r) == \/ Find(r) \/ Save(r) \/ Create(r) \/ StatementFails(r)
              \/ Release(r) \/ ReleaseFails(r)

Next ==
  \/ Seed \/ Expire
  \/ \E r \in Requests : \/ Call(r) \/ Acquired(r) \/ StrandedTry(r) \/ NotAcquired(r)
                         \/ Proceed(r) \/ Crash(r)

(* LockService answers, the database answers, leases expire.               *)
Fairness ==
  /\ \A r \in Requests : WF_vars(AcquireEnds(r)) /\ WF_vars(Proceed(r))
  /\ WF_vars(Expire)

SafetySpec == Init /\ [][Next]_vars
Spec == SafetySpec /\ Fairness

-----------------------------------------------------------------------------
(* While no lease has expired between a read of the stock and its write,   *)
(* every executed UPDATE has taken exactly one from the stock: no update   *)
(* is lost, although each writes a value computed from an earlier read.    *)
StockCounted ==
  ~lapsed /\ stock # NoCoupon => stock + Cardinality(saved) = MaxCount

(* Under the same condition no more coupons are issued than were seeded,   *)
(* whatever statements, releases and processes fail.                       *)
NoOversell == ~lapsed => Cardinality(issued) <= MaxCount

(* An answer tells what happened: 201 is a row in issued_coupons, 404 and  *)
(* 409 have taken nothing from the stock.                                  *)
AnswersTrue ==
  \A r \in Requests :
    /\ answer[r] = 201 => r \in issued
    /\ answer[r] \in {404, 409} => r \notin saved

(* The finally clause: a request that was answered 201 or 404 has left no  *)
(* lock behind for its lease to end.                                       *)
LockNotLeft ==
  \A r \in Requests : at[r] = "done" /\ answer[r] \in {201, 404} => owner # r

(* Every request is over at some time: none waits forever for the lock or  *)
(* with it.                                                                *)
RequestsEnd == \A r \in Requests : at[r] \in {"waiting", "in"} ~> at[r] = "done"

=============================================================================
