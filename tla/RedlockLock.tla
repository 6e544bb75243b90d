---------------------------- MODULE RedlockLock ----------------------------
(***************************************************************************)
(* RedlockLockService: the redlock library on a single Redis, and the Map  *)
(* of its Lock objects.  The library repeats a script up to retryCount     *)
(* times after the first try, counts an answer that is lost as a vote      *)
(* against, and reports an ExecutionError when no try got its vote.        *)
(* Time is not modelled: a lease expires at any moment.                    *)
(***************************************************************************)
EXTENDS Naturals

CONSTANTS
  Requests, Free,  \* as in LeaseLock
  MaxTries         \* retryCount + 1

ASSUME FreeIsNoRequest == Free \notin Requests
ASSUME SomeTry == MaxTries \in Nat \ {0}

VARIABLES
  key,         \* the token Redis holds, or Free
  pc,          \* where a request is
  tries,       \* tries[r]: tries made of the script under way
  activeLocks  \* requests whose Lock object the service keeps

vars == <<key, pc, tries, activeLocks>>

(***************************************************************************)
(* "asking"     acquire script under way                                   *)
(* "cleaning"   no vote: the library releases what it may have taken       *)
(* "held"       the handle is with the caller                              *)
(* "releasing"  release script under way                                   *)
(* "freed"      release script executed, its answer lost, tries go on      *)
(***************************************************************************)
Phase == {"idle", "asking", "cleaning", "held", "releasing", "freed", "done"}

TypeOK ==
  /\ key \in Requests \cup {Free}
  /\ pc \in [Requests -> Phase]
  /\ tries \in [Requests -> 0..MaxTries - 1]
  /\ activeLocks \subseteq Requests

Init ==
  /\ key = Free
  /\ pc = [r \in Requests |-> "idle"]
  /\ tries = [r \in Requests |-> 0]
  /\ activeLocks = {}

-----------------------------------------------------------------------------
Move(r, from, to) == pc[r] = from /\ pc' = [pc EXCEPT ![r] = to]
NoTries(r) == tries' = [tries EXCEPT ![r] = 0]
Dropped(r) == IF key = r THEN Free ELSE key

Acquire(r) == Move(r, "idle", "asking") /\ UNCHANGED <<key, tries, activeLocks>>

(* The acquire script takes a key that does not exist.                     *)
AcquireVoted(r) ==
  /\ Move(r, "asking", "held")
  /\ key = Free
  /\ key' = r
  /\ NoTries(r)
  /\ activeLocks' = activeLocks \cup {r}

(* The count after n tries, and whether there is no further one.  Slips: a *)
(* count that stands still (retryCount -1) and one that ends too late.     *)
MutNotCounted(n) == n
CountTry(n) == n + 1
MutOneMore(n) == CountTry(n) > MaxTries
IsLastTry(n) == CountTry(n) >= MaxTries

(* A try without a vote: another one, or on to state last.                 *)
Against(r, from, last) ==
  \/ /\ ~IsLastTry(tries[r])
     /\ pc[r] = from
     /\ tries' = [tries EXCEPT ![r] = CountTry(@)]
     /\ UNCHANGED pc
  \/ /\ IsLastTry(tries[r])
     /\ Move(r, from, last)
     /\ NoTries(r)

(* The key exists, the script fails, or it takes the key and its answer is *)
(* lost: a later try then finds the key taken by the request itself.       *)
AcquireAgainst(r) ==
  /\ Against(r, "asking", "cleaning")
  /\ \/ UNCHANGED key
     \/ key = Free /\ key' = r
  /\ UNCHANGED activeLocks

(* A clean-up without the token check.                                     *)
MutCleanUpAnyKey(r) ==
  /\ Move(r, "cleaning", "done")
  /\ key' = Free
  /\ UNCHANGED <<tries, activeLocks>>

(* One try of the release script, then ExecutionError and null.            *)
CleanUp(r) ==
  /\ Move(r, "cleaning", "done")
  /\ key' \in {key, Dropped(r)}
  /\ UNCHANGED <<tries, activeLocks>>

(* release finds the Lock object of the token.                             *)
CallRelease(r) ==
  /\ r \in activeLocks
  /\ Move(r, "held", "releasing")
  /\ UNCHANGED <<key, tries, activeLocks>>

(* The script deletes the key and release forgets the Lock object.         *)
ReleaseVoted(r) ==
  /\ key = r
  /\ Move(r, "releasing", "done")
  /\ key' = Free
  /\ NoTries(r)
  /\ activeLocks' = activeLocks \ {r}

(* The key is not the caller's any more or the script fails; after the     *)
(* last try release rejects and the Lock object stays in the Map.          *)
ReleaseAgainst(r) ==
  /\ \/ Against(r, "releasing", "done")
     \/ Against(r, "freed", "done")
  /\ UNCHANGED <<key, activeLocks>>

(* The script deletes the key and its answer is lost.                      *)
ReleaseUnheard(r) ==
  /\ key = r
  /\ key' = Free
  /\ \/ /\ ~IsLastTry(tries[r])
        /\ Move(r, "releasing", "freed")
        /\ tries' = [tries EXCEPT ![r] = CountTry(@)]
     \/ /\ IsLastTry(tries[r])
        /\ Move(r, "releasing", "done")
        /\ NoTries(r)
  /\ UNCHANGED activeLocks

Crash(r) ==
  /\ pc[r] \notin {"idle", "done"}
  /\ pc' = [pc EXCEPT ![r] = "done"]
  /\ NoTries(r)
  /\ activeLocks' = activeLocks \ {r}
  /\ UNCHANGED key

(* The lease runs out.                                                     *)
Expire ==
  /\ key # Free
  /\ key' = Free
  /\ UNCHANGED <<pc, tries, activeLocks>>

Next ==
  \/ \E r \in Requests :
       \/ Acquire(r) \/ AcquireVoted(r) \/ AcquireAgainst(r) \/ CleanUp(r) \/ CallRelease(r)
       \/ ReleaseVoted(r) \/ ReleaseAgainst(r) \/ ReleaseUnheard(r) \/ Crash(r)
  \/ Expire

(* Redis or the library's error handling ends every try; leases expire.    *)
Fairness ==
  /\ \A r \in Requests : WF_vars(AcquireVoted(r) \/ AcquireAgainst(r) \/ CleanUp(r))
  /\ WF_vars(Expire)

SafetySpec == Init /\ [][Next]_vars
Spec == SafetySpec /\ Fairness

-----------------------------------------------------------------------------
(* How LeaseLock sees a place: a key that was freed is released, though    *)
(* release has not returned yet.                                           *)
Seen(state) == CASE state \in {"asking", "cleaning"} -> "waiting"
                 [] state \in {"held", "releasing"}  -> "in"
                 [] state \in {"freed", "done"}      -> "done"
                 [] OTHER                            -> "idle"
at == [r \in Requests |-> Seen(pc[r])]

LL == INSTANCE LeaseLock WITH owner <- key

(* RedlockLockService keeps the promise of LockService through repeated    *)
(* scripts and lost answers: no key held by a request is given to or       *)
(* deleted by another, whatever the retries and the clean-up find.         *)
ImplementsLease == LL!LockSafety

(* Every acquire ends within its tries, and every lease left alone ends.   *)
ImplementsLeaseFairly == LL!LockFairness
=============================================================================
