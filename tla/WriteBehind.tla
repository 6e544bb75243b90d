----------------------------- MODULE WriteBehind -----------------------------
(***************************************************************************)
(* What the write-behind strategy promises of a patch it has accepted: the *)
(* product's latest one stays queued until the table has it.  A batch of   *)
(* queued patches is taken, applied product by product, in any order and   *)
(* as often as it likes, and let go of.  ProductCache implements it.       *)
(***************************************************************************)
EXTENDS TLAPS

CONSTANTS
  Products,
  Fields,
  Writes,   \* the numbers of writes
  Unpatched \* no patch

VARIABLES
  db,      \* db[p]: by which write each column of the row of p was written
  queue,   \* queue[p]: the patch queued for p, or Unpatched
  held,    \* products with a patch in a batch under way
  last,    \* last[p]: the latest patch accepted for p, or Unpatched
  raced,   \* products whose latest patch came, or whose row was added, while
           \* a batch held them: their batch may let go of what it has not applied
  through  \* the writes that went to the table without the queue

behindVars == <<db, queue, held, last, raced, through>>

Patch == [by: Writes, fields: SUBSET Fields]

BehindTypeOK ==
  /\ queue \in [Products -> Patch \cup {Unpatched}]
  /\ last \in [Products -> Patch \cup {Unpatched}]

BehindInit ==
  /\ db = [p \in {} |-> {}]
  /\ queue = [p \in Products |-> Unpatched]
  /\ held = {}
  /\ last = [p \in Products |-> Unpatched]
  /\ raced = {}
  /\ through = {}

Patched(row, patch) ==
  [c \in Fields |-> IF c \in patch.fields THEN patch.by ELSE row[c]]

(* The patch is in the row, there overwritten by write-through at most.    *)
Absorbed(p, patch) ==
  /\ p \in DOMAIN db
  /\ \A c \in patch.fields : db[p][c] \in {patch.by} \cup through

(* Rows are added, some of them too late for the batch that holds them.    *)
AddRows(new, late, value) ==
  /\ late \subseteq new
  /\ \A p \in new : p \notin DOMAIN db
  /\ late \subseteq held
  /\ db' = [p \in DOMAIN db \cup new |->
              IF p \in new THEN [c \in Fields |-> value] ELSE db[p]]
  /\ raced' = raced \cup late
  /\ UNCHANGED <<queue, held, last, through>>

WriteThrough(p, patch) ==
  /\ through' = through \cup {patch.by}
  /\ db' = [q \in DOMAIN db |-> IF q = p THEN Patched(db[q], patch) ELSE db[q]]
  /\ UNCHANGED <<queue, held, last, raced>>

Accept(p, patch) ==
  /\ queue' = [queue EXCEPT ![p] = patch]
  /\ last' = [last EXCEPT ![p] = patch]
  /\ raced' = IF p \in held THEN raced \cup {p} ELSE raced \ {p}
  /\ UNCHANGED <<db, held, through>>

Take ==
  /\ held' = held \cup {p \in Products : queue[p] # Unpatched}
  /\ UNCHANGED <<db, queue, last, raced, through>>

(* Of a product that is not in raced it is the latest patch.  A batch that  *)
(* does not know it has applied the patch lets go of the product.          *)
Apply(p, patch) ==
  /\ p \in DOMAIN db /\ p \in held
  /\ p \notin raced => patch = last[p]
  /\ db' = [db EXCEPT ![p] = Patched(@, patch)]
  /\ held' \in {held, held \ {p}}
  /\ UNCHANGED <<queue, last, raced, through>>

(* A batch is over, and what it has applied leaves the queue: of a product *)
(* that is not in raced, the latest patch and nothing unapplied.           *)
LetGo(kept, applied) ==
  /\ kept \subseteq held
  /\ applied \subseteq held
  /\ \A p \in applied \ raced : Absorbed(p, last[p])
  /\ held' = kept
  /\ queue' = [p \in Products |-> IF p \in applied THEN Unpatched ELSE queue[p]]
  /\ UNCHANGED <<db, last, raced, through>>

BehindNext ==
  \/ \E new, late \in SUBSET Products : AddRows(new, late, 0)
  \/ \E p \in Products, patch \in Patch :
       WriteThrough(p, patch) \/ Accept(p, patch) \/ Apply(p, patch)
  \/ Take
  \/ \E kept, applied \in SUBSET Products : LetGo(kept, applied)

Behind == BehindInit /\ [][BehindNext]_behindVars

-----------------------------------------------------------------------------
(* The latest patch of a product is queued until its row has it, unless it *)
(* or the row came while a batch held the product.                         *)
Kept ==
  \A p \in Products \ raced :
    last[p] # Unpatched => queue[p] = last[p] \/ Absorbed(p, last[p])

(* The promise is kept whatever the batches do and in whatever order.      *)
THEOREM BehindKeeps == Behind => [](BehindTypeOK /\ Kept)
<1>1. BehindInit => BehindTypeOK /\ Kept
  BY DEF BehindInit, BehindTypeOK, Kept
<1>2. BehindTypeOK /\ [BehindNext]_behindVars => BehindTypeOK'
  <2> SUFFICES ASSUME BehindTypeOK, [BehindNext]_behindVars PROVE BehindTypeOK'
    OBVIOUS
  <2>1. ASSUME NEW new \in SUBSET Products, NEW late \in SUBSET Products, AddRows(new, late, 0)
        PROVE  BehindTypeOK'
    BY <2>1 DEF BehindTypeOK, AddRows
  <2>2. ASSUME NEW p \in Products, NEW patch \in Patch,
               WriteThrough(p, patch) \/ Accept(p, patch) \/ Apply(p, patch)
        PROVE  BehindTypeOK'
    BY <2>2 DEF BehindTypeOK, WriteThrough, Accept, Apply
  <2>3. CASE Take
    BY <2>3 DEF BehindTypeOK, Take
  <2>4. ASSUME NEW kept \in SUBSET Products, NEW applied \in SUBSET Products,
               LetGo(kept, applied)
        PROVE  BehindTypeOK'
    BY <2>4 DEF BehindTypeOK, LetGo
  <2>5. CASE UNCHANGED behindVars
    BY <2>5 DEF BehindTypeOK, behindVars
  <2>6. QED
    BY <2>1, <2>2, <2>3, <2>4, <2>5 DEF BehindNext
<1>3. BehindTypeOK /\ Kept /\ [BehindNext]_behindVars => Kept'
  <2> SUFFICES ASSUME BehindTypeOK, Kept, [BehindNext]_behindVars,
                      NEW q \in Products, q \notin raced', last'[q] # Unpatched
               PROVE  queue'[q] = last'[q] \/ Absorbed(q, last[q])'
    BY DEF Kept
  <2>0. last[q] # Unpatched => last[q] \in Patch /\ last[q].fields \subseteq Fields
    BY DEF BehindTypeOK, Patch
  <2>1. ASSUME NEW new \in SUBSET Products, NEW late \in SUBSET Products, AddRows(new, late, 0)
        PROVE  queue'[q] = last'[q] \/ Absorbed(q, last[q])'
    BY <2>1 DEF Kept, Absorbed, AddRows
  <2>2. ASSUME NEW p \in Products, NEW patch \in Patch, WriteThrough(p, patch)
        PROVE  queue'[q] = last'[q] \/ Absorbed(q, last[q])'
    <3>1. CASE queue[q] = last[q]
      BY <2>2, <3>1 DEF WriteThrough
    <3>2. CASE Absorbed(q, last[q])
      <4>1. q \in DOMAIN db' /\ db'[q] = IF q = p THEN Patched(db[q], patch) ELSE db[q]
        BY <2>2, <3>2 DEF WriteThrough, Absorbed
      <4>2. \A c \in last[q].fields : db'[q][c] \in {last[q].by} \cup through'
        BY <2>0, <2>2, <3>2, <4>1 DEF WriteThrough, Absorbed, Patched
      <4>3. QED
        BY <2>2, <4>1, <4>2 DEF WriteThrough, Absorbed
    <3>3. QED
      BY <2>2, <3>1, <3>2 DEF Kept, WriteThrough
  <2>3. ASSUME NEW p \in Products, NEW patch \in Patch, Accept(p, patch)
        PROVE  queue'[q] = last'[q] \/ Absorbed(q, last[q])'
    <3>1. CASE q = p
      BY <2>3, <3>1 DEF Accept, BehindTypeOK
    <3>2. CASE q # p
      <4>1. q \notin raced /\ last'[q] = last[q] /\ queue'[q] = queue[q]
        BY <2>3, <3>2 DEF Accept, BehindTypeOK
      <4>2. QED
        BY <2>3, <4>1 DEF Accept, Kept, Absorbed
    <3>3. QED
      BY <3>1, <3>2
  <2>4. ASSUME NEW p \in Products, NEW patch \in Patch, Apply(p, patch)
        PROVE  queue'[q] = last'[q] \/ Absorbed(q, last[q])'
    <3>1. CASE q = p
      <4>1. patch = last[q] /\ db'[q] = Patched(db[q], last[q]) /\ q \in DOMAIN db'
        BY <2>4, <3>1 DEF Apply
      <4>2. QED
        BY <2>0, <2>4, <4>1 DEF Apply, Absorbed, Patched
    <3>2. CASE q # p
      BY <2>4, <3>2 DEF Apply, Kept, Absorbed
    <3>3. QED
      BY <3>1, <3>2
  <2>5. CASE Take
    BY <2>5 DEF Take, Kept, Absorbed
  <2>6. ASSUME NEW kept \in SUBSET Products, NEW applied \in SUBSET Products,
               LetGo(kept, applied)
        PROVE  queue'[q] = last'[q] \/ Absorbed(q, last[q])'
    BY <2>6 DEF LetGo, Kept, Absorbed
  <2>7. CASE UNCHANGED behindVars
    BY <2>7 DEF Kept, Absorbed, behindVars
  <2>8. QED
    BY <2>1, <2>2, <2>3, <2>4, <2>5, <2>6, <2>7 DEF BehindNext
<1>4. QED
  BY <1>1, <1>2, <1>3, PTL DEF Behind
=============================================================================
