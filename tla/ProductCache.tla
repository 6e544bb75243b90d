---------------------------- MODULE ProductCache ----------------------------
(***************************************************************************)
(* Products: rows in PostgreSQL, cached in Redis under product:{id} and    *)
(* products:list, read cache-aside, written through or behind; and the     *)
(* flusher that moves the write-behind queue (the Redis hash wb:pending)   *)
(* into the table.                                                         *)
(* A write is known by its number, and a column by the number of the write *)
(* that wrote it last, 0 for the value it was seeded with.  A statement of *)
(* Redis or the database and the code up to the next one are one action.   *)
(***************************************************************************)
EXTENDS Naturals, FiniteSets

CONSTANTS
  Products,   \* product ids that requests name
  Rows,       \* the ids that seeding can give
  Fields,     \* the columns of UpdateProductData
  Bodies,     \* PATCH requests: <<the product named, the columns of the patch>>
  MaxWrites,  \* bound on the PATCH requests
  Ops,        \* requests in progress at the same time
  Flushes,    \* flushes in progress: of several instances, or of one whose
              \* timer fires again before a flush is over
  Instances,
  None        \* no request, no flush, no entry of the cache or the queue

ASSUME RowsAreProducts == Rows \subseteq Products
ASSUME BodiesArePatches == Bodies \subseteq Products \X SUBSET Fields
ASSUME MaxWritesIsNat == MaxWrites \in Nat
ASSUME NoneIsNoProduct == None \notin Products

VARIABLES
  db,      \* db[p]: the row of product p, for the ids in the table
  cache,   \* cache[p]: the row cached under product:{p}, or None
  list,    \* products:list, or None
  queue,   \* queue[p]: the patch under p in wb:pending, or None
  writes,  \* how many writes there have been
  op,      \* op[o]: what a request is about to do, with what it remembers
  flush,   \* flush[f]: the local variables of a flush
  paused,  \* instances whose flusher is paused
  last,    \* history: last[p], the latest patch put into the queue for p
  raced,   \* history: products whose last patch came while a flush held them,
           \* or whose row came while a flush was between UPDATE and SELECT
  through  \* history: writes made by the write-through strategy

tables  == <<db, cache, list>>
history == <<last, raced, through>>
vars == <<tables, queue, writes, op, flush, paused, history>>

WriteIds == 1..MaxWrites
Row   == [Fields -> 0..MaxWrites]
Patch == [by: WriteIds, fields: SUBSET Fields]
Table == UNION {[S -> Row] : S \in SUBSET Rows}

(* Next statement of a request.                                            *)
ReadStep  == {"select", "fill", "selectList", "fillList"}
WriteStep == {"reselect", "setCache", "delList", "getCached", "merge"}
Op == [step: ReadStep \cup WriteStep, p: Products \cup {None}, patch: Patch \cup {None},
       row: Row \cup Table \cup {None}]

(* Next statement of a flush.  In its loop it is to SELECT the row of `at',*)
(* whose UPDATE has been answered, or to UPDATE another one of `todo'.     *)
(* `pending' is the snapshot without the ids that have failed, `ok' is     *)
(* successIds.                                                             *)
Flush == [step: {"loop", "delKeys", "delList"}, at: Products \cup {None},
          todo: SUBSET Products, ok: SUBSET Products,
          pending: [Products -> Patch \cup {None}]]
ASSUME NoneIsNoFlush == None \notin Flush

TypeOK ==
  /\ db \in Table
  /\ cache \in [Products -> Row \cup {None}]
  /\ list \in Table \cup {None}
  /\ queue \in [Products -> Patch \cup {None}]
  /\ writes \in 0..MaxWrites
  /\ op \in [Ops -> Op \cup {None}]
  /\ flush \in [Flushes -> Flush \cup {None}]
  /\ paused \subseteq Instances
  /\ last \in [Products -> Patch \cup {None}]
  /\ raced \subseteq Products
  /\ through \subseteq WriteIds

Init ==
  /\ db = [p \in {} |-> {}]
  /\ cache = [p \in Products |-> None]
  /\ list = None
  /\ queue = [p \in Products |-> None]
  /\ writes = 0
  /\ op = [o \in Ops |-> None]
  /\ flush = [f \in Flushes |-> None]
  /\ paused = {}
  /\ last = [p \in Products |-> None]
  /\ raced = {}
  /\ through = {}

-----------------------------------------------------------------------------
(* { ...current, ...patch }.  The slip writes the patch alone.             *)
MutPatchAlone(row, patch) == [f \in patch.fields |-> patch.by]
Merge(row, patch) ==
  [f \in Fields |-> IF f \in patch.fields THEN patch.by ELSE row[f]]

Stored(p) == p \in DOMAIN db

At(f, step) == flush[f] # None /\ flush[f].step = step

(* A flush whose UPDATE of p has been answered and whose SELECT has not.   *)
BetweenStatements(p) == \E f \in Flushes : At(f, "loop") /\ flush[f].at = p

(* POST /products/seed: createMany inserts in one transaction and leaves   *)
(* products:list as it is.  A request may have named an id before.         *)
Seed(new) ==
  /\ new # {}
  /\ \A p \in new : ~Stored(p)
  /\ db' = [p \in DOMAIN db \cup new |-> IF p \in new THEN [f \in Fields |-> 0] ELSE db[p]]
  /\ raced' = raced \cup {p \in new : BetweenStatements(p)}
  /\ UNCHANGED <<cache, list, queue, writes, op, flush, paused, last, through>>

Begin(o, step, p, patch) ==
  /\ op[o] = None
  /\ op' = [op EXCEPT ![o] = [step |-> step, p |-> p, patch |-> patch, row |-> None]]
Doing(o, step) == op[o] # None /\ op[o].step = step
Keep(o, step, row) == op' = [op EXCEPT ![o].step = step, ![o].row = row]
End(o) == op' = [op EXCEPT ![o] = None]

(* GET /products/:id.  A hit changes nothing.                              *)
GetMiss(o, p) ==
  /\ cache[p] = None
  /\ Begin(o, "select", p, None)
  /\ UNCHANGED <<tables, queue, writes, flush, paused, history>>

Select(o) ==
  /\ Doing(o, "select")
  /\ \/ Stored(op[o].p) /\ Keep(o, "fill", db[op[o].p])
     \/ ~Stored(op[o].p) /\ End(o)   \* 404
  /\ UNCHANGED <<tables, queue, writes, flush, paused, history>>

Fill(o) ==
  /\ Doing(o, "fill")
  /\ cache' = [cache EXCEPT ![op[o].p] = op[o].row]
  /\ End(o)
  /\ UNCHANGED <<db, list, queue, writes, flush, paused, history>>

(* GET /products, cache-aside.  Without the cache it only reads the table. *)
ListMiss(o) ==
  /\ list = None
  /\ Begin(o, "selectList", None, None)
  /\ UNCHANGED <<tables, queue, writes, flush, paused, history>>

SelectList(o) ==
  /\ Doing(o, "selectList")
  /\ Keep(o, "fillList", db)
  /\ UNCHANGED <<tables, queue, writes, flush, paused, history>>

FillList(o) ==
  /\ Doing(o, "fillList")
  /\ list' = op[o].row
  /\ End(o)
  /\ UNCHANGED <<db, cache, queue, writes, flush, paused, history>>

-----------------------------------------------------------------------------
(* The patch of the next PATCH request.                                    *)
NewPatch(fields) == [by |-> writes + 1, fields |-> fields]

(* PATCH /products/:id, write-through: UPDATE, then SELECT in repo.update. *)
(* An UPDATE without a column is an error and changes nothing.             *)
UpdateThrough(o, p, fields) ==
  /\ writes < MaxWrites
  /\ <<p, fields>> \in Bodies
  /\ fields # {}
  /\ Begin(o, "reselect", p, None)
  /\ writes' = writes + 1
  /\ through' = through \cup {writes + 1}
  /\ db' = [q \in DOMAIN db |-> IF q = p THEN Merge(db[q], NewPatch(fields)) ELSE db[q]]
  /\ UNCHANGED <<cache, list, queue, flush, paused, last, raced>>

Reselect(o) ==
  /\ Doing(o, "reselect")
  /\ \/ Stored(op[o].p) /\ Keep(o, "setCache", db[op[o].p])
     \/ ~Stored(op[o].p) /\ End(o)   \* 404
  /\ UNCHANGED <<tables, queue, writes, flush, paused, history>>

SetCache(o) ==
  /\ Doing(o, "setCache")
  /\ cache' = [cache EXCEPT ![op[o].p] = op[o].row]
  /\ Keep(o, "delList", None)
  /\ UNCHANGED <<db, list, queue, writes, flush, paused, history>>

DelList(o) ==
  /\ Doing(o, "delList")
  /\ list' = None
  /\ End(o)
  /\ UNCHANGED <<db, cache, queue, writes, flush, paused, history>>

(* A flush that has p in its snapshot, has not failed with it, and has not *)
(* removed it yet.                                                         *)
HeldByFlush(p) ==
  \E f \in Flushes : At(f, "loop") /\ flush[f].pending[p] # None

(* PATCH /products/:id, write-behind: HSET wb:pending.  The body is not    *)
(* validated, so it may name no column and no row.                         *)
Enqueue(o, p, fields) ==
  /\ writes < MaxWrites
  /\ <<p, fields>> \in Bodies
  /\ Begin(o, "getCached", p, NewPatch(fields))
  /\ writes' = writes + 1
  /\ queue' = [queue EXCEPT ![p] = NewPatch(fields)]
  /\ last' = [last EXCEPT ![p] = NewPatch(fields)]
  /\ raced' = IF HeldByFlush(p) THEN raced \cup {p} ELSE raced \ {p}
  /\ UNCHANGED <<tables, flush, paused, through>>

(* An entry of the cache is read, merged with the patch, and written back. *)
GetCached(o) ==
  /\ Doing(o, "getCached")
  /\ \/ cache[op[o].p] = None /\ End(o)
     \/ cache[op[o].p] # None /\ Keep(o, "merge", cache[op[o].p])
  /\ UNCHANGED <<tables, queue, writes, flush, paused, history>>

MergeCached(o) ==
  /\ Doing(o, "merge")
  /\ cache' = [cache EXCEPT ![op[o].p] = Merge(op[o].row, op[o].patch)]
  /\ End(o)
  /\ UNCHANGED <<db, list, queue, writes, flush, paused, history>>

(* The next statement rejects, or the process dies: nothing is undone.     *)
OpStops(o) ==
  /\ op[o] # None
  /\ End(o)
  /\ UNCHANGED <<tables, queue, writes, flush, paused, history>>

-----------------------------------------------------------------------------
(* The interval fires on an instance that is not paused: HGETALL.  An      *)
(* empty queue ends the flush at once.                                     *)
FlushStart(f) ==
  /\ flush[f] = None
  /\ f = CHOOSE g \in Flushes : flush[g] = None   \* slots are alike
  /\ paused # Instances
  /\ \E p \in Products : queue[p] # None
  /\ flush' = [flush EXCEPT ![f] =
       [step |-> "loop", at |-> None, todo |-> {p \in Products : queue[p] # None},
        ok |-> {}, pending |-> queue]]
  /\ UNCHANGED <<tables, queue, writes, op, paused, history>>

(* repo.update can succeed: there is such a row, and a column to set.      *)
Updatable(p, patch) == Stored(p) /\ patch.fields # {}

(* One id after the other, in the order of Object.keys.                    *)
Trying(f, p, at) ==
  /\ At(f, "loop") /\ flush[f].at = at
  /\ p \in flush[f].todo
  /\ p = CHOOSE q \in flush[f].todo : TRUE
Succeeds(f, p) ==
  LET r == flush[f]
  IN  flush' = [flush EXCEPT ![f] =
        [r EXCEPT !.at = None, !.todo = r.todo \ {p}, !.ok = r.ok \cup {p}]]
Fails(f, p) ==
  LET r == flush[f]
  IN  flush' = [flush EXCEPT ![f] =
        [r EXCEPT !.at = None, !.todo = r.todo \ {p}, !.pending[p] = None]]
Written(p, patch) ==
  db' = [q \in DOMAIN db |-> IF q = p THEN Merge(db[q], patch) ELSE db[q]]

(* repo.update of an id of the snapshot: the UPDATE, which without such a  *)
(* row changes nothing and is no error,                                    *)
FlushUpdate(f, p) ==
  /\ Trying(f, p, None)
  /\ flush[f].pending[p].fields # {}
  /\ Written(p, flush[f].pending[p])
  /\ flush' = [flush EXCEPT ![f].at = p]
  /\ UNCHANGED <<cache, list, queue, writes, op, paused, history>>

(* and the SELECT: the id is a success if there is a row by then; if not,  *)
(* repo.update throws.                                                     *)
FlushReselect(f, p) ==
  /\ Trying(f, p, p)
  /\ IF Stored(p) THEN Succeeds(f, p) ELSE Fails(f, p)
  /\ UNCHANGED <<tables, queue, writes, op, paused, history>>

(* The UPDATE rejects, as it always does without a column, executed or     *)
(* not; or the SELECT rejects.  Slip: the id counts as a success.          *)
MutFailureCounts(f, p) ==
  /\ Trying(f, p, None) \/ Trying(f, p, p)
  /\ Succeeds(f, p)
  /\ UNCHANGED <<tables, queue, writes, op, paused, history>>

FlushRowFails(f, p) ==
  /\ \/ (Trying(f, p, None) \/ Trying(f, p, p)) /\ UNCHANGED db
     \/ /\ Trying(f, p, None)
        /\ Updatable(p, flush[f].pending[p])
        /\ Written(p, flush[f].pending[p])
  /\ Fails(f, p)
  /\ UNCHANGED <<cache, list, queue, writes, op, paused, history>>

(* Slip: one id that fails ends the whole flush.                           *)
MutAllOrNothing(f) ==
  /\ At(f, "loop")
  /\ flush[f].todo = {}
  /\ \A p \in Products : queue[p] # None => p \in flush[f].ok
  /\ queue' = [p \in Products |-> IF p \in flush[f].ok THEN None ELSE queue[p]]
  /\ flush' = [flush EXCEPT ![f].step = "delKeys", ![f].pending = [p \in Products |-> None]]
  /\ UNCHANGED <<tables, writes, op, paused, history>>

(* Slip: DEL of wb:pending as a whole.                                     *)
MutDelPending(f) ==
  /\ At(f, "loop")
  /\ flush[f].todo = {}
  /\ flush[f].ok # {}
  /\ queue' = [p \in Products |-> None]
  /\ flush' = [flush EXCEPT ![f].step = "delKeys"]
  /\ UNCHANGED <<tables, writes, op, paused, history>>

(* HDEL of the ids that succeeded; with none the flush is over.  The       *)
(* snapshot is not used any more.                                          *)
FlushHdel(f) ==
  /\ At(f, "loop")
  /\ flush[f].todo = {}
  /\ flush[f].ok # {}
  /\ queue' = [p \in Products |-> IF p \in flush[f].ok THEN None ELSE queue[p]]
  /\ flush' = [flush EXCEPT ![f].step = "delKeys", ![f].pending = [p \in Products |-> None]]
  /\ UNCHANGED <<tables, writes, op, paused, history>>

FlushNothing(f) ==
  /\ At(f, "loop")
  /\ flush[f].todo = {} /\ flush[f].ok = {}
  /\ flush' = [flush EXCEPT ![f] = None]
  /\ UNCHANGED <<tables, queue, writes, op, paused, history>>

FlushDelKeys(f) ==
  /\ At(f, "delKeys")
  /\ cache' = [p \in Products |-> IF p \in flush[f].ok THEN None ELSE cache[p]]
  /\ flush' = [flush EXCEPT ![f].step = "delList"]
  /\ UNCHANGED <<db, list, queue, writes, op, paused, history>>

FlushDelList(f) ==
  /\ At(f, "delList")
  /\ list' = None
  /\ flush' = [flush EXCEPT ![f] = None]
  /\ UNCHANGED <<db, cache, queue, writes, op, paused, history>>

(* A Redis command of the flush rejects, which nothing catches, or the     *)
(* process dies.                                                           *)
FlushDies(f) ==
  /\ flush[f] # None
  /\ flush' = [flush EXCEPT ![f] = None]
  /\ UNCHANGED <<tables, queue, writes, op, paused, history>>

PauseResume(i) ==
  /\ paused' = IF i \in paused THEN paused \ {i} ELSE paused \cup {i}
  /\ UNCHANGED <<tables, queue, writes, op, flush, history>>

(* The EX of a cache entry.                                                *)
Expire(p) ==
  /\ cache[p] # None
  /\ cache' = [cache EXCEPT ![p] = None]
  /\ UNCHANGED <<db, list, queue, writes, op, flush, paused, history>>

(* Slip: products:list is set without EX.                                  *)
MutNoEx == list # None /\ UNCHANGED vars
ExpireList ==
  /\ list # None
  /\ list' = None
  /\ UNCHANGED <<db, cache, queue, writes, op, flush, paused, history>>

-----------------------------------------------------------------------------
Read(o) == Select(o) \/ Fill(o) \/ SelectList(o) \/ FillList(o)
Write(o) == Reselect(o) \/ SetCache(o) \/ DelList(o) \/ GetCached(o) \/ MergeCached(o)
FlushRow(f, p) == FlushUpdate(f, p) \/ FlushReselect(f, p) \/ FlushRowFails(f, p)
FlushStep(f) == FlushStart(f) \/ FlushHdel(f) \/ FlushNothing(f) \/ FlushDelKeys(f) \/ FlushDelList(f)

Next ==
  \/ \E o \in Ops, p \in Products :
       \/ GetMiss(o, p)
       \/ \E fields \in SUBSET Fields : UpdateThrough(o, p, fields) \/ Enqueue(o, p, fields)
  \/ \E o \in Ops : ListMiss(o) \/ Read(o) \/ Write(o) \/ OpStops(o)
  \/ \E f \in Flushes : \/ FlushStep(f) \/ FlushDies(f)
                        \/ \E p \in Products : FlushRow(f, p)
  \/ \E i \in Instances : PauseResume(i)
  \/ \E new \in SUBSET Rows : Seed(new)
  \/ \E p \in Products : Expire(p)
  \/ ExpireList

Flushing(f) == FlushStep(f) \/ \E p \in Products : FlushRow(f, p)

(* Timers fire, statements end and entries expire; the UPDATE of a row and *)
(* its SELECT, tried in flush after flush, do succeed, which is what       *)
(* leaving the id in the queue relies on; and flushes do not go on dying   *)
(* forever.                                                                *)
Fairness ==
  /\ \A o \in Ops : WF_vars(Read(o) \/ Write(o))
  /\ \A f \in Flushes : WF_vars(Flushing(f))
  /\ \A p \in Rows : /\ SF_vars(\E f \in Flushes : FlushUpdate(f, p))
                     /\ SF_vars(\E f \in Flushes : FlushReselect(f, p))
  /\ \A p \in Rows : WF_vars(Expire(p))
  /\ WF_vars(ExpireList)
  /\ <>[][\A f \in Flushes : ~FlushDies(f)]_vars

SafetySpec == Init /\ [][Next]_vars
Spec == SafetySpec /\ Fairness

-----------------------------------------------------------------------------
(* The columns of a patch are in the row, or overwritten by write-through. *)
InTable(p, patch) ==
  Stored(p) /\ \A f \in patch.fields : db[p][f] \in {patch.by} \cup through

(* The latest write-behind patch of a product is in the queue until its    *)
(* columns are in the table, there overwritten by write-through at most:   *)
(* whatever statements and processes fail and flushes overlap, unless the  *)
(* product was queued again while a flush held it, or seeded while a flush *)
(* was between its UPDATE and its SELECT.                                  *)
AppliedOrQueued ==
  \A p \in Products : last[p] # None /\ p \notin raced =>
    \/ queue[p] = last[p]
    \/ InTable(p, last[p])

(* A queued patch that the table can take leaves the queue, also when      *)
(* another entry fails in every flush and when its row was seeded only     *)
(* later, unless the flusher is paused: writes being bounded, one that     *)
(* stayed would be there from some point on.                               *)
QueueDrains ==
  []<>(paused # {} \/ \A p \in Products : queue[p] # None => ~Updatable(p, queue[p]))

(* A step of the code is a step of the abstract write-behind, or none of   *)
(* its concern: what leaves the queue a batch has applied, what a batch    *)
(* applies it has taken, and of a product not queued again it is the       *)
(* latest patch, whatever flushes overlap and wherever they stop.          *)
Held == {p \in Products : HeldByFlush(p)}
WB == INSTANCE WriteBehind WITH Writes <- WriteIds, Unpatched <- None, held <- Held
ImplementsWriteBehind ==
  WB!BehindInit /\ [][UNCHANGED WB!behindVars \/ WB!BehindNext]_vars

(* Once the writes have ended the cached entries come to agree with the    *)
(* table and stay so, whatever row a reader selected before a write and    *)
(* cached after it, and although seeding leaves the cached list as it is:  *)
(* an entry lives no longer than its EX, and is filled from the table.     *)
CacheSettles ==
  <>[](/\ \A p \in Products : cache[p] # None => Stored(p) /\ cache[p] = db[p]
       /\ list \in {None, db})

-----------------------------------------------------------------------------
(* README, "Write-Behind": a failed id stays in the queue and only what    *)
(* succeeded is removed: where the update of a flush is in the table, so   *)
(* is the patch that leaves the queue.                                     *)
OnlySuccessesRemoved ==
  [][\A f \in Flushes : At(f, "loop") =>
       \A p \in flush[f].ok :
         /\ InTable(p, flush[f].pending[p])
         /\ queue[p] # None /\ queue'[p] = None
         => InTable(p, queue[p])]_vars
=============================================================================
