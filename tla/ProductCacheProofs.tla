------------------------- MODULE ProductCacheProofs -------------------------
(***************************************************************************)
(* Proofs about ProductCache: its types, among them that the cache holds   *)
(* complete rows; and that it implements WriteBehind, whose theorem says   *)
(* that the latest patch of a product is queued until the table has it.    *)
(***************************************************************************)
EXTENDS ProductCache, TLAPS

(* What the next statement of a request needs of what it remembers.        *)
OpWell(r) ==
  /\ r.step \in {"select", "fill"} \cup WriteStep => r.p \in Products
  /\ r.step \in {"fill", "setCache", "merge"} => r.row \in Row
  /\ r.step = "fillList" => r.row \in Table
  /\ r.step \in {"getCached", "merge"} => r.patch \in Patch
OpsWell == \A o \in Ops : op[o] # None => OpWell(op[o])

(* A flush in its loop has patches for what it has still to update and for *)
(* what it has updated, and asks for the row of one it has not dealt with. *)
FlushWell(r) ==
  r.step = "loop" =>
    /\ \A p \in r.todo \cup r.ok : r.pending[p] # None
    /\ r.todo \cap r.ok = {}
    /\ r.at \in r.todo \cup {None}
FromSnapshot == \A f \in Flushes : flush[f] # None => FlushWell(flush[f])

Typed == TypeOK /\ OpsWell /\ FromSnapshot

-----------------------------------------------------------------------------
(* Rows, and what a patch makes of one.                                    *)
LEMMA MergeIsRow ==
  ASSUME NEW row \in Row, NEW patch \in Patch
  PROVE  Merge(row, patch) \in Row
BY MaxWritesIsNat DEF Merge, Row, Patch, WriteIds

LEMMA TableRows ==
  ASSUME NEW t \in Table
  PROVE  /\ DOMAIN t \subseteq Rows
         /\ t = [p \in DOMAIN t |-> t[p]]
         /\ \A p \in DOMAIN t : p \in Products /\ t[p] \in Row
BY RowsAreProducts DEF Table

LEMMA IsTable ==
  ASSUME NEW S \in SUBSET Rows, NEW t \in [S -> Row]
  PROVE  t \in Table
BY DEF Table

(* A request that is well off after its move leaves all of them so.        *)
LEMMA OthersWell ==
  ASSUME OpsWell, NEW o \in Ops, \A x \in Ops \ {o} : op'[x] = op[x], OpWell(op'[o])
  PROVE  OpsWell'
BY DEF OpsWell

(* What the moves of a request make of its record.                         *)
LEMMA BeginOp ==
  ASSUME TypeOK, OpsWell, NEW o \in Ops, NEW step \in ReadStep \cup WriteStep,
         NEW p \in Products \cup {None}, NEW patch \in Patch \cup {None},
         Begin(o, step, p, patch),
         OpWell([step |-> step, p |-> p, patch |-> patch, row |-> None])
  PROVE  op' \in [Ops -> Op \cup {None}] /\ OpsWell'
<1>1. [step |-> step, p |-> p, patch |-> patch, row |-> None] \in Op
  BY DEF Op
<1>2. /\ op' \in [Ops -> Op \cup {None}]
     /\ op'[o] = [step |-> step, p |-> p, patch |-> patch, row |-> None]
     /\ \A x \in Ops \ {o} : op'[x] = op[x]
  BY <1>1 DEF TypeOK, Begin
<1>3. QED
  BY <1>2, OthersWell

LEMMA KeepOp ==
  ASSUME TypeOK, OpsWell, NEW o \in Ops, NEW step \in ReadStep \cup WriteStep,
         NEW row \in Row \cup Table \cup {None}, op[o] # None, Keep(o, step, row),
         OpWell([step |-> step, p |-> op[o].p, patch |-> op[o].patch, row |-> row])
  PROVE  op' \in [Ops -> Op \cup {None}] /\ OpsWell'
<1>1. op[o] \in Op
  BY DEF TypeOK
<1>2. [op[o] EXCEPT !.step = step] \in Op
  BY <1>1 DEF Op
<1>3. \A r \in Op : [r EXCEPT !.row = row] =
                      [step |-> r.step, p |-> r.p, patch |-> r.patch, row |-> row]
  BY DEF Op
<1>4. [[op[o] EXCEPT !.step = step] EXCEPT !.row = row] =
        [step |-> step, p |-> op[o].p, patch |-> op[o].patch, row |-> row]
  BY <1>1, <1>2, <1>3 DEF Op
<1>5. [step |-> step, p |-> op[o].p, patch |-> op[o].patch, row |-> row] \in Op
  BY <1>1 DEF Op
<1>6. op' = [op EXCEPT ![o] = [[op[o] EXCEPT !.step = step] EXCEPT !.row = row]]
  BY <1>1 DEF Keep, TypeOK
<1>7. /\ op' \in [Ops -> Op \cup {None}]
     /\ op'[o] = [step |-> step, p |-> op[o].p, patch |-> op[o].patch, row |-> row]
     /\ \A x \in Ops \ {o} : op'[x] = op[x]
  BY <1>4, <1>5, <1>6 DEF TypeOK
<1>8. QED
  BY <1>7, OthersWell

LEMMA EndOp ==
  ASSUME TypeOK, OpsWell, NEW o \in Ops, End(o)
  PROVE  op' \in [Ops -> Op \cup {None}] /\ OpsWell'
BY DEF TypeOK, OpsWell, End

(* What a flush makes of its local variables: the UPDATE of p has been     *)
(* answered, p is a success, p has failed.                                 *)
Asked(r, p)  == [step |-> "loop", at |-> p, todo |-> r.todo, ok |-> r.ok, pending |-> r.pending]
Tried(r, p)  == [step |-> "loop", at |-> None, todo |-> r.todo \ {p}, ok |-> r.ok \cup {p},
                 pending |-> r.pending]
Failed(r, p) == [step |-> "loop", at |-> None, todo |-> r.todo \ {p}, ok |-> r.ok,
                 pending |-> [r.pending EXCEPT ![p] = None]]

LEMMA FlushMoves ==
  ASSUME TypeOK, FromSnapshot, NEW f \in Flushes, NEW r \in Flush, FlushWell(r),
         flush' = [flush EXCEPT ![f] = r]
  PROVE  /\ flush' \in [Flushes -> Flush \cup {None}]
         /\ FromSnapshot'
         /\ flush'[f] = r
         /\ \A g \in Flushes \ {f} : flush'[g] = flush[g]
<1>1. /\ flush' \in [Flushes -> Flush \cup {None}]
      /\ flush'[f] = r
      /\ \A g \in Flushes \ {f} : flush'[g] = flush[g]
  BY DEF TypeOK
<1>2. FromSnapshot'
  BY <1>1 DEF FromSnapshot, FlushWell
<1>3. QED
  BY <1>1, <1>2

LEMMA FlushEnds ==
  ASSUME TypeOK, FromSnapshot, NEW f \in Flushes, flush' = [flush EXCEPT ![f] = None]
  PROVE  /\ flush' \in [Flushes -> Flush \cup {None}]
         /\ FromSnapshot'
         /\ \A g \in Flushes \ {f} : flush'[g] = flush[g]
BY DEF TypeOK, FromSnapshot, FlushWell

(* After its loop a flush needs no patch any more.                         *)
LEMMA StepFlush ==
  ASSUME TypeOK, FromSnapshot, NEW f \in Flushes, flush[f] # None,
         NEW step \in {"delKeys", "delList"},
         \/ flush' = [flush EXCEPT ![f].step = step]
         \/ flush' = [flush EXCEPT ![f].step = step, ![f].pending = [p \in Products |-> None]]
  PROVE  /\ flush' \in [Flushes -> Flush \cup {None}]
         /\ FromSnapshot'
         /\ flush'[f].step = step
         /\ \A g \in Flushes \ {f} : flush'[g] = flush[g]
<1> DEFINE r(pending) == [step |-> step, at |-> flush[f].at, todo |-> flush[f].todo,
                          ok |-> flush[f].ok, pending |-> pending]
           none == [p \in Products |-> None]
<1>1. flush[f] \in Flush
  BY DEF TypeOK
<1>2. /\ [flush[f] EXCEPT !.step = step] = r(flush[f].pending)
      /\ [flush[f] EXCEPT !.step = step] \in Flush
  BY <1>1 DEF Flush
<1>3. \A q \in Flush : [q EXCEPT !.pending = none] =
        [step |-> q.step, at |-> q.at, todo |-> q.todo, ok |-> q.ok, pending |-> none]
  BY DEF Flush
<1>4. [[flush[f] EXCEPT !.step = step] EXCEPT !.pending = none] = r(none)
  BY <1>2, <1>3
<1>5. none \in [Products -> Patch \cup {None}] /\ flush[f].pending \in [Products -> Patch \cup {None}]
  BY <1>1 DEF Flush
<1>6. PICK pending \in [Products -> Patch \cup {None}] : flush' = [flush EXCEPT ![f] = r(pending)]
  <2>1. CASE flush' = [flush EXCEPT ![f].step = step]
    BY <1>2, <1>5, <2>1
  <2>2. CASE flush' = [flush EXCEPT ![f].step = step, ![f].pending = none]
    <3>1. flush' = [flush EXCEPT ![f] = [[flush[f] EXCEPT !.step = step] EXCEPT !.pending = none]]
      BY <1>1, <2>2 DEF TypeOK
    <3>2. QED
      BY <1>4, <1>5, <3>1
  <2>3. QED
    BY <2>1, <2>2
<1>7. r(pending) \in Flush /\ FlushWell(r(pending)) /\ r(pending).step = step
  BY <1>1 DEF Flush, FlushWell
<1> HIDE DEF r
<1>8. QED
  BY <1>6, <1>7, FlushMoves

(* A flush in its loop deals with an id of its snapshot.                   *)
LEMMA FlushTries ==
  ASSUME TypeOK, FromSnapshot, NEW f \in Flushes, NEW p \in Products,
         At(f, "loop"), p \in flush[f].todo
  PROVE  /\ Asked(flush[f], p) \in Flush /\ FlushWell(Asked(flush[f], p))
         /\ Tried(flush[f], p) \in Flush /\ FlushWell(Tried(flush[f], p))
         /\ Failed(flush[f], p) \in Flush /\ FlushWell(Failed(flush[f], p))
         /\ flush' = [flush EXCEPT ![f].at = p] =>
              flush' = [flush EXCEPT ![f] = Asked(flush[f], p)]
         /\ Succeeds(f, p) => flush' = [flush EXCEPT ![f] = Tried(flush[f], p)]
         /\ Fails(f, p) => flush' = [flush EXCEPT ![f] = Failed(flush[f], p)]
<1>1. flush[f] \in Flush /\ flush[f].step = "loop" /\ FlushWell(flush[f])
  BY DEF TypeOK, At, FromSnapshot
<1>2. Asked(flush[f], p) \in Flush /\ FlushWell(Asked(flush[f], p))
  BY <1>1 DEF Asked, Flush, FlushWell
<1>3. Tried(flush[f], p) \in Flush /\ FlushWell(Tried(flush[f], p))
  BY <1>1 DEF Tried, Flush, FlushWell
<1>4. Failed(flush[f], p) \in Flush /\ FlushWell(Failed(flush[f], p))
  <2>1. [flush[f].pending EXCEPT ![p] = None] \in [Products -> Patch \cup {None}]
    BY <1>1 DEF Flush
  <2>2. Failed(flush[f], p) \in Flush
    BY <1>1, <2>1 DEF Failed, Flush
  <2>3. FlushWell(Failed(flush[f], p))
    BY <1>1 DEF Failed, Flush, FlushWell
  <2>4. QED
    BY <2>2, <2>3
<1>5. ASSUME flush' = [flush EXCEPT ![f].at = p]
      PROVE  flush' = [flush EXCEPT ![f] = Asked(flush[f], p)]
  <2>1. [flush[f] EXCEPT !.at = p] = Asked(flush[f], p)
    BY <1>1 DEF Asked, Flush
  <2>2. QED
    BY <1>5, <2>1
<1> DEFINE rest == flush[f].todo \ {p}
           a == [flush[f] EXCEPT !.at = None]
           b == [a EXCEPT !.todo = rest]
<1>6. \A q \in Flush : [q EXCEPT !.todo = rest] =
        [step |-> q.step, at |-> q.at, todo |-> rest, ok |-> q.ok, pending |-> q.pending]
  BY DEF Flush
<1>7. /\ a = [step |-> "loop", at |-> None, todo |-> flush[f].todo, ok |-> flush[f].ok,
              pending |-> flush[f].pending]
      /\ a \in Flush
  BY <1>1 DEF Flush
<1>8. /\ b = [step |-> "loop", at |-> None, todo |-> rest, ok |-> flush[f].ok,
              pending |-> flush[f].pending]
      /\ b \in Flush
  <2> HIDE DEF a
  <2>1. b = [step |-> "loop", at |-> None, todo |-> rest, ok |-> flush[f].ok,
             pending |-> flush[f].pending]
    BY <1>6, <1>7
  <2>2. QED
    BY <1>1, <2>1 DEF Flush
<1>9. ASSUME Succeeds(f, p)
      PROVE  flush' = [flush EXCEPT ![f] = Tried(flush[f], p)]
  <2>1. \A ok : \A q \in Flush : [q EXCEPT !.ok = ok] =
          [step |-> q.step, at |-> q.at, todo |-> q.todo, ok |-> ok, pending |-> q.pending]
    BY DEF Flush
  <2> HIDE DEF b, rest
  <2>2. [b EXCEPT !.ok = flush[f].ok \cup {p}] = Tried(flush[f], p)
    BY <1>8, <2>1 DEF Tried, rest
  <2> USE DEF b, rest
  <2>3. QED
    BY <1>9, <2>2 DEF Succeeds
<1>10. ASSUME Fails(f, p)
       PROVE  flush' = [flush EXCEPT ![f] = Failed(flush[f], p)]
  <2>1. \A v : \A q \in Flush : [q EXCEPT !.pending = v] =
          [step |-> q.step, at |-> q.at, todo |-> q.todo, ok |-> q.ok, pending |-> v]
    BY DEF Flush
  <2> HIDE DEF b, rest
  <2>2. [b EXCEPT !.pending = [b.pending EXCEPT ![p] = None]] = Failed(flush[f], p)
    BY <1>8, <2>1 DEF Failed, rest
  <2> USE DEF b, rest
  <2>3. QED
    BY <1>10, <2>2 DEF Fails
<1>11. QED
  BY <1>2, <1>3, <1>4, <1>5, <1>9, <1>10

-----------------------------------------------------------------------------
(* Layer 1: types, with what requests and flushes remember.                *)
LEMMA ReadTyped ==
  ASSUME Typed, NEW o \in Ops,
         Read(o) \/ ListMiss(o) \/ \E p \in Products : GetMiss(o, p)
  PROVE  Typed'
<1> USE DEF Typed
<1>1. ASSUME NEW p \in Products, GetMiss(o, p) PROVE Typed'
  <2>1. Begin(o, "select", p, None)
    BY <1>1 DEF GetMiss
  <2>2. OpWell([step |-> "select", p |-> p, patch |-> None, row |-> None])
    BY DEF OpWell, WriteStep
  <2>3. op' \in [Ops -> Op \cup {None}] /\ OpsWell'
    BY <2>1, <2>2, BeginOp DEF ReadStep
  <2>4. QED
    BY <1>1, <2>3 DEF GetMiss, TypeOK, FromSnapshot, tables, history
<1>2. CASE ListMiss(o)
  <2>1. Begin(o, "selectList", None, None)
    BY <1>2 DEF ListMiss
  <2>2. OpWell([step |-> "selectList", p |-> None, patch |-> None, row |-> None])
    BY DEF OpWell, WriteStep
  <2>3. op' \in [Ops -> Op \cup {None}] /\ OpsWell'
    BY <2>1, <2>2, BeginOp DEF ReadStep
  <2>4. QED
    BY <1>2, <2>3 DEF ListMiss, TypeOK, FromSnapshot, tables, history
<1>3. CASE Select(o)
  <2>1. op' \in [Ops -> Op \cup {None}] /\ OpsWell'
    <3>1. CASE Stored(op[o].p) /\ Keep(o, "fill", db[op[o].p])
      <4>1. op[o] # None /\ OpWell(op[o]) /\ op[o].p \in Products
        BY <1>3 DEF Select, Doing, OpsWell, OpWell
      <4>2. db[op[o].p] \in Row
        BY <3>1, TableRows DEF Stored, TypeOK
      <4>3. OpWell([step |-> "fill", p |-> op[o].p, patch |-> op[o].patch,
                    row |-> db[op[o].p]])
        BY <4>1, <4>2 DEF OpWell
      <4>4. QED
        BY <3>1, <4>1, <4>2, <4>3, KeepOp DEF ReadStep, WriteStep
    <3>2. CASE End(o)
      BY <3>2, EndOp
    <3>3. QED
      BY <1>3, <3>1, <3>2 DEF Select
  <2>2. QED
    BY <1>3, <2>1 DEF Select, TypeOK, FromSnapshot, tables, history
<1>4. CASE Fill(o)
  <2>1. op' \in [Ops -> Op \cup {None}] /\ OpsWell'
    BY <1>4, EndOp DEF Fill
  <2>2. cache' \in [Products -> Row \cup {None}]
    BY <1>4 DEF Fill, Doing, OpsWell, OpWell, TypeOK
  <2>3. QED
    BY <1>4, <2>1, <2>2 DEF Fill, TypeOK, FromSnapshot, history
<1>5. CASE SelectList(o)
  <2>1. op[o] # None /\ db \in Table
    BY <1>5 DEF SelectList, Doing, TypeOK
  <2>2. OpWell([step |-> "fillList", p |-> op[o].p, patch |-> op[o].patch, row |-> db])
    BY <2>1 DEF OpWell, WriteStep
  <2>3. op' \in [Ops -> Op \cup {None}] /\ OpsWell'
    BY <1>5, <2>1, <2>2, KeepOp DEF SelectList, ReadStep
  <2>4. QED
    BY <1>5, <2>3 DEF SelectList, TypeOK, FromSnapshot, tables, history
<1>6. CASE FillList(o)
  <2>1. op' \in [Ops -> Op \cup {None}] /\ OpsWell'
    BY <1>6, EndOp DEF FillList
  <2>2. list' \in Table \cup {None}
    BY <1>6 DEF FillList, Doing, OpsWell, OpWell, TypeOK
  <2>3. QED
    BY <1>6, <2>1, <2>2 DEF FillList, TypeOK, FromSnapshot, history
<1>7. QED
  BY <1>1, <1>2, <1>3, <1>4, <1>5, <1>6 DEF Read

LEMMA WriteTyped ==
  ASSUME Typed, NEW o \in Ops, Write(o) \/ OpStops(o)
  PROVE  Typed'
<1> USE DEF Typed
<1>1. CASE Reselect(o)
  <2>1. op' \in [Ops -> Op \cup {None}] /\ OpsWell'
    <3>1. CASE Stored(op[o].p) /\ Keep(o, "setCache", db[op[o].p])
      <4>1. op[o] # None /\ OpWell(op[o]) /\ op[o].p \in Products
        BY <1>1 DEF Reselect, Doing, OpsWell, OpWell, WriteStep
      <4>2. db[op[o].p] \in Row
        BY <3>1, TableRows DEF Stored, TypeOK
      <4>3. OpWell([step |-> "setCache", p |-> op[o].p, patch |-> op[o].patch,
                    row |-> db[op[o].p]])
        BY <4>1, <4>2 DEF OpWell
      <4>4. QED
        BY <3>1, <4>1, <4>2, <4>3, KeepOp DEF ReadStep, WriteStep
    <3>2. CASE End(o)
      BY <3>2, EndOp
    <3>3. QED
      BY <1>1, <3>1, <3>2 DEF Reselect
  <2>2. QED
    BY <1>1, <2>1 DEF Reselect, TypeOK, FromSnapshot, tables, history
<1>2. CASE SetCache(o)
  <2>1. op[o] # None /\ OpWell(op[o]) /\ op[o].p \in Products /\ op[o].row \in Row
    BY <1>2 DEF SetCache, Doing, OpsWell, OpWell, WriteStep
  <2>2. OpWell([step |-> "delList", p |-> op[o].p, patch |-> op[o].patch, row |-> None])
    BY <2>1 DEF OpWell
  <2>3. op' \in [Ops -> Op \cup {None}] /\ OpsWell'
    BY <1>2, <2>1, <2>2, KeepOp DEF SetCache, WriteStep
  <2>4. cache' \in [Products -> Row \cup {None}]
    BY <1>2, <2>1 DEF SetCache, TypeOK
  <2>5. QED
    BY <1>2, <2>3, <2>4 DEF SetCache, TypeOK, FromSnapshot, history
<1>3. CASE DelList(o)
  <2>1. op' \in [Ops -> Op \cup {None}] /\ OpsWell'
    BY <1>3, EndOp DEF DelList
  <2>2. QED
    BY <1>3, <2>1 DEF DelList, TypeOK, FromSnapshot, history
<1>4. CASE GetCached(o)
  <2>1. op' \in [Ops -> Op \cup {None}] /\ OpsWell'
    <3>1. CASE cache[op[o].p] # None /\ Keep(o, "merge", cache[op[o].p])
      <4>1. op[o] # None /\ op[o].p \in Products /\ op[o].patch \in Patch
        BY <1>4 DEF GetCached, Doing, OpsWell, OpWell, WriteStep
      <4>2. cache[op[o].p] \in Row
        BY <3>1, <4>1 DEF TypeOK
      <4>3. OpWell([step |-> "merge", p |-> op[o].p, patch |-> op[o].patch,
                    row |-> cache[op[o].p]])
        BY <4>1, <4>2 DEF OpWell
      <4>4. QED
        BY <3>1, <4>1, <4>2, <4>3, KeepOp DEF ReadStep, WriteStep
    <3>2. CASE End(o)
      BY <3>2, EndOp
    <3>3. QED
      BY <1>4, <3>1, <3>2 DEF GetCached
  <2>2. QED
    BY <1>4, <2>1 DEF GetCached, TypeOK, FromSnapshot, tables, history
<1>5. CASE MergeCached(o)
  <2>1. op' \in [Ops -> Op \cup {None}] /\ OpsWell'
    BY <1>5, EndOp DEF MergeCached
  <2>2. op[o].p \in Products /\ Merge(op[o].row, op[o].patch) \in Row
    BY <1>5, MergeIsRow DEF MergeCached, Doing, OpsWell, OpWell, WriteStep
  <2>3. cache' \in [Products -> Row \cup {None}]
    BY <1>5, <2>2 DEF MergeCached, TypeOK
  <2>4. QED
    BY <1>5, <2>1, <2>3 DEF MergeCached, TypeOK, FromSnapshot, history
<1>6. CASE OpStops(o)
  <2>1. op' \in [Ops -> Op \cup {None}] /\ OpsWell'
    BY <1>6, EndOp DEF OpStops
  <2>2. QED
    BY <1>6, <2>1 DEF OpStops, TypeOK, FromSnapshot, tables, history
<1>7. QED
  BY <1>1, <1>2, <1>3, <1>4, <1>5, <1>6 DEF Write

LEMMA PatchTyped ==
  ASSUME Typed, NEW o \in Ops, NEW p \in Products, NEW fields \in SUBSET Fields,
         UpdateThrough(o, p, fields) \/ Enqueue(o, p, fields)
  PROVE  Typed'
<1> USE DEF Typed
<1>1. NewPatch(fields) \in Patch /\ writes + 1 \in WriteIds /\ writes + 1 \in 0..MaxWrites
  BY MaxWritesIsNat DEF UpdateThrough, Enqueue, NewPatch, Patch, WriteIds, TypeOK
<1>2. CASE UpdateThrough(o, p, fields)
  <2>1. OpWell([step |-> "reselect", p |-> p, patch |-> None, row |-> None])
    BY DEF OpWell
  <2>2. op' \in [Ops -> Op \cup {None}] /\ OpsWell'
    BY <1>1, <1>2, <2>1, BeginOp DEF UpdateThrough, WriteStep
  <2>3. db' \in Table
    <3>1. db \in Table
      BY DEF TypeOK
    <3>2. DOMAIN db \subseteq Rows /\ \A q \in DOMAIN db : db[q] \in Row
      BY <3>1, TableRows
    <3>3. db' \in [DOMAIN db -> Row]
      BY <1>1, <1>2, <3>2, MergeIsRow DEF UpdateThrough
    <3>4. QED
      BY <3>2, <3>3, IsTable
  <2>4. QED
    BY <1>1, <1>2, <2>2, <2>3 DEF UpdateThrough, TypeOK, FromSnapshot
<1>3. CASE Enqueue(o, p, fields)
  <2>1. OpWell([step |-> "getCached", p |-> p, patch |-> NewPatch(fields), row |-> None])
    BY <1>1 DEF OpWell
  <2>2. op' \in [Ops -> Op \cup {None}] /\ OpsWell'
    BY <1>1, <1>3, <2>1, BeginOp DEF Enqueue, WriteStep
  <2>3. /\ queue' \in [Products -> Patch \cup {None}]
        /\ last' \in [Products -> Patch \cup {None}]
        /\ raced' \subseteq Products
    BY <1>1, <1>3 DEF Enqueue, TypeOK
  <2>4. QED
    BY <1>1, <1>3, <2>2, <2>3 DEF Enqueue, TypeOK, FromSnapshot, tables
<1>4. QED
  BY <1>2, <1>3

(* A row stays a row, and of an id without one nothing is written.         *)
LEMMA WrittenRow ==
  ASSUME db \in Table, NEW p \in Products, NEW patch \in Patch, Written(p, patch)
  PROVE  /\ db' \in Table
         /\ DOMAIN db' = DOMAIN db
         /\ \A q \in DOMAIN db \ {p} : db'[q] = db[q]
         /\ Stored(p) => db'[p] = Merge(db[p], patch) /\ db' = [db EXCEPT ![p] = Merge(@, patch)]
         /\ ~Stored(p) => db' = db
<1>1. /\ DOMAIN db \subseteq Rows
      /\ db = [q \in DOMAIN db |-> db[q]]
      /\ \A q \in DOMAIN db : db[q] \in Row
  BY TableRows
<1>2. db' = [q \in DOMAIN db |-> IF q = p THEN Merge(db[q], patch) ELSE db[q]]
  BY DEF Written
<1>3. db' \in [DOMAIN db -> Row]
  BY <1>1, <1>2, MergeIsRow
<1>4. db' \in Table
  BY <1>1, <1>3, IsTable
<1>5. Stored(p) => db' = [db EXCEPT ![p] = Merge(@, patch)]
  BY <1>1, <1>2
<1>6. ~Stored(p) => db' = db
  <2> SUFFICES ASSUME ~Stored(p) PROVE db' = db
    OBVIOUS
  <2>1. db' = [q \in DOMAIN db |-> db[q]]
    BY <1>2 DEF Stored
  <2>2. QED
    BY <1>1, <2>1
<1>7. QED
  BY <1>2, <1>4, <1>5, <1>6 DEF Stored

(* What the three actions of repo.update have in common.                   *)
LEMMA RowMoves ==
  ASSUME Typed, NEW f \in Flushes, NEW p \in Products, FlushRow(f, p)
  PROVE  /\ At(f, "loop") /\ p \in flush[f].todo /\ flush[f] # None
         /\ flush[f].pending[p] \in Patch /\ db \in Table
         /\ \/ flush' = [flush EXCEPT ![f].at = p]
            \/ Succeeds(f, p)
            \/ Fails(f, p)
         /\ Written(p, flush[f].pending[p]) \/ UNCHANGED db
         /\ UNCHANGED <<queue, last, raced, through>>
<1>1. At(f, "loop") /\ p \in flush[f].todo
  BY DEF FlushRow, FlushUpdate, FlushReselect, FlushRowFails, Trying
<1>2. /\ \/ flush' = [flush EXCEPT ![f].at = p]
         \/ Succeeds(f, p)
         \/ Fails(f, p)
      /\ Written(p, flush[f].pending[p]) \/ UNCHANGED db
      /\ UNCHANGED <<queue, last, raced, through>>
  BY DEF FlushRow, FlushUpdate, FlushReselect, FlushRowFails, tables, history
<1>3. flush[f] # None /\ flush[f] \in Flush /\ FlushWell(flush[f]) /\ flush[f].step = "loop"
  BY <1>1 DEF At, Typed, TypeOK, FromSnapshot
<1>4. flush[f].pending[p] \in Patch
  BY <1>1, <1>3 DEF FlushWell, Flush
<1>5. QED
  BY <1>1, <1>2, <1>3, <1>4 DEF Typed, TypeOK

LEMMA FlushTyped ==
  ASSUME Typed, NEW f \in Flushes,
         FlushStep(f) \/ FlushDies(f) \/ \E p \in Products : FlushRow(f, p)
  PROVE  Typed'
<1> USE DEF Typed
<1>1. CASE FlushStart(f)
  <2> DEFINE r == [step |-> "loop", at |-> None, todo |-> {p \in Products : queue[p] # None},
                   ok |-> {}, pending |-> queue]
  <2>1. r \in Flush /\ FlushWell(r)
    BY DEF Flush, FlushWell, TypeOK
  <2>2. flush' = [flush EXCEPT ![f] = r]
    BY <1>1 DEF FlushStart
  <2> HIDE DEF r
  <2>3. flush' \in [Flushes -> Flush \cup {None}] /\ FromSnapshot'
    BY <2>1, <2>2, FlushMoves
  <2>4. QED
    BY <1>1, <2>3 DEF FlushStart, TypeOK, OpsWell, tables, history
<1>2. ASSUME NEW p \in Products, FlushRow(f, p)
      PROVE  Typed'
  <2>1. flush' \in [Flushes -> Flush \cup {None}] /\ FromSnapshot'
    BY <1>2, RowMoves, FlushTries, FlushMoves
  <2>2. db' \in Table
    BY <1>2, RowMoves, WrittenRow
  <2>3. QED
    BY <1>2, <2>1, <2>2
       DEF FlushRow, FlushUpdate, FlushReselect, FlushRowFails, TypeOK, OpsWell, tables, history
<1>3. CASE FlushHdel(f)
  <2>1. flush' \in [Flushes -> Flush \cup {None}] /\ FromSnapshot'
    BY <1>3, StepFlush DEF FlushHdel, At
  <2>2. queue' \in [Products -> Patch \cup {None}]
    BY <1>3 DEF FlushHdel, TypeOK
  <2>3. QED
    BY <1>3, <2>1, <2>2 DEF FlushHdel, TypeOK, OpsWell, tables, history
<1>4. CASE FlushDelKeys(f)
  <2>1. flush' \in [Flushes -> Flush \cup {None}] /\ FromSnapshot'
    BY <1>4, StepFlush DEF FlushDelKeys, At
  <2>2. cache' \in [Products -> Row \cup {None}]
    BY <1>4 DEF FlushDelKeys, TypeOK
  <2>3. QED
    BY <1>4, <2>1, <2>2 DEF FlushDelKeys, TypeOK, OpsWell, history
<1>5. CASE FlushNothing(f) \/ FlushDelList(f) \/ FlushDies(f)
  <2>1. flush' \in [Flushes -> Flush \cup {None}] /\ FromSnapshot'
    BY <1>5, FlushEnds DEF FlushNothing, FlushDelList, FlushDies
  <2>2. QED
    BY <1>5, <2>1 DEF FlushNothing, FlushDelList, FlushDies, TypeOK, OpsWell, tables, history
<1>6. QED
  BY <1>1, <1>2, <1>3, <1>4, <1>5 DEF FlushStep

LEMMA TypedStep ==
  ASSUME Typed, [Next]_vars
  PROVE  Typed'
<1>1. ASSUME NEW i \in Instances, PauseResume(i) PROVE Typed'
  BY <1>1 DEF PauseResume, Typed, TypeOK, OpsWell, FromSnapshot, tables, history
<1>2. ASSUME NEW new \in SUBSET Rows, Seed(new) PROVE Typed'
  <2>1. db \in Table
    BY DEF Typed, TypeOK
  <2>2. DOMAIN db \subseteq Rows /\ \A q \in DOMAIN db : db[q] \in Row
    BY <2>1, TableRows
  <2>3. [c \in Fields |-> 0] \in Row
    BY MaxWritesIsNat DEF Row
  <2>4. db' \in [DOMAIN db \cup new -> Row]
    BY <1>2, <2>2, <2>3 DEF Seed
  <2>5. db' \in Table
    BY <2>2, <2>4, IsTable
  <2>6. QED
    BY <1>2, <2>5, RowsAreProducts DEF Seed, Typed, TypeOK, OpsWell, FromSnapshot
<1>3. ASSUME NEW p \in Products, Expire(p) PROVE Typed'
  BY <1>3 DEF Expire, Typed, TypeOK, OpsWell, FromSnapshot, history
<1>4. CASE ExpireList
  BY <1>4 DEF ExpireList, Typed, TypeOK, OpsWell, FromSnapshot, history
<1>5. CASE UNCHANGED vars
  BY <1>5 DEF Typed, TypeOK, OpsWell, FromSnapshot, vars, tables, history
<1>6. ASSUME NEW o \in Ops, NEW p \in Products,
             \/ GetMiss(o, p)
             \/ \E fields \in SUBSET Fields : UpdateThrough(o, p, fields) \/ Enqueue(o, p, fields)
      PROVE  Typed'
  BY <1>6, ReadTyped, PatchTyped
<1>7. ASSUME NEW o \in Ops, ListMiss(o) \/ Read(o) \/ Write(o) \/ OpStops(o)
      PROVE  Typed'
  BY <1>7, ReadTyped, WriteTyped
<1>8. ASSUME NEW f \in Flushes,
             \/ FlushStep(f) \/ FlushDies(f)
             \/ \E p \in Products : FlushRow(f, p)
      PROVE  Typed'
  BY <1>8, FlushTyped
<1>9. QED
  BY <1>1, <1>2, <1>3, <1>4, <1>5, <1>6, <1>7, <1>8 DEF Next

LEMMA InitTyped ==
  ASSUME Init
  PROVE  Typed
<1>1. db \in [{} -> Row]
  BY DEF Init
<1>2. db \in Table
  BY <1>1, IsTable
<1>3. QED
  BY <1>2, MaxWritesIsNat DEF Init, Typed, TypeOK, OpsWell, FromSnapshot

(* The table, the entries of the cache and the cached list hold complete   *)
(* rows only, the queue complete patches, and requests and flushes what    *)
(* their next statement needs, for any number of them.                     *)
THEOREM TypeCorrect == SafetySpec => []TypeOK
<1>1. Init => Typed
  BY InitTyped
<1>2. Typed /\ [Next]_vars => Typed'
  BY TypedStep
<1>3. Typed => TypeOK
  BY DEF Typed
<1>4. QED
  BY <1>1, <1>2, <1>3, PTL DEF SafetySpec

-----------------------------------------------------------------------------
(* Layer 2: the queue and the flushes know the latest patch of a product   *)
(* that is not in raced.                                                   *)
Holds(f, p) == At(f, "loop") /\ flush[f].pending[p] # None

Latest == \A p \in Products : queue[p] # None => queue[p] = last[p]
Snapshots ==
  \A f \in Flushes, p \in Products \ raced : Holds(f, p) => flush[f].pending[p] = last[p]

(* What a flush counts as a success is in the table, and so is the patch   *)
(* of a row it has updated and not yet selected.                           *)
Updated(f, p) == p \in flush[f].ok \/ (p = flush[f].at /\ Stored(p))
Successes ==
  \A f \in Flushes, p \in Products \ raced :
    At(f, "loop") /\ Updated(f, p) => WB!Absorbed(p, last[p])

Known == Latest /\ Snapshots /\ Successes

LEMMA HeldIs == Held = {p \in Products : \E f \in Flushes : Holds(f, p)}
BY DEF Held, HeldByFlush, Holds, At

(* What a flush has updated it holds.                                      *)
LEMMA UpdatedIsHeld ==
  ASSUME Typed, NEW f \in Flushes, NEW p \in Products, At(f, "loop"),
         p \in flush[f].ok \/ p = flush[f].at \/ p \in flush[f].todo
  PROVE  Holds(f, p) /\ HeldByFlush(p) /\ p \in Held
<1>1. FlushWell(flush[f]) /\ flush[f].step = "loop"
  BY DEF At, Typed, FromSnapshot
<1>2. Holds(f, p)
  BY <1>1, NoneIsNoProduct DEF FlushWell, Holds
<1>3. QED
  BY <1>2, HeldIs DEF HeldByFlush, Holds, At

(* Of no concern to the queue and its flushes.                             *)
LEMMA Elsewhere ==
  ASSUME Known, UNCHANGED <<db, queue, flush, last, raced, through>>
  PROVE  Known' /\ UNCHANGED WB!behindVars
<1>1. Known'
  BY DEF Known, Latest, Snapshots, Successes, Updated, Stored, Holds, At, WB!Absorbed
<1>2. Held' = Held
  BY DEF Held, HeldByFlush, At
<1>3. QED
  BY <1>1, <1>2 DEF WB!behindVars

(* Rows are added, those of a flush between its statements being raced, or *)
(* columns written that are counted as written through.                    *)
LEMMA TableGrows ==
  ASSUME Typed, Known, UNCHANGED <<queue, flush, last>>, raced \subseteq raced',
         through \subseteq through', DOMAIN db \subseteq DOMAIN db',
         \A p \in Products : BetweenStatements(p) /\ ~Stored(p) /\ p \in DOMAIN db' => p \in raced',
         \A p \in DOMAIN db : \A c \in Fields : db'[p][c] \in {db[p][c]} \cup through'
  PROVE  Known' /\ Held' = Held
<1>1. Held' = Held
  BY DEF Held, HeldByFlush, At
<1>2. Successes'
  <2> SUFFICES ASSUME NEW f \in Flushes, NEW p \in Products \ raced', At(f, "loop"), Updated(f, p)'
               PROVE  WB!Absorbed(p, last[p])'
    BY DEF Successes, At
  <2>1. Updated(f, p)
    BY DEF Updated, BetweenStatements, Stored
  <2>2. WB!Absorbed(p, last[p]) /\ Holds(f, p)
    BY <2>1, UpdatedIsHeld DEF Known, Successes, Updated
  <2>3. last[p] = flush[f].pending[p] /\ flush[f].pending[p] \in Patch
    BY <2>2 DEF Known, Snapshots, Holds, At, Typed, TypeOK, Flush
  <2>4. last[p].fields \subseteq Fields
    BY <2>3 DEF Patch
  <2>5. QED
    BY <2>2, <2>4 DEF WB!Absorbed
<1>3. QED
  BY <1>1, <1>2 DEF Known, Latest, Snapshots, Holds, At

LEMMA SeedStep ==
  ASSUME Typed, Known, NEW new \in SUBSET Rows, Seed(new)
  PROVE  Known' /\ WB!AddRows(new, {p \in new : BetweenStatements(p)}, 0)
<1> DEFINE late == {p \in new : BetweenStatements(p)}
<1>1. /\ DOMAIN db \subseteq DOMAIN db'
      /\ \A p \in DOMAIN db : db'[p] = db[p]
      /\ \A p \in DOMAIN db' : p \in DOMAIN db \/ p \in new
  BY DEF Seed, Stored
<1>2. raced' = raced \cup late /\ UNCHANGED <<queue, flush, last, through>>
  BY DEF Seed
<1>3. late \subseteq Held
  BY RowsAreProducts, UpdatedIsHeld DEF BetweenStatements
<1>4. Known' /\ Held' = Held
  BY <1>1, <1>2, TableGrows DEF Stored
<1>5. QED
  BY <1>2, <1>3, <1>4 DEF Seed, Stored, WB!AddRows

LEMMA ThroughStep ==
  ASSUME Typed, Known, NEW o \in Ops, NEW p \in Products, NEW fields \in SUBSET Fields,
         UpdateThrough(o, p, fields)
  PROVE  Known' /\ WB!WriteThrough(p, NewPatch(fields))
<1>1. /\ DOMAIN db' = DOMAIN db
      /\ \A q \in DOMAIN db : db'[q] = IF q = p THEN Merge(db[q], NewPatch(fields)) ELSE db[q]
      /\ through' = through \cup {writes + 1}
  BY DEF UpdateThrough
<1>2. \A q \in DOMAIN db : \A c \in Fields : db'[q][c] \in {db[q][c]} \cup through'
  BY <1>1 DEF Merge, NewPatch
<1>3. Known' /\ Held' = Held
  BY <1>1, <1>2, TableGrows DEF UpdateThrough, Stored
<1>4. QED
  BY <1>3 DEF UpdateThrough, NewPatch, Merge, WB!WriteThrough, WB!Patched

LEMMA EnqueueStep ==
  ASSUME Typed, Known, NEW o \in Ops, NEW p \in Products, NEW fields \in SUBSET Fields,
         Enqueue(o, p, fields)
  PROVE  Known' /\ WB!Accept(p, NewPatch(fields))
<1>1. /\ queue'[p] = NewPatch(fields) /\ last'[p] = NewPatch(fields)
      /\ \A q \in Products \ {p} : queue'[q] = queue[q] /\ last'[q] = last[q]
  BY DEF Enqueue, Typed, TypeOK
<1>2. /\ HeldByFlush(p) => p \in raced'
      /\ \A q \in Products \ {p} : q \in raced' <=> q \in raced
      /\ UNCHANGED <<db, flush, through>>
  BY DEF Enqueue, tables
<1>3. Held' = Held /\ (p \in Held <=> HeldByFlush(p))
  BY <1>2 DEF Held, HeldByFlush, At
<1>4. \A f \in Flushes : Holds(f, p) => p \in raced'
  BY <1>2 DEF HeldByFlush, Holds, At
<1>5. Latest'
  BY <1>1 DEF Known, Latest
<1>6. Snapshots'
  BY <1>1, <1>2, <1>4 DEF Known, Snapshots, Holds, At
<1>7. Successes'
  <2> SUFFICES ASSUME NEW f \in Flushes, NEW q \in Products \ raced', At(f, "loop"), Updated(f, q)
               PROVE  WB!Absorbed(q, last[q])'
    BY <1>2 DEF Successes, Updated, Stored, At
  <2>1. q # p
    BY <1>4, UpdatedIsHeld DEF Updated
  <2>2. QED
    BY <1>1, <1>2, <2>1 DEF Known, Successes, WB!Absorbed
<1>8. QED
  BY <1>3, <1>5, <1>6, <1>7 DEF Known, Enqueue, tables, WB!Accept

(* A flush that has p in its snapshot.                                     *)
LEMMA FlushStartStep ==
  ASSUME Typed, Known, NEW f \in Flushes, FlushStart(f)
  PROVE  Known' /\ WB!Take
<1> DEFINE r == [step |-> "loop", at |-> None, todo |-> {p \in Products : queue[p] # None},
                 ok |-> {}, pending |-> queue]
<1>1. r \in Flush /\ r # None
  BY NoneIsNoFlush DEF Flush, Typed, TypeOK
<1>2. flush' = [flush EXCEPT ![f] = r]
  BY DEF FlushStart
<1>3. /\ flush'[f] = r
      /\ \A g \in Flushes \ {f} : flush'[g] = flush[g]
  BY <1>1, <1>2 DEF Typed, TypeOK
<1>4. UNCHANGED <<db, queue, last, raced, through>> /\ flush[f] = None
  BY DEF FlushStart, tables, history
<1>5. /\ \A p \in Products : Holds(f, p)' <=> queue[p] # None
      /\ \A g \in Flushes \ {f}, p \in Products : Holds(g, p)' <=> Holds(g, p)
      /\ \A p \in Products : ~Holds(f, p)
  BY <1>1, <1>3, <1>4 DEF Holds, At
<1>6. Held' = Held \cup {p \in Products : queue[p] # None}
  <2>1. Held = {p \in Products : \E g \in Flushes : Holds(g, p)}
    BY HeldIs
  <2>2. Held' = {p \in Products : \E g \in Flushes : Holds(g, p)'}
    BY DEF Held, HeldByFlush, Holds, At
  <2>3. QED
    BY <1>5, <2>1, <2>2
<1>7. Latest'
  BY <1>4 DEF Known, Latest
<1>8. Snapshots'
  <2> SUFFICES ASSUME NEW g \in Flushes, NEW p \in Products \ raced, Holds(g, p)'
               PROVE  flush'[g].pending[p] = last[p]
    BY <1>4 DEF Snapshots
  <2>1. CASE g = f
    BY <1>3, <1>5, <2>1 DEF Known, Latest
  <2>2. CASE g # f
    BY <1>3, <1>5, <2>2 DEF Known, Snapshots
  <2>3. QED
    BY <2>1, <2>2
<1>9. Successes'
  BY <1>3, <1>4, NoneIsNoProduct
     DEF Known, Successes, Updated, Stored, At, WB!Absorbed
<1>10. QED
  BY <1>4, <1>6, <1>7, <1>8, <1>9 DEF Known, WB!Take

(* A flush deals with p and holds no more than before: it may have written *)
(* the row, and known to have or not.                                      *)
LEMMA LoopKnown ==
  ASSUME Typed, Known, NEW f \in Flushes, NEW p \in Products, At(f, "loop"), NEW r \in Flush,
         r.step = "loop", flush' = [flush EXCEPT ![f] = r],
         \A q \in Products \ {p} : r.pending[q] = flush[f].pending[q],
         r.pending[p] \in {flush[f].pending[p], None},
         UNCHANGED <<queue, last, raced, through>>, DOMAIN db' = DOMAIN db,
         \A q \in Products \ raced : WB!Absorbed(q, last[q]) => WB!Absorbed(q, last[q])',
         \A q \in Products \ raced : Updated(f, q)' => Updated(f, q) \/ WB!Absorbed(q, last[q])'
  PROVE  /\ Known' /\ Held' \in {Held, Held \ {p}} /\ Held' \subseteq Held
         /\ r.pending = flush[f].pending => Held' = Held
<1>1. /\ flush'[f] = r /\ r # None
      /\ \A g \in Flushes \ {f} : flush'[g] = flush[g]
  BY NoneIsNoFlush DEF Typed, TypeOK
<1>2. \A g \in Flushes : (At(g, "loop")' <=> At(g, "loop"))
  BY <1>1 DEF At
<1>3. /\ \A g \in Flushes, q \in Products : Holds(g, q)' => Holds(g, q)
      /\ \A g \in Flushes, q \in Products \ {p} : Holds(g, q)' <=> Holds(g, q)
      /\ \A g \in Flushes, q \in Products : Holds(g, q)' => flush'[g].pending[q] = flush[g].pending[q]
      /\ r.pending = flush[f].pending =>
           \A g \in Flushes, q \in Products : Holds(g, q)' <=> Holds(g, q)
  BY <1>1, <1>2 DEF Holds
<1>4. Latest' /\ Snapshots'
  BY <1>3 DEF Known, Latest, Snapshots
<1>5. Successes'
  <2> SUFFICES ASSUME NEW g \in Flushes, NEW q \in Products \ raced, At(g, "loop"), Updated(g, q)'
               PROVE  WB!Absorbed(q, last[q])'
    BY <1>2 DEF Successes
  <2>1. g # f => Updated(g, q)
    BY <1>1 DEF Updated, Stored
  <2>2. QED
    BY <2>1 DEF Known, Successes
<1>6. /\ Held = {q \in Products : \E g \in Flushes : Holds(g, q)}
      /\ Held' = {q \in Products : \E g \in Flushes : Holds(g, q)'}
  BY HeldIs DEF Held, HeldByFlush, Holds, At
<1>7. /\ Held' \subseteq Held
      /\ Held \ {p} \subseteq Held'
      /\ r.pending = flush[f].pending => Held' = Held
  BY <1>3, <1>6
<1>8. QED
  BY <1>4, <1>5, <1>7 DEF Known

(* Of a product that is not in raced a flush writes the latest patch.      *)
LEMMA WriteKnown ==
  ASSUME Typed, Known, NEW f \in Flushes, NEW p \in Products, At(f, "loop"), p \in flush[f].todo,
         Written(p, flush[f].pending[p]), UNCHANGED <<queue, last, raced, through>>
  PROVE  /\ DOMAIN db' = DOMAIN db
         /\ \A q \in Products \ raced : WB!Absorbed(q, last[q]) => WB!Absorbed(q, last[q])'
         /\ Stored(p) /\ p \notin raced => WB!Absorbed(p, last[p])'
         /\ Stored(p) /\ Held' \in {Held, Held \ {p}} => WB!Apply(p, flush[f].pending[p])
         /\ ~Stored(p) => db' = db
<1> DEFINE patch == flush[f].pending[p]
<1>1. Holds(f, p) /\ p \in Held
  BY UpdatedIsHeld
<1>2. patch \in Patch /\ patch.fields \subseteq Fields /\ db \in Table
  BY <1>1 DEF Holds, At, Typed, TypeOK, Flush, Patch
<1>3. p \notin raced => patch = last[p]
  BY <1>1 DEF Known, Snapshots
<1>4. /\ DOMAIN db' = DOMAIN db
      /\ \A q \in DOMAIN db \ {p} : db'[q] = db[q]
      /\ Stored(p) => db'[p] = Merge(db[p], patch) /\ db' = [db EXCEPT ![p] = Merge(@, patch)]
      /\ ~Stored(p) => db' = db
  BY <1>2, WrittenRow
<1> HIDE DEF patch
<1>5. Stored(p) /\ p \notin raced => WB!Absorbed(p, last[p])'
  BY <1>2, <1>3, <1>4 DEF Stored, Merge, WB!Absorbed
<1>6. ASSUME NEW q \in Products \ raced, WB!Absorbed(q, last[q])
      PROVE  WB!Absorbed(q, last[q])'
  BY <1>4, <1>5, <1>6 DEF Stored, WB!Absorbed
<1>7. Stored(p) /\ Held' \in {Held, Held \ {p}} => WB!Apply(p, patch)
  BY <1>1, <1>3, <1>4 DEF Stored, Merge, WB!Apply, WB!Patched
<1>8. QED
  BY <1>4, <1>5, <1>6, <1>7 DEF patch

(* A flush that lets go of a product, having written nothing.              *)
LEMMA GivesUp ==
  ASSUME Typed, UNCHANGED <<db, queue, last, raced, through>>, Held' \subseteq Held
  PROVE  \E kept, applied \in SUBSET Products : WB!LetGo(kept, applied)
<1>1. queue' = [q \in Products |-> IF q \in {} THEN None ELSE queue[q]]
  BY DEF Typed, TypeOK
<1>2. WB!LetGo(Held', {})
  BY <1>1 DEF WB!LetGo
<1>3. Held' \in SUBSET Products /\ {} \in SUBSET Products
  BY DEF Held
<1>4. QED
  BY <1>2, <1>3

(* The UPDATE of an id without a row is none of the abstract write-behind, *)
(* and neither is the SELECT of one that has it.                           *)
LEMMA FlushRowStep ==
  ASSUME Typed, Known, NEW f \in Flushes, NEW p \in Products, FlushRow(f, p)
  PROVE  /\ Known'
         /\ \/ WB!Apply(p, flush[f].pending[p])
            \/ \E kept, applied \in SUBSET Products : WB!LetGo(kept, applied)
            \/ UNCHANGED WB!behindVars
<1> DEFINE r == flush[f]
<1>1. /\ At(f, "loop") /\ p \in r.todo
      /\ UNCHANGED <<queue, last, raced, through>>
  BY RowMoves
<1>2. r \in Flush /\ r.step = "loop" /\ FlushWell(r)
  BY <1>1 DEF At, Typed, TypeOK, FromSnapshot
<1>3. CASE FlushUpdate(f, p)
  <2> DEFINE s == Asked(r, p)
  <2>1. Written(p, r.pending[p]) /\ flush' = [flush EXCEPT ![f] = s] /\ s \in Flush
    BY <1>1, <1>3, FlushTries DEF FlushUpdate, Typed
  <2>2. s.step = "loop" /\ s.pending = r.pending /\ s.at = p /\ s.ok = r.ok
    BY DEF Asked
  <2>3. flush'[f] = s
    BY <2>1 DEF Typed, TypeOK
  <2> HIDE DEF s
  <2>4. \A q \in Products \ raced : Updated(f, q)' => Updated(f, q) \/ WB!Absorbed(q, last[q])'
    BY <1>1, <2>1, <2>2, <2>3, WriteKnown DEF Updated, Stored
  <2>5. Known' /\ Held' = Held
    BY <1>1, <2>1, <2>2, <2>4, WriteKnown, LoopKnown
  <2>6. QED
    BY <1>1, <2>1, <2>5, WriteKnown DEF WB!behindVars
<1>4. CASE FlushReselect(f, p) /\ Stored(p)
  <2> DEFINE s == Tried(r, p)
  <2>1. UNCHANGED db /\ flush' = [flush EXCEPT ![f] = s] /\ s \in Flush /\ r.at = p
    BY <1>1, <1>4, FlushTries DEF FlushReselect, Trying, tables, Typed
  <2>2. s.step = "loop" /\ s.pending = r.pending /\ s.at = None /\ s.ok = r.ok \cup {p}
    BY DEF Tried
  <2>3. flush'[f] = s
    BY <2>1 DEF Typed, TypeOK
  <2> HIDE DEF s
  <2>4. \A q \in Products \ raced : Updated(f, q)' => Updated(f, q)
    BY <1>4, <2>1, <2>2, <2>3, NoneIsNoProduct DEF Updated
  <2>5. \A q \in Products \ raced : WB!Absorbed(q, last[q]) => WB!Absorbed(q, last[q])'
    BY <1>1, <2>1 DEF WB!Absorbed
  <2>6. Known' /\ Held' = Held
    BY <1>1, <2>1, <2>2, <2>4, <2>5, LoopKnown
  <2>7. QED
    BY <1>1, <2>1, <2>6 DEF WB!behindVars
<1>5. CASE FlushRowFails(f, p) \/ (FlushReselect(f, p) /\ ~Stored(p))
  <2> DEFINE s == Failed(r, p)
  <2>1. /\ flush' = [flush EXCEPT ![f] = s] /\ s \in Flush
        /\ UNCHANGED db \/ (Stored(p) /\ Written(p, r.pending[p]))
    BY <1>1, <1>5, FlushTries DEF FlushRowFails, FlushReselect, Updatable, tables, Typed
  <2>2. /\ s.step = "loop" /\ s.at = None /\ s.ok = r.ok
        /\ s.pending = [r.pending EXCEPT ![p] = None]
    BY DEF Failed
  <2>3. /\ \A q \in Products \ {p} : s.pending[q] = r.pending[q]
        /\ s.pending[p] \in {r.pending[p], None}
    BY <1>2, <2>2 DEF Flush
  <2>4. flush'[f] = s
    BY <2>1 DEF Typed, TypeOK
  <2> HIDE DEF s
  <2>5. \A q \in Products \ raced : Updated(f, q)' => Updated(f, q)
    BY <2>2, <2>4, NoneIsNoProduct DEF Updated
  <2>6. /\ DOMAIN db' = DOMAIN db
        /\ \A q \in Products \ raced : WB!Absorbed(q, last[q]) => WB!Absorbed(q, last[q])'
    BY <1>1, <2>1, WriteKnown DEF WB!Absorbed
  <2>7. Known' /\ Held' \in {Held, Held \ {p}} /\ Held' \subseteq Held
    BY <1>1, <2>1, <2>2, <2>3, <2>5, <2>6, LoopKnown
  <2>8. CASE UNCHANGED db
    BY <1>1, <2>7, <2>8, GivesUp
  <2>9. CASE Stored(p) /\ Written(p, r.pending[p])
    BY <1>1, <2>7, <2>9, WriteKnown
  <2>10. QED
    BY <2>1, <2>7, <2>8, <2>9
<1>6. QED
  BY <1>3, <1>4, <1>5 DEF FlushRow

(* A flush is past its loop or over: what is left is held by the others.   *)
LEMMA LetGoKnown ==
  ASSUME Typed, Known, NEW f \in Flushes, UNCHANGED <<db, last, raced, through>>,
         flush'[f] = None \/ flush'[f].step # "loop",
         \A g \in Flushes \ {f} : flush'[g] = flush[g],
         \A p \in Products : queue'[p] \in {queue[p], None}
  PROVE  Known' /\ Held' \subseteq Held
<1>1. \A g \in Flushes, p \in Products : Holds(g, p)' => g # f /\ Holds(g, p)
  BY DEF Holds, At
<1>2. \A g \in Flushes : At(g, "loop")' => g # f /\ At(g, "loop")
  BY DEF At
<1>3. Latest'
  BY DEF Known, Latest
<1>4. Snapshots'
  BY <1>1 DEF Known, Snapshots
<1>5. Successes'
  BY <1>2 DEF Known, Successes, Updated, Stored, WB!Absorbed
<1>6. Held' \subseteq Held
  <2>1. Held' = {q \in Products : \E g \in Flushes : Holds(g, q)'}
    BY DEF Held, HeldByFlush, Holds, At
  <2>2. QED
    BY <1>1, <2>1, HeldIs
<1>7. QED
  BY <1>3, <1>4, <1>5, <1>6 DEF Known

LEMMA FlushEndsStep ==
  ASSUME Typed, Known, NEW f \in Flushes,
         FlushHdel(f) \/ FlushNothing(f) \/ FlushDelKeys(f) \/ FlushDelList(f) \/ FlushDies(f)
  PROVE  Known' /\ \E kept, applied \in SUBSET Products : WB!LetGo(kept, applied)
<1>1. CASE FlushHdel(f)
  <2> DEFINE ok == flush[f].ok
  <2>1. /\ flush'[f].step = "delKeys"
        /\ \A g \in Flushes \ {f} : flush'[g] = flush[g]
    BY <1>1, StepFlush DEF FlushHdel, At, Typed
  <2>2. /\ queue' = [p \in Products |-> IF p \in ok THEN None ELSE queue[p]]
        /\ UNCHANGED <<db, last, raced, through>>
    BY <1>1 DEF FlushHdel, tables, history
  <2>3. Known' /\ Held' \subseteq Held
    BY <2>1, <2>2, LetGoKnown
  <2>4. At(f, "loop") /\ ok \in SUBSET Products
    BY <1>1 DEF FlushHdel, At, Typed, TypeOK, Flush
  <2>5. ok \subseteq Held
    BY <2>4, UpdatedIsHeld
  <2>6. \A p \in ok \ raced : WB!Absorbed(p, last[p])
    BY <2>4 DEF Known, Successes, Updated
  <2>7. Held' \in SUBSET Products
    BY DEF Held
  <2>8. WB!LetGo(Held', ok)
    BY <2>2, <2>3, <2>5, <2>6 DEF WB!LetGo
  <2>9. QED
    BY <2>3, <2>4, <2>7, <2>8
<1>2. CASE FlushNothing(f) \/ FlushDelKeys(f) \/ FlushDelList(f) \/ FlushDies(f)
  <2>1. /\ flush'[f] = None \/ flush'[f].step # "loop"
        /\ \A g \in Flushes \ {f} : flush'[g] = flush[g]
    <3>1. CASE FlushDelKeys(f)
      BY <3>1, StepFlush DEF FlushDelKeys, At, Typed
    <3>2. CASE FlushNothing(f) \/ FlushDelList(f) \/ FlushDies(f)
      BY <3>2 DEF FlushNothing, FlushDelList, FlushDies, Typed, TypeOK
    <3>3. QED
      BY <1>2, <3>1, <3>2
  <2>2. UNCHANGED <<db, queue, last, raced, through>>
    BY <1>2 DEF FlushNothing, FlushDelKeys, FlushDelList, FlushDies, tables, history
  <2>3. QED
    BY <2>1, <2>2, LetGoKnown, GivesUp
<1>3. QED
  BY <1>1, <1>2

-----------------------------------------------------------------------------
(* Every step maps to a step of WriteBehind or a stutter of it.            *)
LEMMA Implementation ==
  ASSUME Typed, Known, [Next]_vars
  PROVE  Known' /\ (UNCHANGED WB!behindVars \/ WB!BehindNext)
<1>1. ASSUME UNCHANGED <<db, queue, flush, last, raced, through>>
      PROVE  Known' /\ UNCHANGED WB!behindVars
  BY <1>1, Elsewhere
<1>2. ASSUME NEW o \in Ops, ListMiss(o) \/ Read(o) \/ Write(o) \/ OpStops(o)
      PROVE  UNCHANGED <<db, queue, flush, last, raced, through>>
  BY <1>2 DEF ListMiss, Read, Select, Fill, SelectList, FillList, Write, Reselect, SetCache,
              DelList, GetCached, MergeCached, OpStops, tables, history
<1>3. ASSUME NEW o \in Ops, NEW p \in Products, GetMiss(o, p)
      PROVE  UNCHANGED <<db, queue, flush, last, raced, through>>
  BY <1>3 DEF GetMiss, tables, history
<1>4. ASSUME \/ \E i \in Instances : PauseResume(i)
             \/ \E p \in Products : Expire(p)
             \/ ExpireList
             \/ UNCHANGED vars
      PROVE  UNCHANGED <<db, queue, flush, last, raced, through>>
  BY <1>4 DEF PauseResume, Expire, ExpireList, vars, tables, history
<1>5. ASSUME NEW o \in Ops, NEW p \in Products, NEW fields \in SUBSET Fields,
             UpdateThrough(o, p, fields) \/ Enqueue(o, p, fields)
      PROVE  Known' /\ WB!BehindNext
  <2>1. NewPatch(fields) \in WB!Patch
    BY <1>5, MaxWritesIsNat
       DEF UpdateThrough, Enqueue, NewPatch, WB!Patch, WriteIds, Typed, TypeOK
  <2>2. QED
    BY <1>5, <2>1, ThroughStep, EnqueueStep DEF WB!BehindNext
<1>6. ASSUME NEW new \in SUBSET Rows, Seed(new)
      PROVE  Known' /\ WB!BehindNext
  <2> DEFINE late == {p \in new : BetweenStatements(p)}
  <2>1. new \in SUBSET Products /\ late \in SUBSET Products
    BY RowsAreProducts
  <2>2. Known' /\ WB!AddRows(new, late, 0)
    BY <1>6, SeedStep
  <2> HIDE DEF late
  <2>3. QED
    BY <2>1, <2>2 DEF WB!BehindNext
<1>7. ASSUME NEW f \in Flushes, FlushStep(f) \/ FlushDies(f)
      PROVE  Known' /\ WB!BehindNext
  BY <1>7, FlushStartStep, FlushEndsStep DEF FlushStep, WB!BehindNext
<1>8. ASSUME NEW f \in Flushes, NEW p \in Products, FlushRow(f, p)
      PROVE  Known' /\ (UNCHANGED WB!behindVars \/ WB!BehindNext)
  <2>1. flush[f].pending[p] \in WB!Patch
    BY <1>8, RowMoves DEF Patch, WB!Patch
  <2>2. QED
    BY <1>8, <2>1, FlushRowStep DEF WB!BehindNext
<1>9. QED
  BY <1>1, <1>2, <1>3, <1>4, <1>5, <1>6, <1>7, <1>8 DEF Next

(* Write-behind as the code does it is the abstract one, for any number of *)
(* products, requests and flushes, wherever they stop and overlap, and     *)
(* wherever a row is seeded between the two statements of a flush.         *)
THEOREM ProductImplementsWriteBehind == SafetySpec => ImplementsWriteBehind
<1>1. Init => Typed /\ Known /\ WB!BehindInit
  <2> SUFFICES ASSUME Init PROVE Typed /\ Known /\ WB!BehindInit
    OBVIOUS
  <2>1. Typed
    BY InitTyped
  <2>2. Known
    BY DEF Init, Known, Latest, Snapshots, Successes, Holds, At
  <2>3. Held = {}
    BY DEF Init, Held, HeldByFlush, At
  <2>4. QED
    BY <2>1, <2>2, <2>3 DEF Init, WB!BehindInit
<1>2. Typed /\ Known /\ [Next]_vars =>
        (Typed /\ Known)' /\ [UNCHANGED WB!behindVars \/ WB!BehindNext]_vars
  BY TypedStep, Implementation
<1>3. QED
  BY <1>1, <1>2, PTL DEF SafetySpec, ImplementsWriteBehind

(* The latest write-behind patch of a product is in the queue until its    *)
(* columns are in the table, unless it came while a flush held an earlier  *)
(* one or its row came between the statements of a flush: the promise of   *)
(* WriteBehind, which the code implements.                                 *)
THEOREM PatchesAreKept == SafetySpec => []AppliedOrQueued
<1>1. WB!Kept => AppliedOrQueued
  BY DEF AppliedOrQueued, InTable, Stored, WB!Kept, WB!Absorbed
<1>2. [UNCHANGED WB!behindVars \/ WB!BehindNext]_vars => [WB!BehindNext]_WB!behindVars
  BY DEF vars, tables, history, WB!behindVars, Held, HeldByFlush, At
<1>3. WB!Behind => [](WB!BehindTypeOK /\ WB!Kept)
  BY WB!BehindKeeps
<1>4. QED
  BY <1>1, <1>2, <1>3, ProductImplementsWriteBehind, PTL DEF ImplementsWriteBehind, WB!Behind
=============================================================================
