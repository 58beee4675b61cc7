--------------------------- MODULE IndexRegistry ---------------------------
(***************************************************************************)
(* The index registry (sql/index.go) and the statements that use it:       *)
(* CREATE INDEX (sql/plan/create_index.go), DROP INDEX                     *)
(* (sql/plan/drop_index.go), SHOW INDEXES and queries whose plan uses an   *)
(* index.  Every goroutine is a thread here, and a step is what happens    *)
(* between two acquisitions of a lock.                                     *)
(*                                                                         *)
(* r.mut is a sync.RWMutex: a goroutine that waits in Lock() keeps later   *)
(* RLock() calls out.  No goroutine acquires anything while it holds       *)
(* r.mut for writing, so a writer's critical section is one step; readers  *)
(* do (retainIndex, CanRemoveIndex), so read locks are counted.  r.rcmut   *)
(* is kept across steps only by DeleteIndex.                               *)
(***************************************************************************)
EXTENDS Integers, Sequences, FiniteSets, SequencesExt

CONSTANTS
  Creators, Droppers, Queriers, Showers,  \* clients, by the statement they run
  Deleters,        \* callers of DeleteIndex(db, id, false)
  Casts,           \* the sets of clients that take part together
  Dbs, Ids,        \* databases (with one table each), index ids
  Exprs,           \* expression lists: sets of expressions
  Stored,          \* what driver.LoadAll finds on disk: records [key, expr]
  Lazy,            \* databases whose loaders may not have run at the start
  MaxOps,          \* statements per client
  SaveMayFail,     \* driver.Save may return an error
  None

Clients == Creators \cup Droppers \cup Queriers \cup Showers \cup Deleters
Keys == Dbs \X Ids
Db(k) == k[1]
Id(k) == k[2]

ASSUME RegistryAssumption ==
  /\ None \notin Nat
  /\ Stored \in Seq([key : Keys, expr : Exprs])
  /\ Lazy \subseteq Dbs
  /\ MaxOps \in Nat

\* A directory on disk for each index
ASSUME StoredAssumption ==
  \A i, j \in DOMAIN Stored : Stored[i].key = Stored[j].key => i = j

VARIABLES
  objs,      \* every index object ever made, Stored first: <<[key, expr], ...>>
  saved,     \* saved[o]: "no" | "ok" | "failed", what driver.Save said
  indexes,   \* r.indexes: key -> object, or None
  order,     \* r.indexOrder
  status,    \* r.statuses: key -> "notReady" | "ready"
  refCounts, \* r.refCounts
  queue,     \* r.deleteIndexQueue: key -> the DeleteIndex call that waits, or None
  readers,   \* read locks of r.mut per client
  waiting,   \* threads waiting in r.mut.Lock()
  rcHolder,  \* client that holds r.rcmut across steps, or None
  finisher,  \* finisher[o]: the goroutine that AddIndex starts
  deleter,   \* deleter[p]: the goroutine that a queued DeleteIndex starts
  th,        \* th[p]: what client p is doing
  ops,       \* statements that p has begun, MaxOps + 1 if p takes no part
  onDisk,    \* objects whose files the driver has not deleted
  loaders    \* r.indexLoaders: databases whose indexes are still to be loaded

vars == <<objs, saved, indexes, order, status, refCounts, queue, readers, waiting,
          rcHolder, finisher, deleter, th, ops, onDisk, loaders>>

registryVars == <<indexes, order, status, loaders>>
countVars    == <<refCounts, queue>>
lockVars     == <<readers, waiting, rcHolder>>
objectVars   == <<objs, saved, onDisk>>

Idle == [pc |-> "idle", key |-> None, obj |-> None, cont |-> "", used |-> <<>>, pos |-> 0,
         want |-> {}]

Registered == {k \in Keys : indexes[k] # None}
KeyOf(o) == objs[o].key
ReadyT(o) == <<"ready", o>>
DelT(p) == <<"del", p>>

(***************************************************************************)
(* r.mut and r.rcmut                                                       *)
(***************************************************************************)
CanRLock == waiting = {}
CanLock == \A p \in Clients : readers[p] = 0
RcFree == rcHolder = None

RLock(p)   == CanRLock /\ readers' = [readers EXCEPT ![p] = @ + 1]
RUnlock(p) == readers' = [readers EXCEPT ![p] = @ - 1]
RequestLock(t) == waiting' = waiting \cup {t} /\ UNCHANGED <<readers, rcHolder>>
LockedStep(t) == t \in waiting /\ CanLock /\ waiting' = waiting \ {t}

At(p, l) == th[p].pc = l
Goto(p, l) == th' = [th EXCEPT ![p].pc = l]
Return(p) == th' = [th EXCEPT ![p] = Idle]
Begin(p) ==
  /\ At(p, "idle") /\ ops[p] < MaxOps
  /\ ops' = [ops EXCEPT ![p] = @ + 1]

(***************************************************************************)
(* NewIndexRegistry and LoadIndexes, which makes one loader per table; the *)
(* loaders of the databases outside Lazy, at least, have run               *)
(***************************************************************************)
Init ==
  /\ loaders \in SUBSET Lazy
  /\ objs = Stored
  /\ saved = [o \in 1..Len(Stored) |-> "ok"]
  /\ indexes = [k \in Keys |->
       IF Db(k) \notin loaders /\ \E o \in 1..Len(Stored) : Stored[o].key = k
       THEN CHOOSE o \in 1..Len(Stored) : Stored[o].key = k ELSE None]
  /\ order = SetToSeq({k \in Keys : indexes[k] # None})
  /\ status = [k \in Keys |-> IF indexes[k] # None THEN "ready" ELSE "notReady"]
  /\ refCounts = [k \in Keys |-> 0]
  /\ queue = [k \in Keys |-> None]
  /\ readers = [p \in Clients |-> 0] /\ waiting = {} /\ rcHolder = None
  /\ finisher = [o \in 1..Len(Stored) |-> "done"]
  /\ deleter = [p \in Clients |-> "none"]
  /\ th = [p \in Clients |-> Idle]
  /\ \E cast \in Casts : ops = [p \in Clients |-> IF p \in cast THEN 0 ELSE MaxOps + 1]
  /\ onDisk = 1..Len(Stored)

-----------------------------------------------------------------------------
(***************************************************************************)
(* CREATE INDEX: driver.Create, AddIndex, driver.Save                      *)
(***************************************************************************)
CreateIndex(p) ==
  /\ Begin(p)
  /\ \E k \in Keys, e \in Exprs :
       /\ objs' = Append(objs, [key |-> k, expr |-> e])
       /\ saved' = Append(saved, "no")
       /\ finisher' = Append(finisher, "none")
       /\ onDisk' = {o \in onDisk : KeyOf(o) # k} \cup {Len(objs) + 1}
       /\ th' = [th EXCEPT ![p] = [Idle EXCEPT !.pc = "validate", !.key = k,
                                               !.obj = Len(objs) + 1]]
  /\ UNCHANGED <<registryVars, countVars, lockVars, deleter>>

\* exprListsMatch and exprListsEqual
ExprListsMatch(a, b) == a \subseteq b
ExprListsEqual(a, b) == Cardinality(a) = Cardinality(b) /\ ExprListsMatch(a, b)

\* validateIndexToAdd: same id, or same expressions, in the same database
Clashes(o) ==
  \E k \in Registered :
    /\ Db(k) = Db(KeyOf(o))
    /\ Id(k) = Id(KeyOf(o)) \/ ExprListsEqual(objs[indexes[k]].expr, objs[o].expr)

ValidateIndexToAdd(p) ==
  /\ At(p, "validate") /\ CanRLock
  /\ IF Clashes(th[p].obj) THEN Return(p) ELSE Goto(p, "addLock")
  /\ UNCHANGED <<objectVars, registryVars, countVars, lockVars, finisher, deleter, ops>>

AddLock(p) ==
  /\ At(p, "addLock")
  /\ RequestLock(p)
  /\ Goto(p, "addIndex")
  /\ UNCHANGED <<objectVars, registryVars, countVars, finisher, deleter, ops>>

AddIndex(p) ==
  /\ At(p, "addIndex") /\ LockedStep(p)
  /\ LET o == th[p].obj
         k == th[p].key
     IN /\ status' = [status EXCEPT ![k] = "notReady"]
        /\ indexes' = [indexes EXCEPT ![k] = o]
        /\ order' = Append(order, k)
        /\ finisher' = [finisher EXCEPT ![o] = "wait"]
  /\ Goto(p, "save")
  /\ UNCHANGED <<objectVars, loaders, countVars, readers, rcHolder, deleter, ops>>

\* driver.Save and close(done), which comes before the error is looked at;
\* a failure goes on to DeleteIndex(db, id, true)
Save(p) ==
  /\ At(p, "save")
  /\ LET o == th[p].obj
     IN /\ finisher' = [finisher EXCEPT ![o] = "created"]
        /\ \/ saved' = [saved EXCEPT ![o] = "ok"] /\ Goto(p, "awaitReady")
           \/ /\ SaveMayFail
              /\ saved' = [saved EXCEPT ![o] = "failed"]
              /\ th' = [th EXCEPT ![p].pc = "delScan", ![p].cont = "abort"]
  /\ UNCHANGED <<objs, onDisk, registryVars, countVars, lockVars, deleter, ops>>

\* <-ready
CreateReturns(p) ==
  /\ At(p, "awaitReady") /\ finisher[th[p].obj] = "done"
  /\ Return(p)
  /\ UNCHANGED <<objectVars, registryVars, countVars, lockVars, finisher, deleter, ops>>

\* the goroutine that AddIndex starts for object o
ReadyLock(o) ==
  /\ finisher[o] = "created"
  /\ RequestLock(ReadyT(o))
  /\ finisher' = [finisher EXCEPT ![o] = "locking"]
  /\ UNCHANGED <<objectVars, registryVars, countVars, deleter, th, ops>>

SetReady(o) ==
  /\ finisher[o] = "locking" /\ LockedStep(ReadyT(o))
  /\ status' = [status EXCEPT ![KeyOf(o)] = "ready"]
  /\ finisher' = [finisher EXCEPT ![o] = "done"]
  /\ UNCHANGED <<objectVars, indexes, order, loaders, countVars, readers, rcHolder,
        deleter, th,
                 ops>>

-----------------------------------------------------------------------------
(***************************************************************************)
(* retainIndex, ReleaseIndex and the lookups                               *)
(***************************************************************************)
\* mutant: the count is kept in a boolean
RetainOnce(k) == RcFree /\ refCounts' = [refCounts EXCEPT ![k] = 1]

RetainIndex(k) == RcFree /\ refCounts' = [refCounts EXCEPT ![k] = @ + 1]

\* mutant: the queue is not looked at
ReleaseIndexOnly(o) ==
  /\ RcFree
  /\ refCounts' = [refCounts EXCEPT ![KeyOf(o)] = @ - 1]
  /\ UNCHANGED <<queue, deleter>>

\* closes the channel of a queued deletion when the last user is gone
ReleaseIndex(o) ==
  LET k == KeyOf(o) IN
  /\ RcFree
  /\ refCounts' = [refCounts EXCEPT ![k] = @ - 1]
  /\ IF refCounts[k] - 1 <= 0 /\ queue[k] # None
     THEN /\ queue' = [queue EXCEPT ![k] = None]
          /\ deleter' = [deleter EXCEPT ![queue[k]] = "closed"]
     ELSE UNCHANGED <<queue, deleter>>

\* IndexByExpression reads r.indexLoaders with r.mut locked for reading only
IndexByExpression(p) ==
  /\ Begin(p)
  /\ RLock(p)
  /\ \E k \in Keys, e \in Exprs :
       th' = [th EXCEPT ![p] = [Idle EXCEPT !.key = k, !.want = e,
                                  !.pc = IF Db(k) \in loaders THEN "load" ELSE "lookup"]]
  /\ UNCHANGED <<objectVars, registryVars, countVars, waiting, rcHolder, finisher,
        deleter>>

\* registerIndexesForTable: the loader of the table registers what LoadAll found
LoadedOf(db) ==
  SetToSeq({o \in onDisk : saved[o] = "ok" /\ Db(KeyOf(o)) = db})

RegisterIndexesForTable(p) ==
  /\ At(p, "load")
  /\ LET db == Db(th[p].key)
         os == LoadedOf(db)
         ks == {KeyOf(os[i]) : i \in DOMAIN os}
     IN /\ indexes' = [k \in Keys |-> IF k \in ks THEN CHOOSE o \in ToSet(os) : KeyOf(o) = k
                                     ELSE indexes[k]]
        /\ status' = [k \in Keys |-> IF k \in ks THEN "ready" ELSE status[k]]
        /\ order' = order \o [i \in DOMAIN os |-> KeyOf(os[i])]
        /\ loaders' = loaders \ {db}
  /\ Goto(p, "lookup")
  /\ UNCHANGED <<objectVars, countVars, lockVars, finisher, deleter, ops>>

\* the usable indexes of the database that match, by their places in indexOrder
Matches(db, e) ==
  {i \in DOMAIN order : /\ indexes[order[i]] # None
                        /\ status[order[i]] = "ready"
                        /\ Db(order[i]) = db
                        /\ ExprListsMatch(objs[indexes[order[i]]].expr, e)}

\* the first one is taken
Lookup(p) ==
  /\ At(p, "lookup")
  /\ LET found == Matches(Db(th[p].key), th[p].want) IN
     \/ found = {} /\ RUnlock(p) /\ Return(p)
     \/ \E i \in found :
          /\ \A j \in found : i <= j
          /\ th' = [th EXCEPT ![p] = [@ EXCEPT !.pc = "retain", !.cont = "query",
                                              !.key = order[i], !.obj = indexes[order[i]]]]
          /\ UNCHANGED readers
  /\ UNCHANGED <<objectVars, registryVars, countVars, waiting, rcHolder, finisher, deleter, ops>>

\* DROP INDEX begins with Index(db, id)
DropIndex(p) ==
  /\ Begin(p)
  /\ RLock(p)
  /\ \E k \in Keys :
       th' = [th EXCEPT ![p] = [Idle EXCEPT !.pc = "retain", !.cont = "drop",
             !.key = k]]
  /\ UNCHANGED <<objectVars, registryVars, countVars, waiting, rcHolder, finisher,
        deleter>>

\* r.retainIndex and RUnlock; Index retains before it looks, so a missing
\* index is counted too
Retain(p) ==
  /\ At(p, "retain")
  /\ RetainIndex(th[p].key)
  /\ RUnlock(p)
  /\ \/ /\ th[p].cont = "query"
        /\ th' = [th EXCEPT ![p].pc = "using", ![p].used = <<th[p].obj>>, ![p].pos = 1]
     \/ /\ th[p].cont = "drop"
        /\ IF indexes[th[p].key] = None THEN Return(p)
           ELSE th' = [th EXCEPT ![p].pc = "dropRelease",
                                 ![p].obj = indexes[th[p].key]]
  /\ UNCHANGED <<objectVars, registryVars, queue, waiting, rcHolder, finisher,
        deleter, ops>>

\* IndexesByTable retains one index after the other under the read lock
IndexesByTable(p) ==
  /\ Begin(p)
  /\ RLock(p)
  /\ \E k \in Keys :
       th' = [th EXCEPT ![p] = [Idle EXCEPT !.pc = "show", !.key = k, !.pos = 1]]
  /\ UNCHANGED <<objectVars, registryVars, countVars, waiting, rcHolder, finisher,
        deleter>>

IndexesByTableStep(p) ==
  /\ At(p, "show")
  /\ \/ /\ th[p].pos > Len(order)
        /\ RUnlock(p)
        /\ Goto(p, "visible")
        /\ UNCHANGED refCounts
     \/ /\ th[p].pos <= Len(order)
        /\ LET k == order[th[p].pos] IN
           \/ /\ indexes[k] = None                  \* idx.Database() on nil
              /\ Goto(p, "panic")
              /\ UNCHANGED <<refCounts, readers>>
           \/ /\ indexes[k] # None /\ Db(k) # Db(th[p].key)
              /\ th' = [th EXCEPT ![p].pos = @ + 1]
              /\ UNCHANGED <<refCounts, readers>>
           \/ /\ indexes[k] # None /\ Db(k) = Db(th[p].key)
              /\ RetainIndex(k)
              /\ th' = [th EXCEPT ![p].pos = @ + 1,
                                  ![p].used = Append(@, indexes[k])]
              /\ UNCHANGED readers
  /\ UNCHANGED <<objectVars, registryVars, queue, waiting, rcHolder, finisher,
        deleter, ops>>

\* CanUseIndex, for the column Visible
ShowVisible(p) ==
  /\ At(p, "visible") /\ CanRLock
  /\ th' = [th EXCEPT ![p].pc = "using", ![p].pos = 1]
  /\ UNCHANGED <<objectVars, registryVars, countVars, lockVars, finisher, deleter, ops>>

\* the end of the query, or of SHOW INDEXES, releases what it retained, one by one
Release(p) ==
  /\ At(p, "using")
  /\ IF th[p].pos > Len(th[p].used)
     THEN Return(p) /\ UNCHANGED <<countVars, deleter>>
     ELSE /\ ReleaseIndex(th[p].used[th[p].pos])
          /\ th' = [th EXCEPT ![p].pos = @ + 1]
  /\ UNCHANGED <<objectVars, registryVars, lockVars, finisher, ops>>

DropRelease(p) ==
  /\ At(p, "dropRelease")
  /\ ReleaseIndex(th[p].obj)
  /\ Goto(p, "dropCheck")
  /\ UNCHANGED <<objectVars, registryVars, lockVars, finisher, ops>>

\* mutant: the files are deleted before the index is unregistered
DropCheckDeletesFirst(p) ==
  /\ At(p, "dropCheck") /\ CanRLock
  /\ IF status[KeyOf(th[p].obj)] = "ready"
     THEN /\ th' = [th EXCEPT ![p].pc = "delScan", ![p].cont = "drop"]
          /\ onDisk' = {o \in onDisk : KeyOf(o) # KeyOf(th[p].obj)}
     ELSE Return(p) /\ UNCHANGED onDisk
  /\ UNCHANGED <<objs, saved, registryVars, countVars, lockVars, finisher, deleter, ops>>

\* CanRemoveIndex
DropCheck(p) ==
  /\ At(p, "dropCheck") /\ CanRLock
  /\ IF status[KeyOf(th[p].obj)] = "ready"
     THEN th' = [th EXCEPT ![p].pc = "delScan", ![p].cont = "drop"]
     ELSE Return(p)
  /\ UNCHANGED <<objectVars, registryVars, countVars, lockVars, finisher, deleter, ops>>

-----------------------------------------------------------------------------
(***************************************************************************)
(* DeleteIndex.  cont tells who called: "drop" and "abort" with force,     *)
(* "api" without.                                                          *)
(***************************************************************************)
Forced(p) == th[p].cont \in {"drop", "abort"}

DeleteIndex(p) ==
  /\ Begin(p)
  /\ \E k \in Keys :
       th' = [th EXCEPT ![p] = [Idle EXCEPT !.pc = "delScan", !.cont = "api",
             !.key = k]]
  /\ UNCHANGED <<objectVars, registryVars, countVars, lockVars, finisher, deleter>>

\* The scan under RLock compares the id only, in the order of a Go map.  With
\* no index at all it returns without RUnlock.
SameId(k) == {j \in Registered : Id(j) = Id(k)}

DeleteScan(p) ==
  /\ At(p, "delScan") /\ CanRLock
  /\ \/ /\ Registered = {}
        /\ RLock(p) /\ Return(p)
        /\ UNCHANGED status
     \/ /\ Registered # {} /\ SameId(th[p].key) = {}
        /\ Return(p)
        /\ UNCHANGED <<status, readers>>
     \/ \E k \in SameId(th[p].key) :
          \/ /\ Forced(p)
             /\ status' = [status EXCEPT ![k] = "notReady"]
             /\ th' = [th EXCEPT ![p].pc = "delRc", ![p].key = k]
             /\ UNCHANGED readers
          \/ /\ ~Forced(p)
             /\ RLock(p)
             /\ th' = [th EXCEPT ![p].pc = "delCheck", ![p].key = k]
             /\ UNCHANGED status
  /\ UNCHANGED <<objectVars, indexes, order, loaders, countVars, waiting, rcHolder,
        finisher,
                 deleter, ops>>

\* CanRemoveIndex, a second RLock under the first one
DeleteCheck(p) ==
  /\ At(p, "delCheck") /\ CanRLock
  /\ \/ /\ status[th[p].key] = "ready"
        /\ Goto(p, "delStatus")
        /\ UNCHANGED readers
     \/ /\ status[th[p].key] # "ready"
        /\ RUnlock(p)
        /\ Return(p)
  /\ UNCHANGED <<objectVars, registryVars, countVars, waiting, rcHolder, finisher,
        deleter, ops>>

\* setStatus, with r.mut locked for reading only: another deletion may have found
\* the index ready as well
DeleteStatus(p) ==
  /\ At(p, "delStatus")
  /\ RUnlock(p)
  /\ status' = [status EXCEPT ![th[p].key] = "notReady"]
  /\ Goto(p, "delRc")
  /\ UNCHANGED <<objectVars, indexes, order, loaders, countVars, waiting, rcHolder,
        finisher, deleter, ops>>

\* r.rcmut.Lock(): go on to r.mut with it, or queue the deletion, in the place of one
\* that is there already
DeleteRc(p) ==
  /\ At(p, "delRc") /\ RcFree
  /\ LET k == th[p].key IN
     \/ /\ Forced(p) \/ refCounts[k] <= 0
        /\ rcHolder' = p
        /\ Goto(p, "delLock")
        /\ UNCHANGED <<queue, deleter>>
     \/ /\ ~Forced(p) /\ refCounts[k] > 0
        /\ queue' = [queue EXCEPT ![k] = p]
        /\ deleter' = [deleter EXCEPT ![p] = "wait"]
        /\ Goto(p, "delQueued")
        /\ UNCHANGED rcHolder
  /\ UNCHANGED <<objectVars, registryVars, refCounts, readers, waiting, finisher, ops>>

DeleteLock(p) ==
  /\ At(p, "delLock")
  /\ RequestLock(p)
  /\ Goto(p, "delRemove")
  /\ UNCHANGED <<objectVars, registryVars, countVars, finisher, deleter, ops>>

DropFirst(s, k) ==
  IF \E i \in DOMAIN s : s[i] = k
  THEN RemoveAt(s, CHOOSE i \in DOMAIN s : s[i] = k /\ \A j \in 1..(i - 1) : s[j] # k)
  ELSE s

\* mutant: the key stays in indexOrder
DeleteRemoveNotOrder(p) ==
  /\ At(p, "delRemove") /\ LockedStep(p)
  /\ indexes' = [indexes EXCEPT ![th[p].key] = None]
  /\ rcHolder' = None
  /\ Goto(p, "delDone")
  /\ UNCHANGED <<objectVars, order, status, loaders, countVars, readers, finisher, deleter,
                 ops>>

\* removed from the registry under both locks; the channel is closed
DeleteRemove(p) ==
  /\ At(p, "delRemove") /\ LockedStep(p)
  /\ indexes' = [indexes EXCEPT ![th[p].key] = None]
  /\ order' = DropFirst(order, th[p].key)
  /\ rcHolder' = None
  /\ Goto(p, "delDone")
  /\ UNCHANGED <<objectVars, status, loaders, countVars, readers, finisher, deleter,
        ops>>

\* the goroutine of a queued deletion
DeleterLock(p) ==
  /\ deleter[p] = "closed"
  /\ RequestLock(DelT(p))
  /\ deleter' = [deleter EXCEPT ![p] = "locking"]
  /\ UNCHANGED <<objectVars, registryVars, countVars, finisher, th, ops>>

DeleterRemove(p) ==
  /\ deleter[p] = "locking" /\ LockedStep(DelT(p))
  /\ indexes' = [indexes EXCEPT ![th[p].key] = None]
  /\ deleter' = [deleter EXCEPT ![p] = "none"]
  /\ Goto(p, "delDone")
  /\ UNCHANGED <<objectVars, order, status, loaders, countVars, readers, rcHolder,
        finisher, ops>>

\* <-done; DROP INDEX then has the driver delete the files, which it finds by key
DeleteDone(p) ==
  /\ At(p, "delDone")
  /\ onDisk' = IF th[p].cont = "drop"
               THEN {o \in onDisk : KeyOf(o) # KeyOf(th[p].obj)} ELSE onDisk
  /\ Return(p)
  /\ UNCHANGED <<objs, saved, registryVars, countVars, lockVars, finisher, deleter,
        ops>>

-----------------------------------------------------------------------------
DeleteStep(p) ==
  \/ DeleteScan(p) \/ DeleteCheck(p) \/ DeleteStatus(p) \/ DeleteRc(p) \/ DeleteLock(p)
  \/ DeleteRemove(p) \/ DeleteDone(p) \/ DeleterLock(p) \/ DeleterRemove(p)

Continue(p) ==
  \/ ValidateIndexToAdd(p) \/ AddLock(p) \/ AddIndex(p) \/ Save(p) \/ CreateReturns(p)
  \/ RegisterIndexesForTable(p) \/ Lookup(p)
  \/ Retain(p) \/ IndexesByTableStep(p) \/ ShowVisible(p) \/ Release(p)
  \/ DropRelease(p) \/ DropCheck(p)
  \/ DeleteStep(p)

Finish(o) == ReadyLock(o) \/ SetReady(o)

Next ==
  \/ \E p \in Creators : CreateIndex(p)
  \/ \E p \in Droppers : DropIndex(p)
  \/ \E p \in Queriers : IndexByExpression(p)
  \/ \E p \in Showers : IndexesByTable(p)
  \/ \E p \in Deleters : DeleteIndex(p)
  \/ \E p \in Clients : Continue(p)
  \/ \E o \in DOMAIN objs : Finish(o)

Spec == Init /\ [][Next]_vars

\* as long as a goroutine can proceed, one of them does; queries end; nobody is
\* obliged to start
Fairness == WF_vars((\E p \in Clients : Continue(p)) \/ (\E o \in DOMAIN objs : Finish(o)))

FairSpec == Spec /\ Fairness
-----------------------------------------------------------------------------
ThreadStates ==
  {"idle", "validate", "addLock", "addIndex", "save", "awaitReady", "load", "lookup",
   "retain", "using", "show", "visible", "panic", "dropRelease", "dropCheck", "delScan",
   "delCheck", "delStatus", "delRc", "delLock", "delRemove", "delQueued", "delDone"}

Threads ==
  [pc : ThreadStates, key : Keys \cup {None}, obj : Nat \cup {None},
   cont : {"", "query", "drop", "abort", "api"}, used : Seq(Nat), pos : Nat,
   want : Exprs \cup {{}}]

\* The counts may be negative: a release whose retain was never made is legal Go.
TypeOK ==
  /\ objs \in Seq([key : Keys, expr : Exprs])
  /\ saved \in [DOMAIN objs -> {"no", "ok", "failed"}]
  /\ indexes \in [Keys -> DOMAIN objs \cup {None}]
  /\ order \in Seq(Keys)
  /\ status \in [Keys -> {"notReady", "ready"}]
  /\ refCounts \in [Keys -> Int]
  /\ queue \in [Keys -> Clients \cup {None}]
  /\ readers \in [Clients -> Nat]
  /\ waiting \subseteq Clients \cup {ReadyT(o) : o \in DOMAIN objs} \cup {DelT(p) : p \in Clients}
  /\ rcHolder \in Clients \cup {None}
  /\ finisher \in [DOMAIN objs -> {"none", "wait", "created", "locking", "done"}]
  /\ deleter \in [Clients -> {"none", "wait", "closed", "locking"}]
  /\ th \in [Clients -> Threads]
  /\ ops \in [Clients -> 0..(MaxOps + 1)]
  /\ onDisk \subseteq DOMAIN objs
  /\ loaders \subseteq Dbs

\* The objects that p has retained and not yet released: those of a query or of SHOW
\* INDEXES by their places, that of DROP INDEX at place 0
Outstanding(p, i) == IF i = 0 THEN At(p, "dropRelease") ELSE At(p, "using") => i >= th[p].pos
UsedAt(p, i) == IF i = 0 THEN th[p].obj ELSE th[p].used[i]
UsesBy(p, k) ==
  {p} \X {i \in 0..Len(th[p].used) : Outstanding(p, i) /\ KeyOf(UsedAt(p, i)) = k}
UsesOf(k) == UNION {UsesBy(p, k) : p \in Clients}
Uses(k) == Cardinality(UsesOf(k))

\* The reference count of an index is never below the number of uses that are
\* still to be released (retainIndex, ReleaseIndex), whatever lookups, drops and
\* SHOW INDEXES run at the same time: a queued deletion is not told too early.
RefCountCoversUse == \A k \in Keys : refCounts[k] >= Uses(k)

\* As long as there are statements on indexes only, indexOrder lists exactly the
\* registered indexes, so that IndexesByTable, which dereferences every entry, never
\* meets a missing index (SHOW INDEXES).  Queries that load the indexes of a table
\* at the same time enter them twice, and the goroutine of a queued DeleteIndex
\* leaves the entry behind.
NoDanglingOrder ==
  (\A p \in Queriers \cup Deleters : ops[p] > MaxOps) =>
    /\ ToSet(order) = Registered
    /\ \A p \in Clients : ~At(p, "panic")

\* No other index, in whichever database, was given the id of this one
OnlyOfItsId(o) == \A q \in DOMAIN objs : Id(KeyOf(q)) = Id(KeyOf(o)) => q = o

\* A registered index that is ready still has its files: DROP INDEX removes the
\* index from the registry before driver.Delete, and removes no other index.  An
\* index of the same id, in whichever database, puts it at risk: driver.Create
\* writes over files that are there, driver.Delete finds them by name, and
\* DeleteIndex takes the first index with the id.
ReadyHasFiles ==
  \A k \in Registered :
    status[k] = "ready" /\ OnlyOfItsId(indexes[k]) => indexes[k] \in onDisk

(***************************************************************************)
(* The states in which the registry hangs for good: DeleteIndex has rcmut  *)
(* and waits for mut, which a lookup has locked for reading while it waits *)
(* for rcmut; DeleteIndex locks mut for reading a second time behind a     *)
(* goroutine that waits to write; the read lock that DeleteIndex does not  *)
(* give back when the registry is empty; a queued deletion of an index     *)
(* that Index has counted while it was missing and nobody releases; and a  *)
(* queued deletion whose entry in deleteIndexQueue a second deletion of    *)
(* the same index has overwritten.                                         *)
(***************************************************************************)
LockInversion ==
  \E d, p \in Clients : d = rcHolder /\ p # d /\ readers[p] > 0 /\ th[p].pc \in {"retain", "show"}
NestedRLock == waiting # {} /\ \E p \in Clients : At(p, "delCheck")
LeftLocked ==
  \E p \in Clients \ (Queriers \cup Showers) : At(p, "idle") /\ readers[p] > 0
Overcounted == \E k \in Keys : queue[k] # None /\ refCounts[k] > Uses(k)
Overwritten == \E p \in Clients : deleter[p] = "wait" /\ queue[th[p].key] # p

Wedged == LockInversion \/ NestedRLock \/ LeftLocked \/ Overcounted \/ Overwritten

\* Every statement that has begun returns unless the registry ends up in one of
\* these states: no other lock, and no ready channel, is waited for for ever, and a
\* deletion that waits for the users of the index is told when they are gone
\* (ReleaseIndex closes the channel of deleteIndexQueue).
StatementsReturn ==
  \A p \in Clients : ~At(p, "idle") ~> At(p, "idle") \/ At(p, "panic") \/ Wedged
-----------------------------------------------------------------------------
(***************************************************************************)
(* What makes these inductive                                              *)
(***************************************************************************)
Creating == {"validate", "addLock", "addIndex"}
DropStates == {"dropRelease", "dropCheck", "delScan", "delRc", "delLock", "delRemove", "delDone"}
ReadLocked == {"load", "lookup", "retain", "show", "delCheck", "delStatus"}

\* DROP INDEX has found the index
Dropping(p) == th[p].cont = "drop" /\ ~At(p, "retain")

\* What a client at each place of its statement holds
Threaded(p) ==
  LET t == th[p] IN
  /\ t.pc # "idle" => t.key \in Keys
  /\ t.obj # None => t.obj \in DOMAIN objs
  /\ \A i \in DOMAIN t.used : t.used[i] \in DOMAIN objs
  /\ t.pc \notin {"show", "panic", "visible", "using"} => t.used = <<>>
  /\ t.pc \in {"show", "using"} => t.pos > 0
  /\ t.pc \in Creating \cup {"save", "awaitReady"} => t.obj # None /\ KeyOf(t.obj) = t.key
  /\ t.pc = "retain" => t.cont \in {"query", "drop"}
  /\ t.pc = "retain" /\ t.cont = "query" => t.obj # None /\ KeyOf(t.obj) = t.key
  /\ t.pc \in {"dropRelease", "dropCheck"} => t.cont = "drop"
  /\ t.pc \in {"delScan", "delRc"} => t.cont \in {"drop", "abort", "api"}
  /\ t.pc \in {"delCheck", "delStatus", "delQueued"} => t.cont = "api"
  /\ t.pc \in ReadLocked => readers[p] > 0
  /\ Dropping(p) => t.obj # None /\ t.pc \in DropStates
  /\ Dropping(p) /\ t.pc \in {"dropRelease", "dropCheck", "delScan"} => KeyOf(t.obj) = t.key

Threading == \A p \in Clients : Threaded(p)

\* A client is in a statement that its kind of client runs
Role(p) ==
  /\ th[p].pc \in Creating => p \in Creators /\ ops[p] <= MaxOps
  /\ At(p, "load") => p \in Queriers /\ ops[p] <= MaxOps
  /\ th[p].cont = "api" => p \in Deleters /\ ops[p] <= MaxOps

Roles == \A p \in Clients : Role(p)

\* r.indexes holds every index under its own key
Keyed == \A k \in Registered : KeyOf(indexes[k]) = k

\* Who is in deleteIndexQueue waits for that index, and its goroutine has not been told
Queued ==
  /\ \A k \in Keys : queue[k] # None => deleter[queue[k]] = "wait" /\ th[queue[k]].key = k
  /\ \A p \in Clients : deleter[p] # "none" => At(p, "delQueued")

Counted == \A k \in Keys : IsFiniteSet(UsesOf(k)) /\ refCounts[k] >= Uses(k)

RegistryInv == Threading /\ Roles /\ Keyed /\ Queued /\ Counted

\* Every index object is added once, by the client that made it
AddedOnce ==
  /\ \A p \in Clients :
       /\ th[p].pc \in Creating => finisher[th[p].obj] = "none"
       /\ th[p].pc \in {"save", "awaitReady"} \/ Dropping(p) => finisher[th[p].obj] # "none"
  /\ \A p, q \in Clients :
       th[p].pc \in Creating /\ th[q].pc \in Creating /\ th[p].obj = th[q].obj => p = q
  /\ \A k \in Registered : finisher[indexes[k]] # "none"
  /\ \A o \in DOMAIN objs : finisher[o] = "none" => saved[o] = "no"

\* Indexes are loaded lazily, or created, but not both
NoLazyCreation ==
  (loaders = {} /\ \A p \in Clients : ~At(p, "load")) \/ \A p \in Creators : ops[p] > MaxOps

\* A database that has a registered index has been loaded, and is not loaded again once
\* that index is unregistered
LoadedOnce ==
  /\ \A k \in Registered : Db(k) \notin loaders
  /\ \A p \in Clients : Dropping(p) => Db(KeyOf(th[p].obj)) \notin loaders
  /\ \A p, q \in Clients :
       Dropping(p) /\ At(p, "delDone") /\ At(q, "load") => Db(th[q].key) # Db(KeyOf(th[p].obj))

\* DROP INDEX unregisters the index that it has found, unless another has its id
UnregisteredFirst ==
  \A p \in Clients :
    Dropping(p) /\ th[p].pc \in {"delRc", "delLock", "delRemove", "delDone"}
    /\ OnlyOfItsId(th[p].obj) =>
      /\ th[p].key = KeyOf(th[p].obj)
      /\ At(p, "delDone") => indexes[KeyOf(th[p].obj)] = None

\* The files are there from driver.Create to the end of the registration
HasFiles ==
  /\ \A o \in DOMAIN objs : finisher[o] = "none" /\ OnlyOfItsId(o) => o \in onDisk
  /\ \A k \in Registered : OnlyOfItsId(indexes[k]) => indexes[k] \in onDisk

FilesInv == AddedOnce /\ NoLazyCreation /\ LoadedOnce /\ UnregisteredFirst /\ HasFiles

OneCreator == \A p, q \in Creators : ops[p] <= MaxOps /\ ops[q] <= MaxOps => p = q

\* An index that has passed validateIndexToAdd is not registered by anybody else
Ordered ==
  (\A p \in Queriers \cup Deleters : ops[p] > MaxOps) =>
    /\ \A i, j \in DOMAIN order : order[i] = order[j] => i = j
    /\ ToSet(order) = Registered
    /\ \A p \in Clients : ~At(p, "panic")
    /\ \A p \in Clients : th[p].pc \in {"addLock", "addIndex"} => th[p].key \notin Registered
=============================================================================
