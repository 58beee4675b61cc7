--------------------------- MODULE MemoryManager ---------------------------
(***************************************************************************)
(* The memory manager (sql/memory.go), the caches it hands out             *)
(* (sql/cache.go) and the row iterators that keep their rows in them:      *)
(* DISTINCT, ORDER BY, GROUP BY and joins (sql/plan), and an LRU cache of  *)
(* an embedding program.  Iterators of several queries share one manager.  *)
(*                                                                         *)
(* An iterator is opened, stores entries, comes to its end (or fails for   *)
(* want of memory) and is closed.  Memory is the number of entries that    *)
(* can be reached; runtime.GC returns all others at once.                  *)
(***************************************************************************)
EXTENDS Integers, FiniteSets

CONSTANTS
  Iters,      \* iterators
  Kind,       \* Kind[i] \in {"distinct", "sort", "groupBy", "join", "lru"}
  MaxMemory,  \* Reporter.MaxMemory; 0 is no limit
  MaxEntries  \* entries that an iterator may store

Kinds == {"distinct", "sort", "groupBy", "join", "lru"}

ASSUME KindAssumption == Kind \in [Iters -> Kinds]
ASSUME LimitsAssumption == MaxMemory \in Nat /\ MaxEntries \in Nat
ASSUME ItersAssumption == IsFiniteSet(Iters)

VARIABLES
  token,    \* MemoryManager.token
  caches,   \* MemoryManager.caches: which iterator's cache is at which position
  pc,       \* where the iterator is
  pos,      \* the position its DisposeFunc was given
  size,     \* entries of its cache
  held,     \* rows that it keeps after its cache was disposed of
  stored,   \* entries it has stored so far
  inMemory  \* the joins in memoryMode

vars == <<token, caches, pc, pos, size, held, stored, inMemory>>

\* joinRowIter starts in memoryMode when the server or the session asks for it
Init ==
  /\ token = 0 /\ caches = {}
  /\ pc = [i \in Iters |-> "new"]
  /\ pos = [i \in Iters |-> 0]
  /\ size = [i \in Iters |-> 0]
  /\ held = [i \in Iters |-> 0]
  /\ stored = [i \in Iters |-> 0]
  /\ inMemory \in SUBSET {i \in Iters : Kind[i] = "join"}

\* the entries that can be reached: those in the caches and those still held
Reachable == UNION {{i} \X (1..(size[i] + held[i])) : i \in Iters}
UsedMemory == Cardinality(Reachable)

HasAvailable == MaxMemory = 0 \/ UsedMemory < MaxMemory

\* a join that does not know yet whether its secondary side fits in memory
UnknownMode(i) == Kind[i] = "join" /\ i \notin inMemory

Entry(p, i) == [pos |-> p, iter |-> i]
Tracked(i) == \E e \in caches : e.iter = i

-----------------------------------------------------------------------------
(***************************************************************************)
(* addCache and removeCache, each under the manager's lock                 *)
(***************************************************************************)
\* mutant: the position is not counted up when other caches are there
AddCacheHere(i) ==
  LET p == IF caches = {} THEN token + 1 ELSE token
  IN /\ token' = p
     /\ caches' = {e \in caches : e.pos # p} \cup {Entry(p, i)}
     /\ pos' = [pos EXCEPT ![i] = p]

AddCache(i) ==
  /\ token' = token + 1
  /\ caches' = {e \in caches : e.pos # token + 1} \cup {Entry(token + 1, i)}
  /\ pos' = [pos EXCEPT ![i] = token + 1]

\* The entries of a cache that only the manager still knew are collected.
RemoveCache(p) ==
  /\ caches' = {e \in caches : e.pos # p}
  /\ token' = IF caches' = {} THEN 0 ELSE token
  /\ size' = [j \in Iters |-> IF pc[j] = "closed" /\ Entry(p, j) \in caches THEN 0 ELSE size[j]]

-----------------------------------------------------------------------------
(***************************************************************************)
(* The iterators                                                           *)
(***************************************************************************)
Goto(i, l) == pc' = [pc EXCEPT ![i] = l]

\* NewHistoryCache, NewRowsCache or NewLRUCache: joinRowIter makes its cache before
\* it opens the primary side, the others when they have their child's iterator
Open(i) ==
  /\ pc[i] = "new"
  /\ AddCache(i)
  /\ Goto(i, IF Kind[i] = "join" THEN "opening" ELSE "idle")
  /\ UNCHANGED <<size, held, stored, inMemory>>

\* The primary side of a join opens, or joinRowIter returns its error: the cache is
\* in the manager, and nobody has its DisposeFunc.
OpenPrimary(i) ==
  /\ pc[i] = "opening"
  /\ \E l \in {"idle", "abandoned"} : Goto(i, l)
  /\ UNCHANGED <<token, caches, pos, size, held, stored, inMemory>>

\* loadSecondary in unknownMode looks before it adds the row, and changes to
\* multipassMode without the cache when there is no memory
Look(i) ==
  /\ pc[i] = "idle" /\ UnknownMode(i) /\ stored[i] < MaxEntries
  /\ IF HasAvailable
     THEN Goto(i, "add") /\ UNCHANGED size
     ELSE Goto(i, "remove") /\ size' = [size EXCEPT ![i] = 0]
  /\ UNCHANGED <<token, caches, pos, held, stored, inMemory>>

\* Put or Add: releaseMemoryIfNeeded looks whether there is memory
Put(i) ==
  /\ pc[i] = (IF UnknownMode(i) THEN "add" ELSE "idle") /\ stored[i] < MaxEntries
  /\ Goto(i, IF HasAvailable THEN "store" ELSE IF Kind[i] = "lru" THEN "freeOwn" ELSE "free")
  /\ UNCHANGED <<token, caches, pos, size, held, stored, inMemory>>

\* lruCache.Free, and another look
FreeOwn(i) ==
  /\ pc[i] = "freeOwn"
  /\ size' = [size EXCEPT ![i] = 0]
  /\ UNCHANGED <<token, caches, pos, held, stored, inMemory>>
  /\ Goto(i, IF HasAvailable' THEN "store" ELSE "free")

\* MemoryManager.Free: of the caches only lruCache is Freeable
Free(i) ==
  /\ pc[i] = "free"
  /\ size' = [j \in Iters |-> IF Kind[j] = "lru" /\ Tracked(j) THEN 0 ELSE size[j]]
  /\ Goto(i, "recheck")
  /\ UNCHANGED <<token, caches, pos, held, stored, inMemory>>

\* mutant: memory is not looked at again
RecheckStores(i) ==
  /\ pc[i] = "recheck"
  /\ Goto(i, "store")
  /\ UNCHANGED <<token, caches, pos, size, held, stored, inMemory>>

\* The others return ErrNoMemoryAvailable, but lruCache.Put leaves the entry out, and
\* loadSecondary in unknownMode pays no heed to the error.
Recheck(i) ==
  /\ pc[i] = "recheck"
  /\ Goto(i, CASE HasAvailable                      -> "store"
               [] Kind[i] = "lru" \/ UnknownMode(i) -> "idle"
               [] OTHER                             -> "failed")
  /\ UNCHANGED <<token, caches, pos, size, held, stored, inMemory>>

Store(i) ==
  /\ pc[i] = "store"
  /\ size' = [size EXCEPT ![i] = @ + 1]
  /\ stored' = [stored EXCEPT ![i] = @ + 1]
  /\ Goto(i, "idle")
  /\ UNCHANGED <<token, caches, pos, held, inMemory>>

\* The secondary side of a join has been read: it is in memoryMode from now on, and
\* reads its cache, or the secondary side again if there is nothing in the cache.
SecondaryEnds(i) ==
  /\ pc[i] = "idle" /\ Kind[i] = "join"
  /\ inMemory' = inMemory \cup {i}
  /\ Goto(i, IF size[i] = 0 THEN "idle" ELSE "read")
  /\ UNCHANGED <<token, caches, pos, size, held, stored>>

\* The end of the rows: joinIter, distinctIter and sortIter dispose of the cache,
\* sortIter keeps its rows; groupByGroupingIter goes on reading it.
Eof(i) ==
  /\ \/ pc[i] = "idle" /\ Kind[i] # "lru" /\ (Kind[i] = "join" => size[i] = 0)
     \/ pc[i] = "read" /\ Kind[i] = "join"
  /\ IF Kind[i] = "groupBy"
     THEN Goto(i, "read") /\ UNCHANGED <<size, held>>
     ELSE /\ Goto(i, "remove")
          /\ size' = [size EXCEPT ![i] = 0]
          /\ held' = IF Kind[i] = "sort" THEN [held EXCEPT ![i] = size[i]] ELSE held
  /\ UNCHANGED <<token, caches, pos, stored, inMemory>>

\* the child, or a side of the join, returns an error
ChildFails(i) ==
  /\ pc[i] = "idle" /\ Kind[i] # "lru"
  /\ Goto(i, "failed")
  /\ UNCHANGED <<token, caches, pos, size, held, stored, inMemory>>

\* sortIter's deferred dispose runs when Add or the child fails as well
SortFails(i) ==
  /\ pc[i] = "failed" /\ Kind[i] = "sort"
  /\ size' = [size EXCEPT ![i] = 0]
  /\ Goto(i, "remove")
  /\ UNCHANGED <<token, caches, pos, held, stored, inMemory>>

\* the second half of the DisposeFunc
Remove(i) ==
  /\ pc[i] = "remove"
  /\ RemoveCache(pos[i])
  /\ Goto(i, "ended")
  /\ UNCHANGED <<pos, held, stored, inMemory>>

\* Not in the middle of a call of Next: sortIter and groupByGroupingIter fill their
\* caches, and a join in memoryMode its own, in one call.
BetweenCalls(i) ==
  \/ pc[i] \in {"read", "ended"}
  \/ pc[i] = "failed" /\ Kind[i] # "sort"
  \/ /\ pc[i] = "idle" /\ Kind[i] \notin {"sort", "groupBy"}
     /\ i \in inMemory => size[i] = 0

\* Close, at any time between two calls of Next: the cache is disposed of if that
\* has not happened, by distinctIter in any case and by groupByGroupingIter never
Close(i) ==
  /\ BetweenCalls(i)
  /\ held' = [held EXCEPT ![i] = 0]
  /\ IF Kind[i] = "groupBy" \/ (pc[i] = "ended" /\ Kind[i] # "distinct")
     THEN Goto(i, "closed") /\ UNCHANGED size
     ELSE /\ Goto(i, IF pc[i] = "ended" THEN "removeAgain" ELSE "removeLast")
          /\ size' = [size EXCEPT ![i] = 0]
  /\ UNCHANGED <<token, caches, pos, stored, inMemory>>

\* mutant: DisposeFunc does not take the cache out of the manager
RemoveLastForgets(i) ==
  /\ pc[i] = "removeLast"
  /\ Goto(i, "closed")
  /\ UNCHANGED <<token, caches, pos, size, held, stored, inMemory>>

RemoveLast(i) ==
  /\ pc[i] = "removeLast"
  /\ RemoveCache(pos[i])
  /\ Goto(i, "closed")
  /\ UNCHANGED <<pos, held, stored, inMemory>>

\* distinctIter.Close after the end of the rows: the DisposeFunc is called again
RemoveAgain(i) ==
  /\ pc[i] = "removeAgain"
  /\ RemoveCache(pos[i])
  /\ Goto(i, "closedAgain")
  /\ UNCHANGED <<pos, held, stored, inMemory>>

Next ==
  \E i \in Iters :
    \/ Open(i) \/ OpenPrimary(i) \/ Look(i) \/ Put(i) \/ FreeOwn(i) \/ Free(i) \/ Recheck(i)
    \/ Store(i) \/ SecondaryEnds(i) \/ Eof(i) \/ ChildFails(i) \/ SortFails(i) \/ Remove(i)
    \/ Close(i) \/ RemoveLast(i) \/ RemoveAgain(i)

Spec == Init /\ [][Next]_vars

-----------------------------------------------------------------------------
(***************************************************************************)
(* Properties                                                              *)
(***************************************************************************)
Labels == {"new", "opening", "abandoned", "idle", "add", "store", "freeOwn", "free", "recheck",
           "read", "failed", "remove", "ended", "removeLast", "removeAgain", "closed",
           "closedAgain"}

\* Every variable has its type.
TypeOK ==
  /\ token \in Nat
  /\ caches \subseteq [pos : Nat, iter : Iters]
  /\ pc \in [Iters -> Labels]
  /\ pos \in [Iters -> Nat]
  /\ size \in [Iters -> Nat] /\ held \in [Iters -> Nat] /\ stored \in [Iters -> Nat]
  /\ inMemory \subseteq Iters

\* the cache has been handed out and its DisposeFunc has not been called
InUse(i) ==
  pc[i] \in {"opening", "idle", "add", "store", "freeOwn", "free", "recheck", "read", "failed"}

\* The iterator is gone, and its DisposeFunc was never called: joinRowIter returned
\* an error, or it was a GROUP BY.
NeverDisposed(i) == pc[i] = "abandoned" \/ (pc[i] = "closed" /\ Kind[i] = "groupBy")

\* A DISTINCT that had the position of i has been read to its end and closed: it has
\* removed twice what was at the position.
Struck(i) == \E d \in Iters : pc[d] = "closedAgain" /\ pos[d] = pos[i]

\* The manager keeps track of every cache that is in use, so that Free reaches it
\* (addCache, removeCache).  It loses one only by the second dispose of a DISTINCT,
\* and then only one that was given the position of the DISTINCT anew.
TrackedUntilDisposed ==
  \A i \in Iters : InUse(i) => Entry(pos[i], i) \in caches \/ Struck(i)

\* What iterators leave behind in the manager when they are gone: nothing, but for a
\* GROUP BY and for a join that could not open its primary side; the caches of those
\* stay for good, unless a DISTINCT strikes them.
LeftBehind ==
  \A i \in Iters :
    /\ pc[i] \in {"closed", "closedAgain"} /\ ~NeverDisposed(i) => ~Tracked(i)
    /\ NeverDisposed(i) => Entry(pos[i], i) \in caches \/ Struck(i)

\* When no cache is left the positions start again; until then they count the
\* caches that were added, so none is given out twice.
TokensStartAgain ==
  /\ caches = {} => token = 0
  /\ \A e \in caches : e.pos \in 1..token

(***************************************************************************)
(* Why the manager keeps track: an entry is at the position its iterator   *)
(* was given, positions are not shared, and an entry is there exactly      *)
(* until its iterator takes it out or a DISTINCT has struck its position.  *)
(* An iterator whose entry was struck strikes in its turn when it          *)
(* disposes, and always at the position of that DISTINCT.                  *)
(***************************************************************************)
EntriesMatch ==
  \A e \in caches : /\ e.pos = pos[e.iter]
                    /\ pc[e.iter] \notin {"new", "ended", "removeAgain", "closedAgain"}
                    /\ pc[e.iter] = "closed" => Kind[e.iter] = "groupBy"
PositionsUnique == \A e, f \in caches : e.pos = f.pos => e = f
EntriesStay ==
  \A i \in Iters :
    InUse(i) \/ NeverDisposed(i) \/ pc[i] \in {"remove", "removeLast"} =>
      Entry(pos[i], i) \in caches \/ Struck(i)
GroupByNeverDisposes ==
  \A i \in Iters : Kind[i] = "groupBy" =>
    pc[i] \notin {"remove", "ended", "removeLast", "removeAgain", "closedAgain"}

\* The inductive invariant of the manager.
ManagerInv ==
  TokensStartAgain /\ EntriesMatch /\ PositionsUnique /\ EntriesStay /\ GroupByNeverDisposes

\* Why the limit is kept: an iterator that has looked and found memory may store
\* one entry without looking again.
Storing == {i \in Iters : pc[i] = "store"}
MemoryInv ==
  MaxMemory # 0 => UsedMemory + Cardinality(Storing) <= MaxMemory + Cardinality(Iters) - 1

\* Each iterator looks at the memory before it stores an entry: the limit is
\* exceeded by no more than one entry for every other iterator that has looked
\* and not stored yet.
MemoryBound ==
  MaxMemory # 0 => UsedMemory <= MaxMemory + Cardinality(Iters) - 1
=============================================================================
