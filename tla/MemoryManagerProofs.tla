------------------------ MODULE MemoryManagerProofs ------------------------
(***************************************************************************)
(* Proofs about the memory manager, for any number of iterators of any     *)
(* kinds, any limit of memory and any number of entries; and about the     *)
(* nested loop join, for which the memory that the manager finds available *)
(* decides how it runs, for two sides of any size.                         *)
(***************************************************************************)
EXTENDS MemoryManager, JoinIter, FiniteSetTheorems, TLAPS

\* Every step keeps the types of the manager and of the iterators.
LEMMA TypeStep == TypeOK /\ [Next]_vars => TypeOK'
<1> SUFFICES ASSUME TypeOK, [Next]_vars PROVE TypeOK'
  OBVIOUS
<1> USE DEF TypeOK, Goto, Labels
<1>1. ASSUME NEW i \in Iters, Open(i) PROVE TypeOK'
  <2>1. Entry(token + 1, i) \in [pos : Nat, iter : Iters] BY DEF Entry
  <2> QED BY <1>1, <2>1 DEF Open, AddCache
<1>2. ASSUME NEW i \in Iters, OpenPrimary(i) PROVE TypeOK' BY <1>2 DEF OpenPrimary
<1>3. ASSUME NEW i \in Iters, Look(i) PROVE TypeOK' BY <1>3 DEF Look
<1>4. ASSUME NEW i \in Iters, Put(i) PROVE TypeOK' BY <1>4 DEF Put
<1>5. ASSUME NEW i \in Iters, FreeOwn(i) PROVE TypeOK' BY <1>5 DEF FreeOwn
<1>6. ASSUME NEW i \in Iters, Free(i) PROVE TypeOK' BY <1>6 DEF Free
<1>7. ASSUME NEW i \in Iters, Recheck(i) PROVE TypeOK' BY <1>7 DEF Recheck
<1>8. ASSUME NEW i \in Iters, Store(i) PROVE TypeOK' BY <1>8 DEF Store
<1>9. ASSUME NEW i \in Iters, SecondaryEnds(i) PROVE TypeOK' BY <1>9 DEF SecondaryEnds
<1>10. ASSUME NEW i \in Iters, Eof(i) PROVE TypeOK' BY <1>10 DEF Eof
<1>11. ASSUME NEW i \in Iters, ChildFails(i) PROVE TypeOK' BY <1>11 DEF ChildFails
<1>12. ASSUME NEW i \in Iters, SortFails(i) PROVE TypeOK' BY <1>12 DEF SortFails
<1>13. ASSUME NEW i \in Iters, Close(i) PROVE TypeOK' BY <1>13 DEF Close
<1>14. ASSUME NEW i \in Iters, Remove(i) \/ RemoveLast(i) \/ RemoveAgain(i) PROVE TypeOK'
  BY <1>14 DEF Remove, RemoveLast, RemoveAgain, RemoveCache
<1>15. CASE UNCHANGED vars BY <1>15 DEF vars
<1> QED
  BY <1>1, <1>2, <1>3, <1>4, <1>5, <1>6, <1>7, <1>8, <1>9, <1>10, <1>11, <1>12, <1>13, <1>14,
     <1>15 DEF Next

\* The manager and its iterators keep their types.
THEOREM TypeCorrect == Spec => []TypeOK
<1>1. Init => TypeOK BY DEF Init, TypeOK, Labels
<1> QED BY <1>1, TypeStep, PTL DEF Spec

-----------------------------------------------------------------------------
\* the steps that call neither addCache nor removeCache
OtherStep(i) ==
  \/ OpenPrimary(i) \/ Look(i) \/ Put(i) \/ FreeOwn(i) \/ Free(i) \/ Recheck(i) \/ Store(i)
  \/ SecondaryEnds(i) \/ Eof(i) \/ ChildFails(i) \/ SortFails(i) \/ Close(i)

\* Only addCache and removeCache touch the manager: every step that calls neither
\* leaves its state alone.
LEMMA OtherSteps ==
  ASSUME NEW i \in Iters, OtherStep(i)
  PROVE  UNCHANGED <<token, caches, pos>>
BY DEF OtherStep, OpenPrimary, Look, Put, FreeOwn, Free, Recheck, Store, SecondaryEnds, Eof,
       ChildFails, SortFails, Close

\* Every step keeps the positions in use within the token, which goes back to zero
\* only when none is in use.
LEMMA TokensStep == TypeOK /\ TokensStartAgain /\ [Next]_vars => TokensStartAgain'
<1> SUFFICES ASSUME TypeOK, TokensStartAgain, [Next]_vars PROVE TokensStartAgain'
  OBVIOUS
<1> USE DEF TypeOK, TokensStartAgain
<1>1. ASSUME NEW i \in Iters, Open(i) PROVE TokensStartAgain'
  <2>1. Entry(token + 1, i) \in caches' BY <1>1 DEF Open, AddCache
  <2>2. ASSUME NEW e \in caches' PROVE e.pos \in 1..token'
    <3>1. CASE e = Entry(token + 1, i) BY <1>1, <3>1 DEF Open, AddCache, Entry
    <3>2. CASE e \in caches BY <1>1, <3>2 DEF Open, AddCache
    <3> QED BY <1>1, <2>2, <3>1, <3>2 DEF Open, AddCache
  <2> QED BY <2>1, <2>2
<1>2. ASSUME NEW i \in Iters, RemoveCache(pos[i]) PROVE TokensStartAgain'
  BY <1>2 DEF RemoveCache
<1>3. CASE UNCHANGED <<token, caches, pos>> BY <1>3
<1> QED BY <1>1, <1>2, <1>3, OtherSteps DEF Next, OtherStep, Remove, RemoveLast, RemoveAgain, vars

\* The positions in use are within the token, which starts again at zero when the
\* last cache is gone: a new cache never takes the place of another.
THEOREM TokensStartAgainCorrect == Spec => []TokensStartAgain
<1>1. Init => TokensStartAgain BY DEF Init, TokensStartAgain
<1> QED BY <1>1, TypeCorrect, TokensStep, PTL DEF Spec

-----------------------------------------------------------------------------
\* addCache gives the new cache a position of its own.
LEMMA OpenKeepsManagerInv ==
  ASSUME TypeOK, ManagerInv, NEW i \in Iters, Open(i)
  PROVE  ManagerInv'
<1> USE DEF TypeOK, ManagerInv
<1> DEFINE new == Entry(token + 1, i)
<1>1. new.pos = token + 1 /\ new.iter = i BY DEF Entry
<1>2. caches' = caches \cup {new}
  BY DEF Open, AddCache, TokensStartAgain
<1>3. \A e \in caches : e.iter # i /\ e.pos # token + 1
  BY DEF Open, EntriesMatch, TokensStartAgain
<1>4. /\ pos' = [pos EXCEPT ![i] = token + 1] /\ token' = token + 1
      /\ pc'[i] \in {"opening", "idle"} /\ \A j \in Iters : j # i => pc'[j] = pc[j]
  BY DEF Open, AddCache, Goto
<1> HIDE DEF new
<1>5. TokensStartAgain' BY <1>1, <1>2, <1>4 DEF TokensStartAgain
<1>6. EntriesMatch'
  <2> SUFFICES ASSUME NEW e \in caches'
               PROVE  /\ e.pos = pos'[e.iter]
                      /\ pc'[e.iter] \notin {"new", "ended", "removeAgain", "closedAgain"}
                      /\ pc'[e.iter] = "closed" => Kind[e.iter] = "groupBy"
    BY DEF EntriesMatch
  <2>1. CASE e = new BY <1>1, <1>4, <2>1
  <2>2. CASE e \in caches BY <1>3, <1>4, <2>2 DEF EntriesMatch
  <2> QED BY <1>2, <2>1, <2>2
<1>7. PositionsUnique' BY <1>1, <1>2, <1>3 DEF PositionsUnique
<1>8. EntriesStay'
  <2> SUFFICES ASSUME NEW j \in Iters,
                      InUse(j)' \/ NeverDisposed(j)' \/ pc'[j] \in {"remove", "removeLast"}
               PROVE  Entry(pos'[j], j) \in caches' \/ Struck(j)'
    BY DEF EntriesStay
  <2>1. CASE j = i BY <1>2, <1>4, <2>1 DEF new
  <2>2. CASE j # i
    <3>1. pc'[j] = pc[j] /\ pos'[j] = pos[j] BY <1>4, <2>2
    <3>2. Entry(pos[j], j) \in caches \/ Struck(j)
      BY <3>1 DEF EntriesStay, InUse, NeverDisposed
    <3>3. Struck(j) => Struck(j)'
      <4> SUFFICES ASSUME NEW d \in Iters, pc[d] = "closedAgain", pos[d] = pos[j]
                   PROVE  pc'[d] = "closedAgain" /\ pos'[d] = pos'[j]
        BY DEF Struck
      <4>1. d # i BY DEF Open
      <4> QED BY <1>4, <3>1, <4>1
    <3> QED BY <1>2, <3>1, <3>2, <3>3
  <2> QED BY <2>1, <2>2
<1>9. GroupByNeverDisposes' BY <1>4 DEF GroupByNeverDisposes
<1> QED BY <1>5, <1>6, <1>7, <1>8, <1>9

\* An iterator that disposes takes out its own cache, or one at a position that a
\* DISTINCT has struck: its own was there and is gone, or it is that DISTINCT.
LEMMA RemoveKeepsManagerInv ==
  ASSUME TypeOK, ManagerInv, NEW i \in Iters, Remove(i) \/ RemoveLast(i) \/ RemoveAgain(i)
  PROVE  ManagerInv'
<1> USE DEF TypeOK, ManagerInv
<1>1. caches' = {e \in caches : e.pos # pos[i]} /\ token' = (IF caches' = {} THEN 0 ELSE token)
  BY DEF Remove, RemoveLast, RemoveAgain, RemoveCache
<1>2. pos' = pos /\ \A j \in Iters : j # i => pc'[j] = pc[j]
  BY DEF Remove, RemoveLast, RemoveAgain, Goto
<1>3. /\ pc'[i] \in {"ended", "closed", "closedAgain"}
      /\ pc[i] \in {"remove", "removeLast", "removeAgain"}
      /\ pc[i] = "removeAgain" => pc'[i] = "closedAgain"
  BY DEF Remove, RemoveLast, RemoveAgain, Goto
<1>4. \A e \in caches' : e \in caches /\ e.pos # pos[i] BY <1>1
<1>5. \A e \in caches' : e.iter # i BY <1>4 DEF EntriesMatch
<1>6. TokensStartAgain' BY <1>1 DEF TokensStartAgain
<1>7. EntriesMatch' BY <1>2, <1>4, <1>5 DEF EntriesMatch
<1>8. PositionsUnique' BY <1>4 DEF PositionsUnique
<1>9. \A j \in Iters : Struck(j) => Struck(j)'
  <2> SUFFICES ASSUME NEW j \in Iters, NEW d \in Iters, pc[d] = "closedAgain", pos[d] = pos[j]
               PROVE  pc'[d] = "closedAgain" /\ pos'[d] = pos'[j]
    BY DEF Struck
  <2>1. d # i BY <1>3
  <2> QED BY <1>2, <2>1
<1>10. ASSUME NEW j \in Iters, pos[j] = pos[i], Entry(pos[j], j) \in caches, j # i
       PROVE  Struck(j)'
  <2>1. CASE pc[i] = "removeAgain" BY <1>2, <1>3, <1>10, <2>1 DEF Struck
  <2>2. CASE pc[i] # "removeAgain"
    <3>1. Entry(pos[i], i) # Entry(pos[j], j) BY <1>10 DEF Entry
    <3>2. Entry(pos[i], i).pos = Entry(pos[j], j).pos BY <1>10 DEF Entry
    <3>3. Entry(pos[i], i) \notin caches BY <1>10, <3>1, <3>2 DEF PositionsUnique
    <3>4. Struck(i) BY <1>3, <2>2, <3>3 DEF EntriesStay
    <3> QED BY <1>9, <1>10, <3>4 DEF Struck
  <2> QED BY <2>1, <2>2
<1>11. EntriesStay'
  <2> SUFFICES ASSUME NEW j \in Iters,
                      InUse(j)' \/ NeverDisposed(j)' \/ pc'[j] \in {"remove", "removeLast"}
               PROVE  Entry(pos'[j], j) \in caches' \/ Struck(j)'
    BY DEF EntriesStay
  <2>1. CASE j = i
    <3>1. pc'[i] = "closed" /\ Kind[i] = "groupBy" BY <1>3, <2>1 DEF InUse, NeverDisposed
    <3>2. FALSE BY <1>3, <3>1 DEF GroupByNeverDisposes
    <3> QED BY <3>2
  <2>2. CASE j # i
    <3>1. Entry(pos[j], j) \in caches \/ Struck(j)
      BY <1>2, <2>2 DEF EntriesStay, InUse, NeverDisposed
    <3>2. CASE pos[j] = pos[i] BY <1>9, <1>10, <2>2, <3>1, <3>2
    <3>3. CASE pos[j] # pos[i]
      <4>1. Entry(pos[j], j).pos = pos[j] BY DEF Entry
      <4> QED BY <1>1, <1>2, <1>9, <3>1, <3>3, <4>1
    <3> QED BY <3>2, <3>3
  <2> QED BY <2>1, <2>2
<1>12. GroupByNeverDisposes' BY <1>2, <1>3 DEF GroupByNeverDisposes
<1> QED BY <1>6, <1>7, <1>8, <1>11, <1>12

\* The other steps move an iterator on without a cache coming or going.
LEMMA OthersKeepManagerInv ==
  ASSUME TypeOK, ManagerInv, NEW i \in Iters, OtherStep(i)
  PROVE  ManagerInv'
<1> USE DEF TypeOK, ManagerInv
<1>1. UNCHANGED <<token, caches, pos>> BY OtherSteps
<1>2. \A j \in Iters : j # i => pc'[j] = pc[j]
  BY DEF OtherStep, OpenPrimary, Look, Put, FreeOwn, Free, Recheck, Store, SecondaryEnds, Eof,
         ChildFails, SortFails, Close, Goto
<1>3. /\ pc[i] # "closedAgain"
      /\ pc'[i] \in {"new", "ended", "removeAgain", "closedAgain"} => pc[i] = "ended"
      /\ InUse(i)' \/ pc'[i] \in {"remove", "removeLast", "abandoned"} => InUse(i)
      /\ pc'[i] = "closed" => pc[i] = "ended" \/ (InUse(i) /\ Kind[i] = "groupBy")
  BY DEF OtherStep, OpenPrimary, Look, Put, FreeOwn, Free, Recheck, Store, SecondaryEnds, Eof,
         ChildFails, SortFails, Close, Goto, InUse, BetweenCalls
<1>4. TokensStartAgain' /\ PositionsUnique' BY <1>1 DEF TokensStartAgain, PositionsUnique
<1>5. EntriesMatch' BY <1>1, <1>2, <1>3 DEF EntriesMatch
<1>6. \A j \in Iters : Struck(j) => Struck(j)' BY <1>1, <1>2, <1>3 DEF Struck
<1>7. EntriesStay'
  <2> SUFFICES ASSUME NEW j \in Iters,
                      InUse(j)' \/ NeverDisposed(j)' \/ pc'[j] \in {"remove", "removeLast"}
               PROVE  Entry(pos'[j], j) \in caches' \/ Struck(j)'
    BY DEF EntriesStay
  <2>1. CASE j # i BY <1>1, <1>2, <1>6, <2>1 DEF EntriesStay, InUse, NeverDisposed
  <2>2. CASE j = i
    <3>1. InUse(i) BY <1>3, <2>2 DEF NeverDisposed, GroupByNeverDisposes
    <3> QED BY <1>1, <1>6, <2>2, <3>1 DEF EntriesStay
  <2> QED BY <2>1, <2>2
<1>8. GroupByNeverDisposes'
  <2>1. Kind[i] = "groupBy" =>
          pc'[i] \notin {"remove", "ended", "removeLast", "removeAgain", "closedAgain"}
    BY DEF GroupByNeverDisposes, OtherStep, OpenPrimary, Look, Put, FreeOwn, Free, Recheck,
           Store, SecondaryEnds, Eof, ChildFails, SortFails, Close, Goto, UnknownMode
  <2> QED BY <1>2, <2>1 DEF GroupByNeverDisposes
<1> QED BY <1>4, <1>5, <1>7, <1>8

\* The inductive invariant holds whatever iterators there are.
LEMMA ManagerInvariant == Spec => []ManagerInv
<1>1. Init => ManagerInv
  BY DEF Init, ManagerInv, TokensStartAgain, EntriesMatch, PositionsUnique, EntriesStay, InUse,
         NeverDisposed, GroupByNeverDisposes
<1>2. TypeOK /\ ManagerInv /\ [Next]_vars => ManagerInv'
  <2> SUFFICES ASSUME TypeOK, ManagerInv, [Next]_vars PROVE ManagerInv'
    OBVIOUS
  <2>1. CASE UNCHANGED vars
    BY <2>1 DEF vars, ManagerInv, TokensStartAgain, EntriesMatch, PositionsUnique, EntriesStay,
                InUse, NeverDisposed, Struck, GroupByNeverDisposes
  <2> QED
    BY <2>1, OpenKeepsManagerInv, RemoveKeepsManagerInv, OthersKeepManagerInv
    DEF Next, OtherStep
<1> QED BY <1>1, <1>2, TypeCorrect, PTL DEF Spec

\* Whatever queries run together, the manager knows every cache that is in use, but
\* for those at a position that a DISTINCT has disposed of twice.
THEOREM TrackedUntilDisposedCorrect == Spec => []TrackedUntilDisposed
<1>1. ManagerInv => TrackedUntilDisposed BY DEF ManagerInv, EntriesStay, TrackedUntilDisposed
<1> QED BY <1>1, ManagerInvariant, PTL

\* Whatever queries run together, iterators that are gone have left in the manager
\* the caches of GROUP BYs and of joins that did not open, and no others.
THEOREM LeftBehindCorrect == Spec => []LeftBehind
<1>1. TypeOK /\ ManagerInv => LeftBehind
  BY DEF TypeOK, ManagerInv, EntriesMatch, EntriesStay, LeftBehind, Tracked, NeverDisposed
<1> QED BY <1>1, TypeCorrect, ManagerInvariant, PTL

-----------------------------------------------------------------------------
\* The entries of finitely many iterators are finitely many.
LEMMA ReachableFinite ==
  ASSUME TypeOK PROVE IsFiniteSet(Reachable) /\ UsedMemory \in Nat
<1> DEFINE E(i) == {i} \X (1..(size[i] + held[i]))
           f == [i \in Iters |-> E(i)]
           T == {E(i) : i \in Iters}
<1>1. f \in Surjection(Iters, T) BY DEF Surjection
<1>2. IsFiniteSet(T) BY <1>1, FS_Surjection, ItersAssumption
<1>3. \A t \in T : IsFiniteSet(t)
  <2> SUFFICES ASSUME NEW i \in Iters PROVE IsFiniteSet(E(i))
    OBVIOUS
  <2>1. IsFiniteSet(1..(size[i] + held[i])) BY FS_Interval DEF TypeOK
  <2> QED BY <2>1, FS_Singleton, FS_Product
<1>4. IsFiniteSet(UNION T) BY <1>2, <1>3, FS_UNION
<1> QED BY <1>4, FS_CardinalityType DEF Reachable, UsedMemory

\* After a step, too, the memory in use is a number of entries.
LEMMA UsedMemoryNext == (TypeOK => UsedMemory \in Nat)'
<1>1. TypeOK => UsedMemory \in Nat BY ReachableFinite
<1> QED BY <1>1, PTL

\* The memory in use does not grow when no iterator has more entries than before.
LEMMA NoMoreMemory ==
  ASSUME TypeOK, TypeOK', \A i \in Iters : size'[i] + held'[i] <= size[i] + held[i]
  PROVE  UsedMemory' <= UsedMemory
<1>1. Reachable' \subseteq Reachable
  <2> SUFFICES ASSUME NEW i \in Iters, NEW n \in 1..(size'[i] + held'[i])
               PROVE  n \in 1..(size[i] + held[i])
    BY DEF Reachable
  <2> QED BY DEF TypeOK
<1> QED BY <1>1, ReachableFinite, FS_Subset DEF UsedMemory

\* An entry more in one cache is an entry more in use.
LEMMA OneMoreEntry ==
  ASSUME TypeOK, NEW i \in Iters, size' = [size EXCEPT ![i] = @ + 1], held' = held
  PROVE  UsedMemory' = UsedMemory + 1
<1> DEFINE n == size[i] + held[i]
           new == <<i, n + 1>>
<1>1. n \in Nat BY DEF TypeOK
<1>2. \A j \in Iters : size'[j] + held'[j] = IF j = i THEN n + 1 ELSE size[j] + held[j]
  BY DEF TypeOK
<1>3. 1..(n + 1) = (1..n) \cup {n + 1} BY <1>1
<1>4. Reachable' = Reachable \cup {new}
  <2>1. ASSUME NEW x \in Reachable' PROVE x \in Reachable \cup {new}
    <3>1. PICK j \in Iters : x \in {j} \X (1..(size'[j] + held'[j]))
      BY <2>1 DEF Reachable
    <3>2. CASE j = i BY <1>2, <1>3, <3>1, <3>2 DEF Reachable
    <3>3. CASE j # i BY <1>2, <3>1, <3>3 DEF Reachable
    <3> QED BY <3>2, <3>3
  <2>2. ASSUME NEW x \in Reachable PROVE x \in Reachable'
    <3>1. PICK j \in Iters : x \in {j} \X (1..(size[j] + held[j]))
      BY <2>2 DEF Reachable
    <3>2. CASE j = i BY <1>2, <1>3, <3>1, <3>2 DEF Reachable
    <3>3. CASE j # i BY <1>2, <3>1, <3>3 DEF Reachable
    <3> QED BY <3>2, <3>3
  <2>3. new \in Reachable' BY <1>1, <1>2 DEF Reachable
  <2> QED BY <2>1, <2>2, <2>3
<1>5. new \notin Reachable
  <2> SUFFICES ASSUME NEW j \in Iters, new \in {j} \X (1..(size[j] + held[j]))
               PROVE  FALSE
    BY DEF Reachable
  <2> QED BY <1>1
<1> HIDE DEF new
<1> QED BY <1>4, <1>5, ReachableFinite, FS_AddElement DEF UsedMemory

\* No more iterators than there are have looked at the memory and not stored.
LEMMA StoringFinite ==
  /\ IsFiniteSet(Storing) /\ Cardinality(Storing) \in Nat
  /\ Cardinality(Iters) \in Nat /\ Cardinality(Storing) <= Cardinality(Iters)
<1>1. Storing \subseteq Iters BY DEF Storing
<1> QED BY <1>1, FS_Subset, FS_CardinalityType, ItersAssumption

\* Every step keeps what is in use and what may still be stored within the bound.
LEMMA MemoryStep == TypeOK /\ TypeOK' /\ MemoryInv /\ [Next]_vars => MemoryInv'
<1> SUFFICES ASSUME TypeOK, TypeOK', MemoryInv, [Next]_vars PROVE MemoryInv'
  OBVIOUS
<1> USE LimitsAssumption
<1>t. /\ UsedMemory \in Nat /\ Cardinality(Storing) \in Nat /\ Cardinality(Iters) \in Nat
      /\ UsedMemory' \in Nat /\ Cardinality(Storing') \in Nat
      /\ Cardinality(Storing') <= Cardinality(Iters)
  <2>1. (UsedMemory \in Nat)' BY UsedMemoryNext
  <2>2. Storing' \subseteq Iters BY DEF Storing
  <2>3. Cardinality(Storing') \in Nat /\ Cardinality(Storing') <= Cardinality(Iters)
    BY <2>2, FS_Subset, FS_CardinalityType, ItersAssumption
  <2> QED BY <2>1, <2>3, ReachableFinite, StoringFinite
\* most steps store nothing and let nobody store
<1>0. ASSUME \A j \in Iters : size'[j] + held'[j] <= size[j] + held[j],
             \A j \in Iters : pc'[j] = "store" => pc[j] = "store"
      PROVE  MemoryInv'
  <2>1. UsedMemory' <= UsedMemory BY <1>0, NoMoreMemory
  <2>2. Storing' \subseteq Storing BY <1>0 DEF Storing
  <2>3. Cardinality(Storing') <= Cardinality(Storing) BY <2>2, StoringFinite, FS_Subset
  <2> QED BY <1>t, <2>1, <2>3 DEF MemoryInv
<1>1. ASSUME NEW i \in Iters, Open(i) PROVE MemoryInv'
  BY <1>0, <1>1 DEF Open, Goto, TypeOK
<1>2. ASSUME NEW i \in Iters, Put(i) PROVE MemoryInv'
  <2>1. CASE HasAvailable
    <3>1. HasAvailable' BY <1>2, <2>1 DEF Put, HasAvailable, UsedMemory, Reachable
    <3> QED BY <3>1, <1>t DEF HasAvailable, MemoryInv
  <2>2. CASE ~HasAvailable BY <1>0, <1>2, <2>2 DEF Put, Goto, TypeOK
  <2> QED BY <2>1, <2>2
<1>3. ASSUME NEW i \in Iters, FreeOwn(i) PROVE MemoryInv'
  <2>1. CASE HasAvailable' BY <2>1, <1>t DEF HasAvailable, MemoryInv
  <2>2. CASE ~HasAvailable' BY <1>0, <1>3, <2>2 DEF FreeOwn, Goto, TypeOK
  <2> QED BY <2>1, <2>2
<1>4. ASSUME NEW i \in Iters, Free(i) PROVE MemoryInv'
  BY <1>0, <1>4 DEF Free, Goto, TypeOK
<1>5. ASSUME NEW i \in Iters, Recheck(i) PROVE MemoryInv'
  <2>1. CASE HasAvailable
    <3>1. HasAvailable' BY <1>5, <2>1 DEF Recheck, HasAvailable, UsedMemory, Reachable
    <3> QED BY <3>1, <1>t DEF HasAvailable, MemoryInv
  <2>2. CASE ~HasAvailable BY <1>0, <1>5, <2>2 DEF Recheck, Goto, TypeOK
  <2> QED BY <2>1, <2>2
<1>6. ASSUME NEW i \in Iters, Store(i) PROVE MemoryInv'
  <2>1. UsedMemory' = UsedMemory + 1 BY <1>6, OneMoreEntry DEF Store
  <2>2. Storing' = Storing \ {i} /\ i \in Storing BY <1>6 DEF Store, Goto, Storing, TypeOK
  <2>3. Cardinality(Storing') = Cardinality(Storing) - 1
    BY <2>2, StoringFinite, FS_RemoveElement
  <2> QED BY <1>t, <2>1, <2>3 DEF MemoryInv
<1>7. ASSUME NEW i \in Iters, Eof(i) PROVE MemoryInv'
  BY <1>0, <1>7 DEF Eof, Goto, TypeOK
<1>8. ASSUME NEW i \in Iters, SortFails(i) PROVE MemoryInv'
  BY <1>0, <1>8 DEF SortFails, Goto, TypeOK
<1>9. ASSUME NEW i \in Iters, Remove(i) \/ RemoveLast(i) \/ RemoveAgain(i) PROVE MemoryInv'
  BY <1>0, <1>9 DEF Remove, RemoveLast, RemoveAgain, RemoveCache, Goto, TypeOK
<1>10. ASSUME NEW i \in Iters, Close(i) PROVE MemoryInv'
  BY <1>0, <1>10 DEF Close, Goto, TypeOK
<1>11. CASE UNCHANGED vars
  BY <1>0, <1>11 DEF vars, TypeOK
<1>12. ASSUME NEW i \in Iters, OpenPrimary(i) \/ SecondaryEnds(i) \/ ChildFails(i) PROVE MemoryInv'
  BY <1>0, <1>12 DEF OpenPrimary, SecondaryEnds, ChildFails, Goto, TypeOK
<1>13. ASSUME NEW i \in Iters, Look(i) PROVE MemoryInv'
  BY <1>0, <1>13 DEF Look, Goto, TypeOK
<1> QED
  BY <1>1, <1>2, <1>3, <1>4, <1>5, <1>6, <1>7, <1>8, <1>9, <1>10, <1>11, <1>12, <1>13 DEF Next

\* Whatever queries run together, of any kinds, DISTINCT among them, the limit of
\* the memory is exceeded by less than one entry for each iterator.
THEOREM MemoryBoundCorrect == Spec => []MemoryBound
<1>1. Init => MemoryInv
  <2> SUFFICES ASSUME Init PROVE MemoryInv OBVIOUS
  <2>1. TypeOK BY DEF Init, TypeOK, Labels
  <2>2. Reachable = {} BY DEF Init, Reachable
  <2>3. Storing = {} BY DEF Init, Storing
  <2>4. UsedMemory = 0 /\ Cardinality(Storing) = 0 BY <2>2, <2>3, FS_EmptySet DEF UsedMemory
  <2> QED BY <2>4, StoringFinite, LimitsAssumption DEF MemoryInv
<1>2. TypeOK /\ MemoryInv => MemoryBound
  BY ReachableFinite, StoringFinite, LimitsAssumption DEF MemoryInv, MemoryBound
<1>3. TypeOK /\ TypeOK' /\ MemoryInv /\ [Next]_vars => MemoryInv' BY MemoryStep
<1> QED BY <1>1, <1>2, <1>3, TypeCorrect, PTL DEF Spec

-----------------------------------------------------------------------------
(***************************************************************************)
(* The nested loop join, which fills one of the manager's caches while it  *)
(* decides whether the secondary side fits in memory                       *)
(***************************************************************************)
\* The rows of the two sides
LEMMA BuildFacts ==
  ASSUME NEW p, NEW s
  PROVE  Primary(BuildRow(p, s)) = p /\ Secondary(BuildRow(p, s)) = s
BY DEF Primary, Secondary, BuildRow

\* A row of the join is a pair that matches, or a primary row alone.
LEMMA JoinRowsFacts ==
  ASSUME JoinTypeOK, NEW r \in JoinRows
  PROVE  /\ r = BuildRow(Primary(r), Secondary(r))
         /\ Primary(r) \in 1..PrimaryLen /\ Secondary(r) \in 0..SecondaryLen
         /\ Secondary(r) # 0 => r \in matching
         /\ Secondary(r) = 0 =>
              /\ typ # "inner"
              /\ \A s \in 1..SecondaryLen : BuildRow(Primary(r), s) \notin matching
<1>1. CASE r \in matching
  <2>1. r \in (1..nl) \X (1..nr) BY <1>1 DEF JoinTypeOK
  <2>2. r = <<r[1], r[2]>> /\ r[1] \in 1..nl /\ r[2] \in 1..nr BY <2>1
  <2>3. nl \in Nat /\ nr \in Nat BY DEF JoinTypeOK
  <2> QED BY <1>1, <2>2, <2>3 DEF BuildRow, Primary, Secondary, PrimaryLen, SecondaryLen
<1>2. CASE r \notin matching
  <2>1. typ # "inner" /\ \E p \in Unmatched : r = BuildRow(p, 0) BY <1>2 DEF JoinRows
  <2>2. PICK p \in Unmatched : r = BuildRow(p, 0) BY <2>1
  <2>3. Primary(r) = p /\ Secondary(r) = 0 BY <2>2, BuildFacts
  <2>4. SecondaryLen \in Nat BY DEF JoinTypeOK, SecondaryLen
  <2> QED BY <2>1, <2>2, <2>3, <2>4 DEF Unmatched
<1> QED BY <1>1, <1>2

\* When a pair and when a row alone is a row of the join.
LEMMA MatchJoins ==
  ASSUME JoinTypeOK, NEW p \in 1..PrimaryLen
  PROVE  /\ \A s \in 1..SecondaryLen : BuildRow(p, s) \in JoinRows <=> BuildRow(p, s) \in matching
         /\ BuildRow(p, 0) \in JoinRows <=>
              typ # "inner" /\ \A s \in 1..SecondaryLen : BuildRow(p, s) \notin matching
<1>1. ASSUME NEW s \in 1..SecondaryLen PROVE BuildRow(p, s) \in JoinRows <=> BuildRow(p, s) \in matching
  <2>1. Secondary(BuildRow(p, s)) = s BY BuildFacts
  <2>2. s # 0 OBVIOUS
  <2>3. BuildRow(p, s) \in JoinRows => BuildRow(p, s) \in matching BY <2>1, <2>2, JoinRowsFacts
  <2> QED BY <2>3 DEF JoinRows
<1>2. BuildRow(p, 0) \in JoinRows <=>
        typ # "inner" /\ \A s \in 1..SecondaryLen : BuildRow(p, s) \notin matching
  <2>1. Secondary(BuildRow(p, 0)) = 0 /\ Primary(BuildRow(p, 0)) = p BY BuildFacts
  <2>2. ASSUME BuildRow(p, 0) \in JoinRows
        PROVE  typ # "inner" /\ \A s \in 1..SecondaryLen : BuildRow(p, s) \notin matching
    BY <2>1, <2>2, JoinRowsFacts
  <2>3. ASSUME typ # "inner", \A s \in 1..SecondaryLen : BuildRow(p, s) \notin matching
        PROVE  BuildRow(p, 0) \in JoinRows
    BY <2>3 DEF JoinRows, Unmatched
  <2> QED BY <2>2, <2>3
<1> QED BY <1>1, <1>2

\* The rows of the join are a matter of the two sides, the condition and the type.
LEMMA SameJoin ==
  ASSUME UNCHANGED input
  PROVE  /\ PrimaryLen' = PrimaryLen /\ SecondaryLen' = SecondaryLen /\ JoinRows' = JoinRows
         /\ \A p, s : BuildRow(p, s)' = BuildRow(p, s)
         /\ \A r : Primary(r)' = Primary(r) /\ Secondary(r)' = Secondary(r)
         /\ \A r, q : Precedes(r, q)' <=> Precedes(r, q)
<1>1. UNCHANGED <<nl, nr, matching, typ>> BY DEF input
<1>2. PrimaryLen' = PrimaryLen /\ SecondaryLen' = SecondaryLen BY <1>1 DEF PrimaryLen, SecondaryLen
<1>3. \A p, s : BuildRow(p, s)' = BuildRow(p, s) BY <1>1 DEF BuildRow
<1>4. \A r : Primary(r)' = Primary(r) /\ Secondary(r)' = Secondary(r) BY <1>1 DEF Primary, Secondary
<1>5. Unmatched' = Unmatched BY <1>1, <1>2, <1>3 DEF Unmatched
<1>6. JoinRows' = JoinRows BY <1>1, <1>3, <1>5 DEF JoinRows
<1>7. \A r, q : Precedes(r, q)' <=> Precedes(r, q) BY <1>4 DEF Precedes
<1> QED BY <1>2, <1>3, <1>4, <1>6, <1>7

-----------------------------------------------------------------------------
\* An element of a sequence
LEMMA SeqValue ==
  ASSUME NEW S, NEW q \in Seq(S), NEW i \in 1..Len(q)
  PROVE  q[i] \in S
OBVIOUS

\* The types before the first call
LEMMA JoinInitType ==
  ASSUME MaxLeft \in Nat, MaxRight \in Nat, JoinInit
  PROVE  JoinTypeOK /\ RowTaken
<1>1. nl \in Nat /\ nr \in Nat BY DEF JoinInit
<1>2. PrimaryLen \in Nat /\ SecondaryLen \in Nat BY <1>1 DEF PrimaryLen, SecondaryLen
<1>3. /\ primaryRow = 0 /\ taken = 0 /\ secondary = -1 /\ passes = 0 /\ rows = <<>> /\ rowsPos = 0
      /\ joined = <<>> /\ res = "ok" /\ foundMatch = FALSE /\ disposed = FALSE /\ lost = FALSE
      /\ typ \in {"inner", "left", "right"} /\ mode \in {"unknown", "memory"}
      /\ matching \subseteq (1..nl) \X (1..nr)
  BY DEF JoinInit
<1>4. secondary \in -1..SecondaryLen /\ primaryRow \in 0..PrimaryLen /\ taken \in 0..PrimaryLen
  BY <1>2, <1>3
<1>5. rows \in Seq(1..SecondaryLen) /\ rowsPos \in 0..Len(rows) BY <1>3
<1>6. joined \in Seq((0..nl) \X (0..nr)) BY <1>3
<1> QED BY <1>1, <1>3, <1>4, <1>5, <1>6 DEF JoinTypeOK, RowTaken

\* A row that is built from a row of each side, or from a primary row alone
LEMMA BuildType ==
  ASSUME JoinTypeOK, NEW p \in 0..PrimaryLen, NEW s \in 0..SecondaryLen
  PROVE  BuildRow(p, s) \in (0..nl) \X (0..nr)
BY DEF BuildRow, PrimaryLen, SecondaryLen, JoinTypeOK

\* What the end of the secondary side returns
LEMMA OuterType ==
  ASSUME JoinTypeOK
  PROVE  OuterRow(primaryRow) \in Seq((0..nl) \X (0..nr))
<1>1. primaryRow \in 0..PrimaryLen /\ joined \in Seq((0..nl) \X (0..nr)) BY DEF JoinTypeOK
<1>2. 0 \in 0..SecondaryLen BY DEF JoinTypeOK, SecondaryLen
<1>3. BuildRow(primaryRow, 0) \in (0..nl) \X (0..nr) BY <1>1, <1>2, BuildType
<1> QED BY <1>1, <1>3 DEF OuterRow

\* What a row of the secondary side returns
LEMMA JoinedType ==
  ASSUME JoinTypeOK, NEW s \in 1..SecondaryLen, Joined(s), res = "ok"
  PROVE  /\ joined' \in Seq((0..nl) \X (0..nr)) /\ foundMatch' \in BOOLEAN /\ res' \in {"ok", "err"}
<1>1. primaryRow \in 0..PrimaryLen /\ joined \in Seq((0..nl) \X (0..nr)) /\ foundMatch \in BOOLEAN
  BY DEF JoinTypeOK
<1>2. SecondaryLen \in Nat BY DEF JoinTypeOK, SecondaryLen
<1>3. s \in 0..SecondaryLen BY <1>2
<1>4. BuildRow(primaryRow, s) \in (0..nl) \X (0..nr) BY <1>1, <1>3, BuildType
<1>5. CASE /\ foundMatch' = TRUE /\ joined' = Append(joined, BuildRow(primaryRow, s)) /\ res' = res
  BY <1>1, <1>4, <1>5
<1>6. CASE foundMatch' = foundMatch /\ joined' = joined /\ res' \in {res, "err"} BY <1>1, <1>6
<1> QED BY <1>5, <1>6 DEF Joined

\* Every step keeps the types, the place of the primary row and that of the cursor.
LEMMA JoinTypeStep ==
  ASSUME JoinTypeOK, RowTaken, [JoinNext]_joinVars
  PROVE  JoinTypeOK' /\ RowTaken'
<1>t. /\ nl \in Nat /\ nr \in Nat /\ matching \subseteq (1..nl) \X (1..nr)
      /\ typ \in {"inner", "left", "right"} /\ mode \in {"unknown", "memory", "multipass"}
      /\ primaryRow \in 0..PrimaryLen /\ taken \in 0..PrimaryLen
      /\ foundMatch \in BOOLEAN /\ disposed \in BOOLEAN /\ lost \in BOOLEAN
      /\ secondary \in -1..SecondaryLen /\ passes \in Nat
      /\ rows \in Seq(1..SecondaryLen) /\ rowsPos \in 0..Len(rows)
      /\ joined \in Seq((0..nl) \X (0..nr))
      /\ res \in {"ok", "eof", "err"}
  BY DEF JoinTypeOK
<1>l. PrimaryLen \in Nat /\ SecondaryLen \in Nat BY <1>t DEF PrimaryLen, SecondaryLen
<1>s. ASSUME UNCHANGED input
      PROVE  /\ PrimaryLen' = PrimaryLen /\ SecondaryLen' = SecondaryLen
             /\ UNCHANGED <<nl, nr, matching, typ>>
  BY <1>s, SameJoin DEF input
<1>p. Pass => passes' \in Nat BY <1>t DEF Pass
<1>r. /\ primaryRow \in {0, taken} /\ (mode # "memory" => rowsPos = 0)
      /\ primaryRow = 0 => rowsPos = 0 /\ (res = "ok" => secondary = -1)
      /\ mode = "memory" => secondary = -1
  BY DEF RowTaken
<1>1. CASE loadPrimary
  <2>0. primaryRow = 0 /\ res = "ok" /\ rowsPos = 0 /\ secondary = -1 BY <1>1, <1>r DEF loadPrimary, Running
  <2>1. /\ PrimaryLen' = PrimaryLen /\ SecondaryLen' = SecondaryLen
        /\ UNCHANGED <<nl, nr, matching, typ, mode, secondary, passes, rowsPos, lost, joined>>
    BY <1>1, <1>s DEF loadPrimary
  <2>2. CASE /\ taken < PrimaryLen
             /\ taken' = taken + 1 /\ primaryRow' = taken + 1
             /\ foundMatch' = FALSE
             /\ UNCHANGED <<disposed, rows, res>>
    <3>1. taken' \in 0..PrimaryLen /\ primaryRow' \in 0..PrimaryLen /\ primaryRow' # 0
      BY <1>t, <1>l, <2>2
    <3>2. JoinTypeOK' BY <1>t, <2>1, <2>2, <3>1 DEF JoinTypeOK
    <3>3. RowTaken' BY <1>r, <2>0, <2>1, <2>2, <3>1 DEF RowTaken
    <3> QED BY <3>2, <3>3
  <2>3. CASE /\ taken = PrimaryLen
             /\ disposed' = TRUE /\ rows' = <<>> /\ res' = "eof"
             /\ UNCHANGED <<taken, primaryRow, foundMatch>>
    <3>1. rows' \in Seq(1..SecondaryLen) /\ rowsPos' \in 0..Len(rows') BY <2>0, <2>1, <2>3
    <3>2. JoinTypeOK' BY <1>t, <2>1, <2>3, <3>1 DEF JoinTypeOK
    <3>3. RowTaken' BY <1>r, <2>0, <2>1, <2>3 DEF RowTaken
    <3> QED BY <3>2, <3>3
  <2>4. CASE res' = "err" /\ UNCHANGED <<taken, primaryRow, foundMatch, disposed, rows>>
    <3>2. JoinTypeOK' BY <1>t, <2>1, <2>4 DEF JoinTypeOK
    <3>3. RowTaken' BY <1>r, <2>0, <2>1, <2>4 DEF RowTaken
    <3> QED BY <3>2, <3>3
  <2> QED BY <1>1, <2>2, <2>3, <2>4 DEF loadPrimary
<1>2. CASE LoadInMemory
  <2>0. primaryRow # 0 /\ mode = "memory" /\ rows = <<>> /\ res = "ok" BY <1>2 DEF LoadInMemory, Running
  <2>1. /\ PrimaryLen' = PrimaryLen /\ SecondaryLen' = SecondaryLen
        /\ UNCHANGED <<nl, nr, matching, typ, mode, primaryRow, taken, foundMatch, secondary, rowsPos,
                       disposed, lost>>
    BY <1>2, <1>s DEF LoadInMemory
  <2>2. passes' \in Nat BY <1>2, <1>p DEF LoadInMemory
  <2>3. rowsPos = 0 BY <1>t, <2>0
  <2>4. ASSUME NEW n \in 0..SecondaryLen
        PROVE  [s \in 1..n |-> s] \in Seq(1..SecondaryLen) /\ rowsPos \in 0..Len([s \in 1..n |-> s])
    <3>1. n \in Nat /\ \A s \in 1..n : s \in 1..SecondaryLen BY <1>l
    <3> QED BY <2>3, <3>1
  <2>5. rows' \in Seq(1..SecondaryLen) /\ rowsPos' \in 0..Len(rows')
    <3>1. CASE rows' = [s \in 1..SecondaryLen |-> s] 
      <4>1. SecondaryLen \in 0..SecondaryLen BY <1>l
      <4> QED BY <2>1, <2>4, <3>1, <4>1
    <3>2. CASE rows' = rows BY <1>t, <2>1, <3>2
    <3>3. ASSUME NEW n \in 0..(SecondaryLen - 1), rows' = [s \in 1..n |-> s]
          PROVE  rows' \in Seq(1..SecondaryLen) /\ rowsPos' \in 0..Len(rows')
      <4>1. n \in 0..SecondaryLen BY <1>l
      <4> QED BY <2>1, <2>4, <3>3, <4>1
    <3> QED BY <1>2, <3>1, <3>2, <3>3 DEF LoadInMemory
  <2>6. joined' \in Seq((0..nl) \X (0..nr)) BY <1>2, <1>t, OuterType DEF LoadInMemory
  <2>7. res' \in {"ok", "eof", "err"} BY <1>2, <1>t DEF LoadInMemory
  <2>8. JoinTypeOK' BY <1>t, <2>1, <2>2, <2>5, <2>6, <2>7 DEF JoinTypeOK
  <2>9. RowTaken' BY <1>r, <2>0, <2>1 DEF RowTaken
  <2> QED BY <2>8, <2>9
<1>3. CASE NextInMemory
  <2>0. primaryRow # 0 /\ mode = "memory" /\ res = "ok" BY <1>3 DEF NextInMemory, Running
  <2>1. /\ PrimaryLen' = PrimaryLen /\ SecondaryLen' = SecondaryLen
        /\ UNCHANGED <<nl, nr, matching, typ, mode, taken, secondary, passes, rows, disposed, lost>>
    BY <1>3, <1>s DEF NextInMemory
  <2>2. CASE /\ rowsPos >= Len(rows)
             /\ primaryRow' = 0 /\ rowsPos' = 0
             /\ joined' = OuterRow(primaryRow)
             /\ UNCHANGED <<foundMatch, res>>
    <3>1. joined' \in Seq((0..nl) \X (0..nr)) BY <2>2, OuterType
    <3>2. primaryRow' \in 0..PrimaryLen /\ rowsPos' \in 0..Len(rows) BY <1>l, <1>t, <2>2
    <3>3. JoinTypeOK' BY <1>t, <2>1, <2>2, <3>1, <3>2 DEF JoinTypeOK
    <3>4. RowTaken' BY <1>r, <2>0, <2>1, <2>2 DEF RowTaken
    <3> QED BY <3>3, <3>4
  <2>3. CASE rowsPos < Len(rows) /\ Joined(rows[rowsPos + 1]) /\ rowsPos' = rowsPos + 1 /\ primaryRow' = primaryRow
    <3>1. rowsPos + 1 \in 1..Len(rows) /\ rowsPos' \in 0..Len(rows) BY <1>t, <2>3
    <3>2. rows[rowsPos + 1] \in 1..SecondaryLen
      <4>1. rows \in Seq(1..SecondaryLen) BY <1>t
      <4> QED BY <3>1, <4>1, SeqValue
    <3>3. joined' \in Seq((0..nl) \X (0..nr)) /\ foundMatch' \in BOOLEAN /\ res' \in {"ok", "err"}
      BY <2>0, <2>3, <3>2, JoinedType
    <3>4. JoinTypeOK' BY <1>t, <2>1, <2>3, <3>1, <3>3 DEF JoinTypeOK
    <3>5. RowTaken' BY <1>r, <2>0, <2>1, <2>3 DEF RowTaken
    <3> QED BY <3>4, <3>5
  <2> QED BY <1>3, <2>2, <2>3 DEF NextInMemory
<1>4. CASE OpenSecondary
  <2>0. primaryRow # 0 /\ mode # "memory" /\ res = "ok" BY <1>4 DEF OpenSecondary, Running
  <2>1. /\ PrimaryLen' = PrimaryLen /\ SecondaryLen' = SecondaryLen
        /\ UNCHANGED <<nl, nr, matching, typ, mode, primaryRow, taken, foundMatch, rows, rowsPos, disposed,
                       lost, joined>>
    BY <1>4, <1>s DEF OpenSecondary
  <2>2. secondary' \in -1..SecondaryLen /\ passes' \in Nat /\ res' \in {"ok", "eof", "err"}
    BY <1>4, <1>l, <1>p, <1>t DEF OpenSecondary
  <2>3. JoinTypeOK' BY <1>t, <2>1, <2>2 DEF JoinTypeOK
  <2>4. RowTaken' BY <1>r, <2>0, <2>1 DEF RowTaken
  <2> QED BY <2>3, <2>4
<1>5. CASE EndOfPass
  <2>1. /\ PrimaryLen' = PrimaryLen /\ SecondaryLen' = SecondaryLen
        /\ UNCHANGED <<nl, nr, matching, typ, taken, foundMatch, passes, rows, rowsPos, disposed, lost, res>>
    BY <1>5, <1>s DEF EndOfPass
  <2>2. /\ secondary' = -1 /\ primaryRow' = 0 /\ joined' = OuterRow(primaryRow)
        /\ mode' \in {"unknown", "memory", "multipass"} /\ mode # "memory"
    BY <1>5, <1>t DEF EndOfPass
  <2>3. joined' \in Seq((0..nl) \X (0..nr)) BY <2>2, OuterType
  <2>4. secondary' \in -1..SecondaryLen /\ primaryRow' \in 0..PrimaryLen BY <1>l, <2>2
  <2>5. JoinTypeOK' BY <1>t, <2>1, <2>2, <2>3, <2>4 DEF JoinTypeOK
  <2>6. RowTaken' BY <1>r, <2>1, <2>2 DEF RowTaken
  <2> QED BY <2>5, <2>6
<1>6. CASE NextSecondary
  <2>0. /\ primaryRow # 0 /\ mode # "memory" /\ res = "ok" /\ secondary \in 0..(SecondaryLen - 1)
        /\ secondary' = secondary + 1 /\ Joined(secondary + 1)
    BY <1>6 DEF NextSecondary, Running
  <2>1. /\ PrimaryLen' = PrimaryLen /\ SecondaryLen' = SecondaryLen
        /\ UNCHANGED <<nl, nr, matching, typ, primaryRow, taken, passes, rowsPos>>
    BY <1>6, <1>s DEF NextSecondary
  <2>2. secondary + 1 \in 1..SecondaryLen /\ secondary' \in -1..SecondaryLen BY <1>l, <2>0
  <2>3. joined' \in Seq((0..nl) \X (0..nr)) /\ foundMatch' \in BOOLEAN /\ res' \in {"ok", "err"}
    BY <2>0, <2>2, JoinedType
  <2>4. rowsPos = 0 BY <1>r, <2>0
  <2>5. /\ rows' \in Seq(1..SecondaryLen) /\ mode' \in {"unknown", "multipass"}
        /\ disposed' \in BOOLEAN /\ lost' \in BOOLEAN
    <3>1. CASE rows' = rows /\ mode' = mode /\ disposed' = disposed /\ lost' \in BOOLEAN
      BY <1>t, <2>0, <3>1
    <3>2. CASE mode' = mode /\ disposed' = disposed /\ lost' = lost
               /\ rows' = Append(rows, secondary + 1)
      BY <1>t, <2>0, <2>2, <3>2
    <3>3. CASE rows' = <<>> /\ disposed' = TRUE /\ mode' = "multipass" /\ lost' = lost
      BY <1>t, <3>3
    <3> QED BY <1>6, <1>t, <3>1, <3>2, <3>3 DEF NextSecondary, KeepOrSwitch
  <2>6. rowsPos' \in 0..Len(rows') BY <2>1, <2>4, <2>5
  <2>7. JoinTypeOK' BY <1>t, <2>1, <2>2, <2>3, <2>5, <2>6 DEF JoinTypeOK
  <2>8. RowTaken' BY <1>r, <2>0, <2>1, <2>4, <2>5 DEF RowTaken
  <2> QED BY <2>7, <2>8
<1>7. CASE SecondaryFails
  <2>1. /\ PrimaryLen' = PrimaryLen /\ SecondaryLen' = SecondaryLen /\ res' = "err" /\ primaryRow # 0
        /\ UNCHANGED <<nl, nr, matching, typ, mode, primaryRow, taken, foundMatch, secondary, passes,
                       rows, rowsPos, disposed, lost, joined>>
    BY <1>7, <1>s DEF SecondaryFails
  <2>2. JoinTypeOK' BY <1>t, <2>1 DEF JoinTypeOK
  <2>3. RowTaken' BY <1>r, <2>1 DEF RowTaken
  <2> QED BY <2>2, <2>3
<1>8. CASE UNCHANGED joinVars
  <2>1. /\ PrimaryLen' = PrimaryLen /\ SecondaryLen' = SecondaryLen
        /\ UNCHANGED <<nl, nr, matching, typ, mode, primaryRow, taken, foundMatch, secondary, passes,
                       rows, rowsPos, disposed, lost, joined, res>>
    BY <1>8, <1>s DEF joinVars, input
  <2>2. JoinTypeOK' BY <1>t, <2>1 DEF JoinTypeOK
  <2>3. RowTaken' BY <1>r, <2>1 DEF RowTaken
  <2> QED BY <2>2, <2>3
<1> QED BY <1>1, <1>2, <1>3, <1>4, <1>5, <1>6, <1>7, <1>8 DEF JoinNext

-----------------------------------------------------------------------------
\* The rows that the comparisons have given after rows 1..t of the primary side, the
\* last of them with rows 1..n of the other side, or with all of them
PassedAt(r, t, all, n) == Primary(r) < t \/ (Primary(r) = t /\ (all \/ Secondary(r) \in 1..n))

\* The rows that the comparisons have given are the first ones of the join: a row
\* alone does not stand before a pair.
LEMMA FirstOnesFollow ==
  ASSUME JoinTypeOK, NEW t \in Nat, NEW all \in BOOLEAN, NEW n \in Nat, NEW R, R \subseteq JoinRows,
         \A r \in JoinRows : r \in R <=> PassedAt(r, t, all, n)
  PROVE  \A r \in JoinRows, q \in R : Precedes(r, q) => r \in R
<1> SUFFICES ASSUME NEW r \in JoinRows, NEW q \in R, Precedes(r, q) PROVE PassedAt(r, t, all, n)
  OBVIOUS
<1>1. q \in JoinRows /\ PassedAt(q, t, all, n) OBVIOUS
<1>2. PrimaryLen \in Nat /\ SecondaryLen \in Nat BY DEF JoinTypeOK, PrimaryLen, SecondaryLen
<1>3. /\ Primary(r) \in Nat /\ Secondary(r) \in Nat /\ Primary(q) \in Nat /\ Secondary(q) \in Nat
      /\ q = BuildRow(Primary(q), Secondary(q)) /\ Secondary(q) \in 0..SecondaryLen
  BY <1>1, <1>2, JoinRowsFacts
<1>4. CASE Primary(r) < Primary(q) BY <1>1, <1>3, <1>4 DEF PassedAt
<1>5. CASE Primary(r) = Primary(q) /\ Secondary(r) < Secondary(q)
  <2>1. Secondary(q) # 0 /\ Secondary(q) \in 1..SecondaryLen BY <1>2, <1>3, <1>5
  <2>2. q \in matching BY <1>1, <2>1, JoinRowsFacts
  <2>3. BuildRow(Primary(r), Secondary(q)) \in matching BY <1>3, <1>5, <2>2
  <2>4. Secondary(r) # 0 BY <2>1, <2>3, JoinRowsFacts
  <2> QED BY <1>1, <1>3, <1>5, <2>4 DEF PassedAt
<1> QED BY <1>4, <1>5 DEF Precedes

\* A step that returns no row
LEMMA SameOut ==
  ASSUME UNCHANGED input, joined' = joined
  PROVE  Returned' = Returned /\ (InOrder => InOrder') /\ (FirstOnes => FirstOnes')
<1>1. Returned' = Returned BY DEF Returned
<1>2. InOrder => InOrder' BY SameJoin DEF InOrder
<1>3. FirstOnes => FirstOnes' BY <1>1, SameJoin DEF FirstOnes
<1> QED BY <1>1, <1>2, <1>3

\* A row that comes after all that were returned
LEMMA RowReturned ==
  ASSUME JoinTypeOK, UNCHANGED input, InOrder, NEW r, joined' = Append(joined, r),
         \A q \in Returned : Precedes(q, r)
  PROVE  Returned' = Returned \cup {r} /\ InOrder'
<1> DEFINE n == Len(joined)
<1>1. joined \in Seq((0..nl) \X (0..nr)) BY DEF JoinTypeOK
<1>2. /\ n \in Nat /\ DOMAIN joined = 1..n /\ DOMAIN joined' = 1..(n + 1) /\ joined'[n + 1] = r
      /\ \A i \in 1..n : joined'[i] = joined[i]
  BY <1>1
<1> HIDE DEF n
<1>3. 1..(n + 1) = (1..n) \cup {n + 1} BY <1>2
<1>4. Returned' = Returned \cup {r} BY <1>2, <1>3 DEF Returned
<1>5. ASSUME NEW i \in 1..(n + 1), NEW j \in 1..(n + 1), i < j PROVE Precedes(joined'[i], joined'[j])
  <2>1. i \in 1..n BY <1>2, <1>5
  <2>2. CASE j = n + 1 BY <1>2, <2>1, <2>2 DEF Returned
  <2>3. CASE j \in 1..n BY <1>2, <1>5, <2>1, <2>3 DEF InOrder
  <2> QED BY <1>3, <2>2, <2>3
<1>6. InOrder' BY <1>2, <1>5, SameJoin DEF InOrder
<1> QED BY <1>4, <1>6

\* Next when loadSecondary has given the next row of the secondary side
LEMMA RowCompared ==
  ASSUME JoinTypeOK, RowTaken, InOrder, FirstOnes, Returns, Found, primaryRow # 0,
         NEW s \in 1..SecondaryLen, Seen \in Nat, s = Seen + 1, Joined(s),
         UNCHANGED <<taken, primaryRow>>, UNCHANGED input, Seen' = s
  PROVE  InOrder' /\ FirstOnes' /\ (res' # "err" => Returns' /\ Found')
<1> DEFINE r0 == BuildRow(primaryRow, s)
<1>1. /\ primaryRow = taken /\ taken \in Nat /\ taken \in 1..PrimaryLen /\ foundMatch \in BOOLEAN
      /\ SecondaryLen \in Nat
  BY DEF JoinTypeOK, RowTaken, PrimaryLen, SecondaryLen
<1>2. Primary(r0) = taken /\ Secondary(r0) = s BY <1>1, BuildFacts
<1>3. r0 \in JoinRows <=> r0 \in matching BY <1>1, MatchJoins
<1>4. \A r \in JoinRows : Passed(r) <=> PassedAt(r, taken, FALSE, Seen) BY <1>1 DEF Passed, PassedAt
<1>5. \A r \in JoinRows : Passed(r)' <=> PassedAt(r, taken, FALSE, s)
  BY <1>1, SameJoin DEF Passed, PassedAt
<1>6. ASSUME NEW r \in JoinRows
      PROVE  PassedAt(r, taken, FALSE, s) <=> PassedAt(r, taken, FALSE, Seen) \/ r = r0
  <2>1. r = BuildRow(Primary(r), Secondary(r)) /\ Secondary(r) \in 0..SecondaryLen BY JoinRowsFacts
  <2>2. Secondary(r) \in Nat BY <1>1, <2>1
  <2>3. Secondary(r) \in 1..s <=> Secondary(r) \in 1..Seen \/ Secondary(r) = s BY <2>2
  <2>4. Primary(r) = taken /\ Secondary(r) = s <=> r = r0 BY <1>1, <1>2, <2>1
  <2> QED BY <2>3, <2>4 DEF PassedAt
<1>7. Returned \subseteq JoinRows BY DEF FirstOnes
<1>8. CASE r0 \in matching /\ foundMatch' = TRUE /\ joined' = Append(joined, r0) /\ res' = res
  <2>1. ASSUME NEW q \in Returned PROVE Precedes(q, r0)
    <3>1. q \in JoinRows /\ PassedAt(q, taken, FALSE, Seen) BY <1>4, <1>7 DEF Returns
    <3>2. Primary(q) < taken \/ (Primary(q) = taken /\ Secondary(q) < s) BY <3>1 DEF PassedAt
    <3> HIDE DEF r0
    <3> QED BY <1>2, <3>2 DEF Precedes
  <2>2. Returned' = Returned \cup {r0} /\ InOrder' BY <1>8, <2>1, RowReturned
  <2> HIDE DEF r0
  <2>3. \A r \in JoinRows : r \in Returned' <=> PassedAt(r, taken, FALSE, s)
    BY <1>3, <1>4, <1>6, <1>8, <2>2 DEF Returns
  <2>4. Returned' \subseteq JoinRows BY <1>3, <1>7, <1>8, <2>2
  <2>5. \A r \in JoinRows, q \in Returned' : Precedes(r, q) => r \in Returned'
    <3>1. s \in Nat OBVIOUS
    <3> QED BY <1>1, <2>3, <2>4, <3>1, FirstOnesFollow
  <2>6. FirstOnes' BY <2>4, <2>5, SameJoin DEF FirstOnes
  <2>7. Returns' BY <1>5, <2>3, SameJoin DEF Returns
  <2>8. Found'
    <3>1. s \in 1..s OBVIOUS
    <3>2. BuildRow(primaryRow, s)' \in matching' BY <1>8, SameJoin DEF input, r0
    <3> QED BY <1>8, <3>1, <3>2 DEF Found
  <2> QED BY <2>2, <2>6, <2>7, <2>8
<1>9. CASE foundMatch' = foundMatch /\ joined' = joined /\ res' = "err" BY <1>9, SameOut
<1>10. CASE r0 \notin matching /\ foundMatch' = foundMatch /\ joined' = joined
  <2>1. Returned' = Returned /\ InOrder' /\ FirstOnes' BY <1>10, SameOut
  <2>2. Returns'
    <3> HIDE DEF r0
    <3>1. \A r \in JoinRows : r \in Returned <=> PassedAt(r, taken, FALSE, Seen) BY <1>4 DEF Returns
    <3>2. \A r \in JoinRows : r # r0 BY <1>3, <1>10
    <3>3. \A r \in JoinRows : r \in Returned' <=> PassedAt(r, taken, FALSE, s)
      BY <1>6, <2>1, <3>1, <3>2
    <3> QED BY <1>5, <3>3, SameJoin DEF Returns
  <2>3. Found'
    <3>1. \A k \in 1..s : k \in 1..Seen \/ k = s OBVIOUS
    <3>2. \A k \in 1..Seen : k \in 1..s OBVIOUS
    <3>3. (\E k \in 1..s : BuildRow(primaryRow, k) \in matching)
            <=> \E k \in 1..Seen : BuildRow(primaryRow, k) \in matching
      BY <1>10, <3>1, <3>2
    <3>4. foundMatch = \E k \in 1..Seen : BuildRow(primaryRow, k) \in matching BY DEF Found
    <3>5. foundMatch' = \E k \in 1..s : BuildRow(primaryRow, k) \in matching BY <1>10, <3>3, <3>4
    <3>6. matching' = matching /\ \A k : BuildRow(primaryRow, k)' = BuildRow(primaryRow, k)
      BY SameJoin DEF input, BuildRow
    <3> QED BY <3>5, <3>6 DEF Found
  <2> QED BY <2>1, <2>2, <2>3
<1> QED BY <1>8, <1>9, <1>10 DEF Joined

\* Next when loadSecondary has come to the end of the secondary side
LEMMA RowEnded ==
  ASSUME JoinTypeOK, RowTaken, InOrder, FirstOnes, Returns, Found, primaryRow # 0,
         Seen = SecondaryLen, joined' = OuterRow(primaryRow),
         taken' = taken, primaryRow' = 0, UNCHANGED input
  PROVE  InOrder' /\ FirstOnes' /\ Returns'
<1> DEFINE r0 == BuildRow(primaryRow, 0)
<1>1. /\ primaryRow = taken /\ taken \in Nat /\ taken \in 1..PrimaryLen /\ foundMatch \in BOOLEAN
      /\ SecondaryLen \in Nat
  BY DEF JoinTypeOK, RowTaken, PrimaryLen, SecondaryLen
<1>2. Primary(r0) = taken /\ Secondary(r0) = 0 BY <1>1, BuildFacts
<1>3. r0 \in JoinRows <=> typ # "inner" /\ ~foundMatch
  <2>1. r0 \in JoinRows <=>
          typ # "inner" /\ \A s \in 1..SecondaryLen : BuildRow(primaryRow, s) \notin matching
    BY <1>1, MatchJoins
  <2> QED BY <2>1 DEF Found
<1>4. \A r \in JoinRows : Passed(r) <=> PassedAt(r, taken, FALSE, SecondaryLen)
  BY <1>1 DEF Passed, PassedAt
<1>5. \A r \in JoinRows : Passed(r)' <=> PassedAt(r, taken, TRUE, 0)
  BY SameJoin DEF Passed, PassedAt
<1>6. ASSUME NEW r \in JoinRows
      PROVE  PassedAt(r, taken, TRUE, 0) <=> PassedAt(r, taken, FALSE, SecondaryLen) \/ r = r0
  <2>1. r = BuildRow(Primary(r), Secondary(r)) /\ Secondary(r) \in 0..SecondaryLen BY JoinRowsFacts
  <2>2. Secondary(r) \in 1..SecondaryLen \/ Secondary(r) = 0 BY <1>1, <2>1
  <2>3. Primary(r) = taken /\ Secondary(r) = 0 <=> r = r0 BY <1>1, <1>2, <2>1
  <2> QED BY <2>2, <2>3 DEF PassedAt
<1>7. Returned \subseteq JoinRows BY DEF FirstOnes
<1>8. CASE ~foundMatch /\ typ # "inner"
  <2>1. ASSUME NEW q \in Returned PROVE Precedes(q, r0)
    <3>1. q \in JoinRows /\ PassedAt(q, taken, FALSE, SecondaryLen) BY <1>4, <1>7 DEF Returns
    <3>2. q = BuildRow(Primary(q), Secondary(q)) /\ (Secondary(q) # 0 => q \in matching)
      BY <3>1, JoinRowsFacts
    <3>3. ~(Primary(q) = taken /\ Secondary(q) \in 1..SecondaryLen)
      <4> SUFFICES ASSUME Primary(q) = taken, Secondary(q) \in 1..SecondaryLen PROVE FALSE OBVIOUS
      <4>1. BuildRow(primaryRow, Secondary(q)) \in matching BY <1>1, <3>2
      <4> QED BY <1>8, <4>1 DEF Found
    <3>4. Primary(q) < taken BY <3>1, <3>3 DEF PassedAt
    <3> HIDE DEF r0
    <3> QED BY <1>2, <3>4 DEF Precedes
  <2>2. joined' = Append(joined, r0) BY <1>8 DEF OuterRow
  <2>3. Returned' = Returned \cup {r0} /\ InOrder' BY <2>1, <2>2, RowReturned
  <2> HIDE DEF r0
  <2>4. \A r \in JoinRows : r \in Returned' <=> PassedAt(r, taken, TRUE, 0)
    BY <1>3, <1>4, <1>6, <1>8, <2>3 DEF Returns
  <2>5. Returned' \subseteq JoinRows BY <1>3, <1>7, <1>8, <2>3
  <2>6. \A r \in JoinRows, q \in Returned' : Precedes(r, q) => r \in Returned'
    BY <1>1, <2>4, <2>5, FirstOnesFollow
  <2>7. FirstOnes' BY <2>5, <2>6, SameJoin DEF FirstOnes
  <2>8. Returns' BY <1>5, <2>4, SameJoin DEF Returns
  <2> QED BY <2>3, <2>7, <2>8
<1>9. CASE ~(~foundMatch /\ typ # "inner")
  <2>1. joined' = joined BY <1>9 DEF OuterRow
  <2>2. Returned' = Returned /\ InOrder' /\ FirstOnes' BY <2>1, SameOut
  <2>3. Returns'
    <3> HIDE DEF r0
    <3>1. \A r \in JoinRows : r \in Returned <=> PassedAt(r, taken, FALSE, SecondaryLen)
      BY <1>4 DEF Returns
    <3>2. \A r \in JoinRows : r # r0 BY <1>1, <1>3, <1>9
    <3>3. \A r \in JoinRows : r \in Returned' <=> PassedAt(r, taken, TRUE, 0)
      BY <1>6, <2>2, <3>1, <3>2
    <3> QED BY <1>5, <3>3, SameJoin DEF Returns
  <2> QED BY <2>2, <2>3
<1> QED BY <1>8, <1>9

\* A step that returns nothing and compares nothing
LEMMA NothingCompared ==
  ASSUME UNCHANGED input, joined' = joined, Returns, \A r \in JoinRows : Passed(r)' <=> Passed(r)
  PROVE  Returns'
<1>1. Returned' = Returned BY SameOut
<1>2. JoinRows' = JoinRows BY SameJoin
<1> QED BY <1>1, <1>2 DEF Returns

\* Every step keeps the invariant.
LEMMA JoinStep ==
  ASSUME JoinTypeOK, JoinTypeOK', RowTaken', JoinInv, [JoinNext]_joinVars
  PROVE  JoinInv'
<1> USE DEF JoinIsCorrect
<1>t. /\ mode \in {"unknown", "memory", "multipass"}
      /\ primaryRow \in Nat /\ taken \in Nat /\ PrimaryLen \in Nat /\ SecondaryLen \in Nat
      /\ taken <= PrimaryLen
      /\ foundMatch \in BOOLEAN /\ lost \in BOOLEAN /\ lost' \in BOOLEAN
      /\ secondary \in -1..SecondaryLen /\ passes \in Nat
      /\ rows \in Seq(1..SecondaryLen) /\ rowsPos \in 0..Len(rows) /\ Len(rows) \in Nat /\ rowsPos \in Nat
      /\ res \in {"ok", "eof", "err"}
  <2>1. PrimaryLen \in Nat /\ SecondaryLen \in Nat BY DEF JoinTypeOK, PrimaryLen, SecondaryLen
  <2> QED BY <2>1 DEF JoinTypeOK
<1>r. /\ primaryRow \in {0, taken} /\ (mode # "memory" => rowsPos = 0)
      /\ primaryRow = 0 => rowsPos = 0 /\ (res = "ok" => secondary = -1)
      /\ mode = "memory" => secondary = -1
  BY DEF JoinInv, RowTaken
<1>n. Seen \in Nat BY <1>t DEF Seen
<1>c. CASE UNCHANGED joinVars
  <2>1. /\ UNCHANGED input
        /\ UNCHANGED <<nl, nr, matching, typ, mode, primaryRow, taken, foundMatch, secondary, passes,
                       rows, rowsPos, disposed, lost, joined, res>>
    BY <1>c DEF joinVars, input
  <2>2. Sound' => Sound BY <2>1, SameJoin DEF Sound
  <2>3. Seen' = Seen BY <2>1 DEF Seen
  <2>4. InOrder /\ FirstOnes /\ AllOnes /\ PassesBounded
          => InOrder' /\ FirstOnes' /\ AllOnes' /\ PassesBounded'
    BY <2>1, SameOut, SameJoin DEF AllOnes, PassesBounded
  <2>5. Cached => Cached' BY <2>1, <2>3, SameJoin DEF Cached
  <2>6. Begun => Begun' BY <2>1 DEF Begun
  <2>7. Returns => Returns'
    <3>1. \A r \in JoinRows : Passed(r)' <=> Passed(r) BY <2>1, <2>3, SameJoin DEF Passed
    <3> QED BY <2>1, <3>1, NothingCompared
  <2>8. Found => Found' BY <2>1, <2>3, SameJoin DEF Found
  <2> QED BY <2>1, <2>2, <2>4, <2>5, <2>6, <2>7, <2>8 DEF JoinInv
<1> SUFFICES ASSUME JoinNext, Sound'
             PROVE  /\ InOrder' /\ FirstOnes' /\ AllOnes' /\ PassesBounded'
                    /\ res' = "ok" => Cached' /\ Begun' /\ Returns' /\ Found'
  BY <1>c DEF JoinInv
<1>i. UNCHANGED input
  BY DEF JoinNext, loadPrimary, LoadInMemory, NextInMemory, OpenSecondary, EndOfPass, NextSecondary,
         SecondaryFails
<1>s. lost' = lost \/ lost' = TRUE
  BY DEF JoinNext, loadPrimary, LoadInMemory, NextInMemory, OpenSecondary, EndOfPass, NextSecondary,
         SecondaryFails, KeepOrSwitch
<1>o. res = "ok"
  BY DEF JoinNext, loadPrimary, LoadInMemory, NextInMemory, OpenSecondary, EndOfPass, NextSecondary,
         SecondaryFails, Running
<1>j. /\ PrimaryLen' = PrimaryLen /\ SecondaryLen' = SecondaryLen /\ JoinRows' = JoinRows
      /\ matching' = matching
  BY <1>i, SameJoin DEF input
<1>b. Sound /\ SecondaryLen > 0 /\ ~lost' /\ ~lost BY <1>s, <1>j, <1>t DEF Sound
<1>v. /\ InOrder /\ FirstOnes /\ PassesBounded /\ Cached /\ Begun /\ Returns /\ Found
  BY <1>b, <1>o DEF JoinInv
<1>p. Pass => passes' \in Nat /\ passes' <= passes + 1 BY <1>t DEF Pass
<1>k. ASSUME joined' = joined, PassesBounded', res' = "err"
      PROVE  /\ InOrder' /\ FirstOnes' /\ AllOnes' /\ PassesBounded'
             /\ res' = "ok" => Cached' /\ Begun' /\ Returns' /\ Found'
  BY <1>i, <1>k, <1>v, SameOut DEF AllOnes
<1>q. joined' = joined => InOrder' /\ FirstOnes' BY <1>i, <1>v, SameOut
<1>a. res' = "ok" => AllOnes' BY DEF AllOnes
<1>1. CASE loadPrimary
  <2>0. primaryRow = 0 /\ rowsPos = 0 /\ secondary = -1 BY <1>1, <1>r, <1>o DEF loadPrimary
  <2>1. UNCHANGED <<mode, secondary, passes, rowsPos, lost, joined>> BY <1>1 DEF loadPrimary
  <2>2. CASE /\ taken < PrimaryLen
             /\ taken' = taken + 1 /\ primaryRow' = taken + 1
             /\ foundMatch' = FALSE
             /\ UNCHANGED <<disposed, rows, res>>
    <3>1. Seen = 0 /\ Seen' = 0 BY <2>0, <2>1 DEF Seen
    <3>2. PassesBounded' BY <1>t, <1>v, <2>1, <2>2 DEF PassesBounded
    <3>3. Cached' BY <1>t, <1>v, <1>j, <2>0, <2>1, <2>2, <3>1 DEF Cached
    <3>4. Begun' BY <1>t, <1>v, <2>1, <2>2 DEF Begun, PassesBounded
    <3>5. ASSUME NEW r \in JoinRows PROVE Passed(r)' <=> Passed(r)
      <4>1. Primary(r) \in Nat /\ Primary(r)' = Primary(r) /\ Secondary(r)' = Secondary(r)
        BY <1>i, <1>t, JoinRowsFacts, SameJoin
      <4>2. Passed(r) <=> Primary(r) < taken \/ Primary(r) = taken BY <2>0 DEF Passed
      <4>3. primaryRow' # 0 BY <1>t, <2>2
      <4>4. Passed(r)' <=> Primary(r) < taken + 1 BY <2>2, <3>1, <4>1, <4>3 DEF Passed
      <4> QED BY <1>t, <4>1, <4>2, <4>4
    <3>6. Returns' BY <1>i, <1>v, <2>1, <3>5, NothingCompared
    <3>7. Found'
      <4>1. 1..Seen' = {} BY <3>1
      <4>2. foundMatch' = \E s \in 1..Seen' : BuildRow(primaryRow, s)' \in matching' BY <2>2, <4>1
      <4> QED BY <4>2 DEF Found
    <3>8. res' = "ok" BY <1>o, <2>2
    <3> QED BY <1>a, <1>q, <2>1, <3>2, <3>3, <3>4, <3>6, <3>7, <3>8
  <2>3. CASE /\ taken = PrimaryLen
             /\ disposed' = TRUE /\ rows' = <<>> /\ res' = "eof"
             /\ UNCHANGED <<taken, primaryRow, foundMatch>>
    <3>1. PassesBounded' BY <1>v, <2>1, <2>3 DEF PassesBounded
    <3>2. ASSUME NEW r \in JoinRows PROVE Passed(r)
      <4>1. Primary(r) \in 1..PrimaryLen BY JoinRowsFacts
      <4> QED BY <1>t, <2>0, <2>3, <4>1 DEF Passed
    <3>3. Returned = JoinRows BY <1>v, <3>2 DEF Returns, FirstOnes
    <3>4. AllOnes' BY <1>i, <1>j, <2>1, <3>3, SameOut DEF AllOnes
    <3> QED BY <1>q, <2>1, <2>3, <3>1, <3>4
  <2>4. CASE res' = "err" /\ UNCHANGED <<taken, primaryRow, foundMatch, disposed, rows>>
    BY <1>k, <1>v, <2>1, <2>4 DEF PassesBounded
  <2> QED BY <1>1, <2>2, <2>3, <2>4 DEF loadPrimary
<1>2. CASE LoadInMemory
  <2>0. primaryRow # 0 /\ mode = "memory" /\ rows = <<>> /\ Pass BY <1>2 DEF LoadInMemory
  <2>1. UNCHANGED <<mode, primaryRow, taken, foundMatch, secondary, rowsPos, disposed, lost>>
    BY <1>2 DEF LoadInMemory
  <2>2. passes = 0 BY <1>v, <2>0 DEF Cached
  <2>3. PassesBounded' BY <1>p, <1>t, <2>0, <2>1, <2>2 DEF PassesBounded
  <2>4. CASE rows' = [s \in 1..SecondaryLen |-> s] /\ joined' = joined /\ res' = res
    <3>1. /\ Len(rows') = SecondaryLen /\ DOMAIN rows' = 1..SecondaryLen
          /\ \A i \in DOMAIN rows' : rows'[i] = i
      BY <1>t, <2>4
    <3>2. Cached'
      <4>1. rows' # <<>> BY <1>b, <1>t, <3>1
      <4> QED BY <1>j, <2>0, <2>1, <3>1, <4>1 DEF Cached
    <3>3. Begun' BY <2>0, <2>1 DEF Begun
    <3>4. Seen' = Seen BY <2>1 DEF Seen
    <3>5. \A r \in JoinRows : Passed(r)' <=> Passed(r) BY <1>i, <2>1, <3>4, SameJoin DEF Passed
    <3>6. Returns' BY <1>i, <1>v, <2>4, <3>5, NothingCompared
    <3>7. Found' BY <1>i, <1>j, <1>v, <2>1, <3>4, SameJoin DEF Found
    <3> QED BY <1>a, <1>o, <1>q, <2>3, <2>4, <3>2, <3>3, <3>6, <3>7
  <2>5. CASE res' = "err" /\ joined' = joined BY <1>k, <2>3, <2>5
  <2>6. SecondaryLen # 0 BY <1>b, <1>t
  <2> QED BY <1>2, <2>4, <2>5, <2>6 DEF LoadInMemory
<1>3. CASE NextInMemory
  <2>0. primaryRow # 0 /\ mode = "memory" /\ rows # <<>> /\ secondary = -1
    BY <1>3, <1>r DEF NextInMemory
  <2>1. UNCHANGED <<mode, taken, secondary, passes, rows, disposed, lost>> BY <1>3 DEF NextInMemory
  <2>2. Len(rows) = SecondaryLen /\ Seen = rowsPos /\ \A i \in DOMAIN rows : rows[i] = i
    BY <1>v, <2>0 DEF Cached, Seen
  <2>3. PassesBounded' BY <1>v, <2>1 DEF PassesBounded
  <2>4. Cached' BY <1>j, <1>v, <2>0, <2>1 DEF Cached
  <2>5. Begun' BY <2>0, <2>1 DEF Begun
  <2>6. CASE /\ rowsPos >= Len(rows)
             /\ primaryRow' = 0 /\ rowsPos' = 0
             /\ joined' = OuterRow(primaryRow)
             /\ UNCHANGED <<foundMatch, res>>
    <3>1. Seen = SecondaryLen BY <1>t, <2>2, <2>6
    <3>2. RowTaken BY DEF JoinInv
    <3>3. InOrder' /\ FirstOnes' /\ Returns' BY <1>i, <1>v, <2>0, <2>1, <2>6, <3>1, <3>2, RowEnded
    <3>4. Found' BY <2>6 DEF Found
    <3> QED BY <1>a, <1>o, <2>3, <2>4, <2>5, <2>6, <3>3, <3>4
  <2>7. CASE rowsPos < Len(rows) /\ Joined(rows[rowsPos + 1]) /\ rowsPos' = rowsPos + 1 /\ primaryRow' = primaryRow
    <3>1. rowsPos + 1 \in 1..Len(rows) /\ rowsPos + 1 \in 1..SecondaryLen BY <1>t, <2>2, <2>7
    <3>2. rows[rowsPos + 1] = rowsPos + 1
      <4>1. DOMAIN rows = 1..Len(rows) BY <1>t
      <4> QED BY <2>2, <3>1, <4>1
    <3>3. Joined(rowsPos + 1) BY <2>7, <3>2
    <3>4. Seen' = rowsPos + 1 BY <2>0, <2>1, <2>7 DEF Seen
    <3>5. RowTaken BY DEF JoinInv
    <3>6. InOrder' /\ FirstOnes' /\ (res' # "err" => Returns' /\ Found')
      BY <1>i, <1>n, <1>v, <2>0, <2>1, <2>2, <2>7, <3>1, <3>3, <3>4, <3>5, RowCompared
    <3>7. res' \in {"ok", "err"} BY <1>o, <3>3 DEF Joined
    <3>8. AllOnes' BY <3>7 DEF AllOnes
    <3> QED BY <2>3, <2>4, <2>5, <3>6, <3>8
  <2> QED BY <1>3, <2>6, <2>7 DEF NextInMemory
<1>4. CASE OpenSecondary
  <2>0. primaryRow # 0 /\ mode # "memory" /\ secondary = -1 BY <1>4 DEF OpenSecondary
  <2>1. UNCHANGED <<mode, primaryRow, taken, foundMatch, rows, rowsPos, disposed, lost, joined>>
    BY <1>4 DEF OpenSecondary
  <2>2. CASE secondary' = 0 /\ Pass /\ UNCHANGED res
    <3>1. Seen = 0 /\ Seen' = 0 BY <2>0, <2>1, <2>2 DEF Seen
    <3>2. PassesBounded'
      <4>1. CASE mode = "unknown"
        <5>1. passes = 0 BY <1>v, <2>0, <4>1 DEF Cached
        <5> QED BY <1>p, <2>1, <2>2, <4>1, <5>1 DEF PassesBounded
      <4>2. CASE mode = "multipass"
        <5>1. passes < taken BY <1>v, <2>0, <4>2 DEF Begun
        <5> QED BY <1>p, <1>t, <2>1, <2>2, <4>2, <5>1 DEF PassesBounded
      <4> QED BY <1>t, <2>0, <4>1, <4>2
    <3>3. Cached' BY <1>j, <1>v, <2>0, <2>1, <2>2, <3>1 DEF Cached
    <3>4. Begun' BY <2>2 DEF Begun
    <3>5. \A r \in JoinRows : Passed(r)' <=> Passed(r)
      BY <1>i, <2>1, <3>1, SameJoin DEF Passed
    <3>6. Returns' BY <1>i, <1>v, <2>1, <3>5, NothingCompared
    <3>7. Found' BY <1>i, <1>j, <1>v, <2>1, <3>1, SameJoin DEF Found
    <3> QED BY <1>a, <1>o, <1>q, <2>1, <2>2, <3>2, <3>3, <3>4, <3>6, <3>7
  <2>3. CASE res' = "err" /\ UNCHANGED <<secondary, passes>>
    BY <1>k, <1>v, <2>1, <2>3 DEF PassesBounded
  <2> QED BY <1>4, <2>2, <2>3 DEF OpenSecondary
<1>5. CASE EndOfPass
  <2>0. primaryRow # 0 /\ mode # "memory" /\ secondary = SecondaryLen BY <1>5 DEF EndOfPass
  <2>1. /\ UNCHANGED <<taken, foundMatch, passes, rows, rowsPos, disposed, lost, res>>
        /\ secondary' = -1 /\ primaryRow' = 0
        /\ mode' = (IF mode = "unknown" THEN "memory" ELSE mode)
        /\ joined' = OuterRow(primaryRow)
    BY <1>5 DEF EndOfPass
  <2>2. Seen = SecondaryLen BY <1>t, <2>0 DEF Seen
  <2>3. RowTaken BY DEF JoinInv
  <2>4. InOrder' /\ FirstOnes' /\ Returns' BY <1>i, <1>v, <2>0, <2>1, <2>2, <2>3, RowEnded
  <2>5. Found' BY <2>1 DEF Found
  <2>6. Begun' BY <2>1 DEF Begun
  <2>7. PassesBounded' BY <1>t, <1>v, <2>0, <2>1 DEF PassesBounded
  <2>8. Cached'
    <3>1. CASE mode = "unknown"
      <4>1. Len(rows) = SecondaryLen BY <1>v, <2>2, <3>1 DEF Cached
      <4>2. rows # <<>> BY <1>b, <1>t, <4>1
      <4> QED BY <1>j, <1>v, <2>1, <3>1, <4>1, <4>2 DEF Cached
    <3>2. CASE mode = "multipass" BY <1>v, <2>1, <3>2 DEF Cached
    <3> QED BY <1>t, <2>0, <3>1, <3>2
  <2> QED BY <1>a, <1>o, <2>1, <2>4, <2>5, <2>6, <2>7, <2>8
<1>6. CASE NextSecondary
  <2>0. /\ primaryRow # 0 /\ mode # "memory" /\ secondary \in 0..(SecondaryLen - 1)
        /\ secondary' = secondary + 1 /\ Joined(secondary + 1)
        /\ UNCHANGED <<primaryRow, taken, passes, rowsPos>>
    BY <1>6 DEF NextSecondary
  <2>1. secondary + 1 \in 1..SecondaryLen /\ secondary # -1 /\ secondary' # -1 BY <1>t, <2>0
  <2>2. Seen = secondary BY <2>0, <2>1 DEF Seen
  <2>3. \/ mode' = mode /\ mode = "unknown" /\ rows' = Append(rows, secondary + 1)
        \/ mode' = "multipass" /\ mode = "unknown" /\ rows' = <<>>
        \/ mode' = mode /\ mode = "multipass" /\ rows' = rows
    BY <1>6, <1>b, <1>t, <2>0 DEF NextSecondary, KeepOrSwitch
  <2>4. mode' # "memory" BY <2>3
  <2>5. Seen' = secondary + 1 BY <2>0, <2>1, <2>4 DEF Seen
  <2>6. RowTaken BY DEF JoinInv
  <2>7. InOrder' /\ FirstOnes' /\ (res' # "err" => Returns' /\ Found')
    BY <1>i, <1>n, <1>v, <2>0, <2>1, <2>2, <2>5, <2>6, RowCompared
  <2>8. res' \in {"ok", "err"} BY <1>o, <2>0 DEF Joined
  <2>9. AllOnes' BY <2>8 DEF AllOnes
  <2>10. PassesBounded'
    <3>1. taken >= 1 BY <1>r, <1>t, <2>0
    <3> QED BY <1>t, <1>v, <2>0, <2>3, <3>1 DEF PassesBounded
  <2>11. Begun' BY <2>1 DEF Begun
  <2>12. Cached'
    <3>1. CASE mode' = mode /\ mode = "unknown" /\ rows' = Append(rows, secondary + 1)
      <4>1. Len(rows) = secondary /\ taken <= 1 /\ \A i \in DOMAIN rows : rows[i] = i
        BY <1>v, <2>2, <3>1 DEF Cached
      <4>2. /\ Len(rows') = Len(rows) + 1 /\ DOMAIN rows = 1..Len(rows)
            /\ DOMAIN rows' = 1..(Len(rows) + 1)
            /\ rows'[Len(rows) + 1] = secondary + 1 /\ \A i \in 1..Len(rows) : rows'[i] = rows[i]
        BY <1>t, <3>1
      <4>3. \A i \in DOMAIN rows' : rows'[i] = i BY <1>t, <4>1, <4>2
      <4> QED BY <2>0, <2>1, <2>5, <3>1, <4>1, <4>2, <4>3 DEF Cached
    <3>2. CASE mode' = "multipass" /\ rows' = <<>> BY <3>2 DEF Cached
    <3>3. CASE mode' = "multipass" /\ rows' = rows BY <1>v, <3>3 DEF Cached
    <3> QED BY <2>3, <3>1, <3>2, <3>3
  <2> QED BY <2>7, <2>9, <2>10, <2>11, <2>12
<1>7. CASE SecondaryFails
  <2>1. res' = "err" /\ UNCHANGED <<mode, passes, taken, joined>> BY <1>7 DEF SecondaryFails
  <2> QED BY <1>k, <1>v, <2>1 DEF PassesBounded
<1> QED BY <1>1, <1>2, <1>3, <1>4, <1>5, <1>6, <1>7 DEF JoinNext

\* Before the first call
LEMMA JoinInitInv ==
  ASSUME MaxLeft \in Nat, MaxRight \in Nat, JoinInit
  PROVE  JoinInv
<1>1. JoinTypeOK /\ RowTaken BY JoinInitType
<1>2. /\ primaryRow = 0 /\ taken = 0 /\ secondary = -1 /\ passes = 0 /\ rows = <<>> /\ rowsPos = 0
      /\ joined = <<>> /\ res = "ok" /\ mode \in {"unknown", "memory"}
  BY DEF JoinInit
<1>3. Returned = {} /\ InOrder BY <1>2 DEF Returned, InOrder
<1>4. Seen = 0 BY <1>2 DEF Seen
<1>5. ASSUME NEW r \in JoinRows PROVE ~Passed(r)
  <2>1. Primary(r) \in 1..PrimaryLen /\ PrimaryLen \in Nat BY <1>1, JoinRowsFacts DEF JoinTypeOK, PrimaryLen
  <2> QED BY <1>2, <2>1 DEF Passed
<1>6. Returns BY <1>3, <1>5 DEF Returns
<1>7. FirstOnes /\ AllOnes /\ PassesBounded BY <1>2, <1>3 DEF FirstOnes, AllOnes, PassesBounded
<1>8. Cached BY <1>2, <1>4 DEF Cached
<1>9. Begun /\ Found BY <1>2 DEF Begun, Found
<1> QED BY <1>1, <1>3, <1>6, <1>7, <1>8, <1>9 DEF JoinInv, JoinIsCorrect

\* Whatever the two sides, the condition and the type of the join are, and whatever
\* memory does while joinIter.Next decides where to keep the secondary side: the rows
\* that Next has returned are the first ones of the join, in order, io.EOF comes after
\* the last, and the secondary side is read once, or in multipass mode at most once for
\* each primary row; except where the secondary side is empty or a row was lost.
THEOREM JoinsCorrect ==
  ASSUME MaxLeft \in Nat, MaxRight \in Nat
  PROVE  JoinSpec => [](JoinTypeOK /\ JoinIsCorrect)
<1>1. JoinInit => JoinTypeOK /\ JoinInv BY JoinInitType, JoinInitInv
<1>2. JoinTypeOK /\ JoinInv /\ [JoinNext]_joinVars => (JoinTypeOK /\ JoinInv)'
  <2>1. JoinInv => RowTaken BY DEF JoinInv
  <2> QED BY <2>1, JoinTypeStep, JoinStep
<1>3. JoinInv => JoinIsCorrect BY DEF JoinInv
<1> QED BY <1>1, <1>2, <1>3, PTL DEF JoinSpec
=============================================================================
