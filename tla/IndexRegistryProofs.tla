------------------------ MODULE IndexRegistryProofs ------------------------
(***************************************************************************)
(* Proofs about the index registry, for any clients, databases, ids and    *)
(* expressions, any indexes on disk and any number of statements.          *)
(***************************************************************************)
EXTENDS IndexRegistry, ListLemmas

-----------------------------------------------------------------------------
(* What a step does to the client that takes it *)

\* The others stay where they are and client p is there, with these values.
Moves(p, pc, key, obj, cont, used, pos) ==
  /\ th' \in [Clients -> Threads] /\ \A q \in Clients \ {p} : th'[q] = th[q]
  /\ th'[p].pc = pc /\ th'[p].key = key /\ th'[p].obj = obj
  /\ th'[p].cont = cont /\ th'[p].used = used /\ th'[p].pos = pos

GoesTo(p, l) == Moves(p, l, th[p].key, th[p].obj, th[p].cont, th[p].used, th[p].pos)
Returns(p) == Moves(p, "idle", None, None, "", <<>>, 0)

\* The client before and after its statements.
LEMMA IdleThread == Idle \in Threads
<1>1. <<>> \in Seq(Nat) /\ 0 \in Nat OBVIOUS
<1> QED BY <1>1 DEF Idle, Threads, ThreadStates

\* An assignment of the client's whole state.
LEMMA AssignThread ==
  ASSUME TypeOK, NEW p \in Clients, NEW t \in Threads, th' = [th EXCEPT ![p] = t]
  PROVE  Moves(p, t.pc, t.key, t.obj, t.cont, t.used, t.pos)
BY DEF Moves, TypeOK

\* Its fields.
LEMMA ThreadType ==
  ASSUME TypeOK, NEW p \in Clients
  PROVE  /\ th[p] \in Threads
         /\ th[p].pc \in ThreadStates /\ th[p].key \in Keys \cup {None}
         /\ th[p].obj \in Nat \cup {None} /\ th[p].cont \in {"", "query", "drop", "abort", "api"}
         /\ th[p].used \in Seq(Nat) /\ th[p].pos \in Nat /\ th[p].want \in Exprs \cup {{}}
BY DEF TypeOK, Threads

\* A jump.
LEMMA GotoStep ==
  ASSUME TypeOK, NEW p \in Clients, NEW l \in ThreadStates, Goto(p, l)
  PROVE  GoesTo(p, l)
<1>1. th[p] \in Threads BY DEF TypeOK
<1>2. th' = [th EXCEPT ![p] = [th[p] EXCEPT !.pc = l]] BY DEF Goto
<1>3. [th[p] EXCEPT !.pc = l] \in Threads BY <1>1 DEF Threads
<1> DEFINE t == [th[p] EXCEPT !.pc = l]
<1>4. /\ t.pc = l /\ t.key = th[p].key /\ t.obj = th[p].obj /\ t.cont = th[p].cont
      /\ t.used = th[p].used /\ t.pos = th[p].pos
  BY <1>1 DEF Threads
<1> HIDE DEF t
<1>5. Moves(p, t.pc, t.key, t.obj, t.cont, t.used, t.pos) BY <1>2, <1>3, AssignThread DEF t
<1> QED BY <1>4, <1>5 DEF GoesTo

\* The end of a statement.
LEMMA ReturnStep == ASSUME TypeOK, NEW p \in Clients, Return(p) PROVE Returns(p)
<1>1. Moves(p, Idle.pc, Idle.key, Idle.obj, Idle.cont, Idle.used, Idle.pos)
  BY IdleThread, AssignThread DEF Return
<1> QED BY <1>1 DEF Returns, Idle

\* A jump that notes who calls DeleteIndex.
LEMMA GotoContStep ==
  ASSUME TypeOK, NEW p \in Clients, NEW l \in ThreadStates, NEW c \in {"drop", "abort"},
         th' = [th EXCEPT ![p].pc = l, ![p].cont = c]
  PROVE  Moves(p, l, th[p].key, th[p].obj, c, th[p].used, th[p].pos)
<1> DEFINE t == [th[p] EXCEPT !.pc = l, !.cont = c]
<1>1. th[p] \in Threads BY DEF TypeOK
<1>2. th' = [th EXCEPT ![p] = t] OBVIOUS
<1>3. t \in Threads BY <1>1 DEF Threads
<1>4. /\ t.pc = l /\ t.key = th[p].key /\ t.obj = th[p].obj /\ t.cont = c
      /\ t.used = th[p].used /\ t.pos = th[p].pos
  BY <1>1 DEF Threads
<1> HIDE DEF t
<1> QED BY <1>2, <1>3, <1>4, AssignThread

\* A jump with another key.
LEMMA GotoKeyStep ==
  ASSUME TypeOK, NEW p \in Clients, NEW l \in ThreadStates, NEW k \in Keys,
         th' = [th EXCEPT ![p].pc = l, ![p].key = k]
  PROVE  Moves(p, l, k, th[p].obj, th[p].cont, th[p].used, th[p].pos)
<1> DEFINE t == [th[p] EXCEPT !.pc = l, !.key = k]
<1>1. th[p] \in Threads BY DEF TypeOK
<1>2. th' = [th EXCEPT ![p] = t] OBVIOUS
<1>3. t \in Threads BY <1>1 DEF Threads
<1>4. /\ t.pc = l /\ t.key = k /\ t.obj = th[p].obj /\ t.cont = th[p].cont
      /\ t.used = th[p].used /\ t.pos = th[p].pos
  BY <1>1 DEF Threads
<1> HIDE DEF t
<1> QED BY <1>2, <1>3, <1>4, AssignThread

\* The statements begin.
LEMMA CreateIndexStep ==
  ASSUME TypeOK, NEW p \in Clients, CreateIndex(p)
  PROVE  \E k \in Keys, e \in Exprs :
           /\ objs' = Append(objs, [key |-> k, expr |-> e])
           /\ onDisk' = {o \in onDisk : KeyOf(o) # k} \cup {Len(objs) + 1}
           /\ Moves(p, "validate", k, Len(objs) + 1, "", <<>>, 0)
<1>1. PICK k \in Keys, e \in Exprs :
        /\ objs' = Append(objs, [key |-> k, expr |-> e])
        /\ onDisk' = {o \in onDisk : KeyOf(o) # k} \cup {Len(objs) + 1}
        /\ th' = [th EXCEPT ![p] = [Idle EXCEPT !.pc = "validate", !.key = k,
                                                !.obj = Len(objs) + 1]]
  BY DEF CreateIndex
<1> DEFINE t == [Idle EXCEPT !.pc = "validate", !.key = k, !.obj = Len(objs) + 1]
<1>2. Len(objs) + 1 \in Nat BY DEF TypeOK
<1>3. t \in Threads BY <1>2, IdleThread DEF Threads, ThreadStates
<1>4. /\ t.pc = "validate" /\ t.key = k /\ t.obj = Len(objs) + 1 /\ t.cont = ""
      /\ t.used = <<>> /\ t.pos = 0
  BY DEF Idle
<1> HIDE DEF t
<1>5. Moves(p, "validate", k, Len(objs) + 1, "", <<>>, 0) BY <1>1, <1>3, <1>4, AssignThread DEF t
<1> QED BY <1>1, <1>5

\* A query begins with the load of its table, or with the lookup.
LEMMA IndexByExpressionStep ==
  ASSUME TypeOK, NEW p \in Clients, IndexByExpression(p)
  PROVE  \E k \in Keys :
           Moves(p, IF Db(k) \in loaders THEN "load" ELSE "lookup", k, None, "", <<>>, 0)
<1>1. PICK k \in Keys, e \in Exprs :
        th' = [th EXCEPT ![p] = [Idle EXCEPT !.key = k, !.want = e,
                                   !.pc = IF Db(k) \in loaders THEN "load" ELSE "lookup"]]
  BY DEF IndexByExpression
<1> DEFINE l == IF Db(k) \in loaders THEN "load" ELSE "lookup"
           t == [Idle EXCEPT !.key = k, !.want = e, !.pc = l]
<1>2. l \in ThreadStates BY DEF ThreadStates
<1> HIDE DEF l
<1>3. t \in Threads BY <1>2, IdleThread DEF Threads
<1>4. t.pc = l /\ t.key = k /\ t.obj = None /\ t.cont = "" /\ t.used = <<>> /\ t.pos = 0
  BY DEF Idle
<1>5. th' = [th EXCEPT ![p] = t] BY <1>1 DEF l
<1> HIDE DEF t
<1>6. Moves(p, l, k, None, "", <<>>, 0) BY <1>3, <1>4, <1>5, AssignThread
<1> QED BY <1>6 DEF l

\* DROP INDEX begins with Index, which retains first.
LEMMA DropIndexStep ==
  ASSUME TypeOK, NEW p \in Clients, DropIndex(p)
  PROVE  \E k \in Keys : Moves(p, "retain", k, None, "drop", <<>>, 0)
<1>1. PICK k \in Keys :
        th' = [th EXCEPT ![p] = [Idle EXCEPT !.pc = "retain", !.cont = "drop", !.key = k]]
  BY DEF DropIndex
<1> DEFINE t == [Idle EXCEPT !.pc = "retain", !.cont = "drop", !.key = k]
<1>3. t \in Threads BY IdleThread DEF Threads, ThreadStates
<1>4. t.pc = "retain" /\ t.key = k /\ t.obj = None /\ t.cont = "drop" /\ t.used = <<>> /\ t.pos = 0
  BY DEF Idle
<1> HIDE DEF t
<1> QED BY <1>1, <1>3, <1>4, AssignThread DEF t

\* SHOW INDEXES begins at the first place of indexOrder.
LEMMA IndexesByTableBegin ==
  ASSUME TypeOK, NEW p \in Clients, IndexesByTable(p)
  PROVE  \E k \in Keys : Moves(p, "show", k, None, "", <<>>, 1)
<1>1. PICK k \in Keys : th' = [th EXCEPT ![p] = [Idle EXCEPT !.pc = "show", !.key = k, !.pos = 1]]
  BY DEF IndexesByTable
<1> DEFINE t == [Idle EXCEPT !.pc = "show", !.key = k, !.pos = 1]
<1>3. t \in Threads BY IdleThread DEF Threads, ThreadStates
<1>4. t.pc = "show" /\ t.key = k /\ t.obj = None /\ t.cont = "" /\ t.used = <<>> /\ t.pos = 1
  BY DEF Idle
<1> HIDE DEF t
<1> QED BY <1>1, <1>3, <1>4, AssignThread DEF t

\* A call of DeleteIndex begins with the scan.
LEMMA DeleteIndexStep ==
  ASSUME TypeOK, NEW p \in Clients, DeleteIndex(p)
  PROVE  \E k \in Keys : Moves(p, "delScan", k, None, "api", <<>>, 0)
<1>1. PICK k \in Keys :
        th' = [th EXCEPT ![p] = [Idle EXCEPT !.pc = "delScan", !.cont = "api", !.key = k]]
  BY DEF DeleteIndex
<1> DEFINE t == [Idle EXCEPT !.pc = "delScan", !.cont = "api", !.key = k]
<1>3. t \in Threads BY IdleThread DEF Threads, ThreadStates
<1>4. t.pc = "delScan" /\ t.key = k /\ t.obj = None /\ t.cont = "api" /\ t.used = <<>> /\ t.pos = 0
  BY DEF Idle
<1> HIDE DEF t
<1> QED BY <1>1, <1>3, <1>4, AssignThread DEF t

\* The statements go on.
LEMMA LookupStep ==
  ASSUME TypeOK, NEW p \in Clients, Lookup(p)
  PROVE  \/ Returns(p) /\ RUnlock(p)
         \/ /\ UNCHANGED readers
            /\ \E k \in Registered :
                 Moves(p, "retain", k, indexes[k], "query", th[p].used, th[p].pos)
<1> DEFINE found == Matches(Db(th[p].key), th[p].want)
<1>1. CASE Return(p) /\ RUnlock(p) BY <1>1, ReturnStep
<1>2. ASSUME NEW i \in found,
             th' = [th EXCEPT ![p] = [@ EXCEPT !.pc = "retain", !.cont = "query",
                                        !.key = order[i], !.obj = indexes[order[i]]]]
      PROVE  \E k \in Registered : Moves(p, "retain", k, indexes[k], "query", th[p].used, th[p].pos)
  <2> DEFINE k == order[i]
             t == [th[p] EXCEPT !.pc = "retain", !.cont = "query", !.key = k, !.obj = indexes[k]]
  <2>1. i \in DOMAIN order /\ indexes[k] # None BY <1>2 DEF Matches
  <2>2. k \in Keys BY <2>1 DEF TypeOK
  <2>3. indexes[k] \in Nat BY <2>1, <2>2 DEF TypeOK
  <2>4. k \in Registered BY <2>1, <2>2 DEF Registered
  <2>5. th' = [th EXCEPT ![p] = t] BY <1>2
  <2> HIDE DEF k
  <2>6. th[p] \in Threads BY DEF TypeOK
  <2>7. t \in Threads BY <2>2, <2>3, <2>6 DEF Threads, ThreadStates
  <2>8. /\ t.pc = "retain" /\ t.key = k /\ t.obj = indexes[k] /\ t.cont = "query"
        /\ t.used = th[p].used /\ t.pos = th[p].pos
    BY <2>6 DEF Threads
  <2> HIDE DEF t
  <2> QED BY <2>4, <2>5, <2>7, <2>8, AssignThread
<1> QED BY <1>1, <1>2 DEF Lookup

\* retainIndex counts the index; DROP INDEX returns when there is none.
LEMMA RetainStep ==
  ASSUME TypeOK, Threading, NEW p \in Clients, Retain(p)
  PROVE  LET k == th[p].key IN
         /\ k \in Keys /\ At(p, "retain") /\ RUnlock(p)
         /\ refCounts' = [refCounts EXCEPT ![k] = @ + 1]
         /\ \/ /\ th[p].cont = "query" /\ th[p].obj \in DOMAIN objs /\ KeyOf(th[p].obj) = k
               /\ Moves(p, "using", k, th[p].obj, "query", <<th[p].obj>>, 1)
            \/ th[p].cont = "drop" /\ Returns(p)
            \/ /\ th[p].cont = "drop" /\ k \in Registered
               /\ Moves(p, "dropRelease", k, indexes[k], "drop", th[p].used, th[p].pos)
<1>t. th[p] \in Threads BY DEF TypeOK
<1>1. /\ th[p].key \in Keys /\ At(p, "retain") /\ RUnlock(p)
      /\ refCounts' = [refCounts EXCEPT ![th[p].key] = @ + 1]
  BY DEF Retain, RetainIndex, Threading, Threaded, At
<1>2. CASE /\ th[p].cont = "query"
           /\ th' = [th EXCEPT ![p].pc = "using", ![p].used = <<th[p].obj>>, ![p].pos = 1]
  <2> DEFINE t == [th[p] EXCEPT !.pc = "using", !.used = <<th[p].obj>>, !.pos = 1]
  <2>1. th[p].obj \in DOMAIN objs /\ KeyOf(th[p].obj) = th[p].key
    BY <1>1, <1>2 DEF Threading, Threaded, At
  <2>2. th[p].obj \in Nat BY <2>1 DEF TypeOK
  <2>3. th' = [th EXCEPT ![p] = t] BY <1>2
  <2>4. <<th[p].obj>> \in Seq(Nat) BY <2>2
  <2>5. t \in Threads BY <1>t, <2>4 DEF Threads, ThreadStates
  <2>6. /\ t.pc = "using" /\ t.key = th[p].key /\ t.obj = th[p].obj /\ t.cont = "query"
        /\ t.used = <<th[p].obj>> /\ t.pos = 1
    BY <1>t, <1>2 DEF Threads
  <2> HIDE DEF t
  <2>7. Moves(p, "using", th[p].key, th[p].obj, "query", <<th[p].obj>>, 1)
    BY <2>3, <2>5, <2>6, AssignThread
  <2> QED BY <1>1, <1>2, <2>1, <2>7
<1>3. CASE th[p].cont = "drop" /\ Return(p) BY <1>1, <1>3, ReturnStep
<1>4. CASE /\ th[p].cont = "drop" /\ indexes[th[p].key] # None
           /\ th' = [th EXCEPT ![p].pc = "dropRelease", ![p].obj = indexes[th[p].key]]
  <2> DEFINE k == th[p].key
             t == [th[p] EXCEPT !.pc = "dropRelease", !.obj = indexes[k]]
  <2>1. k \in Registered BY <1>1, <1>4 DEF Registered
  <2>2. indexes[k] \in Nat BY <1>1, <1>4 DEF TypeOK
  <2>3. th' = [th EXCEPT ![p] = t] BY <1>4
  <2>4. t \in Threads BY <1>t, <2>2 DEF Threads, ThreadStates
  <2>5. /\ t.pc = "dropRelease" /\ t.key = k /\ t.obj = indexes[k] /\ t.cont = "drop"
        /\ t.used = th[p].used /\ t.pos = th[p].pos
    BY <1>t, <1>4 DEF Threads
  <2> HIDE DEF t
  <2>6. Moves(p, "dropRelease", k, indexes[k], "drop", th[p].used, th[p].pos)
    BY <2>3, <2>4, <2>5, AssignThread
  <2> QED BY <1>1, <1>4, <2>1, <2>6
<1> QED BY <1>2, <1>3, <1>4 DEF Retain

\* SHOW INDEXES retains the next index of the table, or passes over one of another.
LEMMA ShowStep ==
  ASSUME TypeOK, Threading, NEW p \in Clients, IndexesByTableStep(p)
  PROVE  LET i == th[p].pos IN
         /\ At(p, "show")
         /\ \/ GoesTo(p, "visible") /\ RUnlock(p) /\ UNCHANGED refCounts
            \/ /\ i \in DOMAIN order /\ indexes[order[i]] = None
               /\ GoesTo(p, "panic") /\ UNCHANGED <<refCounts, readers>>
            \/ /\ Moves(p, "show", th[p].key, th[p].obj, th[p].cont, th[p].used, i + 1)
               /\ UNCHANGED <<refCounts, readers>>
            \/ \E k \in Registered :
                 /\ refCounts' = [refCounts EXCEPT ![k] = @ + 1] /\ UNCHANGED readers
                 /\ Moves(p, "show", th[p].key, th[p].obj, th[p].cont,
                          Append(th[p].used, indexes[k]), i + 1)
<1>t. /\ th[p] \in Threads /\ th[p].pos \in Nat /\ th[p].used \in Seq(Nat)
      /\ th[p].pc \in ThreadStates
  BY ThreadType
<1>1. At(p, "show") /\ th[p].pos > 0 BY DEF IndexesByTableStep, Threading, Threaded, At
<1>2. CASE Goto(p, "visible") /\ RUnlock(p) /\ UNCHANGED refCounts
  BY <1>1, <1>2, GotoStep DEF ThreadStates
<1>3. CASE /\ th[p].pos <= Len(order) /\ indexes[order[th[p].pos]] = None
           /\ Goto(p, "panic") /\ UNCHANGED <<refCounts, readers>>
  <2>1. th[p].pos \in DOMAIN order BY <1>t, <1>1, <1>3 DEF TypeOK
  <2>2. GoesTo(p, "panic") BY <1>3, GotoStep DEF ThreadStates
  <2> QED BY <1>1, <1>3, <2>1, <2>2
<1>4. CASE th' = [th EXCEPT ![p].pos = @ + 1] /\ UNCHANGED <<refCounts, readers>>
  <2> DEFINE n == th[p].pos + 1
             t == [th[p] EXCEPT !.pos = n]
  <2>n. n \in Nat BY <1>t
  <2>1. th' = [th EXCEPT ![p] = t] BY <1>4
  <2> HIDE DEF n
  <2>2. t \in Threads BY <1>t, <2>n DEF Threads
  <2>3. /\ t.pc = "show" /\ t.key = th[p].key /\ t.obj = th[p].obj /\ t.cont = th[p].cont
        /\ t.used = th[p].used /\ t.pos = n
    BY <1>t, <1>1 DEF Threads, At
  <2> HIDE DEF t
  <2>4. Moves(p, "show", th[p].key, th[p].obj, th[p].cont, th[p].used, th[p].pos + 1)
    BY <2>1, <2>2, <2>3, AssignThread DEF n
  <2> QED BY <1>1, <1>4, <2>4
<1>5. CASE /\ th[p].pos <= Len(order) /\ indexes[order[th[p].pos]] # None
           /\ RetainIndex(order[th[p].pos]) /\ UNCHANGED readers
           /\ th' = [th EXCEPT ![p].pos = @ + 1,
                               ![p].used = Append(@, indexes[order[th[p].pos]])]
  <2> DEFINE k == order[th[p].pos]
             n == th[p].pos + 1
             t == [th[p] EXCEPT !.pos = n, !.used = Append(th[p].used, indexes[k])]
  <2>n. n \in Nat BY <1>t
  <2>1. th[p].pos \in DOMAIN order BY <1>t, <1>1, <1>5 DEF TypeOK
  <2>2. k \in Keys BY <2>1 DEF TypeOK
  <2>3. indexes[k] \in Nat /\ k \in Registered BY <1>5, <2>2 DEF TypeOK, Registered
  <2>4. th' = [th EXCEPT ![p] = t] BY <1>5
  <2>5. refCounts' = [refCounts EXCEPT ![k] = @ + 1] BY <1>5 DEF RetainIndex
  <2> HIDE DEF k, n
  <2>6. Append(th[p].used, indexes[k]) \in Seq(Nat) BY <1>t, <2>3
  <2>7. t \in Threads BY <1>t, <2>6, <2>n DEF Threads
  <2>8. /\ t.pc = "show" /\ t.key = th[p].key /\ t.obj = th[p].obj /\ t.cont = th[p].cont
        /\ t.used = Append(th[p].used, indexes[k]) /\ t.pos = n
    BY <1>t, <1>1 DEF Threads, At
  <2> HIDE DEF t
  <2>9. Moves(p, "show", th[p].key, th[p].obj, th[p].cont, Append(th[p].used, indexes[k]),
              th[p].pos + 1)
    BY <2>4, <2>7, <2>8, AssignThread DEF n
  <2> QED BY <1>1, <1>5, <2>3, <2>5, <2>9
<1> QED BY <1>2, <1>3, <1>4, <1>5 DEF IndexesByTableStep

\* CanUseIndex only moves on.
LEMMA VisibleStep ==
  ASSUME TypeOK, NEW p \in Clients, ShowVisible(p)
  PROVE  Moves(p, "using", th[p].key, th[p].obj, th[p].cont, th[p].used, 1)
<1> DEFINE t == [th[p] EXCEPT !.pc = "using", !.pos = 1]
<1>1. th[p] \in Threads BY DEF TypeOK
<1>2. th' = [th EXCEPT ![p] = t] BY DEF ShowVisible
<1>3. t \in Threads BY <1>1 DEF Threads, ThreadStates
<1>4. /\ t.pc = "using" /\ t.key = th[p].key /\ t.obj = th[p].obj /\ t.cont = th[p].cont
      /\ t.used = th[p].used /\ t.pos = 1
  BY <1>1 DEF Threads
<1> HIDE DEF t
<1> QED BY <1>2, <1>3, <1>4, AssignThread

\* The indexes are released one by one.
LEMMA ReleaseStep ==
  ASSUME TypeOK, Threading, NEW p \in Clients, Release(p)
  PROVE  /\ At(p, "using")
         /\ \/ Returns(p) /\ UNCHANGED <<countVars, deleter>>
            \/ /\ th[p].pos \in DOMAIN th[p].used /\ ReleaseIndex(th[p].used[th[p].pos])
               /\ Moves(p, "using", th[p].key, th[p].obj, th[p].cont, th[p].used, th[p].pos + 1)
<1>t. th[p] \in Threads /\ th[p].pos \in Nat /\ th[p].used \in Seq(Nat) BY ThreadType
<1>1. At(p, "using") /\ th[p].pos > 0 BY DEF Release, Threading, Threaded, At
<1>2. CASE Return(p) /\ UNCHANGED <<countVars, deleter>> BY <1>1, <1>2, ReturnStep
<1>3. CASE /\ ~(th[p].pos > Len(th[p].used)) /\ ReleaseIndex(th[p].used[th[p].pos])
           /\ th' = [th EXCEPT ![p].pos = @ + 1]
  <2> DEFINE n == th[p].pos + 1
             t == [th[p] EXCEPT !.pos = n]
  <2>n. n \in Nat BY <1>t
  <2>1. th' = [th EXCEPT ![p] = t] BY <1>3
  <2> HIDE DEF n
  <2>2. t \in Threads BY <1>t, <2>n DEF Threads
  <2>3. /\ t.pc = "using" /\ t.key = th[p].key /\ t.obj = th[p].obj /\ t.cont = th[p].cont
        /\ t.used = th[p].used /\ t.pos = n
    BY <1>t, <1>1 DEF Threads, At
  <2>4. th[p].pos \in DOMAIN th[p].used BY <1>t, <1>1, <1>3
  <2> HIDE DEF t
  <2>5. Moves(p, "using", th[p].key, th[p].obj, th[p].cont, th[p].used, th[p].pos + 1)
    BY <2>1, <2>2, <2>3, AssignThread DEF n
  <2> QED BY <1>1, <1>3, <2>4, <2>5
<1> QED BY <1>2, <1>3 DEF Release

\* The scan of DeleteIndex takes an index with the id, or returns.
LEMMA ScanStep ==
  ASSUME TypeOK, NEW p \in Clients, DeleteScan(p)
  PROVE  /\ At(p, "delScan") /\ readers' \in [Clients -> Nat]
         /\ \A q \in Clients : readers[q] > 0 => readers'[q] > 0
         /\ status' \in [Keys -> {"notReady", "ready"}]
         /\ \/ Returns(p)
            \/ \E k \in SameId(th[p].key) :
                 \/ Forced(p) /\ Moves(p, "delRc", k, th[p].obj, th[p].cont, th[p].used, th[p].pos)
                 \/ /\ ~Forced(p) /\ readers'[p] > 0
                    /\ Moves(p, "delCheck", k, th[p].obj, th[p].cont, th[p].used, th[p].pos)
<1>t. readers \in [Clients -> Nat] /\ status \in [Keys -> {"notReady", "ready"}] BY DEF TypeOK
<1>l. ASSUME RLock(p)
      PROVE  /\ readers' \in [Clients -> Nat] /\ readers'[p] > 0
             /\ \A q \in Clients : readers[q] > 0 => readers'[q] > 0
  <2>1. readers' = [readers EXCEPT ![p] = @ + 1] BY <1>l DEF RLock
  <2> QED BY <1>t, <2>1
<1>s. SameId(th[p].key) \subseteq Keys BY DEF SameId, Registered
<1>1. At(p, "delScan") BY DEF DeleteScan
<1>2. CASE RLock(p) /\ Return(p) /\ UNCHANGED status BY <1>t, <1>l, <1>1, <1>2, ReturnStep
<1>3. CASE Return(p) /\ UNCHANGED <<status, readers>> BY <1>t, <1>1, <1>3, ReturnStep
<1>4. ASSUME NEW k \in SameId(th[p].key), Forced(p), UNCHANGED readers,
             status' = [status EXCEPT ![k] = "notReady"],
             th' = [th EXCEPT ![p].pc = "delRc", ![p].key = k]
      PROVE  /\ status' \in [Keys -> {"notReady", "ready"}]
             /\ Moves(p, "delRc", k, th[p].obj, th[p].cont, th[p].used, th[p].pos)
  BY <1>t, <1>s, <1>4, GotoKeyStep DEF ThreadStates
<1>5. ASSUME NEW k \in SameId(th[p].key), ~Forced(p), RLock(p),
             th' = [th EXCEPT ![p].pc = "delCheck", ![p].key = k]
      PROVE  Moves(p, "delCheck", k, th[p].obj, th[p].cont, th[p].used, th[p].pos)
  BY <1>s, <1>5, GotoKeyStep DEF ThreadStates
<1>6. CASE \E k \in SameId(th[p].key) :
             \/ /\ Forced(p) /\ status' = [status EXCEPT ![k] = "notReady"]
                /\ th' = [th EXCEPT ![p].pc = "delRc", ![p].key = k] /\ UNCHANGED readers
             \/ /\ ~Forced(p) /\ RLock(p) /\ UNCHANGED status
                /\ th' = [th EXCEPT ![p].pc = "delCheck", ![p].key = k]
  <2>1. PICK k \in SameId(th[p].key) :
             \/ /\ Forced(p) /\ status' = [status EXCEPT ![k] = "notReady"]
                /\ th' = [th EXCEPT ![p].pc = "delRc", ![p].key = k] /\ UNCHANGED readers
             \/ /\ ~Forced(p) /\ RLock(p) /\ UNCHANGED status
                /\ th' = [th EXCEPT ![p].pc = "delCheck", ![p].key = k]
    BY <1>6
  <2>2. CASE Forced(p) BY <1>t, <1>1, <1>4, <2>1, <2>2
  <2>3. CASE ~Forced(p) BY <1>t, <1>l, <1>1, <1>5, <2>1, <2>3
  <2> QED BY <2>2, <2>3
<1> QED BY <1>2, <1>3, <1>6 DEF DeleteScan

-----------------------------------------------------------------------------
(* Types *)

\* What LoadAll finds on disk.
LEMMA LoadedOfLists ==
  ASSUME TypeOK, NEW db
  PROVE  /\ LoadedOf(db) \in Seq(DOMAIN objs)
         /\ ToSet(LoadedOf(db)) = {o \in onDisk : saved[o] = "ok" /\ Db(KeyOf(o)) = db}
<1> DEFINE S == {o \in onDisk : saved[o] = "ok" /\ Db(KeyOf(o)) = db}
<1>1. S \subseteq DOMAIN objs BY DEF TypeOK
<1>2. Len(objs) \in Nat /\ DOMAIN objs = 1..Len(objs) BY DEF TypeOK
<1>3. IsFiniteSet(DOMAIN objs) BY <1>2, FS_Interval
<1>4. IsFiniteSet(S) BY <1>1, <1>3, FS_Subset
<1> HIDE DEF S
<1>5. SetToSeq(S) \in Seq(S) /\ ToSet(SetToSeq(S)) = S BY <1>4, SetToSeqLists
<1>6. SetToSeq(S) \in Seq(DOMAIN objs) BY <1>1, <1>5
<1> QED BY <1>5, <1>6 DEF LoadedOf, S

\* A read lock that is given back was held.
LEMMA RUnlockStep ==
  ASSUME TypeOK, NEW p \in Clients, readers[p] > 0, RUnlock(p)
  PROVE  readers' \in [Clients -> Nat] /\ \A q \in Clients \ {p} : readers'[q] = readers[q]
<1>1. readers' = [readers EXCEPT ![p] = @ - 1] /\ readers \in [Clients -> Nat]
  BY DEF RUnlock, TypeOK
<1> QED BY <1>1

\* One that is taken.
LEMMA RLockStep ==
  ASSUME TypeOK, NEW p \in Clients, RLock(p)
  PROVE  /\ readers' \in [Clients -> Nat] /\ readers'[p] > 0
         /\ \A q \in Clients \ {p} : readers'[q] = readers[q]
<1>1. readers' = [readers EXCEPT ![p] = @ + 1] /\ readers \in [Clients -> Nat]
  BY DEF RLock, TypeOK
<1> QED BY <1>1

\* The objects that there are stay what they are; at most one is added.
LEMMA ObjectsKept ==
  ASSUME TypeOK, [Next]_vars
  PROVE  /\ DOMAIN objs \subseteq DOMAIN objs'
         /\ \A o \in DOMAIN objs : objs'[o] = objs[o]
         /\ objs' # objs => \E p \in Creators : CreateIndex(p)
<1>t. objs \in Seq([key : Keys, expr : Exprs]) BY DEF TypeOK
<1>1. ASSUME NEW p \in Creators, CreateIndex(p)
      PROVE  DOMAIN objs \subseteq DOMAIN objs' /\ \A o \in DOMAIN objs : objs'[o] = objs[o]
  <2>1. PICK k \in Keys, e \in Exprs : objs' = Append(objs, [key |-> k, expr |-> e])
    BY <1>1 DEF CreateIndex
  <2>2. [key |-> k, expr |-> e] \in [key : Keys, expr : Exprs] OBVIOUS
  <2> QED BY <1>t, <2>1, <2>2
<1>2. ASSUME NEW p \in Clients, Continue(p) PROVE UNCHANGED objs
  BY <1>2 DEF Continue, DeleteStep, ValidateIndexToAdd, AddLock, AddIndex, Save, CreateReturns,
     RegisterIndexesForTable, Lookup, Retain, IndexesByTableStep, ShowVisible, Release,
     DropRelease, DropCheck, DeleteScan, DeleteCheck, DeleteStatus, DeleteRc, DeleteLock, DeleteRemove,
     DeleteDone, DeleterLock, DeleterRemove, objectVars
<1>3. ASSUME NEW o \in DOMAIN objs, Finish(o) PROVE UNCHANGED objs
  BY <1>3 DEF Finish, ReadyLock, SetReady, objectVars
<1>4. ASSUME NEW p, DropIndex(p) \/ IndexByExpression(p) \/ IndexesByTable(p) \/ DeleteIndex(p)
      PROVE  UNCHANGED objs
  BY <1>4 DEF DropIndex, IndexByExpression, IndexesByTable, DeleteIndex, objectVars
<1>5. CASE UNCHANGED vars BY <1>5 DEF vars
<1> QED BY <1>1, <1>2, <1>3, <1>4, <1>5 DEF Next

\* Every client moves to a state of the right type.
LEMMA ThreadsTyped == ASSUME TypeOK, Threading, [Next]_vars PROVE th' \in [Clients -> Threads]
<1> USE DEF Moves, GoesTo, Returns
<1>t. th \in [Clients -> Threads] BY DEF TypeOK
<1>1. ASSUME NEW p \in Clients, NEW l \in ThreadStates, Goto(p, l) PROVE th' \in [Clients -> Threads]
  BY <1>1, GotoStep
<1>2. ASSUME NEW p \in Clients, Return(p) PROVE th' \in [Clients -> Threads]
  BY <1>2, ReturnStep
<1>3. ASSUME NEW p \in Clients, CreateIndex(p) PROVE th' \in [Clients -> Threads]
  BY <1>3, CreateIndexStep
<1>4. ASSUME NEW p \in Clients, IndexByExpression(p) PROVE th' \in [Clients -> Threads]
  BY <1>4, IndexByExpressionStep
<1>5. ASSUME NEW p \in Clients, DropIndex(p) PROVE th' \in [Clients -> Threads]
  BY <1>5, DropIndexStep
<1>6. ASSUME NEW p \in Clients, IndexesByTable(p) PROVE th' \in [Clients -> Threads]
  BY <1>6, IndexesByTableBegin
<1>7. ASSUME NEW p \in Clients, DeleteIndex(p) PROVE th' \in [Clients -> Threads]
  BY <1>7, DeleteIndexStep
<1>8. ASSUME NEW p \in Clients, Lookup(p) PROVE th' \in [Clients -> Threads]
  BY <1>8, LookupStep
<1>9. ASSUME NEW p \in Clients, Retain(p) PROVE th' \in [Clients -> Threads]
  BY <1>9, RetainStep
<1>10. ASSUME NEW p \in Clients, IndexesByTableStep(p) PROVE th' \in [Clients -> Threads]
  BY <1>10, ShowStep
<1>11. ASSUME NEW p \in Clients, ShowVisible(p) PROVE th' \in [Clients -> Threads]
  BY <1>11, VisibleStep
<1>12. ASSUME NEW p \in Clients, Release(p) PROVE th' \in [Clients -> Threads]
  BY <1>12, ReleaseStep
<1>13. ASSUME NEW p \in Clients, DeleteScan(p) PROVE th' \in [Clients -> Threads]
  BY <1>13, ScanStep
<1>14. ASSUME NEW p \in Clients, Save(p) PROVE th' \in [Clients -> Threads]
  <2>1. CASE Goto(p, "awaitReady") BY <1>1, <2>1 DEF ThreadStates
  <2>2. CASE th' = [th EXCEPT ![p].pc = "delScan", ![p].cont = "abort"]
    BY <2>2, GotoContStep DEF ThreadStates
  <2> QED BY <1>14, <2>1, <2>2 DEF Save
<1>15. ASSUME NEW p \in Clients, DropCheck(p) PROVE th' \in [Clients -> Threads]
  <2>1. CASE th' = [th EXCEPT ![p].pc = "delScan", ![p].cont = "drop"]
    BY <2>1, GotoContStep DEF ThreadStates
  <2> QED BY <1>2, <1>15, <2>1 DEF DropCheck
<1>16. ASSUME NEW p \in Clients,
              \/ ValidateIndexToAdd(p) \/ AddLock(p) \/ AddIndex(p) \/ CreateReturns(p)
              \/ RegisterIndexesForTable(p) \/ DropRelease(p) \/ DeleteCheck(p) \/ DeleteStatus(p) \/ DeleteRc(p)
              \/ DeleteLock(p) \/ DeleteRemove(p) \/ DeleteDone(p) \/ DeleterRemove(p)
       PROVE  th' \in [Clients -> Threads]
  BY <1>1, <1>2, <1>16 DEF ValidateIndexToAdd, AddLock, AddIndex, CreateReturns,
     RegisterIndexesForTable, DropRelease, DeleteCheck, DeleteStatus, DeleteRc, DeleteLock, DeleteRemove,
     DeleteDone, DeleterRemove, ThreadStates
<1>17. ASSUME NEW p \in Clients, DeleterLock(p) PROVE th' \in [Clients -> Threads]
  BY <1>t, <1>17 DEF DeleterLock
<1>18. ASSUME NEW o \in DOMAIN objs, Finish(o) PROVE th' \in [Clients -> Threads]
  BY <1>t, <1>18 DEF Finish, ReadyLock, SetReady
<1>19. CASE UNCHANGED vars BY <1>t, <1>19 DEF vars
<1>20. CASE Next
  <2>1. /\ Creators \subseteq Clients /\ Droppers \subseteq Clients /\ Queriers \subseteq Clients
        /\ Showers \subseteq Clients /\ Deleters \subseteq Clients
    BY DEF Clients
  <2>2. ASSUME NEW p \in Clients, Continue(p) PROVE th' \in [Clients -> Threads]
    BY <1>8, <1>9, <1>10, <1>11, <1>12, <1>13, <1>14, <1>15, <1>16, <1>17, <2>2
    DEF Continue, DeleteStep
  <2> QED BY <1>20, <1>3, <1>4, <1>5, <1>6, <1>7, <1>18, <2>1, <2>2 DEF Next
<1> QED BY <1>19, <1>20

\* The clients are those of the five kinds.
LEMMA AllClients ==
  /\ Creators \subseteq Clients /\ Droppers \subseteq Clients /\ Queriers \subseteq Clients
  /\ Showers \subseteq Clients /\ Deleters \subseteq Clients
BY DEF Clients

\* Every object has a key.
LEMMA ObjectKey == ASSUME TypeOK, NEW o \in DOMAIN objs PROVE KeyOf(o) \in Keys
<1> DEFINE R == [key : Keys, expr : Exprs]
<1>1. objs \in Seq(R) BY DEF TypeOK
<1> HIDE DEF R
<1>2. objs[o] \in R BY <1>1
<1> QED BY <1>2 DEF KeyOf, R

\* The objects and their records grow together.
LEMMA CreateTyped ==
  ASSUME TypeOK, NEW p \in Clients, CreateIndex(p)
  PROVE  /\ objs' \in Seq([key : Keys, expr : Exprs])
         /\ DOMAIN objs' = DOMAIN objs \cup {Len(objs) + 1} /\ Len(objs) + 1 \notin DOMAIN objs
         /\ saved' \in [DOMAIN objs' -> {"no", "ok", "failed"}]
         /\ finisher' \in [DOMAIN objs' -> {"none", "wait", "created", "locking", "done"}]
         /\ saved'[Len(objs) + 1] = "no" /\ finisher'[Len(objs) + 1] = "none"
         /\ \A o \in DOMAIN objs : saved'[o] = saved[o] /\ finisher'[o] = finisher[o]
         /\ onDisk' \subseteq DOMAIN objs' /\ Len(objs) + 1 \in onDisk'
<1> DEFINE n == Len(objs)
<1>1. PICK k \in Keys, e \in Exprs :
        /\ objs' = Append(objs, [key |-> k, expr |-> e])
        /\ saved' = Append(saved, "no") /\ finisher' = Append(finisher, "none")
        /\ onDisk' = {o \in onDisk : KeyOf(o) # k} \cup {Len(objs) + 1}
  BY DEF CreateIndex
<1>2. objs \in Seq([key : Keys, expr : Exprs]) /\ n \in Nat /\ DOMAIN objs = 1..n BY DEF TypeOK
<1>3. [key |-> k, expr |-> e] \in [key : Keys, expr : Exprs] OBVIOUS
<1>4. /\ objs' \in Seq([key : Keys, expr : Exprs]) /\ DOMAIN objs' = 1..(n + 1)
  BY <1>1, <1>2, <1>3
<1>5. saved \in [1..n -> {"no", "ok", "failed"}] BY <1>2 DEF TypeOK
<1>6. /\ saved' \in [1..(n + 1) -> {"no", "ok", "failed"}] /\ saved'[n + 1] = "no"
      /\ \A o \in 1..n : saved'[o] = saved[o]
  <2> DEFINE S == {"no", "ok", "failed"}
  <2>1. "no" \in S OBVIOUS
  <2> HIDE DEF S, n
  <2>2. saved \in [1..n -> S] /\ n \in Nat BY <1>2, <1>5 DEF S
  <2>3. saved' = Append(saved, "no") BY <1>1
  <2>4. /\ saved' \in [1..(n + 1) -> S] /\ saved'[n + 1] = "no"
        /\ \A o \in 1..n : saved'[o] = saved[o]
    <3>1. saved \in Seq(S) BY <2>2
    <3>2. Len(saved) = n BY <2>2, <3>1
    <3>3. /\ saved' \in Seq(S) /\ Len(saved') = n + 1 /\ saved'[n + 1] = "no"
          /\ \A o \in 1..n : saved'[o] = saved[o]
      BY <2>1, <2>3, <3>1, <3>2, AppendProperties
    <3>4. saved' \in [1..(n + 1) -> S] BY <3>3, LenProperties
    <3> QED BY <3>3, <3>4
  <2> QED BY <2>4 DEF S
<1>7. finisher \in [1..n -> {"none", "wait", "created", "locking", "done"}]
  BY <1>2 DEF TypeOK
<1>8. /\ finisher' \in [1..(n + 1) -> {"none", "wait", "created", "locking", "done"}]
      /\ finisher'[n + 1] = "none" /\ \A o \in 1..n : finisher'[o] = finisher[o]
  <2> DEFINE S == {"none", "wait", "created", "locking", "done"}
  <2>1. "none" \in S OBVIOUS
  <2> HIDE DEF S, n
  <2>2. finisher \in [1..n -> S] /\ n \in Nat BY <1>2, <1>7 DEF S
  <2>3. finisher' = Append(finisher, "none") BY <1>1
  <2>4. /\ finisher' \in [1..(n + 1) -> S] /\ finisher'[n + 1] = "none"
        /\ \A o \in 1..n : finisher'[o] = finisher[o]
    <3>1. finisher \in Seq(S) BY <2>2
    <3>2. Len(finisher) = n BY <2>2, <3>1
    <3>3. /\ finisher' \in Seq(S) /\ Len(finisher') = n + 1 /\ finisher'[n + 1] = "none"
          /\ \A o \in 1..n : finisher'[o] = finisher[o]
      BY <2>1, <2>3, <3>1, <3>2, AppendProperties
    <3>4. finisher' \in [1..(n + 1) -> S] BY <3>3, LenProperties
    <3> QED BY <3>3, <3>4
  <2> QED BY <2>4 DEF S
<1>9. 1..(n + 1) = 1..n \cup {n + 1} /\ n + 1 \notin 1..n BY <1>2
<1>10. onDisk' \subseteq 1..(n + 1) /\ n + 1 \in onDisk'
  BY <1>1, <1>2, <1>9 DEF TypeOK
<1> QED BY <1>2, <1>4, <1>6, <1>8, <1>9, <1>10

\* ReleaseIndex keeps the types of the counts and the queue.
LEMMA ReleaseTyped ==
  ASSUME TypeOK, NEW o \in DOMAIN objs, ReleaseIndex(o)
  PROVE  /\ refCounts' \in [Keys -> Int] /\ queue' \in [Keys -> Clients \cup {None}]
         /\ deleter' \in [Clients -> {"none", "wait", "closed", "locking"}]
<1> DEFINE k == KeyOf(o)
<1>1. k \in Keys BY ObjectKey
<1>2. refCounts' = [refCounts EXCEPT ![k] = @ - 1] BY DEF ReleaseIndex
<1>3. refCounts' \in [Keys -> Int] BY <1>1, <1>2 DEF TypeOK
<1>4. CASE UNCHANGED <<queue, deleter>> BY <1>3, <1>4 DEF TypeOK
<1>5. CASE /\ queue[k] # None /\ queue' = [queue EXCEPT ![k] = None]
           /\ deleter' = [deleter EXCEPT ![queue[k]] = "closed"]
  BY <1>1, <1>3, <1>5 DEF TypeOK
<1> QED BY <1>4, <1>5 DEF ReleaseIndex

\* The loader of a table keeps the types of the registry.
LEMMA RegisterTyped ==
  ASSUME TypeOK, NEW p \in Clients, RegisterIndexesForTable(p)
  PROVE  /\ indexes' \in [Keys -> DOMAIN objs \cup {None}]
         /\ order' \in Seq(Keys) /\ status' \in [Keys -> {"notReady", "ready"}]
         /\ loaders' = loaders \ {Db(th[p].key)}
         /\ \A k \in Keys : \/ indexes'[k] = indexes[k]
                            \/ /\ indexes'[k] \in onDisk /\ KeyOf(indexes'[k]) = k
                               /\ saved[indexes'[k]] = "ok" /\ Db(k) = Db(th[p].key)
<1> DEFINE db == Db(th[p].key)
           os == LoadedOf(db)
           ks == {KeyOf(os[i]) : i \in DOMAIN os}
<1>1. /\ indexes' = [k \in Keys |-> IF k \in ks THEN CHOOSE o \in ToSet(os) : KeyOf(o) = k
                                   ELSE indexes[k]]
      /\ status' = [k \in Keys |-> IF k \in ks THEN "ready" ELSE status[k]]
      /\ order' = order \o [i \in DOMAIN os |-> KeyOf(os[i])]
      /\ loaders' = loaders \ {db}
  BY DEF RegisterIndexesForTable
<1>2. /\ os \in Seq(DOMAIN objs)
      /\ ToSet(os) = {o \in onDisk : saved[o] = "ok" /\ Db(KeyOf(o)) = db}
  BY LoadedOfLists
<1> HIDE DEF os
<1>3. ToSet(os) = {os[i] : i \in DOMAIN os} BY DEF ToSet
<1>4. \A o \in DOMAIN objs : KeyOf(o) \in Keys BY ObjectKey
<1>5. [i \in DOMAIN os |-> KeyOf(os[i])] \in Seq(Keys)
  <2>1. DOMAIN os = 1..Len(os) /\ Len(os) \in Nat /\ \A i \in DOMAIN os : os[i] \in DOMAIN objs
    BY <1>2
  <2> QED BY <1>4, <2>1
<1>6. order' \in Seq(Keys)
  <2> DEFINE more == [i \in DOMAIN os |-> KeyOf(os[i])]
  <2>1. order \in Seq(Keys) /\ more \in Seq(Keys) /\ order' = order \o more BY <1>1, <1>5 DEF TypeOK
  <2> HIDE DEF more
  <2> QED BY <2>1
<1>7. status' \in [Keys -> {"notReady", "ready"}] BY <1>1 DEF TypeOK
<1>8. ASSUME NEW k \in Keys
      PROVE  \/ indexes'[k] = indexes[k]
             \/ /\ indexes'[k] \in onDisk /\ KeyOf(indexes'[k]) = k
                /\ saved[indexes'[k]] = "ok" /\ Db(k) = db
  <2>1. CASE k \in ks
    <3>1. \E o \in ToSet(os) : KeyOf(o) = k BY <1>3, <2>1
    <3>2. indexes'[k] \in ToSet(os) /\ KeyOf(indexes'[k]) = k BY <1>1, <2>1, <3>1
    <3> QED BY <1>2, <3>2
  <2>2. CASE k \notin ks BY <1>1, <2>2
  <2> QED BY <2>1, <2>2
<1>9. indexes' \in [Keys -> DOMAIN objs \cup {None}]
  <2>1. \A k \in Keys : indexes'[k] \in DOMAIN objs \cup {None} BY <1>8 DEF TypeOK
  <2> HIDE DEF ks
  <2>2. indexes' = [k \in Keys |-> indexes'[k]] BY <1>1
  <2> QED BY <2>1, <2>2
<1> QED BY <1>1, <1>6, <1>7, <1>8, <1>9

\* Without the first k, a list of keys is a list of keys.
LEMMA DropFirstType == ASSUME NEW S, NEW s \in Seq(S), NEW k PROVE DropFirst(s, k) \in Seq(S)
<1>1. ASSUME NEW i \in DOMAIN s PROVE RemoveAt(s, i) \in Seq(S)
  <2>1. SubSeq(s, 1, i - 1) \in Seq(S) /\ SubSeq(s, i + 1, Len(s)) \in Seq(S)
    BY <1>1, SubSeqProperties
  <2> QED BY <2>1 DEF RemoveAt
<1>2. CASE \E i \in DOMAIN s : s[i] = k
  <2> DEFINE i == CHOOSE i \in DOMAIN s : s[i] = k /\ \A j \in 1..(i - 1) : s[j] # k
  <2>1. \E j \in DOMAIN s : s[j] = k /\ \A l \in 1..(j - 1) : s[l] # k BY <1>2, FirstPosition
  <2>2. i \in DOMAIN s BY <2>1
  <2> QED BY <1>1, <1>2, <2>2 DEF DropFirst
<1>3. CASE ~\E i \in DOMAIN s : s[i] = k BY <1>3 DEF DropFirst
<1> QED BY <1>2, <1>3

\* Every step keeps the types.
LEMMA TypeStep == ASSUME TypeOK, Threading, [Next]_vars PROVE TypeOK'
<1>t. th' \in [Clients -> Threads] BY ThreadsTyped
<1>c. \A p \in Clients : th[p].pc # "idle" => th[p].key \in Keys BY DEF Threading, Threaded
<1>o. \A p \in Clients : th[p].obj # None => th[p].obj \in DOMAIN objs BY DEF Threading, Threaded
<1>b. ASSUME NEW p \in Clients, Begin(p) PROVE ops' \in [Clients -> 0..(MaxOps + 1)]
  <2>1. ops' = [ops EXCEPT ![p] = @ + 1] /\ ops[p] < MaxOps BY <1>b DEF Begin
  <2>2. ops \in [Clients -> 0..(MaxOps + 1)] /\ MaxOps \in Nat BY RegistryAssumption DEF TypeOK
  <2> QED BY <2>1, <2>2
<1>1. ASSUME NEW p \in Clients, CreateIndex(p) PROVE TypeOK'
  <2>1. UNCHANGED <<registryVars, countVars, lockVars, deleter>> /\ Begin(p)
    BY <1>1 DEF CreateIndex
  <2>2. DOMAIN objs \subseteq DOMAIN objs' BY <1>1, CreateTyped
  <2>3. indexes' \in [Keys -> DOMAIN objs' \cup {None}]
    BY <2>1, <2>2 DEF TypeOK, registryVars
  <2>4. waiting' \subseteq Clients \cup {ReadyT(o) : o \in DOMAIN objs'} \cup {DelT(q) : q \in Clients}
    BY <2>1, <2>2 DEF TypeOK, lockVars
  <2> QED BY <1>t, <1>b, <1>1, <2>1, <2>3, <2>4, CreateTyped
          DEF TypeOK, registryVars, countVars, lockVars
<1>2. ASSUME NEW p \in Clients,
             DropIndex(p) \/ IndexByExpression(p) \/ IndexesByTable(p) \/ DeleteIndex(p)
      PROVE  TypeOK'
  <2>1. RLock(p) \/ UNCHANGED readers
    <3>1. CASE DropIndex(p) BY <3>1, Zenon DEF DropIndex
    <3>2. CASE IndexByExpression(p) BY <3>2, Zenon DEF IndexByExpression
    <3>3. CASE IndexesByTable(p) BY <3>3, Zenon DEF IndexesByTable
    <3>4. CASE DeleteIndex(p) BY <3>4 DEF DeleteIndex, lockVars
    <3> QED BY <1>2, <3>1, <3>2, <3>3, <3>4
  <2>2. /\ UNCHANGED <<objectVars, registryVars, countVars, waiting, rcHolder, finisher, deleter>>
        /\ Begin(p)
    <3>1. CASE DropIndex(p) BY <3>1 DEF DropIndex
    <3>2. CASE IndexByExpression(p) BY <3>2, Zenon DEF IndexByExpression
    <3>3. CASE IndexesByTable(p) BY <3>3 DEF IndexesByTable
    <3>4. CASE DeleteIndex(p) BY <3>4 DEF DeleteIndex, lockVars
    <3> QED BY <1>2, <3>1, <3>2, <3>3, <3>4
  <2>3. readers' \in [Clients -> Nat] BY <2>1, RLockStep DEF TypeOK
  <2> QED BY <1>t, <1>b, <2>2, <2>3 DEF TypeOK, objectVars, registryVars, countVars
<1>3. ASSUME NEW p \in Clients, AddLock(p) \/ DeleteLock(p) PROVE TypeOK'
  <2>1. /\ UNCHANGED <<objectVars, registryVars, countVars, finisher, deleter, ops>>
        /\ RequestLock(p)
    BY <1>3 DEF AddLock, DeleteLock
  <2> QED BY <1>t, <2>1 DEF TypeOK, RequestLock, objectVars, registryVars, countVars
<1>4. ASSUME NEW p \in Clients, AddIndex(p) PROVE TypeOK'
  <2> DEFINE o == th[p].obj
             k == th[p].key
  <2>1. o \in DOMAIN objs /\ k \in Keys
    BY <1>4, <1>c, <1>o DEF AddIndex, At, Threading, Threaded, Creating
  <2>2. /\ status' = [status EXCEPT ![k] = "notReady"] /\ indexes' = [indexes EXCEPT ![k] = o]
        /\ order' = Append(order, k) /\ finisher' = [finisher EXCEPT ![o] = "wait"]
        /\ waiting' = waiting \ {p}
        /\ UNCHANGED <<objectVars, loaders, countVars, readers, rcHolder, deleter, ops>>
    BY <1>4 DEF AddIndex, LockedStep
  <2> HIDE DEF o, k
  <2>3. order' \in Seq(Keys) BY <2>1, <2>2 DEF TypeOK
  <2>4. /\ status' \in [Keys -> {"notReady", "ready"}] /\ indexes' \in [Keys -> DOMAIN objs \cup {None}]
        /\ finisher' \in [DOMAIN objs -> {"none", "wait", "created", "locking", "done"}]
    BY <2>1, <2>2 DEF TypeOK
  <2> QED BY <1>t, <2>2, <2>3, <2>4 DEF TypeOK, objectVars, countVars
<1>5. ASSUME NEW p \in Clients, Save(p) PROVE TypeOK'
  <2> DEFINE o == th[p].obj
  <2>1. o \in DOMAIN objs BY <1>5, <1>o DEF Save, At, Threading, Threaded
  <2>2. /\ finisher' = [finisher EXCEPT ![o] = "created"]
        /\ \E x \in {"ok", "failed"} : saved' = [saved EXCEPT ![o] = x]
        /\ UNCHANGED <<objs, onDisk, registryVars, countVars, lockVars, deleter, ops>>
    BY <1>5 DEF Save
  <2> HIDE DEF o
  <2>3. /\ finisher' \in [DOMAIN objs -> {"none", "wait", "created", "locking", "done"}]
        /\ saved' \in [DOMAIN objs -> {"no", "ok", "failed"}]
    BY <2>1, <2>2 DEF TypeOK
  <2> QED BY <1>t, <2>2, <2>3 DEF TypeOK, registryVars, countVars, lockVars
<1>6. ASSUME NEW o \in DOMAIN objs, Finish(o) PROVE TypeOK'
  <2>k. KeyOf(o) \in Keys BY ObjectKey
  <2>1. CASE ReadyLock(o)
    BY <1>t, <2>1 DEF ReadyLock, RequestLock, TypeOK, objectVars, registryVars, countVars
  <2>2. CASE SetReady(o)
    <3>1. /\ status' = [status EXCEPT ![KeyOf(o)] = "ready"]
          /\ finisher' = [finisher EXCEPT ![o] = "done"] /\ waiting' \subseteq waiting
          /\ UNCHANGED <<objectVars, indexes, order, loaders, countVars, readers, rcHolder,
                         deleter, ops>>
      BY <2>2 DEF SetReady, LockedStep
    <3>2. status' \in [Keys -> {"notReady", "ready"}] BY <2>k, <3>1 DEF TypeOK
    <3>3. finisher' \in [DOMAIN objs -> {"none", "wait", "created", "locking", "done"}]
      BY <3>1 DEF TypeOK
    <3> QED BY <1>t, <3>1, <3>2, <3>3 DEF TypeOK, objectVars, countVars
  <2> QED BY <1>6, <2>1, <2>2 DEF Finish
<1>7. ASSUME NEW p \in Clients,
             \/ ValidateIndexToAdd(p) \/ CreateReturns(p) \/ ShowVisible(p) \/ DropCheck(p)
      PROVE  TypeOK'
  <2>1. UNCHANGED <<objectVars, registryVars, countVars, lockVars, finisher, deleter, ops>>
    BY <1>7 DEF ValidateIndexToAdd, CreateReturns, ShowVisible, DropCheck
  <2> QED BY <1>t, <2>1 DEF TypeOK, objectVars, registryVars, countVars, lockVars
<1>8. ASSUME NEW p \in Clients, RegisterIndexesForTable(p) PROVE TypeOK'
  <2>1. UNCHANGED <<objectVars, countVars, lockVars, finisher, deleter, ops>>
    BY <1>8 DEF RegisterIndexesForTable
  <2>2. /\ indexes' \in [Keys -> DOMAIN objs \cup {None}] /\ order' \in Seq(Keys)
        /\ status' \in [Keys -> {"notReady", "ready"}] /\ loaders' \subseteq loaders
    BY <1>8, RegisterTyped
  <2> QED BY <1>t, <2>1, <2>2 DEF TypeOK, objectVars, countVars, lockVars
<1>9. ASSUME NEW p \in Clients, Lookup(p) PROVE TypeOK'
  <2>1. readers' \in [Clients -> Nat]
    <3>1. At(p, "lookup") BY <1>9, Zenon DEF Lookup
    <3>2. readers[p] > 0 BY <3>1 DEF At, Threading, Threaded, ReadLocked
    <3> QED BY <1>9, <3>2, LookupStep, RUnlockStep DEF TypeOK
  <2>2. UNCHANGED <<objectVars, registryVars, countVars, waiting, rcHolder, finisher, deleter, ops>>
    BY <1>9, Zenon DEF Lookup
  <2> QED BY <1>t, <2>1, <2>2 DEF TypeOK, objectVars, registryVars, countVars
<1>10. ASSUME NEW p \in Clients, Retain(p) \/ IndexesByTableStep(p) PROVE TypeOK'
  <2>1. readers[p] > 0 BY <1>10 DEF Retain, IndexesByTableStep, At, Threading, Threaded, ReadLocked
  <2>2. readers' \in [Clients -> Nat]
    BY <1>10, <2>1, RetainStep, ShowStep, RUnlockStep DEF TypeOK
  <2>3. refCounts' = refCounts \/ \E k \in Keys : refCounts' = [refCounts EXCEPT ![k] = @ + 1]
    BY <1>10, RetainStep, ShowStep DEF Registered
  <2>4. refCounts' \in [Keys -> Int] BY <2>3 DEF TypeOK
  <2>5. UNCHANGED <<objectVars, registryVars, queue, waiting, rcHolder, finisher, deleter, ops>>
    BY <1>10 DEF Retain, IndexesByTableStep
  <2> QED BY <1>t, <2>2, <2>4, <2>5 DEF TypeOK, objectVars, registryVars
<1>11. ASSUME NEW p \in Clients, Release(p) \/ DropRelease(p) PROVE TypeOK'
  <2>1. UNCHANGED <<objectVars, registryVars, lockVars, finisher, ops>>
    BY <1>11 DEF Release, DropRelease
  <2>2. /\ refCounts' \in [Keys -> Int] /\ queue' \in [Keys -> Clients \cup {None}]
        /\ deleter' \in [Clients -> {"none", "wait", "closed", "locking"}]
    <3>1. CASE UNCHANGED <<countVars, deleter>> BY <3>1 DEF TypeOK, countVars
    <3>2. CASE th[p].pos \in DOMAIN th[p].used /\ ReleaseIndex(th[p].used[th[p].pos])
      <4>1. th[p].used[th[p].pos] \in DOMAIN objs BY <3>2 DEF Threading, Threaded
      <4> QED BY <3>2, <4>1, ReleaseTyped
    <3>3. CASE DropRelease(p)
      <4>1. th[p].obj \in DOMAIN objs BY <1>o, <3>3 DEF DropRelease, At, Threading, Threaded, Dropping
      <4> QED BY <3>3, <4>1, ReleaseTyped DEF DropRelease
    <3> QED BY <1>11, <3>1, <3>2, <3>3, ReleaseStep
  <2> QED BY <1>t, <2>1, <2>2 DEF TypeOK, objectVars, registryVars, lockVars
<1>12. ASSUME NEW p \in Clients, DeleteScan(p) PROVE TypeOK'
  <2>1. UNCHANGED <<objectVars, indexes, order, loaders, countVars, waiting, rcHolder, finisher,
                    deleter, ops>>
    BY <1>12 DEF DeleteScan
  <2> QED BY <1>t, <1>12, <2>1, ScanStep DEF TypeOK, objectVars, countVars
<1>13. ASSUME NEW p \in Clients, DeleteCheck(p) \/ DeleteStatus(p) PROVE TypeOK'
  <2>1. /\ UNCHANGED <<objectVars, indexes, order, loaders, countVars, waiting, rcHolder, finisher,
                       deleter, ops>>
        /\ RUnlock(p) \/ UNCHANGED readers
        /\ status' = status \/ status' = [status EXCEPT ![th[p].key] = "notReady"]
    BY <1>13 DEF DeleteCheck, DeleteStatus, registryVars
  <2>2. readers[p] > 0 /\ th[p].key \in Keys
    BY <1>13, <1>c DEF DeleteCheck, DeleteStatus, At, Threading, Threaded, ReadLocked
  <2>3. readers' \in [Clients -> Nat] BY <2>1, <2>2, RUnlockStep DEF TypeOK
  <2>4. status' \in [Keys -> {"notReady", "ready"}] BY <2>1, <2>2 DEF TypeOK
  <2> QED BY <1>t, <2>1, <2>3, <2>4 DEF TypeOK, objectVars, countVars
<1>14. ASSUME NEW p \in Clients, DeleteRc(p) PROVE TypeOK'
  <2>1. UNCHANGED <<objectVars, registryVars, refCounts, readers, waiting, finisher, ops>>
    BY <1>14 DEF DeleteRc
  <2>2. /\ queue' \in [Keys -> Clients \cup {None}] /\ rcHolder' \in Clients \cup {None}
        /\ deleter' \in [Clients -> {"none", "wait", "closed", "locking"}]
    <3>1. th[p].key \in Keys BY <1>14, <1>c DEF DeleteRc, At
    <3>2. CASE rcHolder' = p /\ UNCHANGED <<queue, deleter>> BY <3>2 DEF TypeOK
    <3>3. CASE /\ queue' = [queue EXCEPT ![th[p].key] = p]
               /\ deleter' = [deleter EXCEPT ![p] = "wait"] /\ UNCHANGED rcHolder
      BY <3>1, <3>3 DEF TypeOK
    <3> QED BY <1>14, <3>2, <3>3 DEF DeleteRc
  <2> QED BY <1>t, <2>1, <2>2 DEF TypeOK, objectVars, registryVars
<1>15. ASSUME NEW p \in Clients, DeleteRemove(p) \/ DeleterRemove(p) PROVE TypeOK'
  <2>1. /\ UNCHANGED <<objectVars, status, loaders, countVars, readers, finisher, ops>>
        /\ indexes' = [indexes EXCEPT ![th[p].key] = None] /\ waiting' \subseteq waiting
        /\ order' = order \/ order' = DropFirst(order, th[p].key)
        /\ rcHolder' = rcHolder \/ rcHolder' = None
        /\ deleter' = deleter \/ deleter' = [deleter EXCEPT ![p] = "none"]
    BY <1>15 DEF DeleteRemove, DeleterRemove, LockedStep
  <2>2. indexes' \in [Keys -> DOMAIN objs \cup {None}] BY <2>1 DEF TypeOK
  <2>3. order' \in Seq(Keys) BY <2>1, DropFirstType DEF TypeOK
  <2>4. rcHolder' \in Clients \cup {None} BY <2>1 DEF TypeOK
  <2>5. deleter' \in [Clients -> {"none", "wait", "closed", "locking"}] BY <2>1 DEF TypeOK
  <2> QED BY <1>t, <2>1, <2>2, <2>3, <2>4, <2>5 DEF TypeOK, objectVars, countVars
<1>16. ASSUME NEW p \in Clients, DeleteDone(p) PROVE TypeOK'
  <2>1. /\ UNCHANGED <<objs, saved, registryVars, countVars, lockVars, finisher, deleter, ops>>
        /\ onDisk' \subseteq onDisk
    BY <1>16 DEF DeleteDone
  <2> QED BY <1>t, <2>1 DEF TypeOK, registryVars, countVars, lockVars
<1>17. ASSUME NEW p \in Clients, DeleterLock(p) PROVE TypeOK'
  <2>1. /\ UNCHANGED <<objectVars, registryVars, countVars, finisher, ops, readers, rcHolder>>
        /\ waiting' = waiting \cup {DelT(p)} /\ deleter' = [deleter EXCEPT ![p] = "locking"]
    BY <1>17 DEF DeleterLock, RequestLock
  <2> QED BY <1>t, <2>1 DEF TypeOK, objectVars, registryVars, countVars
<1>18. CASE UNCHANGED vars BY <1>18 DEF vars, TypeOK
<1>19. ASSUME NEW p \in Clients, Continue(p) PROVE TypeOK'
  BY <1>3, <1>4, <1>5, <1>7, <1>8, <1>9, <1>10, <1>11, <1>12, <1>13, <1>14, <1>15, <1>16, <1>17, <1>19
  DEF Continue, DeleteStep
<1> QED BY <1>1, <1>2, <1>6, <1>18, <1>19, AllClients DEF Next

-----------------------------------------------------------------------------
(* What the clients hold *)

\* The clients other than p go on holding what they hold.
OthersKept(p) ==
  \A q \in Clients \ {p} : th'[q] = th[q] /\ (readers[q] > 0 => readers'[q] > 0)

\* A client that stays where it is holds what it held.
LEMMA StaysThreaded ==
  ASSUME TypeOK, Threading, [Next]_vars, NEW q \in Clients, th'[q] = th[q],
         readers[q] > 0 => readers'[q] > 0
  PROVE  Threaded(q)'
<1>1. Threaded(q) BY DEF Threading
<1>2. DOMAIN objs \subseteq DOMAIN objs' /\ \A o \in DOMAIN objs : objs'[o] = objs[o]
  BY ObjectsKept
<1> DEFINE t == th[q]
<1>3. th'[q] = t OBVIOUS
<1>4. t.obj \in DOMAIN objs => (KeyOf(t.obj))' = KeyOf(t.obj) BY <1>2, <1>3 DEF KeyOf
<1>5. Dropping(q)' <=> Dropping(q) BY DEF Dropping, At
<1> QED BY <1>1, <1>2, <1>4, <1>5 DEF Threaded, KeyOf

\* It is enough to look at the client that moves.
LEMMA ThreadingFrom ==
  ASSUME TypeOK, Threading, [Next]_vars, NEW p \in Clients, OthersKept(p), Threaded(p)'
  PROVE  Threading'
BY StaysThreaded DEF OthersKept, Threading

\* A client at the end of its statement holds nothing.
LEMMA IdleThreaded == ASSUME NEW p \in Clients, Returns(p) PROVE Threaded(p)'
<1>1. /\ th'[p].pc = "idle" /\ th'[p].key = None /\ th'[p].obj = None /\ th'[p].cont = ""
      /\ th'[p].used = <<>>
  BY DEF Returns, Moves
<1>2. ~Dropping(p)' BY <1>1 DEF Dropping
<1>3. DOMAIN <<>> = {} OBVIOUS
<1> QED BY <1>1, <1>2, <1>3 DEF Threaded, Creating, ReadLocked

\* A client that goes on inside a statement, without an index or with the key of its object.
LEMMA JumpThreaded ==
  ASSUME TypeOK, Threading, [Next]_vars, NEW p \in Clients, NEW l \in ThreadStates, GoesTo(p, l),
         ~At(p, "idle"), ~At(p, "retain"),
         l \notin ReadLocked \cup {"show", "using", "idle"},
         l \in {"panic", "visible"} \/ th[p].used = <<>>,
         l \in Creating \cup {"save", "awaitReady"} => th[p].pc \in Creating \cup {"save"},
         l \in {"dropRelease", "dropCheck", "delScan"} => l = "dropCheck" /\ At(p, "dropRelease"),
         l \notin {"delScan", "delCheck", "delStatus"}, l = "delQueued" => th[p].cont = "api",
         l = "delRc" => At(p, "delStatus"),
         th[p].cont = "drop" => l \in DropStates
  PROVE  Threaded(p)'
<1>1. Threaded(p) BY DEF Threading
<1>2. DOMAIN objs \subseteq DOMAIN objs' /\ \A o \in DOMAIN objs : objs'[o] = objs[o]
  BY ObjectsKept
<1>3. /\ th'[p].pc = l /\ th'[p].key = th[p].key /\ th'[p].obj = th[p].obj
      /\ th'[p].cont = th[p].cont /\ th'[p].used = th[p].used
  BY DEF GoesTo, Moves
<1>4. th[p].obj \in DOMAIN objs => (KeyOf(th[p].obj))' = objs[th[p].obj].key BY <1>2, <1>3 DEF KeyOf
<1>5. /\ th[p].obj # None => th[p].obj \in DOMAIN objs
      /\ \A i \in DOMAIN th[p].used : th[p].used[i] \in DOMAIN objs'
      /\ th[p].key \in Keys
  BY <1>1, <1>2 DEF Threaded, At
<1>6. l \in Creating \cup {"save", "awaitReady"} =>
        th[p].obj # None /\ objs[th[p].obj].key = th[p].key
  BY <1>1 DEF Threaded, KeyOf
<1>7. /\ Dropping(p)' <=> th[p].cont = "drop"
      /\ th[p].cont = "drop" => Dropping(p)
  BY <1>3 DEF Dropping, At, ReadLocked
<1>8. Dropping(p) => th[p].obj # None BY <1>1 DEF Threaded
<1>9. l \in {"dropRelease", "dropCheck", "delScan"} =>
        th[p].cont = "drop" /\ objs[th[p].obj].key = th[p].key
  BY <1>1, <1>7 DEF Threaded, KeyOf, At
<1>10. l = "delRc" => th[p].cont = "api" BY <1>1 DEF Threaded, At
<1> QED BY <1>2, <1>3, <1>4, <1>5, <1>6, <1>7, <1>8, <1>9, <1>10 DEF Threaded, KeyOf, ReadLocked

\* The locks of the other clients.
LEMMA OthersKeptBy ==
  ASSUME TypeOK, NEW p \in Clients,
         \A q \in Clients \ {p} : th'[q] = th[q],
         UNCHANGED readers \/ RLock(p) \/ RUnlock(p)
  PROVE  OthersKept(p)
<1>1. readers \in [Clients -> Nat] BY DEF TypeOK
<1>2. \A q \in Clients \ {p} : readers'[q] = readers[q] BY <1>1 DEF RLock, RUnlock
<1> QED BY <1>2 DEF OthersKept

\* The beginnings of the statements.
LEMMA BeginThreading ==
  ASSUME TypeOK, Threading, Next, NEW p \in Clients,
         \/ CreateIndex(p) \/ DropIndex(p) \/ IndexByExpression(p) \/ IndexesByTable(p)
         \/ DeleteIndex(p)
  PROVE  Threading'
<1>e. DOMAIN <<>> = {} OBVIOUS
<1>1. CASE CreateIndex(p)
  <2>1. PICK k \in Keys, e \in Exprs :
          /\ objs' = Append(objs, [key |-> k, expr |-> e])
          /\ Moves(p, "validate", k, Len(objs) + 1, "", <<>>, 0)
    BY <1>1, CreateIndexStep
  <2>2. /\ th'[p].pc = "validate" /\ th'[p].key = k /\ th'[p].obj = Len(objs) + 1
        /\ th'[p].cont = "" /\ th'[p].used = <<>> /\ \A q \in Clients \ {p} : th'[q] = th[q]
    BY <2>1 DEF Moves
  <2>3. Len(objs) + 1 \in DOMAIN objs' BY <1>1, CreateTyped
  <2>4. objs'[Len(objs) + 1].key = k
    <3>1. objs \in Seq([key : Keys, expr : Exprs]) BY DEF TypeOK
    <3> DEFINE r == [key |-> k, expr |-> e]
    <3>2. r \in [key : Keys, expr : Exprs] /\ r.key = k OBVIOUS
    <3> HIDE DEF r
    <3>3. Append(objs, r)[Len(objs) + 1] = r BY <3>1, <3>2, AppendProperties
    <3> QED BY <2>1, <3>2, <3>3 DEF r
  <2>5. Len(objs) + 1 # None BY RegistryAssumption DEF TypeOK
  <2>6. Threaded(p)'
    BY <1>e, <2>2, <2>3, <2>4, <2>5 DEF Threaded, Dropping, KeyOf, ReadLocked, Creating
  <2>7. UNCHANGED readers BY <1>1 DEF CreateIndex, lockVars
  <2> QED BY <2>2, <2>6, <2>7, OthersKeptBy, ThreadingFrom
<1>2. CASE DropIndex(p)
  <2>1. PICK k \in Keys : Moves(p, "retain", k, None, "drop", <<>>, 0) BY <1>2, DropIndexStep
  <2>2. /\ th'[p].pc = "retain" /\ th'[p].key = k /\ th'[p].obj = None
        /\ th'[p].cont = "drop" /\ th'[p].used = <<>> /\ \A q \in Clients \ {p} : th'[q] = th[q]
    BY <2>1 DEF Moves
  <2>3. RLock(p) BY <1>2, Zenon DEF DropIndex
  <2>4. readers'[p] > 0 BY <2>3, RLockStep
  <2>5. Threaded(p)' BY <1>e, <2>2, <2>4 DEF Threaded, Dropping, At, ReadLocked, Creating
  <2> QED BY <2>2, <2>3, <2>5, OthersKeptBy, ThreadingFrom
<1>3. CASE IndexByExpression(p)
  <2>1. PICK k \in Keys :
          Moves(p, IF Db(k) \in loaders THEN "load" ELSE "lookup", k, None, "", <<>>, 0)
    BY <1>3, IndexByExpressionStep
  <2>2. /\ th'[p].pc \in {"load", "lookup"} /\ th'[p].key = k /\ th'[p].obj = None
        /\ th'[p].cont = "" /\ th'[p].used = <<>> /\ \A q \in Clients \ {p} : th'[q] = th[q]
    BY <2>1 DEF Moves
  <2>3. RLock(p) BY <1>3, Zenon DEF IndexByExpression
  <2>4. readers'[p] > 0 BY <2>3, RLockStep
  <2>5. Threaded(p)' BY <1>e, <2>2, <2>4 DEF Threaded, Dropping, At, ReadLocked, Creating
  <2> QED BY <2>2, <2>3, <2>5, OthersKeptBy, ThreadingFrom
<1>4. CASE IndexesByTable(p)
  <2>1. PICK k \in Keys : Moves(p, "show", k, None, "", <<>>, 1) BY <1>4, IndexesByTableBegin
  <2>2. /\ th'[p].pc = "show" /\ th'[p].key = k /\ th'[p].obj = None
        /\ th'[p].cont = "" /\ th'[p].used = <<>> /\ \A q \in Clients \ {p} : th'[q] = th[q]
    BY <2>1 DEF Moves
  <2>6. th'[p].pos > 0
    <3>1. th'[p].pos = 1 BY <2>1 DEF Moves
    <3> QED BY <3>1
  <2>3. RLock(p) BY <1>4, Zenon DEF IndexesByTable
  <2>4. readers'[p] > 0 BY <2>3, RLockStep
  <2>5. Threaded(p)' BY <1>e, <2>2, <2>4, <2>6 DEF Threaded, Dropping, At, ReadLocked, Creating
  <2> QED BY <2>2, <2>3, <2>5, OthersKeptBy, ThreadingFrom
<1>5. CASE DeleteIndex(p)
  <2>1. PICK k \in Keys : Moves(p, "delScan", k, None, "api", <<>>, 0) BY <1>5, DeleteIndexStep
  <2>2. /\ th'[p].pc = "delScan" /\ th'[p].key = k /\ th'[p].obj = None
        /\ th'[p].cont = "api" /\ th'[p].used = <<>> /\ \A q \in Clients \ {p} : th'[q] = th[q]
    BY <2>1 DEF Moves
  <2>3. UNCHANGED readers BY <1>5 DEF DeleteIndex, lockVars
  <2>5. Threaded(p)' BY <1>e, <2>2 DEF Threaded, Dropping, At, ReadLocked, Creating
  <2> QED BY <2>2, <2>3, <2>5, OthersKeptBy, ThreadingFrom
<1> QED BY <1>1, <1>2, <1>3, <1>4, <1>5

\* CREATE INDEX goes on.
LEMMA CreateThreading ==
  ASSUME TypeOK, Threading, Next, NEW p \in Clients,
         ValidateIndexToAdd(p) \/ AddLock(p) \/ AddIndex(p) \/ Save(p) \/ CreateReturns(p)
  PROVE  Threading'
<1>0. Threaded(p) BY DEF Threading
<1>r. UNCHANGED readers
  BY DEF ValidateIndexToAdd, AddLock, AddIndex, Save, CreateReturns, RequestLock, lockVars
<1>1. CASE Return(p)
  <2>1. Returns(p) BY <1>1, ReturnStep
  <2>2. \A q \in Clients \ {p} : th'[q] = th[q] BY <2>1 DEF Returns, Moves
  <2> QED BY <1>r, <2>1, <2>2, IdleThreaded, OthersKeptBy, ThreadingFrom
<1>2. ASSUME NEW l \in {"addLock", "addIndex", "save", "awaitReady"}, Goto(p, l),
             th[p].pc \in Creating \cup {"save"}
      PROVE  Threading'
  <2>1. GoesTo(p, l) BY <1>2, GotoStep DEF ThreadStates
  <2>2. \A q \in Clients \ {p} : th'[q] = th[q] BY <2>1 DEF GoesTo, Moves
  <2>3. th[p].used = <<>> BY <1>0, <1>2 DEF Threaded, Creating
  <2>4. th[p].cont # "drop" BY <1>0, <1>2 DEF Threaded, Creating, Dropping, DropStates, At
  <2>5. Threaded(p)'
    BY <1>2, <2>1, <2>3, <2>4, JumpThreaded DEF At, Creating, ReadLocked, ThreadStates
  <2> QED BY <1>r, <2>2, <2>5, OthersKeptBy, ThreadingFrom
<1>3. CASE At(p, "save") /\ th' = [th EXCEPT ![p].pc = "delScan", ![p].cont = "abort"]
  <2>1. Moves(p, "delScan", th[p].key, th[p].obj, "abort", th[p].used, th[p].pos)
    BY <1>3, GotoContStep DEF ThreadStates
  <2>2. /\ th'[p].pc = "delScan" /\ th'[p].key = th[p].key /\ th'[p].obj = th[p].obj
        /\ th'[p].cont = "abort" /\ th'[p].used = th[p].used
        /\ \A q \in Clients \ {p} : th'[q] = th[q]
    BY <2>1 DEF Moves
  <2>3. DOMAIN objs \subseteq DOMAIN objs' BY ObjectsKept
  <2>4. Threaded(p)'
    BY <1>0, <1>3, <2>2, <2>3 DEF Threaded, Dropping, At, ReadLocked, Creating
  <2> QED BY <1>r, <2>2, <2>4, OthersKeptBy, ThreadingFrom
<1> QED BY <1>1, <1>2, <1>3
        DEF ValidateIndexToAdd, AddLock, AddIndex, Save, CreateReturns, At, Creating

\* Queries and SHOW INDEXES go on.
LEMMA LookupThreading ==
  ASSUME TypeOK, Threading, Keyed, Next, NEW p \in Clients,
         \/ RegisterIndexesForTable(p) \/ Lookup(p) \/ IndexesByTableStep(p) \/ ShowVisible(p)
         \/ Release(p)
  PROVE  Threading'
<1>0. Threaded(p) BY DEF Threading
<1>t. th[p].pos \in Nat /\ th[p].used \in Seq(Nat) BY ThreadType
<1>o. DOMAIN objs \subseteq DOMAIN objs' /\ \A o \in DOMAIN objs : objs'[o] = objs[o] BY ObjectsKept
<1>1. ASSUME Returns(p), UNCHANGED readers \/ RLock(p) \/ RUnlock(p) PROVE Threading'
  <2>2. \A q \in Clients \ {p} : th'[q] = th[q] BY <1>1 DEF Returns, Moves
  <2> QED BY <1>1, <2>2, IdleThreaded, OthersKeptBy, ThreadingFrom
<1>2. CASE RegisterIndexesForTable(p)
  <2>1. /\ At(p, "load") /\ Goto(p, "lookup") /\ UNCHANGED readers
    BY <1>2 DEF RegisterIndexesForTable, lockVars
  <2>2. GoesTo(p, "lookup") BY <2>1, GotoStep DEF ThreadStates
  <2>3. /\ th'[p].pc = "lookup" /\ th'[p].key = th[p].key /\ th'[p].obj = th[p].obj
        /\ th'[p].cont = th[p].cont /\ th'[p].used = th[p].used
        /\ \A q \in Clients \ {p} : th'[q] = th[q]
    BY <2>2 DEF GoesTo, Moves
  <2>4. th[p].cont # "drop" BY <1>0, <2>1 DEF Threaded, Dropping, DropStates, At
  <2>5. Threaded(p)'
    BY <1>0, <1>o, <2>1, <2>3, <2>4 DEF Threaded, Dropping, At, ReadLocked, Creating
  <2> QED BY <2>1, <2>3, <2>5, OthersKeptBy, ThreadingFrom
<1>3. CASE Lookup(p)
  <2>1. At(p, "lookup") BY <1>3, Zenon DEF Lookup
  <2>2. ASSUME NEW k \in Registered, UNCHANGED readers,
               Moves(p, "retain", k, indexes[k], "query", th[p].used, th[p].pos)
        PROVE  Threading'
    <3>1. /\ th'[p].pc = "retain" /\ th'[p].key = k /\ th'[p].obj = indexes[k]
          /\ th'[p].cont = "query" /\ th'[p].used = th[p].used
          /\ \A q \in Clients \ {p} : th'[q] = th[q]
      BY <2>2 DEF Moves
    <3>2. k \in Keys /\ indexes[k] # None /\ indexes[k] \in DOMAIN objs BY DEF Registered, TypeOK
    <3>3. objs'[indexes[k]].key = k BY <1>o, <3>2 DEF Keyed, KeyOf
    <3>4. th[p].used = <<>> /\ readers[p] > 0 BY <1>0, <2>1 DEF Threaded, At, ReadLocked
    <3>5. Threaded(p)'
      BY <1>0, <1>o, <2>2, <3>1, <3>2, <3>3, <3>4
      DEF Threaded, Dropping, KeyOf, ReadLocked, Creating
    <3> QED BY <2>2, <3>1, <3>5, OthersKeptBy, ThreadingFrom
  <2> QED BY <1>1, <1>3, <2>2, LookupStep
<1>4. CASE IndexesByTableStep(p)
  <2>s. At(p, "show") /\ th[p].cont # "drop"
    BY <1>0, <1>4, ShowStep DEF Threaded, Dropping, DropStates, At
  <2>1. ASSUME NEW l \in {"visible", "panic"}, GoesTo(p, l), UNCHANGED readers \/ RUnlock(p)
        PROVE  Threading'
    <3>1. Threaded(p)'
      BY <2>s, <2>1, JumpThreaded DEF At, Creating, ReadLocked, ThreadStates
    <3> QED BY <2>1, <3>1, OthersKeptBy, ThreadingFrom DEF GoesTo, Moves
  <2>2. ASSUME NEW us, \A i \in DOMAIN us : us[i] \in DOMAIN objs, UNCHANGED readers,
               Moves(p, "show", th[p].key, th[p].obj, th[p].cont, us, th[p].pos + 1)
        PROVE  Threading'
    <3>1. /\ th'[p].pc = "show" /\ th'[p].key = th[p].key /\ th'[p].obj = th[p].obj
          /\ th'[p].cont = th[p].cont /\ th'[p].used = us /\ th'[p].pos = th[p].pos + 1
          /\ \A q \in Clients \ {p} : th'[q] = th[q]
      BY <2>2 DEF Moves
    <3>2. th'[p].pos > 0 BY <1>t, <3>1
    <3>3. Threaded(p)'
      BY <1>0, <1>o, <2>s, <2>2, <3>1, <3>2 DEF Threaded, Dropping, At, ReadLocked, Creating
    <3> QED BY <2>2, <3>1, <3>3, OthersKeptBy, ThreadingFrom
  <2>3. \A i \in DOMAIN th[p].used : th[p].used[i] \in DOMAIN objs BY <1>0 DEF Threaded
  <2>4. ASSUME NEW k \in Registered
        PROVE  \A i \in DOMAIN Append(th[p].used, indexes[k]) :
                 Append(th[p].used, indexes[k])[i] \in DOMAIN objs
    <3>1. indexes[k] \in DOMAIN objs BY DEF Registered, TypeOK
    <3>2. th[p].used \in Seq(DOMAIN objs) BY <1>t, <2>3
    <3> QED BY <3>1, <3>2
  <2> QED BY <1>4, <2>1, <2>2, <2>3, <2>4, ShowStep
<1>5. CASE ShowVisible(p)
  <2>1. At(p, "visible") /\ UNCHANGED readers BY <1>5 DEF ShowVisible, lockVars
  <2>2. /\ th'[p].pc = "using" /\ th'[p].key = th[p].key /\ th'[p].obj = th[p].obj
        /\ th'[p].cont = th[p].cont /\ th'[p].used = th[p].used /\ th'[p].pos = 1
        /\ \A q \in Clients \ {p} : th'[q] = th[q]
    BY <1>5, VisibleStep DEF Moves
  <2>3. th'[p].pos > 0 BY <2>2
  <2>4. th[p].cont # "drop" BY <1>0, <2>1 DEF Threaded, Dropping, DropStates, At
  <2>5. Threaded(p)'
    BY <1>0, <1>o, <2>1, <2>2, <2>3, <2>4 DEF Threaded, Dropping, At, ReadLocked, Creating
  <2> QED BY <2>1, <2>2, <2>5, OthersKeptBy, ThreadingFrom
<1>6. CASE Release(p)
  <2>1. At(p, "using") /\ UNCHANGED readers BY <1>6 DEF Release, lockVars
  <2>2. ASSUME Moves(p, "using", th[p].key, th[p].obj, th[p].cont, th[p].used, th[p].pos + 1)
        PROVE  Threading'
    <3>1. /\ th'[p].pc = "using" /\ th'[p].key = th[p].key /\ th'[p].obj = th[p].obj
          /\ th'[p].cont = th[p].cont /\ th'[p].used = th[p].used /\ th'[p].pos = th[p].pos + 1
          /\ \A q \in Clients \ {p} : th'[q] = th[q]
      BY <2>2 DEF Moves
    <3>2. th'[p].pos > 0 BY <1>t, <3>1
    <3>3. th[p].cont # "drop" BY <1>0, <2>1 DEF Threaded, Dropping, DropStates, At
    <3>4. Threaded(p)'
      BY <1>0, <1>o, <2>1, <3>1, <3>2, <3>3 DEF Threaded, Dropping, At, ReadLocked, Creating
    <3> QED BY <2>1, <3>1, <3>4, OthersKeptBy, ThreadingFrom
  <2> QED BY <1>1, <1>6, <2>1, <2>2, ReleaseStep
<1> QED BY <1>2, <1>3, <1>4, <1>5, <1>6

\* The lookup of DROP INDEX or of a query ends, and DROP INDEX goes on.
LEMMA DropThreading ==
  ASSUME TypeOK, Threading, Keyed, Next, NEW p \in Clients, Retain(p) \/ DropRelease(p) \/ DropCheck(p)
  PROVE  Threading'
<1>0. Threaded(p) BY DEF Threading
<1>o. DOMAIN objs \subseteq DOMAIN objs' /\ \A o \in DOMAIN objs : objs'[o] = objs[o] BY ObjectsKept
<1>1. ASSUME Returns(p), UNCHANGED readers \/ RUnlock(p) PROVE Threading'
  <2>2. \A q \in Clients \ {p} : th'[q] = th[q] BY <1>1 DEF Returns, Moves
  <2> QED BY <1>1, <2>2, IdleThreaded, OthersKeptBy, ThreadingFrom
<1>2. CASE Retain(p)
  <2> DEFINE k == th[p].key
  <2>1. At(p, "retain") /\ RUnlock(p) /\ k \in Keys BY <1>2, RetainStep
  <2>2. ASSUME th[p].obj \in DOMAIN objs,
               Moves(p, "using", k, th[p].obj, "query", <<th[p].obj>>, 1)
        PROVE  Threading'
    <3>1. /\ th'[p].pc = "using" /\ th'[p].key = k /\ th'[p].obj = th[p].obj
          /\ th'[p].cont = "query" /\ th'[p].used = <<th[p].obj>> /\ th'[p].pos = 1
          /\ \A q \in Clients \ {p} : th'[q] = th[q]
      BY <2>2 DEF Moves
    <3>2. th'[p].pos > 0 BY <3>1
    <3>3. \A i \in DOMAIN th'[p].used : th'[p].used[i] \in DOMAIN objs BY <2>2, <3>1
    <3>4. Threaded(p)'
      BY <1>o, <2>1, <2>2, <3>1, <3>2, <3>3 DEF Threaded, Dropping, At, ReadLocked, Creating
    <3> QED BY <2>1, <3>1, <3>4, OthersKeptBy, ThreadingFrom
  <2>3. ASSUME k \in Registered,
               Moves(p, "dropRelease", k, indexes[k], "drop", th[p].used, th[p].pos)
        PROVE  Threading'
    <3>1. /\ th'[p].pc = "dropRelease" /\ th'[p].key = k /\ th'[p].obj = indexes[k]
          /\ th'[p].cont = "drop" /\ th'[p].used = th[p].used
          /\ \A q \in Clients \ {p} : th'[q] = th[q]
      BY <2>3 DEF Moves
    <3>2. indexes[k] # None /\ indexes[k] \in DOMAIN objs BY <2>1, <2>3 DEF Registered, TypeOK
    <3>3. objs'[indexes[k]].key = k BY <1>o, <2>3, <3>2 DEF Keyed, KeyOf
    <3>4. th[p].used = <<>> /\ DOMAIN <<>> = {} BY <1>0, <2>1 DEF Threaded, At
    <3>5. Threaded(p)'
      BY <1>o, <2>1, <3>1, <3>2, <3>3, <3>4
      DEF Threaded, Dropping, At, KeyOf, ReadLocked, Creating, DropStates
    <3> QED BY <2>1, <3>1, <3>5, OthersKeptBy, ThreadingFrom
  <2> QED BY <1>1, <1>2, <2>1, <2>2, <2>3, RetainStep
<1>3. CASE DropRelease(p)
  <2>1. At(p, "dropRelease") /\ Goto(p, "dropCheck") /\ UNCHANGED readers
    BY <1>3 DEF DropRelease, lockVars
  <2>2. GoesTo(p, "dropCheck") BY <2>1, GotoStep DEF ThreadStates
  <2>3. th[p].used = <<>> BY <1>0, <2>1 DEF Threaded, At
  <2>4. Threaded(p)'
    BY <2>1, <2>2, <2>3, JumpThreaded DEF At, Creating, ReadLocked, ThreadStates, DropStates
  <2> QED BY <2>1, <2>2, <2>4, OthersKeptBy, ThreadingFrom DEF GoesTo, Moves
<1>4. CASE DropCheck(p)
  <2>1. At(p, "dropCheck") /\ UNCHANGED readers BY <1>4 DEF DropCheck, lockVars
  <2>2. CASE Return(p) BY <1>1, <2>1, <2>2, ReturnStep
  <2>3. CASE th' = [th EXCEPT ![p].pc = "delScan", ![p].cont = "drop"]
    <3>1. Moves(p, "delScan", th[p].key, th[p].obj, "drop", th[p].used, th[p].pos)
      BY <2>3, GotoContStep DEF ThreadStates
    <3>2. /\ th'[p].pc = "delScan" /\ th'[p].key = th[p].key /\ th'[p].obj = th[p].obj
          /\ th'[p].cont = "drop" /\ th'[p].used = th[p].used
          /\ \A q \in Clients \ {p} : th'[q] = th[q]
      BY <3>1 DEF Moves
    <3>3. Dropping(p) BY <1>0, <2>1 DEF Threaded, Dropping, At
    <3>4. /\ th[p].obj # None /\ th[p].obj \in DOMAIN objs /\ objs'[th[p].obj].key = th[p].key
          /\ th[p].used = <<>> /\ DOMAIN <<>> = {} /\ th[p].key \in Keys
      BY <1>0, <1>o, <2>1, <3>3 DEF Threaded, At, KeyOf
    <3>5. Threaded(p)'
      BY <1>o, <3>2, <3>4 DEF Threaded, Dropping, At, KeyOf, ReadLocked, Creating, DropStates
    <3> QED BY <2>1, <3>2, <3>5, OthersKeptBy, ThreadingFrom
  <2> QED BY <1>4, <2>2, <2>3 DEF DropCheck
<1> QED BY <1>2, <1>3, <1>4

\* DeleteIndex goes on.
LEMMA DeleteThreading ==
  ASSUME TypeOK, Threading, Queued, Next, NEW p \in Clients, DeleteStep(p)
  PROVE  Threading'
<1>0. Threaded(p) BY DEF Threading
<1>o. DOMAIN objs \subseteq DOMAIN objs' /\ \A o \in DOMAIN objs : objs'[o] = objs[o] BY ObjectsKept
<1>1. ASSUME Returns(p), UNCHANGED readers \/ RUnlock(p) PROVE Threading'
  <2>2. \A q \in Clients \ {p} : th'[q] = th[q] BY <1>1 DEF Returns, Moves
  <2> QED BY <1>1, <2>2, IdleThreaded, OthersKeptBy, ThreadingFrom
<1>2. ASSUME NEW l \in {"delRc", "delLock", "delQueued", "delRemove", "delDone"}, Goto(p, l),
             th[p].pc \in {"delStatus", "delRc", "delLock", "delRemove", "delQueued"},
             l = "delQueued" => At(p, "delRc") /\ ~Forced(p), l = "delRc" => At(p, "delStatus"),
             UNCHANGED readers \/ RUnlock(p)
      PROVE  Threading'
  <2>1. GoesTo(p, l) BY <1>2, GotoStep DEF ThreadStates
  <2>2. th[p].used = <<>> BY <1>0, <1>2 DEF Threaded
  <2>3. l = "delQueued" => th[p].cont = "api" BY <1>0, <1>2 DEF Threaded, Forced, At
  <2>4. Threaded(p)'
    BY <1>2, <2>1, <2>2, <2>3, JumpThreaded
    DEF At, Creating, ReadLocked, ThreadStates, DropStates, Forced
  <2> QED BY <1>2, <2>1, <2>4, OthersKeptBy, ThreadingFrom DEF GoesTo, Moves
<1>3. CASE DeleteScan(p)
  <2>k. OthersKept(p) BY <1>3, ScanStep DEF OthersKept, Returns, Moves
  <2>s. At(p, "delScan") /\ th[p].used = <<>> /\ DOMAIN <<>> = {}
    BY <1>0, <1>3, ScanStep DEF Threaded, At
  <2>1. CASE Returns(p) BY <2>k, <2>1, IdleThreaded, ThreadingFrom
  <2>2. ASSUME NEW k \in SameId(th[p].key), Forced(p),
               Moves(p, "delRc", k, th[p].obj, th[p].cont, th[p].used, th[p].pos)
        PROVE  Threading'
    <3>1. /\ th'[p].pc = "delRc" /\ th'[p].key = k /\ th'[p].obj = th[p].obj
          /\ th'[p].cont = th[p].cont /\ th'[p].used = th[p].used
      BY <2>2 DEF Moves
    <3>2. k \in Keys BY DEF SameId, Registered
    <3>3. th[p].cont = "drop" => th[p].obj # None BY <1>0, <2>s DEF Threaded, Dropping, At
    <3>4. Threaded(p)'
      BY <1>0, <1>o, <2>s, <3>1, <3>2, <3>3
      DEF Threaded, Dropping, At, ReadLocked, Creating, DropStates
    <3> QED BY <2>k, <3>4, ThreadingFrom
  <2>3. ASSUME NEW k \in SameId(th[p].key), ~Forced(p), readers'[p] > 0,
               Moves(p, "delCheck", k, th[p].obj, th[p].cont, th[p].used, th[p].pos)
        PROVE  Threading'
    <3>1. /\ th'[p].pc = "delCheck" /\ th'[p].key = k /\ th'[p].obj = th[p].obj
          /\ th'[p].cont = th[p].cont /\ th'[p].used = th[p].used
      BY <2>3 DEF Moves
    <3>2. k \in Keys BY DEF SameId, Registered
    <3>3. th[p].cont = "api" BY <1>0, <2>s, <2>3 DEF Forced, Threaded, At
    <3>4. Threaded(p)'
      BY <1>0, <1>o, <2>s, <2>3, <3>1, <3>2, <3>3 DEF Threaded, Dropping, Creating
    <3> QED BY <2>k, <3>4, ThreadingFrom
  <2> QED BY <1>3, <2>1, <2>2, <2>3, ScanStep
<1>4. CASE DeleteCheck(p)
  <2>1. At(p, "delCheck") BY <1>4 DEF DeleteCheck
  <2>2. CASE RUnlock(p) /\ Return(p) BY <1>1, <2>2, ReturnStep
  <2>3. CASE Goto(p, "delStatus") /\ UNCHANGED readers
    <3>1. GoesTo(p, "delStatus") BY <2>3, GotoStep DEF ThreadStates
    <3>2. /\ th'[p].pc = "delStatus" /\ th'[p].key = th[p].key /\ th'[p].obj = th[p].obj
          /\ th'[p].cont = th[p].cont /\ th'[p].used = th[p].used
          /\ \A q \in Clients \ {p} : th'[q] = th[q]
      BY <3>1 DEF GoesTo, Moves
    <3>3. /\ th[p].cont = "api" /\ th[p].key \in Keys /\ th[p].used = <<>> /\ DOMAIN <<>> = {}
          /\ readers'[p] > 0
      BY <1>0, <2>1, <2>3 DEF Threaded, At, ReadLocked
    <3>4. Threaded(p)' BY <1>0, <1>o, <3>2, <3>3 DEF Threaded, Dropping, Creating
    <3> QED BY <2>3, <3>2, <3>4, OthersKeptBy, ThreadingFrom
  <2> QED BY <1>4, <2>2, <2>3 DEF DeleteCheck
<1>9. CASE DeleteStatus(p)
  <2>1. /\ At(p, "delStatus") /\ RUnlock(p) /\ Goto(p, "delRc")
    BY <1>9 DEF DeleteStatus
  <2> QED BY <1>2, <2>1 DEF At
<1>5. CASE DeleteRc(p) \/ DeleteLock(p) \/ DeleteRemove(p)
  <2>1. /\ th[p].pc \in {"delRc", "delLock", "delRemove"} /\ UNCHANGED readers
        /\ \/ Goto(p, "delQueued") /\ At(p, "delRc") /\ ~Forced(p)
           \/ Goto(p, "delLock") \/ Goto(p, "delRemove") \/ Goto(p, "delDone")
    BY <1>5 DEF DeleteRc, DeleteLock, DeleteRemove, RequestLock, At
  <2> QED BY <1>2, <2>1
<1>6. CASE DeleterRemove(p)
  <2>1. deleter[p] = "locking" /\ UNCHANGED readers /\ Goto(p, "delDone")
    BY <1>6 DEF DeleterRemove
  <2>2. At(p, "delQueued") BY <2>1 DEF Queued
  <2> QED BY <1>2, <2>1, <2>2 DEF At
<1>7. CASE DeleteDone(p) BY <1>1, <1>7, ReturnStep DEF DeleteDone, lockVars
<1>8. CASE DeleterLock(p)
  <2>1. UNCHANGED <<th, readers>> BY <1>8 DEF DeleterLock, RequestLock
  <2> QED BY <2>1, StaysThreaded DEF Threading
<1> QED BY <1>3, <1>4, <1>5, <1>6, <1>7, <1>8, <1>9 DEF DeleteStep

\* Every step keeps what the clients hold.
LEMMA ThreadingStep == ASSUME TypeOK, Threading, Keyed, Queued, [Next]_vars PROVE Threading'
<1>1. ASSUME UNCHANGED <<th, readers>> PROVE Threading' BY <1>1, StaysThreaded DEF Threading
<1>2. ASSUME NEW o \in DOMAIN objs, Finish(o) PROVE Threading'
  BY <1>1, <1>2 DEF Finish, ReadyLock, SetReady, RequestLock
<1>3. CASE UNCHANGED vars BY <1>1, <1>3 DEF vars
<1>4. ASSUME Next, NEW p \in Clients, Continue(p) PROVE Threading'
  BY <1>4, CreateThreading, LookupThreading, DropThreading, DeleteThreading DEF Continue
<1>5. CASE Next BY <1>2, <1>4, <1>5, BeginThreading, AllClients DEF Next
<1> QED BY <1>3, <1>5

-----------------------------------------------------------------------------
(* Which statement a client is in *)

\* Inside a statement, only the client that goes on moves, and it does not begin another one.
LEMMA ContinueMoves ==
  ASSUME TypeOK, Threading, NEW p \in Clients, Continue(p)
  PROVE  /\ UNCHANGED ops /\ \A q \in Clients \ {p} : th'[q] = th[q]
         /\ th'[p].pc \in Creating =>
              th[p].pc \in Creating /\ th'[p].obj = th[p].obj /\ th'[p].key = th[p].key
         /\ th'[p].pc \in {"save", "awaitReady"} =>
              th'[p] = th[p] \/ ((AddIndex(p) \/ Save(p)) /\ th'[p].obj = th[p].obj)
         /\ th'[p] = th[p] \/ th'[p].pc # "load"
         /\ th'[p].pc = "panic" => th'[p] = th[p] \/ IndexesByTableStep(p)
         /\ th'[p].cont = th[p].cont \/ th'[p].cont \in {"", "query", "drop", "abort"}
<1> DEFINE Others == \A q \in Clients \ {p} : th'[q] = th[q]
           Same == /\ th'[p].pc \in Creating =>
                        th[p].pc \in Creating /\ th'[p].obj = th[p].obj /\ th'[p].key = th[p].key
                   /\ th'[p].pc \in {"save", "awaitReady"} =>
                        th'[p] = th[p] \/ ((AddIndex(p) \/ Save(p)) /\ th'[p].obj = th[p].obj)
                   /\ th'[p] = th[p] \/ th'[p].pc # "load"
                   /\ th'[p].pc = "panic" => th'[p] = th[p] \/ IndexesByTableStep(p)
                   /\ th'[p].cont = th[p].cont \/ th'[p].cont \in {"", "query", "drop", "abort"}
<1>o. UNCHANGED ops
  <2>1. CASE Lookup(p) BY <2>1, Zenon DEF Lookup
  <2> QED
    BY <2>1 DEF Continue, DeleteStep, ValidateIndexToAdd, AddLock, AddIndex, Save, CreateReturns,
       RegisterIndexesForTable, Retain, IndexesByTableStep, ShowVisible, Release, DropRelease,
       DropCheck, DeleteScan, DeleteCheck, DeleteStatus, DeleteRc, DeleteLock, DeleteRemove, DeleteDone,
       DeleterLock, DeleterRemove
<1>r. ASSUME Returns(p) PROVE Others /\ Same BY <1>r DEF Returns, Moves, Creating
<1>g. ASSUME NEW l \in ThreadStates \ {"load", "panic"}, Goto(p, l), l \in Creating => th[p].pc \in Creating,
             l \in {"save", "awaitReady"} => AddIndex(p) \/ Save(p)
      PROVE  Others /\ Same
  <2>1. GoesTo(p, l) BY <1>g, GotoStep
  <2> QED BY <1>g, <2>1 DEF GoesTo, Moves
<1>m. ASSUME NEW l \in ThreadStates \ (Creating \cup {"load", "save", "awaitReady"}),
             NEW k, NEW o, NEW c, NEW u, NEW i, Moves(p, l, k, o, c, u, i),
             c \in {th[p].cont, "query", "drop", "abort"}, l = "panic" => IndexesByTableStep(p)
      PROVE  Others /\ Same
  BY <1>m DEF Moves
<1>s. /\ {"delScan", "retain", "using", "dropRelease", "delRc", "delCheck", "delStatus", "show", "visible", "panic"}
           \subseteq ThreadStates \ (Creating \cup {"load", "save", "awaitReady"})
  BY DEF ThreadStates, Creating
<1> HIDE DEF Others, Same
<1>1. ASSUME ValidateIndexToAdd(p) \/ AddLock(p) PROVE Others /\ Same
  BY <1>1, <1>r, <1>g, ReturnStep DEF ValidateIndexToAdd, AddLock, ThreadStates, Creating, At
<1>a. ASSUME AddIndex(p) PROVE Others /\ Same
  BY <1>a, <1>g DEF AddIndex, ThreadStates, Creating
<1>2. ASSUME \/ CreateReturns(p) \/ RegisterIndexesForTable(p) \/ DropRelease(p)
             \/ DeleteCheck(p) \/ DeleteStatus(p) \/ DeleteRc(p) \/ DeleteLock(p) \/ DeleteRemove(p)
             \/ DeleteDone(p) \/ DeleterRemove(p)
      PROVE  Others /\ Same
  <2>1. \/ Return(p)
        \/ \E l \in {"lookup", "dropCheck", "delStatus", "delRc", "delLock", "delQueued",
                     "delRemove", "delDone"} : Goto(p, l)
    BY <1>2 DEF CreateReturns, RegisterIndexesForTable, DropRelease, DeleteCheck, DeleteStatus,
       DeleteRc, DeleteLock, DeleteRemove, DeleteDone, DeleterRemove
  <2> QED BY <1>r, <1>g, <2>1, ReturnStep DEF ThreadStates, Creating
<1>3. ASSUME Save(p) PROVE Others /\ Same
  <2>1. CASE Goto(p, "awaitReady") BY <1>3, <1>g, <2>1 DEF ThreadStates, Creating
  <2>2. CASE th' = [th EXCEPT ![p].pc = "delScan", ![p].cont = "abort"]
    <3>1. Moves(p, "delScan", th[p].key, th[p].obj, "abort", th[p].used, th[p].pos)
      BY <2>2, GotoContStep DEF ThreadStates
    <3> QED BY <1>m, <1>s, <3>1
  <2> QED BY <1>3, <2>1, <2>2 DEF Save
<1>4. ASSUME DropCheck(p) PROVE Others /\ Same
  <2>1. CASE Return(p) BY <1>r, <2>1, ReturnStep
  <2>2. CASE th' = [th EXCEPT ![p].pc = "delScan", ![p].cont = "drop"]
    <3>1. Moves(p, "delScan", th[p].key, th[p].obj, "drop", th[p].used, th[p].pos)
      BY <2>2, GotoContStep DEF ThreadStates
    <3> QED BY <1>m, <1>s, <3>1
  <2> QED BY <1>4, <2>1, <2>2 DEF DropCheck
<1>5. ASSUME Lookup(p) PROVE Others /\ Same BY <1>5, <1>r, <1>m, <1>s, LookupStep
<1>6. ASSUME Retain(p) PROVE Others /\ Same BY <1>6, <1>r, <1>m, <1>s, RetainStep
<1>7. ASSUME IndexesByTableStep(p) PROVE Others /\ Same BY <1>7, <1>m, <1>s, ShowStep DEF GoesTo
<1>8. ASSUME ShowVisible(p) PROVE Others /\ Same BY <1>8, <1>m, <1>s, VisibleStep
<1>9. ASSUME Release(p) PROVE Others /\ Same BY <1>9, <1>r, <1>m, <1>s, ReleaseStep
<1>10. ASSUME DeleteScan(p) PROVE Others /\ Same BY <1>10, <1>r, <1>m, <1>s, ScanStep
<1>11. ASSUME DeleterLock(p) PROVE Others /\ Same BY <1>11 DEF DeleterLock, Others, Same
<1>12. Others /\ Same
  BY <1>a, <1>1, <1>2, <1>3, <1>4, <1>5, <1>6, <1>7, <1>8, <1>9, <1>10, <1>11 DEF Continue, DeleteStep
<1> QED BY <1>o, <1>12 DEF Others, Same

\* A statement counts for the client that begins it.
LEMMA BeginOps ==
  ASSUME TypeOK, NEW p \in Clients, Begin(p)
  PROVE  ops'[p] <= MaxOps /\ \A q \in Clients \ {p} : ops'[q] = ops[q]
<1>1. ops' = [ops EXCEPT ![p] = @ + 1] /\ ops[p] < MaxOps BY DEF Begin
<1>2. ops \in [Clients -> 0..(MaxOps + 1)] /\ MaxOps \in Nat BY RegistryAssumption DEF TypeOK
<1> QED BY <1>1, <1>2

\* A step that begins a statement moves the client to its first place.
LEMMA BeginMoves ==
  ASSUME TypeOK, NEW p \in Clients,
         \/ CreateIndex(p) \/ DropIndex(p) \/ IndexByExpression(p) \/ IndexesByTable(p)
         \/ DeleteIndex(p)
  PROVE  /\ Begin(p) /\ \A q \in Clients \ {p} : th'[q] = th[q]
         /\ CreateIndex(p) => th'[p].pc = "validate" /\ th'[p].cont = ""
         /\ DropIndex(p) => th'[p].pc = "retain" /\ th'[p].cont = "drop"
         /\ IndexByExpression(p) => th'[p].pc \in {"load", "lookup"} /\ th'[p].cont = ""
         /\ IndexesByTable(p) => th'[p].pc = "show" /\ th'[p].cont = ""
         /\ DeleteIndex(p) => th'[p].pc = "delScan" /\ th'[p].cont = "api"
<1>1. ASSUME CreateIndex(p)
      PROVE  /\ Begin(p) /\ \A q \in Clients \ {p} : th'[q] = th[q]
             /\ th'[p].pc = "validate" /\ th'[p].cont = ""
  <2>1. Begin(p) BY <1>1 DEF CreateIndex
  <2> QED BY <1>1, <2>1, CreateIndexStep DEF Moves
<1>2. ASSUME DropIndex(p)
      PROVE  /\ Begin(p) /\ \A q \in Clients \ {p} : th'[q] = th[q]
             /\ th'[p].pc = "retain" /\ th'[p].cont = "drop"
  <2>1. Begin(p) BY <1>2 DEF DropIndex
  <2> QED BY <1>2, <2>1, DropIndexStep DEF Moves
<1>3. ASSUME IndexByExpression(p)
      PROVE  /\ Begin(p) /\ \A q \in Clients \ {p} : th'[q] = th[q]
             /\ th'[p].pc \in {"load", "lookup"} /\ th'[p].cont = ""
  <2>1. Begin(p) BY <1>3, Zenon DEF IndexByExpression
  <2> QED BY <1>3, <2>1, IndexByExpressionStep DEF Moves
<1>4. ASSUME IndexesByTable(p)
      PROVE  /\ Begin(p) /\ \A q \in Clients \ {p} : th'[q] = th[q]
             /\ th'[p].pc = "show" /\ th'[p].cont = ""
  <2>1. Begin(p) BY <1>4 DEF IndexesByTable
  <2> QED BY <1>4, <2>1, IndexesByTableBegin DEF Moves
<1>5. ASSUME DeleteIndex(p)
      PROVE  /\ Begin(p) /\ \A q \in Clients \ {p} : th'[q] = th[q]
             /\ th'[p].pc = "delScan" /\ th'[p].cont = "api"
  <2>1. Begin(p) BY <1>5 DEF DeleteIndex
  <2> QED BY <1>5, <2>1, DeleteIndexStep DEF Moves
<1> QED BY <1>1, <1>2, <1>3, <1>4, <1>5

\* Every step keeps the clients in the statements of their kind.
LEMMA RolesStep == ASSUME TypeOK, Threading, Roles, [Next]_vars PROVE Roles'
<1> SUFFICES ASSUME NEW q \in Clients PROVE Role(q)' BY DEF Roles
<1>0. Role(q) BY DEF Roles
<1>1. ASSUME th'[q] = th[q], ops'[q] = ops[q] PROVE Role(q)' BY <1>0, <1>1 DEF Role, At
<1>2. ASSUME NEW p \in Clients, Continue(p) PROVE Role(q)'
  <2>1. CASE q # p BY <1>1, <1>2, <2>1, ContinueMoves
  <2>2. CASE q = p BY <1>0, <1>2, <2>2, ContinueMoves DEF Role, At
  <2> QED BY <2>1, <2>2
<1>3. ASSUME NEW p \in Clients,
             \/ CreateIndex(p) /\ p \in Creators
             \/ DropIndex(p)
             \/ IndexByExpression(p) /\ p \in Queriers
             \/ IndexesByTable(p)
             \/ DeleteIndex(p) /\ p \in Deleters
      PROVE  Role(q)'
  <2>1. Begin(p) /\ \A r \in Clients \ {p} : th'[r] = th[r] BY <1>3, BeginMoves
  <2>2. ops'[p] <= MaxOps /\ \A r \in Clients \ {p} : ops'[r] = ops[r] BY <2>1, BeginOps
  <2>3. CASE q # p BY <1>1, <2>1, <2>2, <2>3
  <2>4. CASE q = p BY <1>3, <2>2, <2>4, BeginMoves DEF Role, At, Creating
  <2> QED BY <2>3, <2>4
<1>4. ASSUME NEW o \in DOMAIN objs, Finish(o) PROVE Role(q)'
  BY <1>1, <1>4 DEF Finish, ReadyLock, SetReady
<1>5. CASE UNCHANGED vars BY <1>1, <1>5 DEF vars
<1> QED BY <1>2, <1>3, <1>4, <1>5, AllClients DEF Next

-----------------------------------------------------------------------------
(* The registry and the queue of deletions *)

\* What r.indexes may become.
LEMMA IndexesStep ==
  ASSUME TypeOK, Threading, [Next]_vars
  PROVE  \A k \in Keys :
           \/ indexes'[k] = indexes[k]
           \/ indexes'[k] = None
           \/ \E p \in Clients : /\ AddIndex(p) /\ th[p].key = k /\ indexes'[k] = th[p].obj
                                 /\ th[p].obj \in DOMAIN objs /\ KeyOf(th[p].obj) = k
           \/ \E p \in Clients :
                /\ RegisterIndexesForTable(p) /\ Db(k) = Db(th[p].key)
                /\ indexes'[k] \in onDisk /\ saved[indexes'[k]] = "ok" /\ KeyOf(indexes'[k]) = k
<1> SUFFICES ASSUME NEW k \in Keys, indexes'[k] # indexes[k], indexes'[k] # None
             PROVE  \/ \E p \in Clients : /\ AddIndex(p) /\ th[p].key = k /\ indexes'[k] = th[p].obj
                                          /\ th[p].obj \in DOMAIN objs /\ KeyOf(th[p].obj) = k
                    \/ \E p \in Clients :
                         /\ RegisterIndexesForTable(p) /\ Db(k) = Db(th[p].key)
                         /\ indexes'[k] \in onDisk /\ saved[indexes'[k]] = "ok"
                         /\ KeyOf(indexes'[k]) = k
  OBVIOUS
<1>1. ASSUME NEW p \in Clients,
             \/ ValidateIndexToAdd(p) \/ AddLock(p) \/ Save(p) \/ CreateReturns(p)
             \/ Retain(p) \/ IndexesByTableStep(p) \/ ShowVisible(p) \/ Release(p)
             \/ DropRelease(p) \/ DropCheck(p) \/ DeleteScan(p) \/ DeleteCheck(p) \/ DeleteStatus(p) \/ DeleteRc(p)
             \/ DeleteLock(p) \/ DeleteDone(p) \/ DeleterLock(p)
      PROVE  FALSE
  BY <1>1 DEF ValidateIndexToAdd, AddLock, Save, CreateReturns, Retain, IndexesByTableStep,
     ShowVisible, Release, DropRelease, DropCheck, DeleteScan, DeleteCheck, DeleteStatus, DeleteRc, DeleteLock,
     DeleteDone, DeleterLock, registryVars
<1>2. ASSUME NEW p \in Clients, Lookup(p) PROVE FALSE BY <1>2, Zenon DEF Lookup, registryVars
<1>3. ASSUME NEW p \in Clients, DeleteRemove(p) \/ DeleterRemove(p) PROVE FALSE
  <2>1. indexes' = [indexes EXCEPT ![th[p].key] = None] BY <1>3 DEF DeleteRemove, DeleterRemove
  <2> QED BY <2>1 DEF TypeOK
<1>4. ASSUME NEW p \in Clients, AddIndex(p)
      PROVE  /\ th[p].key = k /\ indexes'[k] = th[p].obj
             /\ th[p].obj \in DOMAIN objs /\ KeyOf(th[p].obj) = k
  <2>1. indexes' = [indexes EXCEPT ![th[p].key] = th[p].obj] /\ At(p, "addIndex")
    BY <1>4 DEF AddIndex
  <2>2. th[p].obj \in DOMAIN objs /\ KeyOf(th[p].obj) = th[p].key
    BY <2>1 DEF At, Threading, Threaded, Creating
  <2>3. th[p].key = k /\ indexes'[k] = th[p].obj BY <2>1 DEF TypeOK
  <2> QED BY <2>2, <2>3
<1>5. ASSUME NEW p \in Clients, RegisterIndexesForTable(p)
      PROVE  /\ Db(k) = Db(th[p].key) /\ indexes'[k] \in onDisk
             /\ saved[indexes'[k]] = "ok" /\ KeyOf(indexes'[k]) = k
  BY <1>5, RegisterTyped
<1>6. ASSUME NEW o \in DOMAIN objs, Finish(o) PROVE FALSE
  BY <1>6 DEF Finish, ReadyLock, SetReady, registryVars
<1>7. ASSUME NEW p \in Clients,
             \/ CreateIndex(p) \/ DropIndex(p) \/ IndexByExpression(p) \/ IndexesByTable(p)
             \/ DeleteIndex(p)
      PROVE  FALSE
  BY <1>7, Zenon DEF CreateIndex, DropIndex, IndexByExpression, IndexesByTable, DeleteIndex, registryVars
<1>8. CASE UNCHANGED vars BY <1>8 DEF vars
<1>9. ASSUME NEW p \in Clients, Continue(p) PROVE AddIndex(p) \/ RegisterIndexesForTable(p)
  BY <1>1, <1>2, <1>3, <1>9 DEF Continue, DeleteStep
<1> QED BY <1>4, <1>5, <1>6, <1>7, <1>8, <1>9, AllClients DEF Next

\* Every index stays under its own key.
LEMMA KeyedStep == ASSUME TypeOK, Threading, Keyed, [Next]_vars PROVE Keyed'
<1> SUFFICES ASSUME NEW k \in Keys, indexes'[k] # None PROVE objs'[indexes'[k]].key = k
  BY DEF Keyed, Registered, KeyOf
<1>1. \A o \in DOMAIN objs : objs'[o] = objs[o] BY ObjectsKept
<1>2. CASE indexes'[k] = indexes[k] BY <1>1, <1>2 DEF Keyed, Registered, KeyOf, TypeOK
<1>3. CASE indexes'[k] \in DOMAIN objs /\ KeyOf(indexes'[k]) = k BY <1>1, <1>3 DEF KeyOf
<1>4. onDisk \subseteq DOMAIN objs BY DEF TypeOK
<1> QED BY <1>2, <1>3, <1>4, IndexesStep

\* A step of a client that is not queued leaves the queue as it is.
LEMMA QueuedKept ==
  ASSUME TypeOK, Queued, NEW p \in Clients, UNCHANGED <<queue, deleter>>, ~At(p, "delQueued"),
         \A q \in Clients \ {p} : th'[q] = th[q]
  PROVE  Queued'
<1>1. deleter[p] = "none" BY DEF Queued
<1>2. \A k \in Keys : queue[k] # None => queue[k] \in Clients \ {p} BY <1>1 DEF Queued, TypeOK
<1> QED BY <1>1, <1>2 DEF Queued, At

\* So does a release, but for the call that it tells.
LEMMA QueuedRelease ==
  ASSUME TypeOK, Queued, NEW p \in Clients, NEW o \in DOMAIN objs, ReleaseIndex(o),
         ~At(p, "delQueued"), \A q \in Clients \ {p} : th'[q] = th[q]
  PROVE  Queued'
<1> DEFINE k == KeyOf(o)
           x == queue[k]
<1>k. k \in Keys BY ObjectKey
<1>1. CASE UNCHANGED <<queue, deleter>> BY <1>1, QueuedKept
<1>2. CASE x # None /\ queue' = [queue EXCEPT ![k] = None] /\ deleter' = [deleter EXCEPT ![x] = "closed"]
  <2>1. x \in Clients /\ deleter[x] = "wait" /\ th[x].key = k BY <1>k, <1>2 DEF Queued, TypeOK
  <2>2. At(x, "delQueued") BY <2>1 DEF Queued
  <2>3. \A j \in Keys : queue'[j] # None => j # k /\ queue'[j] = queue[j]
    BY <1>k, <1>2 DEF TypeOK
  <2>4. \A q \in Clients \ {x} : deleter'[q] = deleter[q] BY <1>2 DEF TypeOK
  <2> HIDE DEF x, k
  <2>5. ASSUME NEW j \in Keys, queue'[j] # None
        PROVE  deleter'[queue'[j]] = "wait" /\ th'[queue'[j]].key = j
    <3>1. j # k /\ queue'[j] = queue[j] BY <2>3, <2>5
    <3>2. queue[j] \in Clients /\ deleter[queue[j]] = "wait" /\ th[queue[j]].key = j
      BY <2>5, <3>1 DEF Queued, TypeOK
    <3>3. queue[j] # x BY <2>1, <3>1, <3>2
    <3>4. queue[j] # p BY <3>2 DEF Queued
    <3> QED BY <2>4, <3>1, <3>2, <3>3, <3>4
  <2>6. ASSUME NEW q \in Clients, deleter'[q] # "none" PROVE At(q, "delQueued")'
    <3>1. At(q, "delQueued") BY <2>2, <2>4, <2>6 DEF Queued
    <3>2. q # p BY <3>1
    <3> QED BY <3>1, <3>2 DEF At
  <2> QED BY <2>5, <2>6 DEF Queued
<1> QED BY <1>1, <1>2 DEF ReleaseIndex

\* Every step keeps the queue and the goroutines of queued deletions.
LEMMA QueuedStep == ASSUME TypeOK, Threading, Queued, [Next]_vars PROVE Queued'
<1>1. ASSUME UNCHANGED <<queue, deleter, th>> PROVE Queued' BY <1>1 DEF Queued, At
<1>2. ASSUME NEW p \in Clients,
             \/ CreateIndex(p) \/ DropIndex(p) \/ IndexByExpression(p) \/ IndexesByTable(p)
             \/ DeleteIndex(p)
      PROVE  Queued'
  <2>1. Begin(p) /\ \A q \in Clients \ {p} : th'[q] = th[q] BY <1>2, BeginMoves
  <2>2. UNCHANGED <<queue, deleter>>
    BY <1>2, Zenon DEF CreateIndex, DropIndex, IndexByExpression, IndexesByTable, DeleteIndex, countVars
  <2> QED BY <2>1, <2>2, QueuedKept DEF Begin, At
<1>3. ASSUME NEW p \in Clients, Continue(p),
             \/ ValidateIndexToAdd(p) \/ AddLock(p) \/ AddIndex(p) \/ Save(p) \/ CreateReturns(p)
             \/ RegisterIndexesForTable(p) \/ Lookup(p)
             \/ Retain(p) \/ IndexesByTableStep(p) \/ ShowVisible(p)
             \/ DropCheck(p) \/ DeleteScan(p) \/ DeleteCheck(p) \/ DeleteStatus(p)
             \/ DeleteLock(p) \/ DeleteRemove(p) \/ DeleteDone(p)
      PROVE  Queued'
  <2>1. \A q \in Clients \ {p} : th'[q] = th[q] BY <1>3, ContinueMoves
  <2>2. UNCHANGED <<queue, deleter>> /\ ~At(p, "delQueued")
    <3>1. CASE Lookup(p)
      <4>1. UNCHANGED <<queue, deleter>> /\ At(p, "lookup") BY <3>1, Zenon DEF Lookup, countVars
      <4> QED BY <4>1 DEF At
    <3> QED
      BY <1>3, <3>1 DEF ValidateIndexToAdd, AddLock, AddIndex, Save, CreateReturns,
         RegisterIndexesForTable, Retain, IndexesByTableStep, ShowVisible, DropCheck, DeleteScan,
         DeleteCheck, DeleteStatus, DeleteLock, DeleteRemove, DeleteDone, countVars, At
  <2> QED BY <2>1, <2>2, QueuedKept
<1>4. ASSUME NEW p \in Clients, Continue(p), Release(p) \/ DropRelease(p) PROVE Queued'
  <2>1. \A q \in Clients \ {p} : th'[q] = th[q] BY <1>4, ContinueMoves
  <2>2. ~At(p, "delQueued") BY <1>4 DEF Release, DropRelease, At
  <2>3. CASE UNCHANGED <<countVars, deleter>> BY <2>1, <2>2, <2>3, QueuedKept DEF countVars
  <2>4. CASE th[p].pos \in DOMAIN th[p].used /\ ReleaseIndex(th[p].used[th[p].pos])
    <3>1. th[p].used[th[p].pos] \in DOMAIN objs BY <2>4 DEF Threading, Threaded
    <3> QED BY <2>1, <2>2, <2>4, <3>1, QueuedRelease
  <2>5. CASE DropRelease(p)
    <3>1. th[p].obj \in DOMAIN objs BY <2>5 DEF DropRelease, At, Threading, Threaded, Dropping
    <3> QED BY <2>1, <2>2, <2>5, <3>1, QueuedRelease DEF DropRelease
  <2> QED BY <1>4, <2>3, <2>4, <2>5, ReleaseStep
<1>5. ASSUME NEW p \in Clients, DeleteRc(p) PROVE Queued'
  <2>1. At(p, "delRc") /\ th[p].key \in Keys BY <1>5 DEF DeleteRc, At, Threading, Threaded
  <2>2. CASE Goto(p, "delLock") /\ UNCHANGED <<queue, deleter>>
    <3>1. GoesTo(p, "delLock") BY <2>2, GotoStep DEF ThreadStates
    <3> QED BY <2>1, <2>2, <3>1, QueuedKept DEF GoesTo, Moves, At
  <2>3. CASE /\ queue' = [queue EXCEPT ![th[p].key] = p] /\ deleter' = [deleter EXCEPT ![p] = "wait"]
             /\ Goto(p, "delQueued")
    <3>1. GoesTo(p, "delQueued") BY <2>3, GotoStep DEF ThreadStates
    <3>2. /\ th'[p].pc = "delQueued" /\ th'[p].key = th[p].key
          /\ \A q \in Clients \ {p} : th'[q] = th[q]
      BY <3>1 DEF GoesTo, Moves
    <3>3. deleter'[p] = "wait" /\ \A q \in Clients \ {p} : deleter'[q] = deleter[q]
      BY <2>3 DEF TypeOK
    <3>4. deleter[p] = "none" BY <2>1 DEF Queued, At
    <3>5. ASSUME NEW j \in Keys, queue'[j] # None
          PROVE  deleter'[queue'[j]] = "wait" /\ th'[queue'[j]].key = j
      <4>1. CASE j = th[p].key BY <2>1, <2>3, <3>2, <3>3, <4>1 DEF TypeOK
      <4>2. CASE j # th[p].key
        <5>1. queue'[j] = queue[j] BY <2>3, <4>2 DEF TypeOK
        <5>2. queue[j] \in Clients \ {p} /\ deleter[queue[j]] = "wait" /\ th[queue[j]].key = j
          BY <3>4, <3>5, <5>1 DEF Queued, TypeOK
        <5> QED BY <3>2, <3>3, <5>1, <5>2
      <4> QED BY <4>1, <4>2
    <3>6. \A q \in Clients : deleter'[q] # "none" => At(q, "delQueued")'
      BY <3>2, <3>3 DEF Queued, At
    <3> QED BY <3>5, <3>6 DEF Queued
  <2> QED BY <1>5, <2>2, <2>3 DEF DeleteRc
<1>6. ASSUME NEW p \in Clients, Continue(p), DeleterLock(p) \/ DeleterRemove(p) PROVE Queued'
  <2>1. \A q \in Clients \ {p} : th'[q] = th[q] BY <1>6, ContinueMoves
  <2>2. /\ deleter[p] \in {"closed", "locking"} /\ UNCHANGED queue
        /\ \A q \in Clients \ {p} : deleter'[q] = deleter[q]
    BY <1>6 DEF DeleterLock, DeleterRemove, countVars, TypeOK
  <2>3. deleter'[p] = "none" \/ UNCHANGED th
    BY <1>6 DEF DeleterLock, DeleterRemove, TypeOK
  <2>4. \A k \in Keys : queue[k] # None => queue[k] \in Clients \ {p} BY <2>2 DEF Queued, TypeOK
  <2>5. \A k \in Keys : queue'[k] # None => deleter'[queue'[k]] = "wait" /\ th'[queue'[k]].key = k
    BY <2>1, <2>2, <2>4 DEF Queued
  <2>6. \A q \in Clients : deleter'[q] # "none" => At(q, "delQueued")'
    BY <2>1, <2>2, <2>3 DEF Queued, At
  <2> QED BY <2>5, <2>6 DEF Queued
<1>7. ASSUME NEW o \in DOMAIN objs, Finish(o) PROVE Queued'
  BY <1>1, <1>7 DEF Finish, ReadyLock, SetReady, countVars
<1>8. CASE UNCHANGED vars BY <1>1, <1>8 DEF vars
<1>9. ASSUME NEW p \in Clients, Continue(p) PROVE Queued'
  BY <1>3, <1>4, <1>5, <1>6, <1>9 DEF Continue, DeleteStep
<1> QED BY <1>2, <1>7, <1>8, <1>9, AllClients DEF Next

-----------------------------------------------------------------------------
(* Reference counts *)

\* A client that stays where it is uses what it used.
LEMMA UsesKept ==
  ASSUME TypeOK, Threading, [Next]_vars, NEW q \in Clients, th'[q] = th[q], NEW k
  PROVE  UsesBy(q, k)' = UsesBy(q, k)
<1> DEFINE In == {i \in 0..Len(th[q].used) : Outstanding(q, i) /\ KeyOf(UsedAt(q, i)) = k}
           In1 == {i \in 0..Len(th'[q].used) : Outstanding(q, i)' /\ (KeyOf(UsedAt(q, i)))' = k}
<1>t. th[q].used \in Seq(Nat) BY ThreadType
<1>1. \A o \in DOMAIN objs : objs'[o] = objs[o] BY ObjectsKept
<1>2. Threaded(q) BY DEF Threading
<1>3. ASSUME NEW i \in 0..Len(th[q].used) PROVE Outstanding(q, i)' <=> Outstanding(q, i)
  BY DEF Outstanding, At
<1>4. ASSUME NEW i \in 0..Len(th[q].used), Outstanding(q, i)
      PROVE  (KeyOf(UsedAt(q, i)))' = KeyOf(UsedAt(q, i))
  <2>1. UsedAt(q, i) \in DOMAIN objs
    <3>1. CASE i = 0 BY <1>2, <1>4, <3>1 DEF Outstanding, UsedAt, Threaded, Dropping, At
    <3>2. CASE i # 0
      <4>1. i \in DOMAIN th[q].used BY <1>t, <3>2
      <4> QED BY <1>2, <3>2, <4>1 DEF UsedAt, Threaded
    <3> QED BY <3>1, <3>2
  <2>2. UsedAt(q, i)' = UsedAt(q, i) BY DEF UsedAt
  <2> QED BY <1>1, <2>1, <2>2 DEF KeyOf
<1>5. In1 = In BY <1>3, <1>4
<1> HIDE DEF In, In1
<1>6. UsesBy(q, k) = {q} \X In BY DEF UsesBy, In
<1>7. UsesBy(q, k)' = {q} \X In1 BY DEF UsesBy, In1
<1> QED BY <1>5, <1>6, <1>7

\* The uses of all clients, when one moves.
LEMMA UsesFrom ==
  ASSUME TypeOK, Threading, [Next]_vars, NEW p \in Clients, \A q \in Clients \ {p} : th'[q] = th[q],
         NEW k, NEW T, UsesBy(p, k)' \subseteq UsesBy(p, k) \cup T
  PROVE  UsesOf(k)' \subseteq UsesOf(k) \cup T
<1>1. \A q \in Clients \ {p} : UsesBy(q, k)' = UsesBy(q, k) BY UsesKept
<1>2. ASSUME NEW x \in UsesOf(k)' PROVE x \in UsesOf(k) \cup T
  <2>1. PICK q \in Clients : x \in UsesBy(q, k)' BY DEF UsesOf
  <2>2. x \in UsesBy(q, k) \cup T BY <1>1, <2>1
  <2> QED BY <2>2 DEF UsesOf
<1> QED BY <1>2

\* Uses that end need no count.
LEMMA CountedKept ==
  ASSUME TypeOK, Threading, Counted, [Next]_vars, NEW p \in Clients,
         \A q \in Clients \ {p} : th'[q] = th[q],
         \A k \in Keys : UsesBy(p, k)' \subseteq UsesBy(p, k),
         \A k \in Keys : refCounts'[k] \in Int /\ refCounts'[k] >= refCounts[k]
  PROVE  Counted'
<1> SUFFICES ASSUME NEW k \in Keys PROVE (IsFiniteSet(UsesOf(k)) /\ refCounts[k] >= Uses(k))'
  BY DEF Counted
<1>1. UsesOf(k)' \subseteq UsesOf(k) \cup {} BY UsesFrom
<1>2. IsFiniteSet(UsesOf(k)) /\ refCounts[k] >= Cardinality(UsesOf(k)) BY DEF Counted, Uses
<1>3. /\ IsFiniteSet(UsesOf(k)') /\ Cardinality(UsesOf(k)') <= Cardinality(UsesOf(k))
      /\ Cardinality(UsesOf(k)) \in Nat /\ Cardinality(UsesOf(k)') \in Nat
  <2> DEFINE A == UsesOf(k)'
             B == UsesOf(k)
  <2>1. A \subseteq B /\ IsFiniteSet(B) BY <1>1, <1>2
  <2> HIDE DEF A, B
  <2>2. IsFiniteSet(A) /\ Cardinality(A) <= Cardinality(B) BY <2>1, FS_Subset
  <2>3. Cardinality(A) \in Nat /\ Cardinality(B) \in Nat BY <2>1, <2>2, FS_CardinalityType
  <2> QED BY <2>2, <2>3 DEF A, B
<1>4. refCounts[k] \in Int /\ refCounts'[k] \in Int BY DEF TypeOK
<1>5. refCounts'[k] >= Cardinality(UsesOf(k)') BY <1>2, <1>3, <1>4
<1> QED BY <1>3, <1>5 DEF Uses

\* One more use, one more in the count.
LEMMA CountedAdd ==
  ASSUME TypeOK, Threading, Counted, [Next]_vars, NEW p \in Clients,
         \A q \in Clients \ {p} : th'[q] = th[q],
         NEW j \in Keys, NEW u, refCounts' = [refCounts EXCEPT ![j] = @ + 1],
         \A k \in Keys : UsesBy(p, k)' \subseteq UsesBy(p, k) \cup (IF k = j THEN {u} ELSE {})
  PROVE  Counted'
<1> SUFFICES ASSUME NEW k \in Keys PROVE (IsFiniteSet(UsesOf(k)) /\ refCounts[k] >= Uses(k))'
  BY DEF Counted
<1> DEFINE A == UsesOf(k)'
           B == UsesOf(k)
           T == IF k = j THEN {u} ELSE {}
<1>1. A \subseteq B \cup T BY UsesFrom
<1>2. IsFiniteSet(B) /\ refCounts[k] >= Cardinality(B) BY DEF Counted, Uses
<1>3. refCounts \in [Keys -> Int] BY DEF TypeOK
<1>4. refCounts'[k] = IF k = j THEN refCounts[k] + 1 ELSE refCounts[k] BY <1>3
<1> HIDE DEF A, B
<1>5. Cardinality(B) \in Nat BY <1>2, FS_CardinalityType
<1>6. IsFiniteSet(B \cup T) /\ Cardinality(B \cup T) <= Cardinality(B) + (IF k = j THEN 1 ELSE 0)
  <2>1. CASE k = j
    <3>1. /\ IsFiniteSet(B \cup {u})
          /\ Cardinality(B \cup {u}) = IF u \in B THEN Cardinality(B) ELSE Cardinality(B) + 1
      BY <1>2, FS_AddElement
    <3> QED BY <1>5, <2>1, <3>1
  <2>2. CASE k # j
    <3>1. B \cup T = B BY <2>2
    <3> QED BY <1>2, <1>5, <2>2, <3>1
  <2> QED BY <2>1, <2>2
<1> HIDE DEF T
<1>7. IsFiniteSet(A) /\ Cardinality(A) <= Cardinality(B \cup T) BY <1>1, <1>6, FS_Subset
<1>8. Cardinality(A) \in Nat /\ Cardinality(B \cup T) \in Nat BY <1>6, <1>7, FS_CardinalityType
<1>9. refCounts'[k] >= Cardinality(A)
  <2>1. refCounts[k] \in Int BY <1>3
  <2> QED BY <1>2, <1>4, <1>5, <1>6, <1>7, <1>8, <2>1
<1> QED BY <1>7, <1>9 DEF A, Uses

\* A use that is released was counted.
LEMMA CountedRemove ==
  ASSUME TypeOK, Threading, Counted, [Next]_vars, NEW p \in Clients,
         \A q \in Clients \ {p} : th'[q] = th[q],
         NEW j \in Keys, NEW i, refCounts' = [refCounts EXCEPT ![j] = @ - 1],
         <<p, i>> \in UsesBy(p, j),
         \A k \in Keys : UsesBy(p, k)' \subseteq UsesBy(p, k) \ {<<p, i>>}
  PROVE  Counted'
<1> SUFFICES ASSUME NEW k \in Keys PROVE (IsFiniteSet(UsesOf(k)) /\ refCounts[k] >= Uses(k))'
  BY DEF Counted
<1> DEFINE A == UsesOf(k)'
           B == UsesOf(k)
           u == <<p, i>>
<1>1. A \subseteq B \cup {} BY UsesFrom
<1>2. IsFiniteSet(B) /\ refCounts[k] >= Cardinality(B) BY DEF Counted, Uses
<1>3. refCounts \in [Keys -> Int] BY DEF TypeOK
<1>4. refCounts'[k] = IF k = j THEN refCounts[k] - 1 ELSE refCounts[k] BY <1>3
<1>5. u \notin A
  <2>1. u \notin UsesBy(p, k)' OBVIOUS
  <2>2. ASSUME NEW q \in Clients \ {p} PROVE u \notin UsesBy(q, k)'
    <3>1. UsesBy(q, k)' = UsesBy(q, k) BY UsesKept
    <3> QED BY <3>1 DEF UsesBy
  <2> QED BY <2>1, <2>2 DEF UsesOf
<1>6. k = j => u \in B BY DEF UsesOf
<1> HIDE DEF A, B, u
<1>7. Cardinality(B) \in Nat BY <1>2, FS_CardinalityType
<1>8. IsFiniteSet(A) /\ Cardinality(A) <= Cardinality(B) BY <1>1, <1>2, FS_Subset
<1>9. Cardinality(A) \in Nat BY <1>8, FS_CardinalityType
<1>10. CASE k = j
  <2>1. IsFiniteSet(B \ {u}) /\ Cardinality(B \ {u}) = Cardinality(B) - 1
    BY <1>2, <1>6, <1>10, FS_RemoveElement
  <2>2. A \subseteq B \ {u} BY <1>1, <1>5
  <2>3. Cardinality(A) <= Cardinality(B \ {u}) BY <2>1, <2>2, FS_Subset
  <2>4. refCounts'[k] >= Cardinality(A)
    <3>1. refCounts[k] \in Int BY <1>3
    <3> QED BY <1>2, <1>4, <1>7, <1>9, <1>10, <2>1, <2>3, <3>1
  <2> QED BY <1>8, <2>4 DEF A, Uses
<1>11. CASE k # j
  <2>1. refCounts'[k] >= Cardinality(A)
    <3>1. refCounts[k] \in Int BY <1>3
    <3> QED BY <1>2, <1>4, <1>7, <1>8, <1>9, <1>11, <3>1
  <2> QED BY <1>8, <2>1 DEF A, Uses
<1> QED BY <1>10, <1>11

\* What a client uses after its step.
LEMMA UsesMoved ==
  ASSUME NEW p \in Clients, NEW l, NEW key, NEW o, NEW c, NEW us, NEW n, NEW k,
         Moves(p, l, key, o, c, us, n)
  PROVE  UsesBy(p, k)' =
           {p} \X {i \in 0..Len(us) : /\ IF i = 0 THEN l = "dropRelease" ELSE l = "using" => i >= n
                                      /\ objs'[IF i = 0 THEN o ELSE us[i]].key = k}
<1>1. th'[p].pc = l /\ th'[p].obj = o /\ th'[p].used = us /\ th'[p].pos = n BY DEF Moves
<1> DEFINE In == {i \in 0..Len(us) : /\ IF i = 0 THEN l = "dropRelease" ELSE l = "using" => i >= n
                                     /\ objs'[IF i = 0 THEN o ELSE us[i]].key = k}
           In1 == {i \in 0..Len(th'[p].used) : Outstanding(p, i)' /\ (KeyOf(UsedAt(p, i)))' = k}
<1>2. In1 = In BY <1>1 DEF Outstanding, UsedAt, KeyOf, At
<1> HIDE DEF In, In1
<1>3. UsesBy(p, k)' = {p} \X In1 BY DEF UsesBy, In1
<1>4. UsesBy(p, k)' = {p} \X In BY <1>2, <1>3
<1> QED BY <1>4 DEF In

\* A client without a list of indexes uses none, except in DROP INDEX.
LEMMA UsesNothing ==
  ASSUME NEW p \in Clients, NEW l, l # "dropRelease", NEW key, NEW o, NEW c, NEW n, NEW k,
         Moves(p, l, key, o, c, <<>>, n)
  PROVE  UsesBy(p, k)' = {}
<1> DEFINE In == {i \in 0..Len(<<>>) : /\ IF i = 0 THEN l = "dropRelease" ELSE l = "using" => i >= n
                                       /\ objs'[IF i = 0 THEN o ELSE <<>>[i]].key = k}
<1>1. UsesBy(p, k)' = {p} \X In BY UsesMoved
<1>2. In = {}
  <2>1. \A i \in 0..Len(<<>>) : i = 0 OBVIOUS
  <2> QED BY <2>1
<1> HIDE DEF In
<1> QED BY <1>1, <1>2

\* SHOW INDEXES, while it retains indexes, goes on using those it has.
LEMMA UsesOn ==
  ASSUME TypeOK, Threading, [Next]_vars, NEW p \in Clients, th[p].pc \in {"show", "visible"},
         NEW l, l # "dropRelease", NEW n, NEW k,
         Moves(p, l, th[p].key, th[p].obj, th[p].cont, th[p].used, n)
  PROVE  UsesBy(p, k)' \subseteq UsesBy(p, k)
<1> DEFINE us == th[p].used
           In == {i \in 0..Len(us) : Outstanding(p, i) /\ KeyOf(UsedAt(p, i)) = k}
           In1 == {i \in 0..Len(us) : /\ IF i = 0 THEN l = "dropRelease" ELSE l = "using" => i >= n
                                      /\ objs'[IF i = 0 THEN th[p].obj ELSE us[i]].key = k}
<1>t. us \in Seq(Nat) BY ThreadType
<1>1. \A o \in DOMAIN objs : objs'[o] = objs[o] BY ObjectsKept
<1>2. \A i \in DOMAIN us : us[i] \in DOMAIN objs BY DEF Threading, Threaded
<1>3. UsesBy(p, k)' = {p} \X In1 BY UsesMoved
<1>4. ASSUME NEW i \in In1 PROVE i \in In
  <2>1. i \in 0..Len(us) /\ i # 0 /\ objs'[us[i]].key = k BY <1>4
  <2>2. i \in DOMAIN us BY <1>t, <2>1
  <2>3. objs[us[i]].key = k BY <1>1, <1>2, <2>1, <2>2
  <2>4. Outstanding(p, i) BY <2>1 DEF Outstanding, At
  <2> QED BY <2>1, <2>3, <2>4 DEF UsedAt, KeyOf
<1> HIDE DEF In, In1
<1>5. UsesBy(p, k) = {p} \X In BY DEF UsesBy, In
<1> QED BY <1>3, <1>4, <1>5

\* A lookup retains the index that it has found.
LEMMA CountedRetain ==
  ASSUME TypeOK, Threading, Keyed, Counted, Next, NEW p \in Clients, Retain(p)
  PROVE  Counted'
<1> DEFINE j == th[p].key
<1>1. /\ j \in Keys /\ At(p, "retain") /\ refCounts' = [refCounts EXCEPT ![j] = @ + 1]
  BY RetainStep
<1>2. refCounts \in [Keys -> Int] BY DEF TypeOK
<1>3. \A o \in DOMAIN objs : objs'[o] = objs[o] BY ObjectsKept
<1>4. th[p].used = <<>> BY <1>1 DEF Threading, Threaded, At
<1> HIDE DEF j
<1>5. ASSUME th[p].obj \in DOMAIN objs, KeyOf(th[p].obj) = j,
             Moves(p, "using", j, th[p].obj, "query", <<th[p].obj>>, 1)
      PROVE  Counted'
  <2>1. \A q \in Clients \ {p} : th'[q] = th[q] BY <1>5 DEF Moves
  <2>2. ASSUME NEW k \in Keys
        PROVE  UsesBy(p, k)' \subseteq UsesBy(p, k) \cup (IF k = j THEN {<<p, 1>>} ELSE {})
    <3> DEFINE us == <<th[p].obj>>
               In1 == {i \in 0..Len(us) :
                         /\ IF i = 0 THEN "using" = "dropRelease" ELSE "using" = "using" => i >= 1
                         /\ objs'[IF i = 0 THEN th[p].obj ELSE us[i]].key = k}
    <3>1. UsesBy(p, k)' = {p} \X In1 BY <1>5, UsesMoved
    <3>2. objs'[th[p].obj].key = j BY <1>3, <1>5 DEF KeyOf
    <3>3. \A i \in 0..Len(us) : i = 0 \/ i = 1 OBVIOUS
    <3>4. us[1] = th[p].obj OBVIOUS
    <3>5. \A i \in In1 : i = 1 /\ k = j BY <3>2, <3>3, <3>4
    <3> HIDE DEF In1
    <3> QED BY <3>1, <3>5
  <2> QED BY <1>1, <2>1, <2>2, CountedAdd
<1>6. ASSUME Returns(p) PROVE Counted'
  <2>1. \A q \in Clients \ {p} : th'[q] = th[q] BY <1>6 DEF Returns, Moves
  <2>2. \A k \in Keys : UsesBy(p, k)' = {} BY <1>6, UsesNothing DEF Returns
  <2>3. \A k \in Keys : refCounts'[k] \in Int /\ refCounts'[k] >= refCounts[k] BY <1>1, <1>2
  <2> QED BY <2>1, <2>2, <2>3, CountedKept
<1>7. ASSUME j \in Registered, Moves(p, "dropRelease", j, indexes[j], "drop", th[p].used, th[p].pos)
      PROVE  Counted'
  <2>1. \A q \in Clients \ {p} : th'[q] = th[q] BY <1>7 DEF Moves
  <2>2. ASSUME NEW k \in Keys
        PROVE  UsesBy(p, k)' \subseteq UsesBy(p, k) \cup (IF k = j THEN {<<p, 0>>} ELSE {})
    <3> DEFINE us == th[p].used
               In1 == {i \in 0..Len(us) :
                         /\ IF i = 0 THEN "dropRelease" = "dropRelease"
                            ELSE "dropRelease" = "using" => i >= th[p].pos
                         /\ objs'[IF i = 0 THEN indexes[j] ELSE us[i]].key = k}
    <3>1. UsesBy(p, k)' = {p} \X In1 BY <1>7, UsesMoved
    <3>2. objs'[indexes[j]].key = j BY <1>3, <1>7 DEF Keyed, KeyOf, Registered, TypeOK
    <3>3. \A i \in 0..Len(us) : i = 0 BY <1>4
    <3>4. \A i \in In1 : i = 0 /\ k = j BY <3>2, <3>3
    <3> HIDE DEF In1
    <3> QED BY <3>1, <3>4
  <2> QED BY <1>1, <2>1, <2>2, CountedAdd
<1> QED BY <1>5, <1>6, <1>7, RetainStep DEF j

\* SHOW INDEXES retains one index after the other.
LEMMA CountedShow ==
  ASSUME TypeOK, Threading, Keyed, Counted, Next, NEW p \in Clients, IndexesByTableStep(p)
  PROVE  Counted'
<1>1. At(p, "show") BY ShowStep
<1>2. refCounts \in [Keys -> Int] BY DEF TypeOK
<1>3. ASSUME NEW l \in {"visible", "panic", "show"}, NEW n, UNCHANGED refCounts,
             Moves(p, l, th[p].key, th[p].obj, th[p].cont, th[p].used, n)
      PROVE  Counted'
  <2>1. \A q \in Clients \ {p} : th'[q] = th[q] BY <1>3 DEF Moves
  <2>2. \A k \in Keys : UsesBy(p, k)' \subseteq UsesBy(p, k) BY <1>1, <1>3, UsesOn DEF At
  <2>3. \A k \in Keys : refCounts'[k] \in Int /\ refCounts'[k] >= refCounts[k] BY <1>2, <1>3
  <2> QED BY <2>1, <2>2, <2>3, CountedKept
<1>4. ASSUME NEW j \in Registered, refCounts' = [refCounts EXCEPT ![j] = @ + 1],
             Moves(p, "show", th[p].key, th[p].obj, th[p].cont,
                   Append(th[p].used, indexes[j]), th[p].pos + 1)
      PROVE  Counted'
  <2> DEFINE us == th[p].used
             vs == Append(us, indexes[j])
             m == Len(us) + 1
  <2>1. \A q \in Clients \ {p} : th'[q] = th[q] BY <1>4 DEF Moves
  <2>2. us \in Seq(Nat) BY ThreadType
  <2>3. j \in Keys /\ indexes[j] \in DOMAIN objs /\ indexes[j] \in Nat BY DEF Registered, TypeOK
  <2>4. \A o \in DOMAIN objs : objs'[o] = objs[o] BY ObjectsKept
  <2>5. \A i \in DOMAIN us : us[i] \in DOMAIN objs BY DEF Threading, Threaded
  <2>6. /\ Len(vs) = m /\ vs[m] = indexes[j] /\ \A i \in 1..Len(us) : vs[i] = us[i]
    BY <2>2, <2>3, AppendProperties
  <2>7. ASSUME NEW k \in Keys
        PROVE  UsesBy(p, k)' \subseteq UsesBy(p, k) \cup (IF k = j THEN {<<p, m>>} ELSE {})
    <3> DEFINE In == {i \in 0..Len(us) : Outstanding(p, i) /\ KeyOf(UsedAt(p, i)) = k}
               In1 == {i \in 0..Len(vs) :
                         /\ IF i = 0 THEN "show" = "dropRelease"
                            ELSE "show" = "using" => i >= th[p].pos + 1
                         /\ objs'[IF i = 0 THEN th[p].obj ELSE vs[i]].key = k}
    <3>1. UsesBy(p, k)' = {p} \X In1
      <4> HIDE DEF vs
      <4>1. Moves(p, "show", th[p].key, th[p].obj, th[p].cont, vs, th[p].pos + 1) BY <1>4 DEF vs
      <4> QED BY <4>1, UsesMoved
    <3>2. UsesBy(p, k) = {p} \X In BY DEF UsesBy
    <3>3. ASSUME NEW i \in In1 PROVE i \in In \/ (i = m /\ k = j)
      <4>1. i \in 0..m /\ i # 0 /\ objs'[vs[i]].key = k BY <2>6, <3>3
      <4>2. CASE i = m
        <5>1. objs'[indexes[j]].key = j BY <2>3, <2>4 DEF Keyed, KeyOf
        <5> QED BY <2>6, <4>1, <4>2, <5>1
      <4>3. CASE i # m
        <5>0. Len(us) \in Nat /\ DOMAIN us = 1..Len(us) BY <2>2
        <5>i. i \in 0..m /\ i # 0 BY <4>1
        <5>1. i \in 1..Len(us) /\ i \in DOMAIN us /\ i \in 0..Len(us) BY <5>0, <5>i, <4>3
        <5>2. objs[us[i]].key = k BY <2>4, <2>5, <2>6, <4>1, <5>1
        <5>3. Outstanding(p, i) BY <1>1, <4>1 DEF Outstanding, At
        <5>4. KeyOf(UsedAt(p, i)) = k BY <4>1, <5>2 DEF UsedAt, KeyOf
        <5>5. i \in In BY <5>1, <5>3, <5>4, Zenon
        <5> QED BY <5>5
      <4> QED BY <4>2, <4>3
    <3> HIDE DEF In, In1, m
    <3> QED BY <3>1, <3>2, <3>3
  <2> HIDE DEF m
  <2> QED BY <1>4, <2>1, <2>3, <2>7, CountedAdd
<1> QED BY <1>3, <1>4, ShowStep DEF GoesTo

\* What is released was in use.
LEMMA CountedRelease ==
  ASSUME TypeOK, Threading, Counted, Next, NEW p \in Clients, Release(p) \/ DropRelease(p)
  PROVE  Counted'
<1>0. refCounts \in [Keys -> Int] BY DEF TypeOK
<1>1. ASSUME Returns(p), UNCHANGED refCounts PROVE Counted'
  <2>1. \A q \in Clients \ {p} : th'[q] = th[q] BY <1>1 DEF Returns, Moves
  <2>2. \A k \in Keys : UsesBy(p, k)' = {} BY <1>1, UsesNothing DEF Returns
  <2>3. \A k \in Keys : refCounts'[k] \in Int /\ refCounts'[k] >= refCounts[k] BY <1>0, <1>1
  <2> QED BY <2>1, <2>2, <2>3, CountedKept
<1>2. ASSUME At(p, "using"), th[p].pos \in DOMAIN th[p].used, ReleaseIndex(th[p].used[th[p].pos]),
             Moves(p, "using", th[p].key, th[p].obj, th[p].cont, th[p].used, th[p].pos + 1)
      PROVE  Counted'
  <2> DEFINE us == th[p].used
             n == th[p].pos
             j == KeyOf(us[n])
  <2>1. \A q \in Clients \ {p} : th'[q] = th[q] BY <1>2 DEF Moves
  <2>2. us \in Seq(Nat) /\ n \in Nat BY ThreadType
  <2>3. \A i \in DOMAIN us : us[i] \in DOMAIN objs BY DEF Threading, Threaded
  <2>4. j \in Keys BY <1>2, <2>3, ObjectKey
  <2>5. refCounts' = [refCounts EXCEPT ![j] = @ - 1] BY <1>2 DEF ReleaseIndex
  <2>6. \A o \in DOMAIN objs : objs'[o] = objs[o] BY ObjectsKept
  <2>7. n \in 0..Len(us) /\ n # 0 BY <1>2, <2>2
  <2>8. <<p, n>> \in UsesBy(p, j)
    <3>1. Outstanding(p, n) BY <2>2, <2>7 DEF Outstanding
    <3>2. KeyOf(UsedAt(p, n)) = j BY <2>7 DEF UsedAt
    <3> HIDE DEF j
    <3> QED BY <2>7, <3>1, <3>2 DEF UsesBy
  <2>9. ASSUME NEW k \in Keys PROVE UsesBy(p, k)' \subseteq UsesBy(p, k) \ {<<p, n>>}
    <3> DEFINE In == {i \in 0..Len(us) : Outstanding(p, i) /\ KeyOf(UsedAt(p, i)) = k}
               In1 == {i \in 0..Len(us) :
                         /\ IF i = 0 THEN "using" = "dropRelease"
                            ELSE "using" = "using" => i >= th[p].pos + 1
                         /\ objs'[IF i = 0 THEN th[p].obj ELSE us[i]].key = k}
    <3>1. UsesBy(p, k)' = {p} \X In1 BY <1>2, UsesMoved
    <3>2. UsesBy(p, k) = {p} \X In BY DEF UsesBy
    <3>3. ASSUME NEW i \in In1 PROVE i \in In /\ i # n
      <4>1. i \in 0..Len(us) /\ i # 0 /\ i >= n + 1 /\ objs'[us[i]].key = k BY <3>3
      <4>2. i \in DOMAIN us /\ i # n /\ i >= n BY <2>2, <4>1
      <4>3. objs[us[i]].key = k BY <2>3, <2>6, <4>1, <4>2
      <4>4. Outstanding(p, i) BY <4>1, <4>2 DEF Outstanding
      <4> QED BY <4>1, <4>2, <4>3, <4>4 DEF UsedAt, KeyOf
    <3> HIDE DEF In, In1, n
    <3> QED BY <3>1, <3>2, <3>3
  <2> HIDE DEF n, j
  <2> QED BY <2>1, <2>4, <2>5, <2>8, <2>9, CountedRemove
<1>3. CASE DropRelease(p)
  <2> DEFINE j == KeyOf(th[p].obj)
  <2>1. At(p, "dropRelease") /\ ReleaseIndex(th[p].obj) /\ Goto(p, "dropCheck")
    BY <1>3 DEF DropRelease
  <2>2. th[p].obj \in DOMAIN objs /\ th[p].used = <<>>
    BY <2>1 DEF At, Threading, Threaded, Dropping
  <2>3. j \in Keys BY <2>2, ObjectKey
  <2>4. refCounts' = [refCounts EXCEPT ![j] = @ - 1] BY <2>1 DEF ReleaseIndex
  <2>5. Moves(p, "dropCheck", th[p].key, th[p].obj, th[p].cont, <<>>, th[p].pos)
    BY <2>1, <2>2, GotoStep DEF ThreadStates, GoesTo
  <2>6. \A q \in Clients \ {p} : th'[q] = th[q] BY <2>5 DEF Moves
  <2>7. \A k \in Keys : UsesBy(p, k)' = {} BY <2>5, UsesNothing
  <2>8. <<p, 0>> \in UsesBy(p, j)
    <3>1. Outstanding(p, 0) /\ KeyOf(UsedAt(p, 0)) = j BY <2>1 DEF Outstanding, UsedAt
    <3>2. 0 \in 0..Len(th[p].used) BY <2>2
    <3> HIDE DEF j
    <3> QED BY <3>1, <3>2 DEF UsesBy
  <2> HIDE DEF j
  <2>9. \A k \in Keys : UsesBy(p, k)' \subseteq UsesBy(p, k) \ {<<p, 0>>} BY <2>7
  <2> QED BY <2>3, <2>4, <2>6, <2>8, <2>9, CountedRemove
<1> QED BY <1>1, <1>2, <1>3, ReleaseStep DEF countVars

\* Every step keeps the counts above the uses.
LEMMA CountedStep ==
  ASSUME TypeOK, Threading, Keyed, Queued, Counted, [Next]_vars
  PROVE  Counted'
<1>0. refCounts \in [Keys -> Int] BY DEF TypeOK
<1>1. ASSUME UNCHANGED <<th, refCounts>> PROVE Counted'
  <2> SUFFICES ASSUME NEW k \in Keys PROVE (IsFiniteSet(UsesOf(k)) /\ refCounts[k] >= Uses(k))'
    BY DEF Counted
  <2>1. \A q \in Clients : UsesBy(q, k)' = UsesBy(q, k) BY <1>1, UsesKept
  <2>2. UsesOf(k)' = UsesOf(k) BY <2>1 DEF UsesOf
  <2> QED BY <1>1, <2>2 DEF Counted, Uses
<1>2. ASSUME NEW p \in Clients, NEW l, l # "dropRelease", NEW key, NEW o, NEW c, NEW n,
             Moves(p, l, key, o, c, <<>>, n), UNCHANGED refCounts
      PROVE  Counted'
  <2>1. \A q \in Clients \ {p} : th'[q] = th[q] BY <1>2 DEF Moves
  <2>2. \A k \in Keys : UsesBy(p, k)' = {} BY <1>2, UsesNothing
  <2>3. \A k \in Keys : refCounts'[k] \in Int /\ refCounts'[k] >= refCounts[k] BY <1>0, <1>2
  <2> QED BY <2>1, <2>2, <2>3, CountedKept
<1>3. ASSUME NEW p \in Clients,
             \/ CreateIndex(p) \/ DropIndex(p) \/ IndexByExpression(p) \/ IndexesByTable(p)
             \/ DeleteIndex(p)
      PROVE  Counted'
  <2>1. UNCHANGED refCounts
    BY <1>3, Zenon DEF CreateIndex, DropIndex, IndexByExpression, IndexesByTable, DeleteIndex, countVars
  <2>2. CASE CreateIndex(p)
    <3>1. PICK k : Moves(p, "validate", k, Len(objs) + 1, "", <<>>, 0) BY <2>2, CreateIndexStep
    <3> QED BY <1>2, <2>1, <3>1
  <2>3. CASE DropIndex(p)
    <3>1. PICK k : Moves(p, "retain", k, None, "drop", <<>>, 0) BY <2>3, DropIndexStep
    <3> QED BY <1>2, <2>1, <3>1
  <2>4. CASE IndexByExpression(p)
    <3>1. PICK k : Moves(p, IF Db(k) \in loaders THEN "load" ELSE "lookup", k, None, "", <<>>, 0)
      BY <2>4, IndexByExpressionStep
    <3> DEFINE l == IF Db(k) \in loaders THEN "load" ELSE "lookup"
    <3>2. l # "dropRelease" OBVIOUS
    <3> HIDE DEF l
    <3>3. Moves(p, l, k, None, "", <<>>, 0) BY <3>1 DEF l
    <3> QED BY <1>2, <2>1, <3>2, <3>3
  <2>5. CASE IndexesByTable(p)
    <3>1. PICK k : Moves(p, "show", k, None, "", <<>>, 1) BY <2>5, IndexesByTableBegin
    <3> QED BY <1>2, <2>1, <3>1
  <2>6. CASE DeleteIndex(p)
    <3>1. PICK k : Moves(p, "delScan", k, None, "api", <<>>, 0) BY <2>6, DeleteIndexStep
    <3> QED BY <1>2, <2>1, <3>1
  <2> QED BY <1>3, <2>2, <2>3, <2>4, <2>5, <2>6
<1>4. ASSUME NEW p \in Clients, Return(p), UNCHANGED refCounts PROVE Counted'
  <2>1. Moves(p, "idle", None, None, "", <<>>, 0) BY <1>4, ReturnStep DEF Returns
  <2> QED BY <1>2, <1>4, <2>1
<1>5. ASSUME NEW p \in Clients, NEW l \in ThreadStates \ {"dropRelease"}, Goto(p, l),
             th[p].pc \notin {"show", "panic", "visible", "using"}, UNCHANGED refCounts
      PROVE  Counted'
  <2>1. th[p].used = <<>> BY <1>5 DEF Threading, Threaded
  <2>2. Moves(p, l, th[p].key, th[p].obj, th[p].cont, <<>>, th[p].pos)
    BY <1>5, <2>1, GotoStep DEF GoesTo
  <2> QED BY <1>2, <1>5, <2>2
<1>6. ASSUME NEW p \in Clients,
             \/ ValidateIndexToAdd(p) \/ AddLock(p) \/ AddIndex(p) \/ CreateReturns(p)
             \/ RegisterIndexesForTable(p) \/ DeleteCheck(p) \/ DeleteStatus(p) \/ DeleteRc(p) \/ DeleteLock(p)
             \/ DeleteRemove(p) \/ DeleteDone(p) \/ DeleterRemove(p)
      PROVE  Counted'
  <2>1. UNCHANGED refCounts
    BY <1>6 DEF ValidateIndexToAdd, AddLock, AddIndex, CreateReturns, RegisterIndexesForTable,
       DeleteCheck, DeleteStatus, DeleteRc, DeleteLock, DeleteRemove, DeleteDone, DeleterRemove, countVars
  <2>2. \/ Return(p)
        \/ \E l \in {"addLock", "addIndex", "save", "lookup", "delStatus", "delRc", "delLock",
                     "delQueued", "delRemove", "delDone"} : Goto(p, l)
    BY <1>6 DEF ValidateIndexToAdd, AddLock, AddIndex, CreateReturns, RegisterIndexesForTable,
       DeleteCheck, DeleteStatus, DeleteRc, DeleteLock, DeleteRemove, DeleteDone, DeleterRemove
  <2>3. th[p].pc \notin {"show", "panic", "visible", "using"}
    BY <1>6 DEF ValidateIndexToAdd, AddLock, AddIndex, CreateReturns, RegisterIndexesForTable,
       DeleteCheck, DeleteStatus, DeleteRc, DeleteLock, DeleteRemove, DeleteDone, DeleterRemove, At, Queued
  <2> QED BY <1>4, <1>5, <2>1, <2>2, <2>3 DEF ThreadStates
<1>7. ASSUME NEW p \in Clients, Save(p) \/ DropCheck(p) PROVE Counted'
  <2>1. UNCHANGED refCounts /\ th[p].pc \in {"save", "dropCheck"} BY <1>7 DEF Save, DropCheck, countVars, At
  <2>2. ASSUME NEW c \in {"drop", "abort"}, th' = [th EXCEPT ![p].pc = "delScan", ![p].cont = c]
        PROVE  Counted'
    <3>1. Moves(p, "delScan", th[p].key, th[p].obj, c, th[p].used, th[p].pos)
      BY <2>2, GotoContStep DEF ThreadStates
    <3>2. th[p].used = <<>> BY <2>1 DEF Threading, Threaded
    <3>3. Moves(p, "delScan", th[p].key, th[p].obj, c, <<>>, th[p].pos) BY <3>1, <3>2
    <3> QED BY <1>2, <2>1, <3>3
  <2>3. CASE Goto(p, "awaitReady") BY <1>5, <2>1, <2>3 DEF ThreadStates
  <2>4. \/ Goto(p, "awaitReady") \/ Return(p)
        \/ \E c \in {"drop", "abort"} : th' = [th EXCEPT ![p].pc = "delScan", ![p].cont = c]
    BY <1>7 DEF Save, DropCheck
  <2> QED BY <1>4, <2>1, <2>2, <2>3, <2>4
<1>8. ASSUME NEW p \in Clients, Lookup(p) PROVE Counted'
  <2>1. UNCHANGED refCounts /\ At(p, "lookup") BY <1>8, Zenon DEF Lookup, countVars
  <2>2. th[p].used = <<>> BY <2>1 DEF Threading, Threaded, At
  <2>3. CASE Returns(p) BY <1>2, <2>1, <2>3 DEF Returns
  <2>4. ASSUME NEW k, Moves(p, "retain", k, indexes[k], "query", th[p].used, th[p].pos)
        PROVE  Counted'
    <3>1. Moves(p, "retain", k, indexes[k], "query", <<>>, th[p].pos) BY <2>2, <2>4
    <3> QED BY <1>2, <2>1, <3>1
  <2> QED BY <1>8, <2>3, <2>4, LookupStep
<1>9. ASSUME NEW p \in Clients, ShowVisible(p) PROVE Counted'
  <2>1. UNCHANGED refCounts /\ At(p, "visible") BY <1>9 DEF ShowVisible, countVars
  <2>2. Moves(p, "using", th[p].key, th[p].obj, th[p].cont, th[p].used, 1) BY <1>9, VisibleStep
  <2>3. \A q \in Clients \ {p} : th'[q] = th[q] BY <2>2 DEF Moves
  <2>4. \A k \in Keys : UsesBy(p, k)' \subseteq UsesBy(p, k) BY <2>1, <2>2, UsesOn DEF At
  <2>5. \A k \in Keys : refCounts'[k] \in Int /\ refCounts'[k] >= refCounts[k] BY <1>0, <2>1
  <2> QED BY <2>3, <2>4, <2>5, CountedKept
<1>10. ASSUME NEW p \in Clients, DeleteScan(p) PROVE Counted'
  <2>1. UNCHANGED refCounts BY <1>10 DEF DeleteScan, countVars
  <2>2. th[p].used = <<>> BY <1>10, ScanStep DEF Threading, Threaded, At
  <2>3. CASE Returns(p) BY <1>2, <2>1, <2>3 DEF Returns
  <2>4. ASSUME NEW k, NEW l \in {"delRc", "delCheck"},
               Moves(p, l, k, th[p].obj, th[p].cont, th[p].used, th[p].pos)
        PROVE  Counted'
    <3>1. Moves(p, l, k, th[p].obj, th[p].cont, <<>>, th[p].pos) BY <2>2, <2>4
    <3> QED BY <1>2, <2>1, <2>4, <3>1
  <2> QED BY <1>10, <2>3, <2>4, ScanStep
<1>11. ASSUME NEW p \in Clients, DeleterLock(p) PROVE Counted'
  BY <1>1, <1>11 DEF DeleterLock, countVars
<1>12. ASSUME NEW o \in DOMAIN objs, Finish(o) PROVE Counted'
  BY <1>1, <1>12 DEF Finish, ReadyLock, SetReady, countVars
<1>13. CASE UNCHANGED vars BY <1>1, <1>13 DEF vars
<1>14. ASSUME Next, NEW p \in Clients, Continue(p) PROVE Counted'
  BY <1>6, <1>7, <1>8, <1>9, <1>10, <1>11, <1>14, CountedRetain, CountedShow, CountedRelease
  DEF Continue, DeleteStep
<1>15. CASE Next BY <1>3, <1>12, <1>14, <1>15, AllClients DEF Next
<1> QED BY <1>13, <1>15

-----------------------------------------------------------------------------
(* The invariant *)

\* What is registered at the start was found on disk.
LEMMA InitIndexes ==
  ASSUME Init, NEW k \in Keys, indexes[k] # None
  PROVE  indexes[k] \in 1..Len(Stored) /\ Stored[indexes[k]].key = k /\ Db(k) \notin loaders
<1>1. indexes[k] = IF Db(k) \notin loaders /\ \E o \in 1..Len(Stored) : Stored[o].key = k
                   THEN CHOOSE o \in 1..Len(Stored) : Stored[o].key = k ELSE None
  BY DEF Init
<1>2. Db(k) \notin loaders /\ \E o \in 1..Len(Stored) : Stored[o].key = k BY <1>1
<1>3. indexes[k] = CHOOSE o \in 1..Len(Stored) : Stored[o].key = k BY <1>1, <1>2
<1> QED BY <1>2, <1>3

\* The registered indexes are finitely many.
LEMMA InitRegistered == ASSUME Init PROVE IsFiniteSet(Registered)
<1> DEFINE S == 1..Len(Stored)
           T == {Stored[o].key : o \in S}
<1>1. Len(Stored) \in Nat BY RegistryAssumption
<1>2. IsFiniteSet(S) BY <1>1, FS_Interval
<1>3. IsFiniteSet(T)
  <2> DEFINE f == [o \in S |-> Stored[o].key]
  <2>1. f \in Surjection(S, T) BY DEF Surjection
  <2> HIDE DEF f, S, T
  <2> QED BY <1>2, <2>1, FS_Surjection
<1>4. Registered \subseteq T BY InitIndexes DEF Registered
<1> HIDE DEF T
<1> QED BY <1>3, <1>4, FS_Subset

\* The initial states.
LEMMA InitType == Init => TypeOK
<1> SUFFICES ASSUME Init PROVE TypeOK OBVIOUS
<1> DEFINE R == [key : Keys, expr : Exprs]
<1>1. objs = Stored /\ Stored \in Seq(R) BY RegistryAssumption DEF Init
<1> HIDE DEF R
<1>2. DOMAIN objs = 1..Len(Stored) /\ Len(Stored) \in Nat BY <1>1
<1>3. saved \in [DOMAIN objs -> {"no", "ok", "failed"}] BY <1>2 DEF Init
<1>4. finisher \in [DOMAIN objs -> {"none", "wait", "created", "locking", "done"}]
  BY <1>2 DEF Init
<1>5. indexes \in [Keys -> DOMAIN objs \cup {None}]
  <2>1. \A k \in Keys : indexes[k] \in DOMAIN objs \cup {None} BY <1>2, InitIndexes
  <2>2. \E f : indexes = [k \in Keys |-> f[k]]
    <3>1. indexes = [k \in Keys |->
             IF Db(k) \notin loaders /\ \E o \in 1..Len(Stored) : Stored[o].key = k
             THEN CHOOSE o \in 1..Len(Stored) : Stored[o].key = k ELSE None]
      BY DEF Init
    <3>2. indexes = [k \in Keys |-> indexes[k]] BY <3>1
    <3> QED BY <3>2
  <2> QED BY <2>1, <2>2
<1>6. order \in Seq(Keys)
  <2>1. order = SetToSeq(Registered) BY DEF Init, Registered
  <2>2. order \in Seq(Registered) BY <2>1, InitRegistered, SetToSeqLists
  <2> QED BY <2>2 DEF Registered
<1>7. ops \in [Clients -> 0..(MaxOps + 1)]
  <2>1. MaxOps \in Nat BY RegistryAssumption
  <2>2. PICK cast \in Casts : ops = [p \in Clients |-> IF p \in cast THEN 0 ELSE MaxOps + 1]
    BY DEF Init
  <2> QED BY <2>1, <2>2
<1>8. loaders \subseteq Dbs BY RegistryAssumption DEF Init
<1>9. th \in [Clients -> Threads] BY IdleThread DEF Init
<1>10. onDisk \subseteq DOMAIN objs BY <1>2 DEF Init
<1>11. /\ status \in [Keys -> {"notReady", "ready"}] /\ refCounts \in [Keys -> Int]
       /\ queue \in [Keys -> Clients \cup {None}] /\ readers \in [Clients -> Nat]
       /\ waiting = {} /\ rcHolder \in Clients \cup {None}
       /\ deleter \in [Clients -> {"none", "wait", "closed", "locking"}]
  BY DEF Init
<1> QED BY <1>1, <1>3, <1>4, <1>5, <1>6, <1>7, <1>8, <1>9, <1>10, <1>11 DEF TypeOK, R

\* Nobody is in a statement, nothing is used and nothing is queued.
LEMMA InitInv == Init => RegistryInv
<1> SUFFICES ASSUME Init PROVE RegistryInv OBVIOUS
<1>1. /\ th = [p \in Clients |-> Idle] /\ queue = [k \in Keys |-> None] /\ objs = Stored
      /\ deleter = [p \in Clients |-> "none"] /\ refCounts = [k \in Keys |-> 0]
  BY DEF Init
<1>2. \A p \in Clients : /\ th[p].pc = "idle" /\ th[p].obj = None /\ th[p].cont = ""
                         /\ th[p].used = <<>>
  BY <1>1 DEF Idle
<1>3. DOMAIN <<>> = {} OBVIOUS
<1>4. Threading BY <1>2, <1>3 DEF Threading, Threaded, Dropping, Creating, ReadLocked
<1>5. Roles BY <1>2 DEF Roles, Role, At, Creating
<1>6. Keyed BY <1>1, InitIndexes DEF Keyed, Registered, KeyOf
<1>7. Queued BY <1>1 DEF Queued
<1>8. Counted
  <2> SUFFICES ASSUME NEW k \in Keys PROVE IsFiniteSet(UsesOf(k)) /\ refCounts[k] >= Uses(k)
    BY DEF Counted
  <2>1. ASSUME NEW p \in Clients PROVE UsesBy(p, k) = {}
    <3> DEFINE In == {i \in 0..Len(th[p].used) : Outstanding(p, i) /\ KeyOf(UsedAt(p, i)) = k}
    <3>1. \A i \in 0..Len(<<>>) : i = 0 OBVIOUS
    <3>2. ~Outstanding(p, 0) BY <1>2 DEF Outstanding, At
    <3>3. In = {} BY <1>2, <3>1, <3>2
    <3> HIDE DEF In
    <3>4. UsesBy(p, k) = {p} \X In BY DEF UsesBy, In
    <3> QED BY <3>3, <3>4
  <2>2. UsesOf(k) = {} BY <2>1 DEF UsesOf
  <2>3. refCounts[k] = 0 BY <1>1
  <2>4. IsFiniteSet({}) /\ Cardinality({}) = 0 BY FS_EmptySet
  <2> QED BY <2>2, <2>3, <2>4 DEF Uses
<1> QED BY <1>4, <1>5, <1>6, <1>7, <1>8 DEF RegistryInv

\* The registry and the clients inside its operations agree in every state: every index is
\* under its own key, every client holds the locks and the index that its place in CREATE
\* INDEX, DROP INDEX, a lookup or DeleteIndex goes with, and deleteIndexQueue holds only
\* calls that wait for that index.
THEOREM RegistryInvariant == Spec => [](TypeOK /\ RegistryInv)
<1>1. Init => TypeOK /\ RegistryInv BY InitType, InitInv
<1>2. TypeOK /\ RegistryInv /\ [Next]_vars => TypeOK' /\ RegistryInv'
  BY TypeStep, ThreadingStep, RolesStep, KeyedStep, QueuedStep, CountedStep DEF RegistryInv
<1> QED BY <1>1, <1>2, PTL DEF Spec

\* Type correctness: every variable keeps its type, whatever statements run together.
THEOREM TypeCorrect == Spec => []TypeOK
BY RegistryInvariant, PTL

\* The reference count of an index covers everybody that has retained it and not released
\* it yet, for any number of clients that look up, show, drop and delete indexes together
\* (retainIndex, ReleaseIndex): a queued deletion is not told too early.
THEOREM CountsCoverUses == Spec => []RefCountCoversUse
<1>1. RegistryInv => RefCountCoversUse BY DEF RegistryInv, Counted, RefCountCoversUse
<1> QED BY <1>1, RegistryInvariant, PTL

-----------------------------------------------------------------------------
(* The files of the indexes *)

\* How a client comes to be in DROP INDEX with an index that it has found.
LEMMA DropMoves ==
  ASSUME TypeOK, Threading, Queued, NEW p \in Clients, Continue(p), Dropping(p)'
  PROVE  \/ th'[p] = th[p]
         \/ /\ th[p].key \in Registered /\ th'[p].obj = indexes[th[p].key]
            /\ th'[p].pc = "dropRelease"
         \/ /\ Dropping(p) /\ th'[p].obj = th[p].obj
            /\ \/ th'[p].pc \in {"dropCheck", "delScan"}
               \/ At(p, "delScan") /\ th'[p].pc = "delRc" /\ th'[p].key \in SameId(th[p].key)
               \/ /\ th[p].pc \in {"delRc", "delLock", "delRemove"} /\ th'[p].key = th[p].key
                  /\ \/ th'[p].pc \in {"delLock", "delRemove"}
                     \/ th'[p].pc = "delDone" /\ DeleteRemove(p)
<1> DEFINE Goal == \/ th'[p] = th[p]
                   \/ /\ th[p].key \in Registered /\ th'[p].obj = indexes[th[p].key]
                      /\ th'[p].pc = "dropRelease"
                   \/ /\ Dropping(p) /\ th'[p].obj = th[p].obj
                      /\ \/ th'[p].pc \in {"dropCheck", "delScan"}
                         \/ /\ At(p, "delScan") /\ th'[p].pc = "delRc"
                            /\ th'[p].key \in SameId(th[p].key)
                         \/ /\ th[p].pc \in {"delRc", "delLock", "delRemove"}
                            /\ th'[p].key = th[p].key
                            /\ \/ th'[p].pc \in {"delLock", "delRemove"}
                               \/ th'[p].pc = "delDone" /\ DeleteRemove(p)
<1>0. th'[p].cont = "drop" /\ th'[p].pc # "retain" BY DEF Dropping, At
<1>t. Threaded(p) BY DEF Threading
<1>r. ASSUME Returns(p) PROVE FALSE BY <1>0, <1>r DEF Returns, Moves
<1>g. ASSUME NEW l \in ThreadStates, Goto(p, l), ~At(p, "retain")
      PROVE  /\ Dropping(p) /\ th[p].pc \in DropStates
             /\ th'[p].obj = th[p].obj /\ th'[p].key = th[p].key /\ th'[p].pc = l
  <2>1. GoesTo(p, l) BY <1>g, GotoStep
  <2> QED BY <1>0, <1>g, <1>t, <2>1 DEF GoesTo, Moves, Dropping, Threaded
<1>1. ASSUME \/ ValidateIndexToAdd(p) \/ AddLock(p) \/ AddIndex(p) \/ CreateReturns(p)
             \/ RegisterIndexesForTable(p) \/ DeleteCheck(p) \/ DeleteStatus(p) \/ DeleterRemove(p)
      PROVE  FALSE
  <2>1. th[p].pc \in {"validate", "addLock", "addIndex", "awaitReady", "load", "delCheck", "delStatus", "delQueued"}
    BY <1>1 DEF ValidateIndexToAdd, AddLock, AddIndex, CreateReturns, RegisterIndexesForTable,
       DeleteCheck, DeleteStatus, DeleterRemove, At, Queued
  <2>2. Return(p) \/ \E l \in ThreadStates : Goto(p, l)
    BY <1>1 DEF ValidateIndexToAdd, AddLock, AddIndex, CreateReturns, RegisterIndexesForTable,
       DeleteCheck, DeleteStatus, DeleterRemove, ThreadStates
  <2> QED BY <1>r, <1>g, <2>1, <2>2, ReturnStep DEF DropStates, At
<1>2. ASSUME Save(p) PROVE FALSE
  <2>1. At(p, "save") BY <1>2 DEF Save
  <2>2. CASE Goto(p, "awaitReady") BY <1>g, <2>1, <2>2 DEF ThreadStates, DropStates, At
  <2>3. CASE th' = [th EXCEPT ![p].pc = "delScan", ![p].cont = "abort"]
    <3>1. Moves(p, "delScan", th[p].key, th[p].obj, "abort", th[p].used, th[p].pos)
      BY <2>3, GotoContStep DEF ThreadStates
    <3> QED BY <1>0, <3>1 DEF Moves
  <2> QED BY <1>2, <2>2, <2>3 DEF Save
<1>3. ASSUME Lookup(p) PROVE FALSE BY <1>0, <1>3, <1>r, LookupStep DEF Moves
<1>4. ASSUME Retain(p) PROVE Goal BY <1>0, <1>4, <1>r, RetainStep DEF Moves
<1>5. ASSUME IndexesByTableStep(p) \/ ShowVisible(p) \/ Release(p) PROVE FALSE
  <2>1. th[p].pc \in {"show", "visible", "using"}
    BY <1>5 DEF IndexesByTableStep, ShowVisible, Release, At
  <2>2. th[p].cont # "drop" BY <1>t, <2>1 DEF Threaded, Dropping, At, DropStates
  <2>3. th'[p].cont = th[p].cont \/ Returns(p)
    BY <1>5, ShowStep, VisibleStep, ReleaseStep DEF GoesTo, Moves
  <2> QED BY <1>0, <1>r, <2>2, <2>3
<1>6. ASSUME DropRelease(p) PROVE Goal
  <2>1. At(p, "dropRelease") /\ Goto(p, "dropCheck") BY <1>6 DEF DropRelease
  <2> QED BY <1>g, <2>1 DEF ThreadStates, At
<1>7. ASSUME DropCheck(p) PROVE Goal
  <2>1. At(p, "dropCheck") BY <1>7 DEF DropCheck
  <2>2. Dropping(p) BY <1>t, <2>1 DEF Threaded, Dropping, At
  <2>3. CASE Return(p) BY <1>r, <2>3, ReturnStep
  <2>4. CASE th' = [th EXCEPT ![p].pc = "delScan", ![p].cont = "drop"]
    <3>1. Moves(p, "delScan", th[p].key, th[p].obj, "drop", th[p].used, th[p].pos)
      BY <2>4, GotoContStep DEF ThreadStates
    <3> QED BY <2>2, <3>1 DEF Moves
  <2> QED BY <1>7, <2>3, <2>4 DEF DropCheck
<1>8. ASSUME DeleteScan(p) PROVE Goal
  <2>1. At(p, "delScan") BY <1>8, ScanStep
  <2>2. th[p].cont = "drop" => Dropping(p) BY <2>1 DEF Dropping, At
  <2>3. ASSUME NEW k, Moves(p, "delCheck", k, th[p].obj, th[p].cont, th[p].used, th[p].pos),
               ~Forced(p)
        PROVE  FALSE
    BY <1>0, <2>3 DEF Moves, Forced
  <2>4. ASSUME NEW k \in SameId(th[p].key),
               Moves(p, "delRc", k, th[p].obj, th[p].cont, th[p].used, th[p].pos)
        PROVE  Goal
    BY <1>0, <2>1, <2>2, <2>4 DEF Moves
  <2> HIDE DEF Goal
  <2> QED BY <1>8, <1>r, <2>3, <2>4, ScanStep
<1>9. ASSUME DeleteRc(p) \/ DeleteLock(p) \/ DeleteRemove(p) PROVE Goal
  <2>1. th[p].pc \in {"delRc", "delLock", "delRemove"} /\ ~At(p, "retain")
    BY <1>9 DEF DeleteRc, DeleteLock, DeleteRemove, At
  <2>2. ASSUME Goto(p, "delQueued"), ~Forced(p) PROVE FALSE
    <3>1. Dropping(p) BY <1>g, <2>1, <2>2 DEF ThreadStates
    <3> QED BY <2>2, <3>1 DEF Dropping, Forced
  <2>3. ASSUME Goto(p, "delLock") \/ Goto(p, "delRemove") PROVE Goal
    BY <1>g, <2>1, <2>3 DEF ThreadStates
  <2>4. ASSUME DeleteRemove(p) PROVE Goal
    <3>1. Goto(p, "delDone") BY <2>4 DEF DeleteRemove
    <3> QED BY <1>g, <2>1, <2>4, <3>1 DEF ThreadStates
  <2> HIDE DEF Goal
  <2> QED BY <1>9, <2>2, <2>3, <2>4 DEF DeleteRc, DeleteLock
<1>10. ASSUME DeleteDone(p) PROVE FALSE BY <1>10, <1>r, ReturnStep DEF DeleteDone
<1>11. ASSUME DeleterLock(p) PROVE Goal BY <1>11 DEF DeleterLock
<1> HIDE DEF Goal
<1>12. Goal
  BY <1>1, <1>2, <1>3, <1>4, <1>5, <1>6, <1>7, <1>8, <1>9, <1>10, <1>11 DEF Continue, DeleteStep
<1> QED BY <1>12 DEF Goal

\* Only its own steps move a client.
LEMMA OwnStep ==
  ASSUME TypeOK, Threading, [Next]_vars, NEW q \in Clients, th'[q] # th[q]
  PROVE  \/ Continue(q)
         \/ CreateIndex(q) /\ q \in Creators
         \/ DropIndex(q)
         \/ IndexByExpression(q) /\ q \in Queriers
         \/ IndexesByTable(q)
         \/ DeleteIndex(q) /\ q \in Deleters
<1>1. \A p \in Clients : Continue(p) => p = q BY ContinueMoves
<1>2. \A p \in Clients :
        \/ CreateIndex(p) \/ DropIndex(p) \/ IndexByExpression(p) \/ IndexesByTable(p)
        \/ DeleteIndex(p)
        => p = q
  BY BeginMoves
<1>3. ASSUME NEW o \in DOMAIN objs, Finish(o) PROVE FALSE BY <1>3 DEF Finish, ReadyLock, SetReady
<1>4. Next BY DEF vars
<1> QED BY <1>1, <1>2, <1>3, <1>4, AllClients DEF Next

\* A client that is about to add an index has made it.
LEMMA CreatingFrom ==
  ASSUME TypeOK, Threading, [Next]_vars, NEW q \in Clients, th'[q].pc \in Creating
  PROVE  \/ th[q].pc \in Creating /\ th'[q].obj = th[q].obj /\ th'[q].key = th[q].key
         \/ CreateIndex(q) /\ th'[q].obj = Len(objs) + 1
<1>1. CASE th'[q] = th[q] BY <1>1
<1>2. CASE Continue(q) BY <1>2, ContinueMoves
<1>3. CASE CreateIndex(q) BY <1>3, CreateIndexStep DEF Moves
<1>4. CASE DropIndex(q) \/ IndexByExpression(q) \/ IndexesByTable(q) \/ DeleteIndex(q)
  BY <1>4, BeginMoves DEF Creating
<1> QED BY <1>1, <1>2, <1>3, <1>4, OwnStep

\* A client that drops an index has found it in the registry.
LEMMA DroppingFrom ==
  ASSUME TypeOK, Threading, Queued, [Next]_vars, NEW q \in Clients, Dropping(q)'
  PROVE  \/ Dropping(q) /\ th'[q].obj = th[q].obj
         \/ th[q].key \in Registered /\ th'[q].obj = indexes[th[q].key] /\ th'[q].pc = "dropRelease"
<1>1. CASE th'[q] = th[q] BY <1>1 DEF Dropping, At
<1>2. CASE Continue(q)
  <2>1. CASE th'[q] = th[q] BY <2>1 DEF Dropping, At
  <2> QED BY <1>2, <2>1, DropMoves
<1>3. CASE \/ CreateIndex(q) \/ DropIndex(q) \/ IndexByExpression(q) \/ IndexesByTable(q)
           \/ DeleteIndex(q)
  BY <1>3, BeginMoves DEF Dropping, At
<1> QED BY <1>1, <1>2, <1>3, OwnStep

\* What the goroutine that AddIndex starts, and what driver.Save says, may become.
LEMMA FinisherStep ==
  ASSUME TypeOK, Threading, AddedOnce, [Next]_vars, NEW o \in DOMAIN objs
  PROVE  /\ finisher[o] # "none" => finisher'[o] # "none"
         /\ finisher[o] = "none" /\ finisher'[o] # "none" =>
              \E p \in Clients : AddIndex(p) /\ th[p].obj = o
         /\ finisher'[o] = "none" => saved'[o] = saved[o]
<1> DEFINE Goal == /\ finisher[o] # "none" => finisher'[o] # "none"
                   /\ finisher[o] = "none" /\ finisher'[o] # "none" =>
                        \E p \in Clients : AddIndex(p) /\ th[p].obj = o
                   /\ finisher'[o] = "none" => saved'[o] = saved[o]
<1>t. finisher \in [DOMAIN objs -> {"none", "wait", "created", "locking", "done"}] BY DEF TypeOK
<1>1. ASSUME UNCHANGED <<finisher, saved>> PROVE Goal BY <1>1
<1>2. ASSUME NEW p \in Clients, CreateIndex(p) PROVE Goal BY <1>2, CreateTyped
<1>3. ASSUME NEW p \in Clients, AddIndex(p) PROVE Goal
  <2>1. finisher' = [finisher EXCEPT ![th[p].obj] = "wait"] /\ UNCHANGED saved
    BY <1>3 DEF AddIndex, objectVars
  <2>2. CASE th[p].obj = o BY <1>t, <1>3, <2>1, <2>2
  <2>3. CASE th[p].obj # o BY <1>t, <2>1, <2>3
  <2> QED BY <2>2, <2>3
<1>4. ASSUME NEW p \in Clients, Save(p) PROVE Goal
  <2>1. /\ finisher' = [finisher EXCEPT ![th[p].obj] = "created"] /\ At(p, "save")
        /\ \E x : saved' = [saved EXCEPT ![th[p].obj] = x]
    BY <1>4 DEF Save
  <2>2. finisher[th[p].obj] # "none" BY <2>1 DEF AddedOnce, At
  <2>3. CASE th[p].obj = o BY <1>t, <2>1, <2>2, <2>3
  <2>4. CASE th[p].obj # o BY <1>t, <2>1, <2>4 DEF TypeOK
  <2> QED BY <2>3, <2>4
<1>5. ASSUME NEW x \in DOMAIN objs, Finish(x) PROVE Goal
  <2>1. /\ finisher[x] # "none" /\ UNCHANGED saved
        /\ \E v \in {"locking", "done"} : finisher' = [finisher EXCEPT ![x] = v]
    BY <1>5 DEF Finish, ReadyLock, SetReady, objectVars
  <2> QED BY <1>t, <2>1
<1>6. ASSUME NEW p \in Clients,
             \/ ValidateIndexToAdd(p) \/ AddLock(p) \/ CreateReturns(p) \/ RegisterIndexesForTable(p)
             \/ Retain(p) \/ IndexesByTableStep(p) \/ ShowVisible(p) \/ Release(p)
             \/ DropRelease(p) \/ DropCheck(p) \/ DeleteStep(p)
      PROVE  Goal
  <2>1. UNCHANGED <<finisher, saved>>
    BY <1>6 DEF ValidateIndexToAdd, AddLock, CreateReturns, RegisterIndexesForTable, Retain,
       IndexesByTableStep, ShowVisible, Release, DropRelease, DropCheck, DeleteStep, DeleteScan,
       DeleteCheck, DeleteStatus, DeleteRc, DeleteLock, DeleteRemove, DeleteDone, DeleterLock, DeleterRemove,
       objectVars
  <2> QED BY <1>1, <2>1
<1>7. ASSUME NEW p \in Clients, Lookup(p) PROVE Goal
  <2>1. UNCHANGED <<finisher, saved>> BY <1>7, Zenon DEF Lookup, objectVars
  <2> QED BY <1>1, <2>1
<1>8. ASSUME NEW p \in Clients, DropIndex(p) \/ IndexByExpression(p) \/ IndexesByTable(p) \/ DeleteIndex(p)
      PROVE  Goal
  <2>1. UNCHANGED <<finisher, saved>>
    BY <1>8, Zenon DEF DropIndex, IndexByExpression, IndexesByTable, DeleteIndex, objectVars
  <2> QED BY <1>1, <2>1
<1>9. ASSUME UNCHANGED vars PROVE Goal BY <1>1, <1>9 DEF vars
<1> HIDE DEF Goal
<1>10. ASSUME NEW p \in Clients, Continue(p) PROVE Goal
  BY <1>3, <1>4, <1>6, <1>7, <1>10 DEF Continue
<1>11. ASSUME Next PROVE Goal BY <1>2, <1>5, <1>8, <1>10, <1>11, AllClients DEF Next
<1>12. Goal BY <1>9, <1>11
<1> QED BY <1>12 DEF Goal

\* Who creates an index in this step.
LEMMA OneCreates ==
  ASSUME TypeOK, Threading, NEW p \in Clients, CreateIndex(p), NEW q \in Clients,
         th'[q].pc \in Creating, th[q].pc \notin Creating
  PROVE  q = p
<1>1. CASE q # p
  <2>1. th'[q] = th[q] BY <1>1, BeginMoves
  <2> QED BY <2>1
<1> QED BY <1>1

\* An index object is added once.
LEMMA AddedOnceStep ==
  ASSUME TypeOK, Threading, Queued, AddedOnce, [Next]_vars
  PROVE  AddedOnce'
<1>f. \A o \in DOMAIN objs : finisher[o] # "none" => finisher'[o] # "none" BY FinisherStep
<1>d. DOMAIN objs \subseteq DOMAIN objs' BY ObjectsKept
<1>o. \A p \in Clients : th[p].obj # None => th[p].obj \in DOMAIN objs BY DEF Threading, Threaded
<1>c. \A p \in Clients : th[p].pc \in Creating => th[p].obj \in DOMAIN objs
  BY DEF Threading, Threaded
<1>a. ASSUME NEW p \in Clients, AddIndex(p)
      PROVE  /\ th[p].pc \in Creating /\ th'[p].pc \notin Creating
             /\ finisher'[th[p].obj] # "none"
  <2>1. /\ At(p, "addIndex") /\ Goto(p, "save")
        /\ finisher' = [finisher EXCEPT ![th[p].obj] = "wait"]
    BY <1>a DEF AddIndex
  <2>2. GoesTo(p, "save") BY <2>1, GotoStep DEF ThreadStates
  <2>3. th[p].pc \in Creating /\ th'[p].pc \notin Creating
    BY <2>1, <2>2 DEF GoesTo, Moves, At, Creating
  <2> QED BY <1>c, <2>1, <2>3 DEF TypeOK
<1>1. ASSUME NEW q \in Clients, th'[q].pc \in Creating PROVE finisher'[th'[q].obj] = "none"
  <2>1. CASE th[q].pc \in Creating /\ th'[q].obj = th[q].obj
    <3> DEFINE o == th[q].obj
    <3>1. o \in DOMAIN objs /\ finisher[o] = "none" BY <1>c, <2>1 DEF AddedOnce
    <3>2. CASE finisher'[o] # "none"
      <4>1. PICK p \in Clients : AddIndex(p) /\ th[p].obj = o BY <3>1, <3>2, FinisherStep
      <4>2. p = q BY <1>a, <2>1, <4>1 DEF AddedOnce
      <4> QED BY <1>1, <1>a, <4>1, <4>2
    <3> QED BY <2>1, <3>2
  <2>2. CASE CreateIndex(q) /\ th'[q].obj = Len(objs) + 1 BY <2>2, CreateTyped
  <2> QED BY <1>1, <2>1, <2>2, CreatingFrom
<1>2. ASSUME NEW q \in Clients, th'[q].pc \in {"save", "awaitReady"} PROVE finisher'[th'[q].obj] # "none"
  <2>1. CASE th'[q] = th[q]
    <3>1. finisher[th[q].obj] # "none" /\ th[q].obj \in DOMAIN objs
      BY <1>2, <2>1 DEF AddedOnce, Threading, Threaded
    <3> QED BY <1>f, <2>1, <3>1
  <2>2. CASE Continue(q)
    <3>1. CASE AddIndex(q) /\ th'[q].obj = th[q].obj BY <1>a, <3>1
    <3>2. CASE Save(q) /\ th'[q].obj = th[q].obj
      <4>1. At(q, "save") BY <3>2 DEF Save
      <4>2. finisher[th[q].obj] # "none" /\ th[q].obj \in DOMAIN objs
        BY <4>1 DEF AddedOnce, Threading, Threaded, At
      <4> QED BY <1>f, <3>2, <4>2
    <3> QED BY <1>2, <2>1, <2>2, <3>1, <3>2, ContinueMoves
  <2>3. CASE \/ CreateIndex(q) \/ DropIndex(q) \/ IndexByExpression(q) \/ IndexesByTable(q)
             \/ DeleteIndex(q)
    BY <1>2, <2>3, BeginMoves
  <2> QED BY <2>1, <2>2, <2>3, OwnStep
<1>3. ASSUME NEW q \in Clients, Dropping(q)' PROVE finisher'[th'[q].obj] # "none"
  <2>1. CASE Dropping(q) /\ th'[q].obj = th[q].obj
    <3>1. finisher[th[q].obj] # "none" /\ th[q].obj \in DOMAIN objs
      BY <2>1 DEF AddedOnce, Threading, Threaded
    <3> QED BY <1>f, <2>1, <3>1
  <2>2. CASE th[q].key \in Registered /\ th'[q].obj = indexes[th[q].key]
    BY <1>f, <2>2 DEF AddedOnce, Registered, TypeOK
  <2> QED BY <1>3, <2>1, <2>2, DroppingFrom
<1>4. ASSUME NEW p \in Clients, NEW q \in Clients, th'[p].pc \in Creating, th'[q].pc \in Creating,
             th'[p].obj = th'[q].obj
      PROVE  p = q
  <2>0. \A r \in Clients : CreateIndex(r) => Len(objs) + 1 \notin DOMAIN objs BY CreateTyped
  <2>1. CASE th[p].pc \in Creating /\ th[q].pc \in Creating
    <3>1. \A r \in {p, q} : ~CreateIndex(r)
      BY <2>1 DEF CreateIndex, Begin, At, Creating
    <3> QED BY <1>4, <2>1, <3>1, CreatingFrom DEF AddedOnce
  <2>2. CASE th[p].pc \notin Creating /\ th[q].pc \notin Creating
    BY <1>4, <2>2, CreatingFrom, OneCreates
  <2>3. CASE th[p].pc \in Creating /\ th[q].pc \notin Creating
    <3>1. CreateIndex(q) /\ th'[q].obj = Len(objs) + 1 BY <1>4, <2>3, CreatingFrom
    <3>2. ~CreateIndex(p) BY <2>3 DEF CreateIndex, Begin, At, Creating
    <3>3. th'[p].obj \in DOMAIN objs BY <1>4, <1>c, <2>3, <3>2, CreatingFrom
    <3> QED BY <1>4, <2>0, <3>1, <3>3
  <2>4. CASE th[p].pc \notin Creating /\ th[q].pc \in Creating
    <3>1. CreateIndex(p) /\ th'[p].obj = Len(objs) + 1 BY <1>4, <2>4, CreatingFrom
    <3>2. ~CreateIndex(q) BY <2>4 DEF CreateIndex, Begin, At, Creating
    <3>3. th'[q].obj \in DOMAIN objs BY <1>4, <1>c, <2>4, <3>2, CreatingFrom
    <3> QED BY <1>4, <2>0, <3>1, <3>3
  <2> QED BY <2>1, <2>2, <2>3, <2>4
<1>5. ASSUME NEW k \in Registered' PROVE finisher'[indexes'[k]] # "none"
  <2>1. k \in Keys /\ indexes'[k] # None BY DEF Registered
  <2>2. CASE indexes'[k] = indexes[k]
    <3>1. k \in Registered /\ indexes[k] \in DOMAIN objs BY <2>1, <2>2 DEF Registered, TypeOK
    <3> QED BY <1>f, <2>2, <3>1 DEF AddedOnce
  <2>3. CASE \E p \in Clients : AddIndex(p) /\ indexes'[k] = th[p].obj BY <1>a, <2>3
  <2>4. CASE indexes'[k] \in onDisk /\ saved[indexes'[k]] = "ok"
    <3>1. indexes'[k] \in DOMAIN objs BY <2>4 DEF TypeOK
    <3>2. finisher[indexes'[k]] # "none" BY <2>4, <3>1 DEF AddedOnce
    <3> QED BY <1>f, <3>1, <3>2
  <2> QED BY <2>1, <2>2, <2>3, <2>4, IndexesStep
<1>6. ASSUME NEW o \in DOMAIN objs', finisher'[o] = "none" PROVE saved'[o] = "no"
  <2>1. CASE o \in DOMAIN objs BY <1>6, <2>1, FinisherStep DEF AddedOnce
  <2>2. CASE o \notin DOMAIN objs
    <3>1. PICK p \in Creators : CreateIndex(p) BY <2>2, ObjectsKept
    <3> QED BY <2>2, <3>1, AllClients, CreateTyped
  <2> QED BY <2>1, <2>2
<1> QED BY <1>1, <1>2, <1>3, <1>4, <1>5, <1>6 DEF AddedOnce

\* A loader runs once.
LEMMA LoadersStep ==
  ASSUME TypeOK, Threading, [Next]_vars
  PROVE  \/ loaders' = loaders
         \/ \E p \in Clients : RegisterIndexesForTable(p) /\ loaders' = loaders \ {Db(th[p].key)}
<1>1. ASSUME NEW p \in Clients, RegisterIndexesForTable(p) PROVE loaders' = loaders \ {Db(th[p].key)}
  BY <1>1, RegisterTyped
<1>2. ASSUME NEW p \in Clients, Continue(p), ~RegisterIndexesForTable(p) PROVE UNCHANGED loaders
  <2>1. CASE Lookup(p) BY <2>1, Zenon DEF Lookup, registryVars
  <2> QED
    BY <1>2, <2>1 DEF Continue, DeleteStep, ValidateIndexToAdd, AddLock, AddIndex, Save,
       CreateReturns, Retain, IndexesByTableStep, ShowVisible, Release, DropRelease, DropCheck,
       DeleteScan, DeleteCheck, DeleteStatus, DeleteRc, DeleteLock, DeleteRemove, DeleteDone, DeleterLock,
       DeleterRemove, registryVars
<1>3. ASSUME NEW o \in DOMAIN objs, Finish(o) PROVE UNCHANGED loaders
  BY <1>3 DEF Finish, ReadyLock, SetReady, registryVars
<1>4. ASSUME NEW p \in Clients,
             \/ CreateIndex(p) \/ DropIndex(p) \/ IndexByExpression(p) \/ IndexesByTable(p)
             \/ DeleteIndex(p)
      PROVE  UNCHANGED loaders
  BY <1>4, Zenon DEF CreateIndex, DropIndex, IndexByExpression, IndexesByTable, DeleteIndex, registryVars
<1>5. CASE UNCHANGED vars BY <1>5 DEF vars
<1> QED BY <1>1, <1>2, <1>3, <1>4, <1>5, AllClients DEF Next

\* Who is about to load a database has found it among the loaders.
LEMMA LoadFrom ==
  ASSUME TypeOK, Threading, [Next]_vars, NEW q \in Clients, th'[q].pc = "load"
  PROVE  \/ th'[q] = th[q]
         \/ IndexByExpression(q) /\ Db(th'[q].key) \in loaders
<1>1. CASE Continue(q) BY <1>1, ContinueMoves
<1>2. CASE IndexByExpression(q)
  <2>1. PICK k \in Keys :
          Moves(q, IF Db(k) \in loaders THEN "load" ELSE "lookup", k, None, "", <<>>, 0)
    BY <1>2, IndexByExpressionStep
  <2>2. th'[q].key = k /\ Db(k) \in loaders BY <2>1 DEF Moves
  <2> QED BY <1>2, <2>2
<1>3. CASE CreateIndex(q) \/ DropIndex(q) \/ IndexesByTable(q) \/ DeleteIndex(q)
  BY <1>3, BeginMoves
<1> QED BY <1>1, <1>2, <1>3, OwnStep

\* A client that takes no part never does.
LEMMA OpsStep ==
  ASSUME TypeOK, Threading, [Next]_vars, NEW q \in Clients
  PROVE  ops'[q] = ops[q] \/ (ops[q] < MaxOps /\ ops'[q] <= MaxOps /\ Begin(q))
<1>1. ASSUME NEW p \in Clients, Begin(p) PROVE ops'[q] = ops[q] \/ (ops[q] < MaxOps /\ ops'[q] <= MaxOps /\ Begin(q))
  <2>1. CASE p = q
    <3>1. ops[q] < MaxOps BY <1>1, <2>1 DEF Begin
    <3> QED BY <1>1, <2>1, <3>1, BeginOps
  <2> QED BY <1>1, <2>1, BeginOps
<1>2. ASSUME NEW p \in Clients,
             \/ CreateIndex(p) \/ DropIndex(p) \/ IndexByExpression(p) \/ IndexesByTable(p)
             \/ DeleteIndex(p)
      PROVE  Begin(p)
  BY <1>2, BeginMoves
<1>3. ASSUME NEW o \in DOMAIN objs, Finish(o) PROVE UNCHANGED ops
  BY <1>3 DEF Finish, ReadyLock, SetReady
<1>4. CASE UNCHANGED vars BY <1>4 DEF vars
<1>5. ASSUME NEW p \in Clients, Continue(p) PROVE UNCHANGED ops BY <1>5, ContinueMoves
<1>6. ASSUME Next PROVE (\E p \in Clients : Begin(p)) \/ UNCHANGED ops
  BY <1>2, <1>3, <1>5, <1>6, AllClients DEF Next
<1> QED BY <1>1, <1>4, <1>6

\* Creation stays apart from lazy loading.
LEMMA NoLazyCreationStep ==
  ASSUME TypeOK, Threading, NoLazyCreation, [Next]_vars
  PROVE  NoLazyCreation'
<1>1. CASE loaders = {} /\ \A p \in Clients : ~At(p, "load")
  <2>1. loaders' = {} BY <1>1, LoadersStep
  <2>2. \A p \in Clients : th'[p].pc # "load" BY <1>1, LoadFrom DEF At
  <2> QED BY <2>1, <2>2 DEF NoLazyCreation, At
<1>2. CASE \A p \in Creators : ops[p] > MaxOps
  <2>1. ASSUME NEW p \in Creators PROVE ops'[p] > MaxOps
    <3>1. ops[p] > MaxOps /\ p \in Clients BY <1>2, AllClients
    <3>2. ops[p] \in 0..(MaxOps + 1) /\ MaxOps \in Nat BY <3>1, RegistryAssumption DEF TypeOK
    <3>3. ~(ops[p] < MaxOps) BY <3>1, <3>2
    <3> QED BY <3>1, <3>3, OpsStep
  <2> QED BY <2>1 DEF NoLazyCreation
<1> QED BY <1>1, <1>2 DEF NoLazyCreation

\* How DROP INDEX comes to the second half of DeleteIndex.
LEMMA DeletingFrom ==
  ASSUME TypeOK, Threading, Queued, [Next]_vars, NEW p \in Clients, Dropping(p)',
         th'[p].pc \in {"delRc", "delLock", "delRemove", "delDone"}, th'[p] # th[p]
  PROVE  /\ Dropping(p) /\ th'[p].obj = th[p].obj
         /\ \/ At(p, "delScan") /\ th'[p].pc = "delRc" /\ th'[p].key \in SameId(th[p].key)
            \/ /\ th[p].pc \in {"delRc", "delLock", "delRemove"} /\ th'[p].key = th[p].key
               /\ th'[p].pc = "delDone" => DeleteRemove(p)
<1>1. CASE Continue(p) BY <1>1, DropMoves
<1>2. CASE \/ CreateIndex(p) \/ DropIndex(p) \/ IndexByExpression(p) \/ IndexesByTable(p)
           \/ DeleteIndex(p)
  BY <1>2, BeginMoves DEF Dropping, At
<1> QED BY <1>1, <1>2, OwnStep

\* A database that has been loaded stays loaded.
LEMMA LoadedOnceStep ==
  ASSUME TypeOK, Threading, Roles, Keyed, Queued, NoLazyCreation, LoadedOnce, [Next]_vars
  PROVE  LoadedOnce'
<1>l. loaders' \subseteq loaders BY LoadersStep
<1>o. \A o \in DOMAIN objs : objs'[o] = objs[o] BY ObjectsKept
<1>1. ASSUME NEW k \in Registered' PROVE Db(k) \notin loaders'
  <2>1. k \in Keys /\ indexes'[k] # None BY DEF Registered
  <2>2. CASE indexes'[k] = indexes[k] BY <1>l, <2>1, <2>2 DEF LoadedOnce, Registered
  <2>3. ASSUME NEW p \in Clients, AddIndex(p) PROVE Db(k) \notin loaders'
    <3>1. At(p, "addIndex") BY <2>3 DEF AddIndex
    <3>2. p \in Creators /\ ops[p] <= MaxOps BY <3>1 DEF Roles, Role, At, Creating
    <3>3. ~(ops[p] > MaxOps)
      <4>1. ops[p] \in 0..(MaxOps + 1) /\ MaxOps \in Nat BY RegistryAssumption DEF TypeOK
      <4> QED BY <3>2, <4>1
    <3>4. loaders = {} BY <3>2, <3>3 DEF NoLazyCreation
    <3> QED BY <1>l, <3>4
  <2>4. ASSUME NEW p \in Clients, RegisterIndexesForTable(p), Db(k) = Db(th[p].key)
        PROVE  Db(k) \notin loaders'
    BY <2>4, RegisterTyped
  <2> QED BY <2>1, <2>2, <2>3, <2>4, IndexesStep
<1>2. ASSUME NEW p \in Clients, Dropping(p)' PROVE Db(KeyOf(th[p].obj))' \notin loaders'
  <2>1. CASE Dropping(p) /\ th'[p].obj = th[p].obj
    <3>1. th[p].obj \in DOMAIN objs BY <2>1 DEF Threading, Threaded
    <3> QED BY <1>l, <1>o, <2>1, <3>1 DEF LoadedOnce, KeyOf, Db
  <2>2. CASE th[p].key \in Registered /\ th'[p].obj = indexes[th[p].key]
    <3>1. indexes[th[p].key] \in DOMAIN objs BY <2>2 DEF Registered, TypeOK
    <3> QED BY <1>l, <1>o, <2>2, <3>1 DEF LoadedOnce, Keyed, KeyOf, Db
  <2> QED BY <1>2, <2>1, <2>2, DroppingFrom
<1>3. ASSUME NEW p \in Clients, NEW q \in Clients, Dropping(p)', th'[p].pc = "delDone",
             th'[q].pc = "load"
      PROVE  Db(th[q].key)' # Db(KeyOf(th[p].obj))'
  <2>1. Dropping(p) /\ th'[p].obj = th[p].obj BY <1>3, DroppingFrom
  <2>2. th[p].obj \in DOMAIN objs BY <2>1 DEF Threading, Threaded
  <2>3. objs'[th'[p].obj] = objs[th[p].obj] BY <1>o, <2>1, <2>2
  <2>4. CASE IndexByExpression(q) /\ Db(th'[q].key) \in loaders
    BY <2>1, <2>3, <2>4 DEF LoadedOnce, KeyOf, Db
  <2>5. CASE th'[q] = th[q] /\ th'[p] = th[p]
    BY <1>3, <2>1, <2>3, <2>5 DEF LoadedOnce, KeyOf, Db, At
  <2>6. CASE th'[q] = th[q] /\ th'[p] # th[p]
    <3>1. DeleteRemove(p) BY <1>3, <2>6, DeletingFrom
    <3>2. readers[q] = 0 BY <3>1 DEF DeleteRemove, LockedStep, CanLock
    <3>3. readers[q] > 0 BY <1>3, <2>6 DEF Threading, Threaded, ReadLocked
    <3> QED BY <3>2, <3>3
  <2> QED BY <1>3, <2>4, <2>5, <2>6, LoadFrom
<1> QED BY <1>1, <1>2, <1>3 DEF LoadedOnce, At

\* An id that one index has alone, it has always had alone.
LEMMA OnlyOfItsIdBefore ==
  ASSUME TypeOK, [Next]_vars, NEW o \in DOMAIN objs, OnlyOfItsId(o)'
  PROVE  OnlyOfItsId(o) /\ objs'[o] = objs[o]
<1>1. DOMAIN objs \subseteq DOMAIN objs' /\ \A q \in DOMAIN objs : objs'[q] = objs[q] BY ObjectsKept
<1> QED BY <1>1 DEF OnlyOfItsId, KeyOf, Id

\* DROP INDEX goes on to unregister the index that it has found.
LEMMA UnregisteredFirstStep ==
  ASSUME TypeOK, Threading, Keyed, Queued, AddedOnce, LoadedOnce, UnregisteredFirst, [Next]_vars
  PROVE  UnregisteredFirst'
<1> SUFFICES ASSUME NEW p \in Clients, Dropping(p)', OnlyOfItsId(th[p].obj)',
                    th'[p].pc \in {"delRc", "delLock", "delRemove", "delDone"}
             PROVE  /\ th'[p].key = KeyOf(th[p].obj)'
                    /\ th'[p].pc = "delDone" => indexes'[KeyOf(th[p].obj)'] = None
  BY DEF UnregisteredFirst, At
<1> DEFINE o == th[p].obj
           k == KeyOf(o)
<1>1. Dropping(p) /\ th'[p].obj = o BY DroppingFrom
<1>2. o \in DOMAIN objs BY <1>1 DEF Threading, Threaded
<1>4. OnlyOfItsId(o) /\ objs'[o] = objs[o]
  <2>1. \A q \in DOMAIN objs : objs'[q] = objs[q] /\ q \in DOMAIN objs' BY ObjectsKept
  <2> QED BY <1>1, <1>2, <2>1 DEF OnlyOfItsId, KeyOf, Id
<1>5. KeyOf(th[p].obj)' = k BY <1>1, <1>4 DEF KeyOf
<1>6. k \in Keys BY <1>2, ObjectKey
<1>7. th'[p].key = k
  <2>1. CASE th'[p] = th[p] BY <1>1, <1>4, <2>1 DEF UnregisteredFirst
  <2>2. CASE At(p, "delScan") /\ th'[p].key \in SameId(th[p].key)
    <3>1. th[p].key = k BY <1>1, <2>2 DEF Threading, Threaded, At
    <3> DEFINE j == th'[p].key
    <3>2. j \in Registered /\ Id(j) = Id(k) BY <2>2, <3>1 DEF SameId
    <3>3. indexes[j] \in DOMAIN objs /\ KeyOf(indexes[j]) = j BY <3>2 DEF Keyed, Registered, TypeOK
    <3>4. indexes[j] = o BY <1>4, <3>2, <3>3 DEF OnlyOfItsId
    <3> QED BY <3>3, <3>4
  <2>3. CASE th[p].pc \in {"delRc", "delLock", "delRemove"} /\ th'[p].key = th[p].key
    BY <1>1, <1>4, <2>3 DEF UnregisteredFirst
  <2> QED BY <2>1, <2>2, <2>3, DeletingFrom
<1>8. ASSUME th'[p].pc = "delDone" PROVE indexes'[k] = None
  <2>1. CASE th'[p] = th[p]
    <3>0. At(p, "delDone") BY <1>8, <2>1 DEF At
    <3>1. indexes[k] = None BY <1>1, <1>4, <3>0 DEF UnregisteredFirst, At
    <3>2. ASSUME NEW r \in Clients, AddIndex(r), th[r].obj \in DOMAIN objs, KeyOf(th[r].obj) = k
          PROVE  FALSE
      <4>1. th[r].obj = o BY <1>4, <3>2 DEF OnlyOfItsId
      <4>2. th[r].pc \in Creating BY <3>2 DEF AddIndex, At, Creating
      <4> QED BY <1>1, <4>1, <4>2 DEF AddedOnce
    <3>3. ASSUME NEW r \in Clients, RegisterIndexesForTable(r), Db(k) = Db(th[r].key) PROVE FALSE
      <4>1. At(r, "load") BY <3>3 DEF RegisterIndexesForTable
      <4> QED BY <1>1, <3>0, <3>3, <4>1 DEF LoadedOnce
    <3> QED BY <1>6, <3>1, <3>2, <3>3, IndexesStep
  <2>2. CASE th'[p] # th[p]
    <3>1. DeleteRemove(p) /\ th'[p].key = th[p].key BY <1>8, <2>2, DeletingFrom
    <3>2. indexes' = [indexes EXCEPT ![k] = None] BY <1>7, <3>1 DEF DeleteRemove
    <3> QED BY <1>6, <3>2 DEF TypeOK
  <2> QED BY <2>1, <2>2
<1> QED BY <1>5, <1>7, <1>8

\* Only DROP INDEX removes the files of an index that has its id alone.
LEMMA FilesKept ==
  ASSUME TypeOK, Threading, [Next]_vars, NEW o \in onDisk, OnlyOfItsId(o)', o \notin onDisk'
  PROVE  \E p \in Clients : Dropping(p) /\ At(p, "delDone") /\ th[p].obj = o
<1>t. o \in DOMAIN objs BY DEF TypeOK
<1>o. OnlyOfItsId(o) /\ objs'[o] = objs[o] BY <1>t, OnlyOfItsIdBefore
<1>1. ASSUME NEW p \in Clients, CreateIndex(p) PROVE FALSE
  <2>1. PICK k \in Keys, e \in Exprs : /\ objs' = Append(objs, [key |-> k, expr |-> e])
                                       /\ onDisk' = {x \in onDisk : KeyOf(x) # k} \cup {Len(objs) + 1}
    BY <1>1, CreateIndexStep
  <2> DEFINE n == Len(objs) + 1
  <2>2. n \in DOMAIN objs' /\ n \notin DOMAIN objs BY <1>1, CreateTyped
  <2>3. objs'[n].key = k
    <3> DEFINE x == [key |-> k, expr |-> e]
    <3>1. x \in [key : Keys, expr : Exprs] /\ x.key = k OBVIOUS
    <3> HIDE DEF x
    <3>2. objs'[n] = x
      <4>1. objs \in Seq([key : Keys, expr : Exprs]) /\ objs' = Append(objs, x) BY <2>1 DEF TypeOK, x
      <4> QED BY <3>1, <4>1
    <3> QED BY <3>1, <3>2
  <2>4. objs[o].key = k BY <2>1 DEF KeyOf
  <2>5. n = o BY <1>o, <2>2, <2>3, <2>4 DEF OnlyOfItsId, KeyOf, Id
  <2> QED BY <1>t, <2>2, <2>5
<1>2. ASSUME NEW p \in Clients, DeleteDone(p) PROVE Dropping(p) /\ At(p, "delDone") /\ th[p].obj = o
  <2>1. At(p, "delDone") /\ th[p].cont = "drop" /\ KeyOf(o) = KeyOf(th[p].obj)
    BY <1>2 DEF DeleteDone
  <2>2. Dropping(p) BY <2>1 DEF Dropping, At
  <2>3. th[p].obj \in DOMAIN objs BY <2>2 DEF Threading, Threaded
  <2>4. th[p].obj = o BY <1>o, <2>1, <2>3 DEF OnlyOfItsId
  <2> QED BY <2>1, <2>2, <2>4
<1>3. ASSUME NEW p \in Clients, Continue(p), ~DeleteDone(p) PROVE FALSE
  <2>1. CASE Lookup(p) BY <2>1, Zenon DEF Lookup, objectVars
  <2> QED
    BY <1>3, <2>1 DEF Continue, DeleteStep, ValidateIndexToAdd, AddLock, AddIndex, Save,
       CreateReturns, RegisterIndexesForTable, Retain, IndexesByTableStep, ShowVisible, Release,
       DropRelease, DropCheck, DeleteScan, DeleteCheck, DeleteStatus, DeleteRc, DeleteLock, DeleteRemove,
       DeleterLock, DeleterRemove, objectVars
<1>4. ASSUME NEW x \in DOMAIN objs, Finish(x) PROVE FALSE
  BY <1>4 DEF Finish, ReadyLock, SetReady, objectVars
<1>5. ASSUME NEW p \in Clients, DropIndex(p) \/ IndexByExpression(p) \/ IndexesByTable(p) \/ DeleteIndex(p)
      PROVE  FALSE
  BY <1>5, Zenon DEF DropIndex, IndexByExpression, IndexesByTable, DeleteIndex, objectVars
<1>6. CASE UNCHANGED vars BY <1>6 DEF vars
<1> QED BY <1>1, <1>2, <1>3, <1>4, <1>5, <1>6, AllClients DEF Next

\* The files stay as long as the index is registered.
LEMMA HasFilesStep ==
  ASSUME TypeOK, Threading, Keyed, AddedOnce, LoadedOnce, UnregisteredFirst, HasFiles,
         [Next]_vars
  PROVE  HasFiles'
<1>1. ASSUME NEW o \in DOMAIN objs, finisher[o] = "none", o \in onDisk, OnlyOfItsId(o)'
      PROVE  o \in onDisk'
  <2>1. ~\E p \in Clients : Dropping(p) /\ th[p].obj = o BY <1>1 DEF AddedOnce
  <2> QED BY <1>1, <2>1, FilesKept
<1>2. ASSUME NEW o \in DOMAIN objs', finisher'[o] = "none", OnlyOfItsId(o)' PROVE o \in onDisk'
  <2>1. CASE o \in DOMAIN objs
    <3>1. finisher[o] = "none" BY <1>2, <2>1, FinisherStep
    <3>2. OnlyOfItsId(o) BY <1>2, <2>1, OnlyOfItsIdBefore
    <3> QED BY <1>1, <1>2, <2>1, <3>1, <3>2 DEF HasFiles
  <2>2. CASE o \notin DOMAIN objs
    <3>1. PICK p \in Creators : CreateIndex(p) BY <2>2, ObjectsKept
    <3> QED BY <2>2, <3>1, AllClients, CreateTyped
  <2> QED BY <2>1, <2>2
<1>3. ASSUME NEW k \in Registered', OnlyOfItsId(indexes[k])' PROVE indexes'[k] \in onDisk'
  <2> DEFINE o == indexes'[k]
  <2>0. k \in Keys /\ o # None BY DEF Registered
  <2>1. CASE o = indexes[k]
    <3>1. k \in Registered /\ o \in DOMAIN objs /\ KeyOf(o) = k
      BY <2>0, <2>1 DEF Registered, TypeOK, Keyed
    <3>2. OnlyOfItsId(indexes[k])
      <4>1. \A q \in DOMAIN objs : objs'[q] = objs[q] /\ q \in DOMAIN objs' BY ObjectsKept
      <4> QED BY <1>3, <2>1, <3>1, <4>1 DEF OnlyOfItsId, KeyOf, Id
    <3>3. o \in onDisk BY <2>1, <3>1, <3>2 DEF HasFiles
    <3>4. ASSUME NEW p \in Clients, Dropping(p), At(p, "delDone"), th[p].obj = o PROVE FALSE
      BY <2>1, <3>1, <3>2, <3>4 DEF UnregisteredFirst, At, Registered
    <3> QED BY <1>3, <3>3, <3>4, FilesKept
  <2>2. ASSUME NEW p \in Clients, AddIndex(p), o = th[p].obj, o \in DOMAIN objs PROVE o \in onDisk'
    <3>1. finisher[o] = "none" BY <2>2 DEF AddIndex, At, Creating, AddedOnce
    <3>2. OnlyOfItsId(o)
      <4>1. \A q \in DOMAIN objs : objs'[q] = objs[q] /\ q \in DOMAIN objs' BY ObjectsKept
      <4> QED BY <1>3, <2>2, <4>1 DEF OnlyOfItsId, KeyOf, Id
    <3>3. o \in onDisk BY <2>2, <3>1, <3>2 DEF HasFiles
    <3>4. ASSUME NEW q \in Clients, Dropping(q), th[q].obj = o PROVE FALSE
      BY <3>1, <3>4 DEF AddedOnce
    <3> QED BY <1>3, <3>3, <3>4, FilesKept
  <2>3. ASSUME NEW p \in Clients, RegisterIndexesForTable(p), Db(k) = Db(th[p].key), o \in onDisk,
               KeyOf(o) = k
        PROVE  o \in onDisk'
    <3>1. At(p, "load") BY <2>3 DEF RegisterIndexesForTable
    <3>2. ASSUME NEW q \in Clients, Dropping(q), At(q, "delDone"), th[q].obj = o PROVE FALSE
      BY <2>3, <3>1, <3>2 DEF LoadedOnce
    <3> QED BY <1>3, <2>3, <3>2, FilesKept
  <2> QED BY <2>0, <2>1, <2>2, <2>3, IndexesStep
<1> QED BY <1>2, <1>3 DEF HasFiles

\* At the start every index is as its files say.
LEMMA InitFiles == Init /\ NoLazyCreation => FilesInv
<1> SUFFICES ASSUME Init, NoLazyCreation PROVE FilesInv OBVIOUS
<1>1. /\ th = [p \in Clients |-> Idle] /\ objs = Stored /\ onDisk = 1..Len(Stored)
      /\ finisher = [o \in 1..Len(Stored) |-> "done"]
  BY DEF Init
<1>2. \A p \in Clients : th[p].pc = "idle" /\ ~Dropping(p) BY <1>1 DEF Idle, Dropping
<1>3. DOMAIN objs = 1..Len(Stored) BY <1>1, RegistryAssumption
<1>4. \A k \in Registered : indexes[k] \in 1..Len(Stored) /\ Db(k) \notin loaders
  BY InitIndexes DEF Registered
<1>5. \A o \in 1..Len(Stored) : finisher[o] = "done" BY <1>1
<1>6. AddedOnce BY <1>2, <1>3, <1>4, <1>5 DEF AddedOnce, Creating
<1>7. LoadedOnce BY <1>2, <1>4 DEF LoadedOnce
<1>8. UnregisteredFirst BY <1>2 DEF UnregisteredFirst
<1>9. HasFiles BY <1>1, <1>3, <1>4, <1>5 DEF HasFiles
<1> QED BY <1>6, <1>7, <1>8, <1>9 DEF FilesInv

\* A registered index that is ready has its files, if no other index was given its id: DROP
\* INDEX unregisters the index before driver.Delete removes the files and nobody brings it
\* back (AddIndex adds every object once, and the loader of the table has run before the
\* index could be found).  The hypothesis is on the initial state: the loaders have run, or
\* no client creates indexes.  Without it registerIndexesForTable, which reads the disk
\* again, registers an index that CREATE INDEX has saved and DROP INDEX is about to delete.
THEOREM ReadyIndexesHaveFiles == NoLazyCreation /\ Spec => []ReadyHasFiles
<1> DEFINE Inv == TypeOK /\ RegistryInv /\ FilesInv
<1>1. Init /\ NoLazyCreation => Inv BY InitType, InitInv, InitFiles
<1>2. Inv /\ [Next]_vars => Inv'
  <2> SUFFICES ASSUME Inv, [Next]_vars PROVE Inv' OBVIOUS
  <2>1. TypeOK' /\ RegistryInv'
    BY TypeStep, ThreadingStep, RolesStep, KeyedStep, QueuedStep, CountedStep DEF RegistryInv
  <2>2. FilesInv'
    BY AddedOnceStep, NoLazyCreationStep, LoadedOnceStep, UnregisteredFirstStep, HasFilesStep
    DEF RegistryInv, FilesInv
  <2> QED BY <2>1, <2>2
<1>3. Inv => ReadyHasFiles BY DEF FilesInv, HasFiles, ReadyHasFiles
<1> QED BY <1>1, <1>2, <1>3, PTL DEF Spec

-----------------------------------------------------------------------------
(* The order of the indexes *)

\* Without k, a list of different keys is the list of the other keys.
LEMMA DropFirstElements ==
  ASSUME NEW S, NEW s \in Seq(S), NEW k, \A i, j \in DOMAIN s : s[i] = s[j] => i = j
  PROVE  LET t == DropFirst(s, k) IN
         ToSet(t) = ToSet(s) \ {k} /\ \A i, j \in DOMAIN t : t[i] = t[j] => i = j
<1>0. DOMAIN s = 1..Len(s) /\ Len(s) \in Nat OBVIOUS
<1>1. CASE \E i \in DOMAIN s : s[i] = k
  <2> DEFINE i == CHOOSE i \in DOMAIN s : s[i] = k /\ \A j \in 1..(i - 1) : s[j] # k
             t == RemoveAt(s, i)
             Old(j) == IF j < i THEN j ELSE j + 1
  <2>1. \E j \in DOMAIN s : s[j] = k /\ \A l \in 1..(j - 1) : s[l] # k BY <1>1, FirstPosition
  <2>2. i \in DOMAIN s /\ s[i] = k BY <2>1
  <2>3. DropFirst(s, k) = t BY <1>1 DEF DropFirst
  <2> HIDE DEF i
  <2>4. DOMAIN t = 1..(Len(s) - 1) /\ \A j \in DOMAIN t : t[j] = s[Old(j)]
    BY <2>2, RemoveAtElements
  <2> HIDE DEF t
  <2>5. \A j \in 1..(Len(s) - 1) : Old(j) \in DOMAIN s /\ Old(j) # i BY <1>0, <2>2
  <2>6. \A j, l \in 1..(Len(s) - 1) : Old(j) = Old(l) => j = l BY <1>0, <2>2
  <2>7. ASSUME NEW n \in DOMAIN s, n # i PROVE \E j \in 1..(Len(s) - 1) : Old(j) = n
    <3>1. CASE n < i BY <1>0, <2>2, <3>1
    <3>2. CASE n > i
      <4>1. n - 1 \in 1..(Len(s) - 1) /\ Old(n - 1) = n BY <1>0, <2>2, <3>2
      <4> QED BY <4>1
    <3> QED BY <1>0, <2>2, <2>7, <3>1, <3>2
  <2> HIDE DEF Old
  <2>8. ToSet(t) = {s[n] : n \in DOMAIN s \ {i}}
    <3>1. ASSUME NEW x \in ToSet(t) PROVE \E n \in DOMAIN s \ {i} : x = s[n]
      <4>1. PICK j \in DOMAIN t : x = t[j] BY <3>1 DEF ToSet
      <4>2. x = s[Old(j)] /\ Old(j) \in DOMAIN s \ {i} BY <2>4, <2>5, <4>1
      <4> QED BY <4>2
    <3>2. ASSUME NEW n \in DOMAIN s \ {i} PROVE s[n] \in ToSet(t)
      <4>1. PICK j \in 1..(Len(s) - 1) : Old(j) = n BY <2>7
      <4>2. j \in DOMAIN t /\ t[j] = s[n] BY <2>4, <4>1
      <4> QED BY <4>2 DEF ToSet
    <3> QED BY <3>1, <3>2
  <2>9. {s[n] : n \in DOMAIN s \ {i}} = ToSet(s) \ {k} BY <2>2 DEF ToSet
  <2>10. \A j, l \in DOMAIN t : t[j] = t[l] => j = l BY <2>4, <2>5, <2>6
  <2> QED BY <2>3, <2>8, <2>9, <2>10
<1>2. CASE ~\E i \in DOMAIN s : s[i] = k
  <2>1. DropFirst(s, k) = s BY <1>2 DEF DropFirst
  <2>2. k \notin ToSet(s) BY <1>2 DEF ToSet
  <2> QED BY <2>1, <2>2
<1> QED BY <1>1, <1>2

\* A client that takes no part took none before.
LEMMA PartsKept ==
  ASSUME TypeOK, Threading, [Next]_vars, NEW q \in Clients
  PROVE  (ops'[q] > MaxOps => ops[q] > MaxOps) /\ (ops'[q] <= MaxOps => ops[q] <= MaxOps)
<1>1. ops[q] \in 0..(MaxOps + 1) /\ MaxOps \in Nat BY RegistryAssumption DEF TypeOK
<1>2. ops'[q] \in 0..(MaxOps + 1)
  <2>1. TypeOK' BY TypeStep
  <2> QED BY <2>1 DEF TypeOK
<1> QED BY <1>1, <1>2, OpsStep

\* A client that is about to enter an index has found its key free.
LEMMA AdderFrom ==
  ASSUME TypeOK, Threading, Queued, [Next]_vars, NEW q \in Clients,
         th'[q].pc \in {"addLock", "addIndex"}
  PROVE  /\ th[q].pc \in Creating /\ th'[q].key = th[q].key
         /\ th[q].pc \in {"addLock", "addIndex"} \/ th[q].key \notin Registered
<1>1. th[q].pc \in Creating /\ th'[q].key = th[q].key
  BY CreatingFrom, BeginMoves DEF Creating
<1>2. CASE At(q, "validate")
  <2>1. th'[q] # th[q] BY <1>2 DEF At
  <2>2. Continue(q)
    <3>1. ~Begin(q) BY <1>2 DEF Begin, At
    <3> QED BY <2>1, <3>1, BeginMoves, OwnStep
  <2>3. deleter[q] = "none" BY <1>2 DEF Queued, At
  <2>4. ValidateIndexToAdd(q)
    BY <1>2, <2>2, <2>3 DEF Continue, DeleteStep, AddLock, AddIndex, Save, CreateReturns,
       RegisterIndexesForTable, Lookup, Retain, IndexesByTableStep, ShowVisible, Release,
       DropRelease, DropCheck, DeleteScan, DeleteCheck, DeleteStatus, DeleteRc, DeleteLock, DeleteRemove,
       DeleteDone, DeleterLock, DeleterRemove, At
  <2>5. ~Return(q)
    <3>1. Return(q) => th'[q].pc = "idle" BY ReturnStep DEF Returns, Moves
    <3> QED BY <3>1
  <2>6. ~Clashes(th[q].obj) BY <2>4, <2>5 DEF ValidateIndexToAdd
  <2>7. KeyOf(th[q].obj) = th[q].key BY <1>1 DEF Threading, Threaded
  <2>8. th[q].key \notin Registered BY <2>6, <2>7 DEF Clashes
  <2> QED BY <1>1, <2>8
<1>3. CASE ~At(q, "validate") BY <1>1, <1>3 DEF At, Creating
<1> QED BY <1>2, <1>3

\* What the statements on indexes do to r.indexes and r.indexOrder.
LEMMA OrderStep ==
  ASSUME TypeOK, Threading, Roles, Queued, [Next]_vars,
         \A p \in Queriers \cup Deleters : ops[p] > MaxOps
  PROVE  \/ UNCHANGED <<indexes, order>>
         \/ \E p \in Clients : AddIndex(p)
         \/ \E p \in Clients : DeleteRemove(p)
<1>p. ASSUME NEW p \in Queriers \cup Deleters, ops[p] <= MaxOps PROVE FALSE
  <2>1. p \in Clients BY AllClients
  <2>2. ops[p] \in 0..(MaxOps + 1) /\ MaxOps \in Nat BY <2>1, RegistryAssumption DEF TypeOK
  <2> QED BY <1>p, <2>2
<1>1. ASSUME NEW p \in Clients, RegisterIndexesForTable(p) PROVE FALSE
  BY <1>1, <1>p DEF RegisterIndexesForTable, Roles, Role
<1>2. ASSUME NEW p \in Clients, DeleterRemove(p) PROVE FALSE
  <2>1. At(p, "delQueued") BY <1>2 DEF DeleterRemove, Queued
  <2>2. th[p].cont = "api" BY <2>1 DEF Threading, Threaded, At
  <2> QED BY <1>p, <2>2 DEF Roles, Role
<1>3. ASSUME NEW p \in Clients, Continue(p), ~AddIndex(p), ~DeleteRemove(p)
      PROVE  UNCHANGED <<indexes, order>>
  <2>1. CASE Lookup(p) BY <2>1, Zenon DEF Lookup, registryVars
  <2> QED
    BY <1>1, <1>2, <1>3, <2>1 DEF Continue, DeleteStep, ValidateIndexToAdd, AddLock, Save,
       CreateReturns, Retain, IndexesByTableStep, ShowVisible, Release, DropRelease, DropCheck,
       DeleteScan, DeleteCheck, DeleteStatus, DeleteRc, DeleteLock, DeleteDone, DeleterLock, registryVars
<1>4. ASSUME NEW o \in DOMAIN objs, Finish(o) PROVE UNCHANGED <<indexes, order>>
  BY <1>4 DEF Finish, ReadyLock, SetReady, registryVars
<1>5. ASSUME NEW p \in Clients,
             \/ CreateIndex(p) \/ DropIndex(p) \/ IndexByExpression(p) \/ IndexesByTable(p)
             \/ DeleteIndex(p)
      PROVE  UNCHANGED <<indexes, order>>
  BY <1>5, Zenon DEF CreateIndex, DropIndex, IndexByExpression, IndexesByTable, DeleteIndex, registryVars
<1>6. CASE UNCHANGED vars BY <1>6 DEF vars
<1> QED BY <1>3, <1>4, <1>5, <1>6, AllClients DEF Next

\* The number of creators stays what it is.
LEMMA OneCreatorStep == ASSUME TypeOK, Threading, OneCreator, [Next]_vars PROVE OneCreator'
BY PartsKept, AllClients DEF OneCreator

\* Every step of the statements on indexes keeps r.indexOrder in line with r.indexes.
LEMMA OrderedStep ==
  ASSUME TypeOK, Threading, Roles, Queued, OneCreator, Ordered, [Next]_vars
  PROVE  Ordered'
<1> SUFFICES ASSUME \A p \in Queriers \cup Deleters : ops'[p] > MaxOps
             PROVE  /\ \A i, j \in DOMAIN order' : order'[i] = order'[j] => i = j
                    /\ ToSet(order') = Registered'
                    /\ \A p \in Clients : th'[p].pc # "panic"
                    /\ \A p \in Clients : th'[p].pc \in {"addLock", "addIndex"}
                         => th'[p].key \notin Registered'
  BY DEF Ordered, At
<1>1. \A p \in Queriers \cup Deleters : ops[p] > MaxOps BY PartsKept, AllClients
<1>2. /\ \A i, j \in DOMAIN order : order[i] = order[j] => i = j
      /\ ToSet(order) = Registered
      /\ \A p \in Clients : th[p].pc # "panic"
      /\ \A p \in Clients : th[p].pc \in {"addLock", "addIndex"} => th[p].key \notin Registered
  BY <1>1 DEF Ordered, At
<1>3. ASSUME NEW q \in Clients, th'[q].pc = "panic" PROVE FALSE
  <2>1. th'[q] # th[q] BY <1>2, <1>3
  <2>2. CASE Continue(q)
    <3>1. IndexesByTableStep(q) BY <1>3, <2>1, <2>2, ContinueMoves
    <3>2. PICK i \in DOMAIN order : indexes[order[i]] = None
      BY <1>3, <3>1, ShowStep DEF GoesTo, Moves
    <3>3. order[i] \in Registered BY <1>2 DEF ToSet
    <3> QED BY <3>2, <3>3 DEF Registered
  <2>3. CASE \/ CreateIndex(q) \/ DropIndex(q) \/ IndexByExpression(q) \/ IndexesByTable(q)
             \/ DeleteIndex(q)
    BY <1>3, <2>3, BeginMoves
  <2> QED BY <2>1, <2>2, <2>3, OwnStep
<1>4. ASSUME NEW q \in Clients, th'[q].pc \in {"addLock", "addIndex"}
      PROVE  th'[q].key \notin Registered /\ th[q].pc \in Creating
  BY <1>2, <1>4, AdderFrom
<1>5. CASE UNCHANGED <<indexes, order>> BY <1>2, <1>3, <1>4, <1>5 DEF Registered
<1>6. ASSUME NEW p \in Clients, AddIndex(p)
      PROVE  /\ \A i, j \in DOMAIN order' : order'[i] = order'[j] => i = j
             /\ ToSet(order') = Registered'
             /\ \A q \in Clients : th'[q].pc \notin {"addLock", "addIndex"}
  <2> DEFINE k == th[p].key
             o == th[p].obj
  <2>1. /\ At(p, "addIndex") /\ indexes' = [indexes EXCEPT ![k] = o]
        /\ order' = Append(order, k) /\ Goto(p, "save")
    BY <1>6 DEF AddIndex
  <2>2. k \in Keys /\ o \in DOMAIN objs BY <2>1 DEF Threading, Threaded, At, Creating
  <2>3. o # None
    <3>1. DOMAIN objs \subseteq Nat BY DEF TypeOK
    <3> QED BY <2>2, <3>1, RegistryAssumption
  <2>4. k \notin ToSet(order) BY <1>2, <2>1 DEF At
  <2>5. Registered' = Registered \cup {k} BY <2>1, <2>2, <2>3 DEF Registered, TypeOK
  <2>6. order \in Seq(Keys) BY DEF TypeOK
  <2>7. ASSUME NEW q \in Clients, th'[q].pc \in {"addLock", "addIndex"} PROVE FALSE
    <3>1. th[q].pc \in Creating /\ th[p].pc \in Creating BY <1>4, <2>1, <2>7 DEF At, Creating
    <3>2. q = p BY <3>1 DEF Roles, Role, OneCreator
    <3>3. GoesTo(p, "save") BY <2>1, GotoStep DEF ThreadStates
    <3> QED BY <2>7, <3>2, <3>3 DEF GoesTo, Moves
  <2>8. /\ ToSet(order') = ToSet(order) \cup {k}
        /\ \A i, j \in DOMAIN order' : order'[i] = order'[j] => i = j
    <3> HIDE DEF k
    <3> QED BY <1>2, <2>1, <2>2, <2>4, <2>6, AppendElements
  <2> QED BY <1>2, <2>5, <2>7, <2>8
<1>7. ASSUME NEW p \in Clients, DeleteRemove(p)
      PROVE  /\ \A i, j \in DOMAIN order' : order'[i] = order'[j] => i = j
             /\ ToSet(order') = Registered' /\ Registered' \subseteq Registered
  <2> DEFINE k == th[p].key
  <2>1. At(p, "delRemove") /\ indexes' = [indexes EXCEPT ![k] = None] /\ order' = DropFirst(order, k)
    BY <1>7 DEF DeleteRemove
  <2>2. k \in Keys BY <2>1 DEF Threading, Threaded, At
  <2>3. Registered' = Registered \ {k} BY <2>1, <2>2 DEF Registered, TypeOK
  <2>4. order \in Seq(Keys) BY DEF TypeOK
  <2>5. /\ ToSet(order') = ToSet(order) \ {k}
        /\ \A i, j \in DOMAIN order' : order'[i] = order'[j] => i = j
    <3> HIDE DEF k
    <3> QED BY <1>2, <2>1, <2>4, DropFirstElements
  <2> QED BY <1>2, <2>3, <2>5
<1> QED BY <1>1, <1>3, <1>4, <1>5, <1>6, <1>7, OrderStep

\* At the start r.indexOrder lists what is registered.
LEMMA InitOrdered == Init => Ordered
<1> SUFFICES ASSUME Init PROVE Ordered OBVIOUS
<1>1. order = SetToSeq(Registered) BY DEF Init, Registered
<1>2. ToSet(order) = Registered /\ \A i, j \in DOMAIN order : order[i] = order[j] => i = j
  BY <1>1, InitRegistered, SetToSeqLists
<1>3. \A p \in Clients : th[p].pc = "idle" BY DEF Init, Idle
<1> QED BY <1>2, <1>3 DEF Ordered, At

\* As long as clients run statements on indexes only and at most one of them creates indexes,
\* r.indexOrder lists exactly the registered indexes and SHOW INDEXES never meets a missing
\* one (IndexesByTable), for any number of clients that drop and show.  The hypotheses are on
\* the initial state: they say who takes part.  Two creators may both pass
\* validateIndexToAdd, which gives the lock back, with the same id, and AddIndex then enters
\* the id twice.
THEOREM OrderListsRegistered == OneCreator /\ Spec => []NoDanglingOrder
<1> DEFINE Inv == TypeOK /\ RegistryInv /\ OneCreator /\ Ordered
<1>1. Init /\ OneCreator => Inv BY InitType, InitInv, InitOrdered
<1>2. Inv /\ [Next]_vars => Inv'
  <2> SUFFICES ASSUME Inv, [Next]_vars PROVE Inv' OBVIOUS
  <2>1. TypeOK' /\ RegistryInv'
    BY TypeStep, ThreadingStep, RolesStep, KeyedStep, QueuedStep, CountedStep DEF RegistryInv
  <2>2. OneCreator' /\ Ordered' BY OneCreatorStep, OrderedStep DEF RegistryInv
  <2> QED BY <2>1, <2>2
<1>3. Inv => NoDanglingOrder BY DEF Ordered, NoDanglingOrder
<1> QED BY <1>1, <1>2, <1>3, PTL DEF Spec
=============================================================================
