------------------------- MODULE PilosaDriverProofs -------------------------
(***************************************************************************)
(* Proofs about the pilosa driver, for any tables, partitions and batch    *)
(* size and any number of threads, indexes, crashes and faults.            *)
(***************************************************************************)
EXTENDS PilosaDriver, TLAPS

\* The bucket of a field, made or not, is a sequence of values; that of the columns
\* one of locations.
LEMMA BucketType ==
    ASSUME NEW m \in Mappings
    PROVE  /\ m.ids \in [{Field} -> Seq(Values) \union {NoBucket}]
           /\ m.locs \in Seq(Nat) \union {NoBucket}
           /\ Bucket(m.ids[Field]) \in Seq(Values)
           /\ Bucket(m.locs) \in Seq(Nat)
<1>1. /\ m.ids \in [{Field} -> Seq(Values) \union {NoBucket}]
      /\ m.locs \in Seq(Nat) \union {NoBucket}
    BY DEF Mappings
<1>2. m.ids[Field] \in Seq(Values) \union {NoBucket} BY <1>1
<1> QED BY <1>1, <1>2 DEF Bucket

\* getRowID keeps the numbers of all values, and has one for the value it was given.
LEMMA GetRowID ==
    ASSUME NEW m \in Mappings, NEW v \in Values
    PROVE  /\ getRowID(m, Field, v) \in Mappings
           /\ getRowID(m, Field, v).locs = m.locs
           /\ rowIDOf(m, Field, v) \in Nat
           /\ rowIDOf(m, Field, v) \in rowID(getRowID(m, Field, v), Field, v)
           /\ \A u : rowID(m, Field, u) \subseteq rowID(getRowID(m, Field, v), Field, u)
<1> DEFINE ids == Bucket(m.ids[Field])
           n == getRowID(m, Field, v)
<1>t. /\ m.ids \in [{Field} -> Seq(Values) \union {NoBucket}]
      /\ m.locs \in Seq(Nat) \union {NoBucket}
      /\ ids \in Seq(Values)
    BY BucketType
<1>1. CASE Positions(ids, v) # {}
    <2>1. n = m BY <1>1 DEF getRowID
    <2>2. rowIDOf(m, Field, v) \in Positions(ids, v) BY <1>1 DEF rowIDOf
    <2>3. rowIDOf(m, Field, v) \in Nat BY <2>2, <1>t DEF Positions
    <2> QED BY <2>1, <2>2, <2>3 DEF rowID
<1>2. CASE Positions(ids, v) = {}
    <2>1. n = [m EXCEPT !.ids[Field] = Append(ids, v)] BY <1>2 DEF getRowID
    <2>2. Append(ids, v) \in Seq(Values) BY <1>t
    <2>3. n.locs = m.locs /\ n.ids = [m.ids EXCEPT ![Field] = Append(ids, v)]
        BY <2>1 DEF Mappings
    <2>4. n.ids[Field] = Append(ids, v) BY <1>t, <2>3
    <2>5. n \in Mappings
        <3>1. n.ids \in [{Field} -> Seq(Values) \union {NoBucket}] BY <1>t, <2>2, <2>3
        <3>2. n = [ids |-> n.ids, locs |-> n.locs] BY <2>1 DEF Mappings
        <3> QED BY <1>t, <2>3, <3>1, <3>2 DEF Mappings
    <2>6. Bucket(n.ids[Field]) = Append(ids, v)
        BY <2>2, <2>4, ContentAssumption DEF Bucket
    <2>7. rowIDOf(m, Field, v) = Len(ids) + 1 BY <1>2 DEF rowIDOf
    <2>8. Len(ids) + 1 \in Positions(Append(ids, v), v) /\ Len(ids) + 1 \in Nat
        BY <1>t DEF Positions
    <2>9. \A u : Positions(ids, u) \subseteq Positions(Append(ids, v), u) BY <1>t DEF Positions
    <2> QED BY <2>3, <2>5, <2>6, <2>7, <2>8, <2>9 DEF rowID
<1> QED BY <1>1, <1>2

\* putLocation keeps the numbers of the values and the locations of other columns.
LEMMA PutLocation ==
    ASSUME NEW m \in Mappings, NEW k \in Nat
    PROVE  LET n == putLocation(m, k, k + 1) IN
           /\ n \in Mappings
           /\ \A u : rowID(n, Field, u) = rowID(m, Field, u)
           /\ k <= Len(Bucket(m.locs)) =>
                /\ k + 1 <= Len(Bucket(n.locs)) /\ Bucket(n.locs)[k + 1] = k + 1
                /\ \A i \in 1..k : Bucket(n.locs)[i] = Bucket(m.locs)[i]
<1> DEFINE locs == Bucket(m.locs)
           n == putLocation(m, k, k + 1)
           new == IF k < Len(locs) THEN [locs EXCEPT ![k + 1] = k + 1] ELSE Append(locs, k + 1)
<1>t. /\ m.ids \in [{Field} -> Seq(Values) \union {NoBucket}]
      /\ locs \in Seq(Nat)
    BY BucketType
<1>1. n = [m EXCEPT !.locs = new] BY DEF putLocation
<1>2. new \in Seq(Nat) BY <1>t
<1>3. k <= Len(locs) =>
        /\ k + 1 <= Len(new) /\ new[k + 1] = k + 1
        /\ \A i \in 1..k : new[i] = locs[i]
    BY <1>t
<1> HIDE DEF new
<1>4. n.ids = m.ids /\ n.locs = new BY <1>1 DEF Mappings
<1>5. n \in Mappings
    <2>1. n = [ids |-> n.ids, locs |-> n.locs] BY <1>1 DEF Mappings
    <2> QED BY <1>t, <1>2, <1>4, <2>1 DEF Mappings
<1>6. Bucket(n.locs) = new BY <1>2, <1>4, ContentAssumption DEF Bucket
<1> QED BY <1>3, <1>4, <1>5, <1>6 DEF rowID
-----------------------------------------------------------------------------
\* What a step does to the goroutine of partition p.
WorkerBecomes(p, w) ==
    /\ workers' \in [Partitions -> Workers] /\ workers'[p] = w
    /\ \A q \in Partitions \ {p} : workers'[q] = workers[q]

\* An assignment of the goroutine's whole state.
LEMMA AssignWorker ==
    ASSUME workers \in [Partitions -> Workers], NEW p \in Partitions, NEW w \in Workers,
           workers' = [workers EXCEPT ![p] = w]
    PROVE  WorkerBecomes(p, w)
BY DEF WorkerBecomes

\* An assignment of two of its fields.
LEMMA AssignFields ==
    ASSUME workers \in [Partitions -> Workers], NEW p \in Partitions,
           NEW pc, NEW bits, workers' = [workers EXCEPT ![p].pc = pc, ![p].bits = bits],
           [pc |-> pc, col |-> workers[p].col, bits |-> bits, tx |-> workers[p].tx] \in Workers
    PROVE  WorkerBecomes(p, [pc |-> pc, col |-> workers[p].col, bits |-> bits,
                             tx |-> workers[p].tx])
<1> DEFINE w == [pc |-> pc, col |-> workers[p].col, bits |-> bits, tx |-> workers[p].tx]
           w1 == [[workers[p] EXCEPT !.pc = pc] EXCEPT !.bits = bits]
<1>1. workers[p] \in Workers OBVIOUS
<1>2. w1 = w
    <2>1. w1.pc = pc /\ w1.col = workers[p].col /\ w1.bits = bits /\ w1.tx = workers[p].tx
        BY <1>1 DEF Workers
    <2> DEFINE a == [workers[p] EXCEPT !.pc = pc]
    <2>2. a = [pc |-> a.pc, col |-> a.col, bits |-> a.bits, tx |-> a.tx]
        BY <1>1 DEF Workers
    <2>3. w1 = [a EXCEPT !.bits = bits] OBVIOUS
    <2> HIDE DEF a, w1
    <2>4. w1 = [pc |-> w1.pc, col |-> w1.col, bits |-> w1.bits, tx |-> w1.tx]
        BY <2>2, <2>3
    <2> QED BY <2>1, <2>4
<1>3. workers' = [workers EXCEPT ![p] = w1] OBVIOUS
<1> HIDE DEF w1
<1>4. workers' = [workers EXCEPT ![p] = w] BY <1>2, <1>3
<1>5. w \in Workers OBVIOUS
<1> HIDE DEF w
<1>6. WorkerBecomes(p, w) BY <1>4, <1>5, AssignWorker
<1> QED BY <1>6 DEF w

Ended == [pc |-> "done", col |-> 0, bits |-> {}, tx |-> NoFile]

\* The states in which a goroutine is before and after its work.
LEMMA IdleWorker == {Idle, Ended} \subseteq Workers /\ [Idle EXCEPT !.pc = "done"] = Ended
<1>1. {} \in SUBSET Bits OBVIOUS
<1> QED BY <1>1 DEF Idle, Ended, Workers, Opened

\* The mapping that Start opens.
LEMMA NewMapping == newMapping({Field}) \in Mappings
BY DEF newMapping, Mappings

\* The types of the fields of a goroutine's state.
LEMMA WorkerType ==
    ASSUME TypeOK, NEW p \in Partitions
    PROVE  LET w == workers[p] IN
           /\ w.pc \in Opened \union {"idle", "spawned", "done"} /\ w.col \in Nat
           /\ w.bits \in SUBSET Bits /\ w.tx \in Mappings \union {NoFile}
           /\ w.pc \in Opened => w.tx \in Mappings
           /\ w = [pc |-> w.pc, col |-> w.col, bits |-> w.bits, tx |-> w.tx]
BY DEF TypeOK, Workers

\* A goroutine that fails ends.
LEMMA FailEffect ==
    ASSUME TypeOK, NEW p \in Partitions, Fail(p)
    PROVE  WorkerBecomes(p, Ended) /\ failed' = TRUE /\ cancelled' = TRUE
<1>1. workers' = [workers EXCEPT ![p] = Ended] BY IdleWorker DEF Fail
<1> QED BY <1>1, IdleWorker, AssignWorker DEF Fail, TypeOK

\* SaveNext and ReadEnd change where the goroutine is.
LEMMA PcEffect ==
    ASSUME TypeOK, NEW p \in Partitions, NEW pc \in Opened \union {"spawned"},
           workers' = [workers EXCEPT ![p].pc = pc]
    PROVE  WorkerBecomes(p, [pc |-> pc, col |-> workers[p].col, bits |-> workers[p].bits,
                             tx |-> workers[p].tx])
<1> DEFINE w == [pc |-> pc, col |-> workers[p].col, bits |-> workers[p].bits,
                 tx |-> workers[p].tx]
<1>1. workers' = [workers EXCEPT ![p] = [workers[p] EXCEPT !.pc = pc]] OBVIOUS
<1>2. [workers[p] EXCEPT !.pc = pc] = w
    <2> DEFINE a == [workers[p] EXCEPT !.pc = pc]
    <2>1. workers[p] \in Workers BY DEF TypeOK
    <2>2. a.pc = pc /\ a.col = workers[p].col /\ a.bits = workers[p].bits /\ a.tx = workers[p].tx
        BY <2>1 DEF Workers
    <2>3. a = [pc |-> a.pc, col |-> a.col, bits |-> a.bits, tx |-> a.tx] BY <2>1 DEF Workers
    <2> QED BY <2>2, <2>3
<1>3. w \in Workers BY WorkerType DEF Workers
<1>4. workers' = [workers EXCEPT ![p] = w] BY <1>1, <1>2
<1> HIDE DEF w
<1>5. WorkerBecomes(p, w) BY <1>3, <1>4, AssignWorker DEF TypeOK
<1> QED BY <1>5 DEF w

\* Start opens the mapping that is on disk, or a new one, when there is a directory.
LEMMA StartEffect ==
    ASSUME TypeOK, NEW p \in Partitions, Start(p), dir
    PROVE  \E m \in Mappings :
             /\ WorkerBecomes(p, [pc |-> "loop", col |-> 0, bits |-> {}, tx |-> m])
             /\ maps' = [maps EXCEPT ![p] = m]
             /\ maps[p] # NoFile => m = maps[p]
             /\ fields' = [fields EXCEPT ![p] = [bits |-> {}]]
             /\ UNCHANGED <<cancelled, failed>>
<1> DEFINE m == IF maps[p] = NoFile THEN newMapping({Field}) ELSE maps[p]
           w == [pc |-> "loop", col |-> 0, bits |-> {}, tx |-> m]
<1>1. m \in Mappings BY NewMapping DEF TypeOK
<1>2. /\ workers' = [workers EXCEPT ![p] = [Idle EXCEPT !.pc = "loop", !.tx = m]]
      /\ maps' = [maps EXCEPT ![p] = m]
      /\ fields' = [fields EXCEPT ![p] = [bits |-> {}]]
      /\ UNCHANGED <<cancelled, failed>>
    BY DEF Start
<1>3. maps[p] # NoFile => m = maps[p] OBVIOUS
<1> HIDE DEF m
<1>4. [Idle EXCEPT !.pc = "loop", !.tx = m] = w
    <2> DEFINE a == [Idle EXCEPT !.pc = "loop"]
    <2>1. a = [pc |-> "loop", col |-> 0, bits |-> {}, tx |-> NoFile] BY DEF Idle
    <2> HIDE DEF a
    <2>2. [a EXCEPT !.tx = m] = w BY <2>1
    <2> QED BY <2>2 DEF a
<1>5. w \in Workers BY <1>1 DEF Workers, Opened
<1>6. workers' = [workers EXCEPT ![p] = w] BY <1>2, <1>4
<1> HIDE DEF w
<1>7. WorkerBecomes(p, w) BY <1>5, <1>6, AssignWorker DEF TypeOK
<1> USE DEF w
<1> QED BY <1>1, <1>2, <1>3, <1>7

\* The states after an import of bits.
LEMMA SaveBitsEffect ==
    ASSUME TypeOK, NEW p \in Partitions, SaveBits(p)
    PROVE  /\ workers[p].pc \in {"loop", "rest"}
           /\ WorkerBecomes(p, [pc |-> IF workers[p].pc = "loop" THEN "commit" ELSE "last",
                                col |-> workers[p].col, bits |-> {}, tx |-> workers[p].tx])
<1> DEFINE pc == IF workers[p].pc = "loop" THEN "commit" ELSE "last"
           w == [pc |-> pc, col |-> workers[p].col, bits |-> {}, tx |-> workers[p].tx]
<1>1. workers[p].pc \in {"loop", "rest"} BY DEF SaveBits
<1>2. workers' = [workers EXCEPT ![p].pc = pc, ![p].bits = {}] BY DEF SaveBits
<1>3. pc \in Opened BY DEF Opened
<1>4. w \in Workers BY <1>3, WorkerType DEF Workers
<1> HIDE DEF pc
<1>5. WorkerBecomes(p, w) BY <1>2, <1>4, AssignFields DEF TypeOK
<1> USE DEF pc
<1> QED BY <1>1, <1>5

\* The states after a commit.
LEMMA SaveMappingEffect ==
    ASSUME TypeOK, NEW p \in Partitions, saveMapping(p)
    PROVE  /\ workers[p].pc \in {"commit", "last"}
           /\ workers[p].pc = "commit" =>
                WorkerBecomes(p, [pc |-> "read", col |-> workers[p].col,
                                  bits |-> workers[p].bits, tx |-> workers[p].tx])
           /\ workers[p].pc = "last" => WorkerBecomes(p, Ended)
<1>1. workers[p].pc \in {"commit", "last"} BY DEF saveMapping
<1>2. ASSUME workers[p].pc = "commit"
      PROVE  WorkerBecomes(p, [pc |-> "read", col |-> workers[p].col,
                               bits |-> workers[p].bits, tx |-> workers[p].tx])
    <2>1. workers' = [workers EXCEPT ![p] = [workers[p] EXCEPT !.pc = "read"]]
        BY <1>2 DEF saveMapping
    <2>2. workers' = [workers EXCEPT ![p].pc = "read"] BY <2>1
    <2> QED BY <2>2, PcEffect DEF Opened
<1>3. ASSUME workers[p].pc = "last" PROVE WorkerBecomes(p, Ended)
    <2>1. workers' = [workers EXCEPT ![p] = [Idle EXCEPT !.pc = "done"]]
        BY <1>3 DEF saveMapping
    <2> QED BY <2>1, IdleWorker, AssignWorker DEF TypeOK
<1> QED BY <1>1, <1>2, <1>3

\* A row is read: it is numbered unless it is NULL, and its location put.
LEMMA ReadRowEffect ==
    ASSUME TypeOK, NEW p \in Partitions, ReadRow(p)
    PROVE  LET w == workers[p]
               v == table[p][w.col + 1]
           IN  /\ w.pc \in Opened /\ w.tx \in Mappings /\ w.col < Len(table[p])
               /\ v \in Values \union {Null}
               /\ \E m \in Mappings, bit \in SUBSET Bits :
                    /\ v = Null => m = w.tx /\ bit = {}
                    /\ v # Null => /\ m = getRowID(w.tx, Field, v)
                                   /\ bit = {<<rowIDOf(w.tx, Field, v), w.col>>}
                    /\ WorkerBecomes(p, [pc |-> "loop", col |-> w.col + 1,
                                         bits |-> w.bits \union bit,
                                         tx |-> putLocation(m, w.col, w.col + 1)])
<1> DEFINE w0 == workers[p]
           v == table[p][w0.col + 1]
           m == IF v = Null THEN w0.tx ELSE getRowID(w0.tx, Field, v)
           bit == IF v = Null THEN {} ELSE {<<rowIDOf(w0.tx, Field, v), w0.col>>}
           n == putLocation(m, w0.col, w0.col + 1)
           w == [pc |-> "loop", col |-> w0.col + 1, bits |-> w0.bits \union bit, tx |-> n]
<1>t. /\ w0.pc \in Opened \union {"idle", "spawned", "done"} /\ w0.col \in Nat
      /\ w0.bits \in SUBSET Bits /\ w0.tx \in Mappings \union {NoFile}
      /\ w0.pc \in Opened => w0.tx \in Mappings
    BY WorkerType
<1>1. w0.tx \in Mappings /\ w0.pc \in Opened BY <1>t DEF ReadRow, AtRead, Opened
<1>2. w0.col < Len(table[p]) BY DEF ReadRow
<1>3. table[p] \in Seq(Values \union {Null}) BY ContentAssumption DEF TypeOK
<1>4. v \in Values \union {Null} BY <1>t, <1>2, <1>3
<1>5. workers' = [workers EXCEPT ![p] = w] BY DEF ReadRow
<1>6. m \in Mappings BY <1>1, <1>4, GetRowID
<1>7. n \in Mappings BY <1>t, <1>6, PutLocation
<1>8. bit \in SUBSET Bits BY <1>t, <1>1, <1>4, GetRowID DEF Bits
<1>9. /\ v = Null => m = w0.tx /\ bit = {}
      /\ v # Null => m = getRowID(w0.tx, Field, v) /\ bit = {<<rowIDOf(w0.tx, Field, v), w0.col>>}
    OBVIOUS
<1> HIDE DEF m, bit, n
<1>10. w \in Workers BY <1>t, <1>7, <1>8 DEF Workers, Opened
<1> HIDE DEF w
<1>11. WorkerBecomes(p, w) BY <1>5, <1>10, AssignWorker DEF TypeOK
<1>12. WorkerBecomes(p, [pc |-> "loop", col |-> w0.col + 1, bits |-> w0.bits \union bit,
                         tx |-> putLocation(m, w0.col, w0.col + 1)])
    BY <1>11 DEF w, n
<1> HIDE DEF v
<1>13. \E mm \in Mappings, bb \in SUBSET Bits :
         /\ v = Null => mm = w0.tx /\ bb = {}
         /\ v # Null => mm = getRowID(w0.tx, Field, v) /\ bb = {<<rowIDOf(w0.tx, Field, v), w0.col>>}
         /\ WorkerBecomes(p, [pc |-> "loop", col |-> w0.col + 1, bits |-> w0.bits \union bb,
                              tx |-> putLocation(mm, w0.col, w0.col + 1)])
    BY <1>6, <1>8, <1>9, <1>12
<1> QED BY <1>1, <1>2, <1>4, <1>13 DEF v

-----------------------------------------------------------------------------
(* Types *)

\* What the goroutines are, when one of them changes.
LEMMA WorkersTyped ==
    ASSUME TypeOK, NEW p \in Partitions, NEW w, WorkerBecomes(p, w),
           w.pc \in Opened => w.tx \in Mappings
    PROVE  /\ workers' \in [Partitions -> Workers]
           /\ \A q \in Partitions : workers'[q].pc \in Opened => workers'[q].tx \in Mappings
BY DEF TypeOK, WorkerBecomes

\* What an import and a commit leave on disk.
LEMMA DiskTyped ==
    ASSUME TypeOK, NEW p \in Partitions
    PROVE  /\ Imported(p) \in [Partitions -> Fields \union {NoFile}]
           /\ \A q \in Partitions : Imported(p)[q] = NoFile <=> fields[q] = NoFile
           /\ \A q \in Partitions \ {p} : Imported(p)[q] = fields[q]
           /\ fields[p] # NoFile => Imported(p)[p].bits = fields[p].bits \union workers[p].bits
           /\ workers[p].pc \in Opened =>
                /\ Committed(p) \in [Partitions -> Mappings \union {NoFile}]
                /\ \A q \in Partitions : Committed(p)[q] = NoFile <=> maps[q] = NoFile
                /\ \A q \in Partitions \ {p} : Committed(p)[q] = maps[q]
                /\ maps[p] # NoFile => Committed(p)[p] = workers[p].tx
<1> DEFINE new == [bits |-> fields[p].bits \union workers[p].bits]
<1>t. /\ workers[p].bits \in SUBSET Bits
      /\ workers[p].pc \in Opened => workers[p].tx \in Mappings
      /\ fields \in [Partitions -> Fields \union {NoFile}]
      /\ maps \in [Partitions -> Mappings \union {NoFile}]
    BY WorkerType DEF TypeOK
<1>1. ASSUME fields[p] # NoFile
      PROVE  new \in Fields /\ Imported(p) = [fields EXCEPT ![p] = new]
    <2>1. fields[p] \in Fields BY <1>t, <1>1
    <2>5. fields[p].bits \in SUBSET Bits BY <2>1 DEF Fields
    <2>6. fields[p].bits \union workers[p].bits \in SUBSET Bits BY <1>t, <2>5
    <2>2. new \in Fields BY <2>6 DEF Fields
    <2>3. [fields[p] EXCEPT !.bits = fields[p].bits \union workers[p].bits] = new
        BY <2>1 DEF Fields
    <2>4. Imported(p) = [fields EXCEPT ![p] =
                [fields[p] EXCEPT !.bits = fields[p].bits \union workers[p].bits]]
        BY <1>1 DEF Imported
    <2> QED BY <2>2, <2>3, <2>4
<1>2. new.bits = fields[p].bits \union workers[p].bits OBVIOUS
<1> HIDE DEF new
<1>3. fields[p] = NoFile => Imported(p) = fields BY DEF Imported
<1>4. /\ Imported(p) \in [Partitions -> Fields \union {NoFile}]
      /\ \A q \in Partitions : Imported(p)[q] = NoFile <=> fields[q] = NoFile
      /\ \A q \in Partitions \ {p} : Imported(p)[q] = fields[q]
      /\ fields[p] # NoFile => Imported(p)[p].bits = fields[p].bits \union workers[p].bits
    BY <1>t, <1>1, <1>2, <1>3, ContentAssumption
<1>5. workers[p].pc \in Opened =>
                /\ Committed(p) \in [Partitions -> Mappings \union {NoFile}]
                /\ \A q \in Partitions : Committed(p)[q] = NoFile <=> maps[q] = NoFile
                /\ \A q \in Partitions \ {p} : Committed(p)[q] = maps[q]
                /\ maps[p] # NoFile => Committed(p)[p] = workers[p].tx
    <2>1. NoFile \notin Mappings BY ContentAssumption
    <2>2. CASE maps[p] = NoFile BY <1>t, <2>2 DEF Committed
    <2>3. CASE maps[p] # NoFile /\ workers[p].pc \in Opened
        <3>1. Committed(p) = [maps EXCEPT ![p] = workers[p].tx] BY <2>3 DEF Committed
        <3>2. workers[p].tx \in Mappings BY <1>t, <2>3
        <3> QED BY <1>t, <2>1, <2>3, <3>1, <3>2
    <2> QED BY <2>2, <2>3
<1> QED BY <1>4, <1>5

\* Every step keeps the types; for the configuration that Save writes the marks are
\* needed.
LEMMA TypeStep == ASSUME TypeOK, Marks, [Next]_vars PROVE TypeOK'
<1>t. /\ table \in Tables /\ dir \in BOOLEAN
      /\ config \in (SUBSET Partitions) \union {NoFile} /\ processing \in {NoFile, "C", "S"}
      /\ maps \in [Partitions -> Mappings \union {NoFile}]
      /\ fields \in [Partitions -> Fields \union {NoFile}]
      /\ phase \in Phases
      /\ mapping \subseteq Partitions /\ todo \subseteq Partitions
      /\ workers \in [Partitions -> Workers]
      /\ \A p \in Partitions : workers[p].pc \in Opened => workers[p].tx \in Mappings
      /\ {cancelled, failed, deleting, torn, outlived} \subseteq BOOLEAN
      /\ lost \subseteq {"cancelled", "read", "commit"}
    BY DEF TypeOK
<1>i. /\ [p \in Partitions |-> Idle] \in [Partitions -> Workers]
      /\ \A p \in Partitions : [q \in Partitions |-> Idle][p].pc \notin Opened
    BY IdleWorker DEF Idle, Opened
<1>e. Ended.pc \notin Opened BY DEF Ended, Opened
<1>1. CASE CreateDir BY <1>1, <1>t DEF CreateDir, save, TypeOK, Phases
<1>2. CASE CreateConfig BY <1>2, <1>t DEF CreateConfig, save, ghosts, TypeOK, Phases
<1>3. CASE CreateProcessing BY <1>3, <1>t, <1>i DEF CreateProcessing, ghosts, TypeOK, Phases
<1>4. CASE SaveOpen BY <1>4, <1>t DEF SaveOpen, ghosts, TypeOK, Phases
<1>5. ASSUME NEW p \in Partitions, SaveNext(p) PROVE TypeOK'
    <2> DEFINE w == [pc |-> "spawned", col |-> workers[p].col, bits |-> workers[p].bits,
                     tx |-> workers[p].tx]
    <2>1. WorkerBecomes(p, w) BY <1>5, PcEffect DEF SaveNext
    <2>2. w.pc \notin Opened BY DEF Opened
    <2> HIDE DEF w
    <2>3. /\ workers' \in [Partitions -> Workers]
          /\ \A q \in Partitions : workers'[q].pc \in Opened => workers'[q].tx \in Mappings
        BY <2>1, <2>2, WorkersTyped
    <2> QED BY <1>5, <1>t, <2>3 DEF SaveNext, disk, ghosts, TypeOK
<1>6. CASE SaveNextFails BY <1>6, <1>t DEF SaveNextFails, disk, ghosts, TypeOK, Phases
<1>7. CASE SaveAborted BY <1>7, <1>t DEF SaveAborted, disk, save, ghosts, TypeOK, Phases
<1>8. CASE SaveCancelled
    <2>1. outlived' \in BOOLEAN BY <1>8, <1>t, Zenon DEF SaveCancelled
    <2> QED BY <1>8, <1>t, <2>1 DEF SaveCancelled, disk, save, TypeOK, Phases
<1>9. CASE SaveDelivered BY <1>9, <1>t DEF SaveDelivered, disk, save, ghosts, TypeOK, Phases
<1>10. CASE SaveWaited
    <2>1. config = {} BY <1>10 DEF SaveWaited, Marks
    <2>2. config' \in (SUBSET Partitions) \union {NoFile} BY <1>10, <1>t, <2>1 DEF SaveWaited
    <2> QED BY <1>10, <1>t, <2>2 DEF SaveWaited, save, ghosts, TypeOK, Phases
<1>11. CASE SaveDone BY <1>11, <1>t DEF SaveDone, save, ghosts, TypeOK, Phases
<1>12. CASE Cancel BY <1>12, <1>t DEF Cancel, disk, ghosts, TypeOK
<1>13. ASSUME NEW p \in Partitions, Start(p) PROVE TypeOK'
    <2>1. [bits |-> {}] \in Fields BY DEF Fields
    <2>2. CASE ~dir
        <3>1. Fail(p) BY <1>13, <2>2 DEF Start
        <3>2. WorkerBecomes(p, Ended) /\ failed' = TRUE /\ cancelled' = TRUE BY <3>1, FailEffect
        <3>3. /\ workers' \in [Partitions -> Workers]
              /\ \A q \in Partitions : workers'[q].pc \in Opened => workers'[q].tx \in Mappings
            BY <1>e, <3>2, WorkersTyped
        <3> QED BY <1>13, <1>t, <2>1, <2>2, <3>2, <3>3 DEF Start, ghosts, TypeOK
    <2>3. CASE dir
        <3>1. PICK m \in Mappings :
                /\ WorkerBecomes(p, [pc |-> "loop", col |-> 0, bits |-> {}, tx |-> m])
                /\ maps' = [maps EXCEPT ![p] = m]
                /\ maps[p] # NoFile => m = maps[p]
                /\ fields' = [fields EXCEPT ![p] = [bits |-> {}]]
                /\ UNCHANGED <<cancelled, failed>>
            BY <1>13, <2>3, StartEffect
        <3>2. [pc |-> "loop", col |-> 0, bits |-> {}, tx |-> m].tx = m OBVIOUS
        <3>3. /\ workers' \in [Partitions -> Workers]
              /\ \A q \in Partitions : workers'[q].pc \in Opened => workers'[q].tx \in Mappings
            BY <3>1, <3>2, WorkersTyped
        <3> QED BY <1>13, <1>t, <2>1, <3>1, <3>3 DEF Start, ghosts, TypeOK
    <2> QED BY <2>2, <2>3
<1>14. ASSUME NEW p \in Partitions, SaveBits(p) PROVE TypeOK'
    <2> DEFINE w == [pc |-> IF workers[p].pc = "loop" THEN "commit" ELSE "last",
                     col |-> workers[p].col, bits |-> {}, tx |-> workers[p].tx]
    <2>1. workers[p].pc \in {"loop", "rest"} /\ WorkerBecomes(p, w) BY <1>14, SaveBitsEffect
    <2>2. w.tx \in Mappings BY <1>t, <2>1 DEF Opened
    <2> HIDE DEF w
    <2>3. /\ workers' \in [Partitions -> Workers]
          /\ \A q \in Partitions : workers'[q].pc \in Opened => workers'[q].tx \in Mappings
        BY <2>1, <2>2, WorkersTyped
    <2>4. fields' \in [Partitions -> Fields \union {NoFile}] BY <1>14, DiskTyped DEF SaveBits
    <2> QED BY <1>14, <1>t, <2>3, <2>4 DEF SaveBits, ghosts, TypeOK
<1>15. ASSUME NEW p \in Partitions, SaveBitsFails(p) PROVE TypeOK'
    <2>1. Fail(p) BY <1>15 DEF SaveBitsFails
    <2>2. WorkerBecomes(p, Ended) /\ failed' = TRUE /\ cancelled' = TRUE BY <2>1, FailEffect
    <2>3. /\ workers' \in [Partitions -> Workers]
          /\ \A q \in Partitions : workers'[q].pc \in Opened => workers'[q].tx \in Mappings
        BY <1>e, <2>2, WorkersTyped
    <2>4. maps' \in [Partitions -> Mappings \union {NoFile}]
        BY <1>15, <1>t, DiskTyped DEF SaveBitsFails, Opened
    <2> QED BY <1>15, <1>t, <2>2, <2>3, <2>4 DEF SaveBitsFails, ghosts, TypeOK
<1>16. ASSUME NEW p \in Partitions, saveMapping(p) PROVE TypeOK'
    <2> DEFINE w == [pc |-> "read", col |-> workers[p].col, bits |-> workers[p].bits,
                     tx |-> workers[p].tx]
    <2>1. /\ workers[p].pc \in {"commit", "last"}
          /\ workers[p].pc = "commit" => WorkerBecomes(p, w)
          /\ workers[p].pc = "last" => WorkerBecomes(p, Ended)
        BY <1>16, SaveMappingEffect
    <2>2. w.tx \in Mappings BY <1>t, <2>1 DEF Opened
    <2> HIDE DEF w
    <2>3. /\ workers' \in [Partitions -> Workers]
          /\ \A q \in Partitions : workers'[q].pc \in Opened => workers'[q].tx \in Mappings
        BY <1>e, <2>1, <2>2, WorkersTyped
    <2>4. maps' \in [Partitions -> Mappings \union {NoFile}]
        BY <1>16, <2>1, DiskTyped DEF saveMapping, Opened
    <2> QED BY <1>16, <1>t, <2>3, <2>4 DEF saveMapping, ghosts, TypeOK
<1>17. ASSUME NEW p \in Partitions, saveMappingFails(p) PROVE TypeOK'
    <2>1. WorkerBecomes(p, Ended) /\ failed' \in BOOLEAN /\ cancelled' \in BOOLEAN
        <3>1. CASE Fail(p) BY <3>1, FailEffect
        <3>2. CASE /\ workers' = [workers EXCEPT ![p] = [Idle EXCEPT !.pc = "done"]]
                   /\ UNCHANGED <<cancelled, failed>>
            BY <3>2, <1>t, IdleWorker, AssignWorker
        <3> QED BY <1>17, <3>1, <3>2 DEF saveMappingFails
    <2>2. /\ workers' \in [Partitions -> Workers]
          /\ \A q \in Partitions : workers'[q].pc \in Opened => workers'[q].tx \in Mappings
        BY <1>e, <2>1, WorkersTyped
    <2>3. lost' \subseteq {"cancelled", "read", "commit"} BY <1>17, <1>t DEF saveMappingFails
    <2> QED BY <1>17, <1>t, <2>1, <2>2, <2>3 DEF saveMappingFails, disk, TypeOK
<1>18. ASSUME NEW p \in Partitions, ReadCancelled(p) PROVE TypeOK'
    <2>1. WorkerBecomes(p, Ended) /\ failed' = TRUE /\ cancelled' = TRUE
        BY <1>18, FailEffect DEF ReadCancelled
    <2>2. /\ workers' \in [Partitions -> Workers]
          /\ \A q \in Partitions : workers'[q].pc \in Opened => workers'[q].tx \in Mappings
        BY <1>e, <2>1, WorkersTyped
    <2> QED BY <1>18, <1>t, <2>1, <2>2 DEF ReadCancelled, disk, ghosts, TypeOK
<1>19. ASSUME NEW p \in Partitions, ReadRow(p) PROVE TypeOK'
    <2>1. PICK m \in Mappings, bit \in SUBSET Bits :
            WorkerBecomes(p, [pc |-> "loop", col |-> workers[p].col + 1,
                              bits |-> workers[p].bits \union bit,
                              tx |-> putLocation(m, workers[p].col, workers[p].col + 1)])
        BY <1>19, ReadRowEffect
    <2>2. putLocation(m, workers[p].col, workers[p].col + 1) \in Mappings
        BY WorkerType, PutLocation
    <2>3. /\ workers' \in [Partitions -> Workers]
          /\ \A q \in Partitions : workers'[q].pc \in Opened => workers'[q].tx \in Mappings
        BY <2>1, <2>2, WorkersTyped
    <2> QED BY <1>19, <1>t, <2>3 DEF ReadRow, disk, ghosts, TypeOK
<1>20. ASSUME NEW p \in Partitions, ReadEnd(p) PROVE TypeOK'
    <2> DEFINE w == [pc |-> "rest", col |-> workers[p].col, bits |-> workers[p].bits,
                     tx |-> workers[p].tx]
    <2>1. WorkerBecomes(p, w) BY <1>20, PcEffect DEF ReadEnd, Opened
    <2>2. w.tx \in Mappings BY <1>20, <1>t DEF ReadEnd, AtRead, Opened
    <2> HIDE DEF w
    <2>3. /\ workers' \in [Partitions -> Workers]
          /\ \A q \in Partitions : workers'[q].pc \in Opened => workers'[q].tx \in Mappings
        BY <2>1, <2>2, WorkersTyped
    <2>4. lost' \subseteq {"cancelled", "read", "commit"} BY <1>20, <1>t DEF ReadEnd
    <2> QED BY <1>20, <1>t, <2>3, <2>4 DEF ReadEnd, disk, TypeOK
<1>21. ASSUME Down PROVE TypeOK'
    <2>1. torn' \in BOOLEAN BY <1>21, <1>t, Zenon DEF Down
    <2> QED BY <1>21, <1>t, <1>i, <2>1 DEF Down, disk, TypeOK, Phases
<1>22. CASE LoadAll
    <2>2. config # NoFile => {p \in config : maps[p] # NoFile} \subseteq Partitions BY <1>t
    <2>1. mapping' \subseteq Partitions /\ phase' \in Phases
        BY <1>22, <1>t, <2>2 DEF LoadAll, Phases
    <2> QED BY <1>22, <1>t, <2>1 DEF LoadAll, disk, ghosts, TypeOK
<1>23. CASE DeleteCall BY <1>23, <1>t DEF DeleteCall, disk, ghosts, TypeOK
<1>24. CASE DeleteWaited BY <1>24, <1>t DEF DeleteWaited, disk, save, ghosts, TypeOK, Phases
<1>25. CASE RemoveFile
    <2>1. maps' \in [Partitions -> Mappings \union {NoFile}] BY <1>25, <1>t DEF RemoveFile
    <2>2. /\ config' \in (SUBSET Partitions) \union {NoFile} /\ processing' \in {NoFile, "C", "S"}
          /\ dir' \in BOOLEAN
        BY <1>25, <1>t DEF RemoveFile
    <2> QED BY <1>25, <1>t, <2>1, <2>2 DEF RemoveFile, save, ghosts, TypeOK
<1>26. CASE Removed BY <1>26, <1>t DEF Removed, ghosts, TypeOK, Phases
<1>c. CASE CreateFails BY <1>c, <1>t DEF CreateFails, save, ghosts, TypeOK, Phases
<1>s. CASE SaveFails BY <1>s, <1>t DEF SaveFails, save, ghosts, TypeOK, Phases
<1>r. CASE RemoveFails BY <1>r, <1>t DEF RemoveFails, ghosts, TypeOK, Phases
<1>27. CASE UNCHANGED vars BY <1>27 DEF vars, disk, save, ghosts, TypeOK
<1>28. CASE Next
    BY <1>28, <1>1, <1>2, <1>3, <1>4, <1>5, <1>6, <1>7, <1>8, <1>9, <1>10, <1>11, <1>12, <1>13,
       <1>14, <1>15, <1>16, <1>17, <1>18, <1>19, <1>20, <1>21, <1>22, <1>23, <1>24, <1>25, <1>26,
       <1>c, <1>s, <1>r
    DEF Next, SaveStep, Worker, Fault, DeleteStep, ReadPanics, Crash
<1> QED BY <1>27, <1>28

-----------------------------------------------------------------------------
(* Steps of a goroutine *)

\* A step of partition p's goroutine, other than the one that brings the process down.
WorkerAct(p) ==
    \/ Start(p) \/ SaveBits(p) \/ saveMapping(p) \/ ReadCancelled(p) \/ ReadRow(p) \/ ReadEnd(p)
    \/ SaveBitsFails(p) \/ saveMappingFails(p)

\* A goroutine that takes a step is running and may stop; the others, their files and
\* what Save does are as they were.
LEMMA WorkerActs ==
    ASSUME TypeOK, NEW p \in Partitions, WorkerAct(p)
    PROVE  /\ p \in Running /\ Running' \subseteq Running
           /\ workers'[p].pc \in Opened \union {"done"}
           /\ \A q \in Partitions \ {p} :
                workers'[q] = workers[q] /\ maps'[q] = maps[q] /\ fields'[q] = fields[q]
           /\ ~dir => \A q \in Partitions : maps[q] = NoFile => maps'[q] = NoFile
           /\ UNCHANGED <<table, dir, config, processing, phase, mapping, todo, deleting, torn,
                          outlived>>
           /\ lost \subseteq lost' /\ ("cancelled" \in lost' <=> "cancelled" \in lost)
           /\ failed => failed'
<1>t. /\ maps \in [Partitions -> Mappings \union {NoFile}]
      /\ fields \in [Partitions -> Fields \union {NoFile}] /\ {failed, dir} \subseteq BOOLEAN
    BY DEF TypeOK
<1> DEFINE Goal ==
           /\ workers[p].pc \in Opened \union {"spawned"}
           /\ \E w : WorkerBecomes(p, w) /\ w.pc \in Opened \union {"done"}
           /\ \A q \in Partitions \ {p} : maps'[q] = maps[q] /\ fields'[q] = fields[q]
           /\ ~dir => \A q \in Partitions : maps[q] = NoFile => maps'[q] = NoFile
           /\ UNCHANGED <<table, dir, config, processing, phase, mapping, todo, deleting, torn,
                          outlived>>
           /\ lost \subseteq lost' /\ ("cancelled" \in lost' <=> "cancelled" \in lost)
           /\ failed => failed'
<1>e. Ended.pc = "done" BY DEF Ended
<1>r. ASSUME NEW pc \in Opened, NEW col, NEW bits, NEW tx,
             WorkerBecomes(p, [pc |-> pc, col |-> col, bits |-> bits, tx |-> tx])
      PROVE  \E w : WorkerBecomes(p, w) /\ w.pc \in Opened \union {"done"}
    <2> DEFINE w == [pc |-> pc, col |-> col, bits |-> bits, tx |-> tx]
    <2>1. w.pc = pc OBVIOUS
    <2> HIDE DEF w
    <2>2. WorkerBecomes(p, w) BY <1>r DEF w
    <2> QED BY <2>1, <2>2
<1>1. ASSUME Start(p) PROVE Goal
    <2>1. CASE ~dir
        <3>1. Fail(p) /\ UNCHANGED maps BY <1>1, <2>1 DEF Start
        <3>2. WorkerBecomes(p, Ended) /\ failed' = TRUE BY <3>1, FailEffect
        <3> QED BY <1>1, <1>t, <1>e, <3>1, <3>2 DEF Start, ghosts
    <2>2. CASE dir
        <3>1. PICK m \in Mappings :
                /\ WorkerBecomes(p, [pc |-> "loop", col |-> 0, bits |-> {}, tx |-> m])
                /\ maps' = [maps EXCEPT ![p] = m]
                /\ maps[p] # NoFile => m = maps[p]
                /\ fields' = [fields EXCEPT ![p] = [bits |-> {}]]
                /\ UNCHANGED <<cancelled, failed>>
            BY <1>1, <2>2, StartEffect
        <3>2. \E w : WorkerBecomes(p, w) /\ w.pc \in Opened \union {"done"} BY <3>1 DEF Opened
        <3> QED BY <1>1, <1>t, <2>2, <3>1, <3>2 DEF Start, ghosts
    <2> QED BY <2>1, <2>2
<1>2. ASSUME SaveBits(p) PROVE Goal
    <2>1. workers[p].pc \in {"loop", "rest"} BY <1>2, SaveBitsEffect
    <2>2. \E w : WorkerBecomes(p, w) /\ w.pc \in Opened \union {"done"}
        <3> DEFINE pc == IF workers[p].pc = "loop" THEN "commit" ELSE "last"
        <3>1. pc \in Opened BY DEF Opened
        <3>2. WorkerBecomes(p, [pc |-> pc, col |-> workers[p].col, bits |-> {},
                                tx |-> workers[p].tx])
            BY <1>2, SaveBitsEffect
        <3> HIDE DEF pc
        <3> QED BY <1>r, <3>1, <3>2
    <2>3. /\ \A q \in Partitions \ {p} : fields'[q] = fields[q]
          /\ UNCHANGED <<maps, lost, failed>>
          /\ UNCHANGED <<table, dir, config, processing, phase, mapping, todo, deleting, torn,
                          outlived>>
        BY <1>2, DiskTyped DEF SaveBits, ghosts
    <2> QED BY <2>1, <2>2, <2>3 DEF Opened
<1>3. ASSUME saveMapping(p) PROVE Goal
    <2>1. workers[p].pc \in {"commit", "last"} BY <1>3, SaveMappingEffect
    <2>2. \E w : WorkerBecomes(p, w) /\ w.pc \in Opened \union {"done"}
        <3>1. CASE workers[p].pc = "commit"
            <4>1. WorkerBecomes(p, [pc |-> "read", col |-> workers[p].col,
                                    bits |-> workers[p].bits, tx |-> workers[p].tx])
                BY <1>3, <3>1, SaveMappingEffect
            <4>2. "read" \in Opened BY DEF Opened
            <4> QED BY <1>r, <4>1, <4>2
        <3>2. CASE workers[p].pc = "last" BY <1>3, <1>e, <3>2, SaveMappingEffect
        <3> QED BY <2>1, <3>1, <3>2
    <2>3. /\ \A q \in Partitions \ {p} : maps'[q] = maps[q]
          /\ \A q \in Partitions : maps[q] = NoFile => maps'[q] = NoFile
          /\ UNCHANGED <<fields, lost, failed>>
          /\ UNCHANGED <<table, dir, config, processing, phase, mapping, todo, deleting, torn,
                          outlived>>
        BY <1>3, <2>1, DiskTyped DEF saveMapping, ghosts, Opened
    <2> QED BY <2>1, <2>2, <2>3 DEF Opened
<1>4. ASSUME ReadCancelled(p) PROVE Goal
    <2>1. WorkerBecomes(p, Ended) /\ failed' = TRUE BY <1>4, FailEffect DEF ReadCancelled
    <2>2. workers[p].pc \in Opened BY <1>4 DEF ReadCancelled, AtRead, Opened
    <2> QED BY <1>4, <1>e, <2>1, <2>2 DEF ReadCancelled, disk, ghosts
<1>5. ASSUME ReadRow(p) PROVE Goal
    <2>1. workers[p].pc \in Opened BY <1>5, ReadRowEffect
    <2>2. \E w : WorkerBecomes(p, w) /\ w.pc \in Opened \union {"done"}
        <3>1. PICK m \in Mappings, bit \in SUBSET Bits :
                WorkerBecomes(p, [pc |-> "loop", col |-> workers[p].col + 1,
                                  bits |-> workers[p].bits \union bit,
                                  tx |-> putLocation(m, workers[p].col, workers[p].col + 1)])
            BY <1>5, ReadRowEffect
        <3>2. "loop" \in Opened BY DEF Opened
        <3> QED BY <1>r, <3>1, <3>2
    <2>3. UNCHANGED <<table, disk, phase, mapping, todo, cancelled, failed, deleting, ghosts>>
        BY <1>5 DEF ReadRow
    <2> QED BY <2>1, <2>2, <2>3 DEF disk, ghosts
<1>6. ASSUME ReadEnd(p) PROVE Goal
    <2>1. workers[p].pc \in Opened BY <1>6 DEF ReadEnd, AtRead, Opened
    <2>2. \E w : WorkerBecomes(p, w) /\ w.pc \in Opened \union {"done"}
        <3>1. "rest" \in Opened BY DEF Opened
        <3>2. WorkerBecomes(p, [pc |-> "rest", col |-> workers[p].col,
                                bits |-> workers[p].bits, tx |-> workers[p].tx])
            BY <1>6, <3>1, PcEffect DEF ReadEnd
        <3> QED BY <1>r, <3>1, <3>2
    <2>3. lost \subseteq lost' /\ ("cancelled" \in lost' <=> "cancelled" \in lost)
        BY <1>6 DEF ReadEnd
    <2> QED BY <1>6, <2>1, <2>2, <2>3 DEF ReadEnd, disk
<1>7. ASSUME SaveBitsFails(p) PROVE Goal
    <2>1. WorkerBecomes(p, Ended) /\ failed' = TRUE BY <1>7, FailEffect DEF SaveBitsFails
    <2>2. workers[p].pc \in Opened BY <1>7 DEF SaveBitsFails, Opened
    <2>3. /\ \A q \in Partitions \ {p} : maps'[q] = maps[q]
          /\ \A q \in Partitions : maps[q] = NoFile => maps'[q] = NoFile
        BY <1>7, <2>2, DiskTyped DEF SaveBitsFails
    <2> QED BY <1>7, <1>e, <2>1, <2>2, <2>3 DEF SaveBitsFails, ghosts
<1>8. ASSUME saveMappingFails(p) PROVE Goal
    <2>1. workers[p].pc \in Opened BY <1>8 DEF saveMappingFails, Opened
    <2>2. WorkerBecomes(p, Ended) /\ (failed => failed')
        <3>1. CASE Fail(p) BY <3>1, FailEffect
        <3>2. CASE /\ workers' = [workers EXCEPT ![p] = [Idle EXCEPT !.pc = "done"]]
                   /\ UNCHANGED <<cancelled, failed>>
            BY <3>2, IdleWorker, AssignWorker DEF TypeOK
        <3> QED BY <1>8, <3>1, <3>2 DEF saveMappingFails
    <2>3. lost \subseteq lost' /\ ("cancelled" \in lost' <=> "cancelled" \in lost)
        BY <1>8 DEF saveMappingFails
    <2> QED BY <1>8, <1>e, <2>1, <2>2, <2>3 DEF saveMappingFails, disk
<1>9. Goal BY <1>1, <1>2, <1>3, <1>4, <1>5, <1>6, <1>7, <1>8 DEF WorkerAct
<1>10. p \in Running BY <1>9 DEF Running, Opened
<1>11. PICK w : WorkerBecomes(p, w) /\ w.pc \in Opened \union {"done"} BY <1>9
<1>12. workers'[p] = w /\ \A q \in Partitions \ {p} : workers'[q] = workers[q]
    BY <1>11 DEF WorkerBecomes
<1>13. Running' \subseteq Running BY <1>10, <1>12 DEF Running
<1> QED BY <1>9, <1>10, <1>11, <1>12, <1>13

-----------------------------------------------------------------------------
(* The marks, the directory and the goroutines *)

\* Nobody runs outside of a Save.
LEMMA WaitedStep == ASSUME TypeOK, WorkersWaited, [Next]_vars PROVE WorkersWaited'
<1>i. ASSUME workers' = [p \in Partitions |-> Idle] PROVE Running' = {}
    BY <1>i DEF Running, Idle
<1>u. ASSUME UNCHANGED workers PROVE Running' = Running BY <1>u DEF Running
<1>1. CASE CreateDir BY <1>1, <1>u DEF CreateDir, save, WorkersWaited
<1>2. CASE CreateConfig BY <1>2, <1>u DEF CreateConfig, save, ghosts, WorkersWaited
<1>3. CASE CreateProcessing BY <1>3, <1>i DEF CreateProcessing, ghosts, WorkersWaited
<1>4. CASE SaveOpen BY <1>4, <1>u DEF SaveOpen, ghosts, WorkersWaited
<1>5. ASSUME NEW p \in Partitions, SaveNext(p) PROVE WorkersWaited'
    BY <1>5 DEF SaveNext, ghosts, WorkersWaited
<1>6. CASE SaveNextFails BY <1>6, <1>u DEF SaveNextFails, ghosts, WorkersWaited
<1>7. CASE SaveAborted BY <1>7, <1>u DEF SaveAborted, save, ghosts, WorkersWaited
<1>8. CASE SaveCancelled BY <1>8, <1>u DEF SaveCancelled, save, WorkersWaited
<1>9. CASE SaveDelivered BY <1>9, <1>u DEF SaveDelivered, save, ghosts, WorkersWaited
<1>10. CASE SaveWaited BY <1>10, <1>u DEF SaveWaited, save, ghosts, WorkersWaited
<1>11. CASE SaveDone BY <1>11, <1>u DEF SaveDone, save, ghosts, WorkersWaited
<1>12. CASE Cancel BY <1>12, <1>u DEF Cancel, ghosts, WorkersWaited
<1>13. ASSUME NEW p \in Partitions, WorkerAct(p) PROVE WorkersWaited'
    <2>1. /\ Running' \subseteq Running /\ UNCHANGED <<phase, outlived>>
          /\ "cancelled" \in lost' <=> "cancelled" \in lost
        BY <1>13, WorkerActs
    <2> QED BY <2>1 DEF WorkersWaited
<1>14. ASSUME Down PROVE WorkersWaited' BY <1>14, <1>i DEF Down, WorkersWaited
<1>15. CASE LoadAll BY <1>15, <1>u DEF LoadAll, ghosts, WorkersWaited
<1>16. CASE DeleteCall BY <1>16, <1>u DEF DeleteCall, ghosts, WorkersWaited
<1>17. CASE DeleteWaited BY <1>17, <1>u DEF DeleteWaited, save, ghosts, WorkersWaited
<1>18. CASE RemoveFile BY <1>18, <1>u DEF RemoveFile, save, ghosts, WorkersWaited
<1>19. CASE Removed BY <1>19, <1>u DEF Removed, ghosts, WorkersWaited
<1>c. CASE CreateFails BY <1>c, <1>u DEF CreateFails, save, ghosts, WorkersWaited
<1>s. CASE SaveFails BY <1>s, <1>u DEF SaveFails, save, ghosts, WorkersWaited
<1>r. CASE RemoveFails BY <1>r, <1>u DEF RemoveFails, ghosts, WorkersWaited
<1>20. CASE UNCHANGED vars BY <1>20, <1>u DEF vars, save, ghosts, WorkersWaited
<1>21. CASE Next
    BY <1>21, <1>1, <1>2, <1>3, <1>4, <1>5, <1>6, <1>7, <1>8, <1>9, <1>10, <1>11, <1>12, <1>13,
       <1>14, <1>15, <1>16, <1>17, <1>18, <1>19, <1>c, <1>s, <1>r
    DEF Next, SaveStep, Worker, Fault, DeleteStep, ReadPanics, Crash, WorkerAct
<1> QED BY <1>20, <1>21

\* The files are in the directory.
LEMMA FilesStep == ASSUME TypeOK, WorkersWaited, FilesInDir, [Next]_vars PROVE FilesInDir'
<1> USE DEF FilesInDir
<1>1. CASE CreateDir BY <1>1 DEF CreateDir
<1>2. CASE CreateConfig BY <1>2 DEF CreateConfig, ghosts
<1>3. CASE CreateProcessing BY <1>3 DEF CreateProcessing, ghosts
<1>4. CASE SaveOpen BY <1>4 DEF SaveOpen, ghosts
<1>5. ASSUME NEW p \in Partitions, SaveNext(p) PROVE FilesInDir' BY <1>5 DEF SaveNext, disk, ghosts
<1>6. CASE SaveNextFails BY <1>6 DEF SaveNextFails, disk, ghosts
<1>7. CASE SaveAborted BY <1>7 DEF SaveAborted, disk, ghosts
<1>8. CASE SaveCancelled BY <1>8 DEF SaveCancelled, disk
<1>9. CASE SaveDelivered BY <1>9 DEF SaveDelivered, disk, ghosts
<1>10. CASE SaveWaited BY <1>10 DEF SaveWaited, ghosts
<1>11. CASE SaveDone BY <1>11 DEF SaveDone, ghosts
<1>12. CASE Cancel BY <1>12 DEF Cancel, disk, ghosts
<1>13. ASSUME NEW p \in Partitions, WorkerAct(p) PROVE FilesInDir'
    <2>1. /\ p \in Running /\ UNCHANGED <<dir, config, processing, phase, outlived>>
          /\ ~dir => \A q \in Partitions : maps[q] = NoFile => maps'[q] = NoFile
        BY <1>13, WorkerActs
    <2>2. ~(phase = "deleted" /\ ~outlived) BY <2>1 DEF WorkersWaited
    <2> QED BY <2>1, <2>2
<1>14. ASSUME Down PROVE FilesInDir' BY <1>14 DEF Down, disk
<1>15. CASE LoadAll BY <1>15 DEF LoadAll, disk, ghosts
<1>16. CASE DeleteCall BY <1>16 DEF DeleteCall, disk, ghosts
<1>17. CASE DeleteWaited BY <1>17 DEF DeleteWaited, disk, ghosts
<1>18. CASE RemoveFile BY <1>18 DEF RemoveFile, ghosts
<1>19. CASE Removed BY <1>19 DEF Removed, ghosts
<1>c. CASE CreateFails BY <1>c DEF CreateFails, ghosts
<1>x. CASE SaveFails BY <1>x DEF SaveFails, ghosts
<1>r. CASE RemoveFails BY <1>r DEF RemoveFails, ghosts
<1>20. CASE UNCHANGED vars BY <1>20 DEF vars, disk, save, ghosts, FilesInDir
<1>21. CASE Next
    BY <1>21, <1>1, <1>2, <1>3, <1>4, <1>5, <1>6, <1>7, <1>8, <1>9, <1>10, <1>11, <1>12, <1>13,
       <1>14, <1>15, <1>16, <1>17, <1>18, <1>19, <1>c, <1>x, <1>r
    DEF Next, SaveStep, Worker, Fault, DeleteStep, ReadPanics, Crash, WorkerAct
<1> QED BY <1>20, <1>21

\* What the marks on disk say.
LEMMA MarksStep ==
    ASSUME TypeOK, WorkersWaited, FilesInDir, Marks, [Next]_vars
    PROVE  Marks'
<1> USE DEF Marks
<1>n. "C" # NoFile /\ "S" # NoFile BY ContentAssumption
<1>1. CASE CreateDir BY <1>1 DEF CreateDir
<1>2. CASE CreateConfig BY <1>2 DEF CreateConfig, ghosts
<1>3. CASE CreateProcessing BY <1>3, <1>n DEF CreateProcessing, ghosts
<1>4. CASE SaveOpen BY <1>4, <1>n DEF SaveOpen, ghosts
<1>5. ASSUME NEW p \in Partitions, SaveNext(p) PROVE Marks' BY <1>5 DEF SaveNext, disk, ghosts
<1>6. CASE SaveNextFails BY <1>6 DEF SaveNextFails, disk, ghosts
<1>7. CASE SaveAborted BY <1>7 DEF SaveAborted, disk, ghosts
<1>8. CASE SaveCancelled BY <1>8 DEF SaveCancelled, disk
<1>9. CASE SaveDelivered BY <1>9 DEF SaveDelivered, disk, ghosts
<1>10. CASE SaveWaited BY <1>10 DEF SaveWaited, ghosts
<1>11. CASE SaveDone BY <1>11 DEF SaveDone, ghosts, WorkersWaited
<1>12. CASE Cancel BY <1>12 DEF Cancel, disk, ghosts
<1>13. ASSUME NEW p \in Partitions, WorkerAct(p) PROVE Marks'
    <2>1. /\ UNCHANGED <<config, processing, phase>>
          /\ "cancelled" \in lost' <=> "cancelled" \in lost
        BY <1>13, WorkerActs
    <2> QED BY <2>1
<1>14. ASSUME Down PROVE Marks' BY <1>14 DEF Down, disk
<1>15. CASE LoadAll BY <1>15 DEF LoadAll, disk, ghosts, WorkersWaited
<1>16. CASE DeleteCall BY <1>16 DEF DeleteCall, disk, ghosts
<1>17. CASE DeleteWaited BY <1>17 DEF DeleteWaited, disk, ghosts
<1>18. CASE RemoveFile BY <1>18 DEF RemoveFile, ghosts
<1>19. CASE Removed BY <1>19 DEF Removed, ghosts, FilesInDir
<1>c. CASE CreateFails BY <1>c, <1>n DEF CreateFails, ghosts, WorkersWaited
<1>x. CASE SaveFails BY <1>x, <1>n DEF SaveFails, ghosts, WorkersWaited
<1>r. CASE RemoveFails BY <1>r DEF RemoveFails, ghosts, WorkersWaited
<1>20. CASE UNCHANGED vars BY <1>20 DEF vars, disk, save, ghosts, Marks
<1>21. CASE Next
    BY <1>21, <1>1, <1>2, <1>3, <1>4, <1>5, <1>6, <1>7, <1>8, <1>9, <1>10, <1>11, <1>12, <1>13,
       <1>14, <1>15, <1>16, <1>17, <1>18, <1>19, <1>c, <1>x, <1>r
    DEF Next, SaveStep, Worker, Fault, DeleteStep, ReadPanics, Crash, WorkerAct
<1> QED BY <1>20, <1>21

\* Every delivered partition has its goroutine.
LEMMA DeliveredStep == ASSUME TypeOK, Delivered, [Next]_vars PROVE Delivered'
<1> USE DEF Delivered
<1>1. CASE CreateDir BY <1>1 DEF CreateDir
<1>2. CASE CreateConfig BY <1>2 DEF CreateConfig
<1>3. CASE CreateProcessing BY <1>3 DEF CreateProcessing, Idle
<1>4. CASE SaveOpen BY <1>4 DEF SaveOpen
<1>5. ASSUME NEW p \in Partitions, SaveNext(p) PROVE Delivered'
    <2> DEFINE w == [pc |-> "spawned", col |-> workers[p].col, bits |-> workers[p].bits,
                     tx |-> workers[p].tx]
    <2>1. WorkerBecomes(p, w) BY <1>5, PcEffect DEF SaveNext
    <2>2. workers'[p].pc = "spawned" /\ \A q \in Partitions \ {p} : workers'[q] = workers[q]
        BY <2>1 DEF WorkerBecomes
    <2>3. mapping \subseteq Partitions /\ todo \subseteq Partitions BY DEF TypeOK
    <2> QED BY <1>5, <2>2, <2>3 DEF SaveNext
<1>6. CASE SaveNextFails BY <1>6 DEF SaveNextFails
<1>7. CASE SaveAborted BY <1>7 DEF SaveAborted
<1>8. CASE SaveCancelled BY <1>8 DEF SaveCancelled
<1>9. CASE SaveDelivered BY <1>9 DEF SaveDelivered, save
<1>10. CASE SaveWaited BY <1>10 DEF SaveWaited
<1>11. CASE SaveDone BY <1>11 DEF SaveDone
<1>12. CASE Cancel BY <1>12 DEF Cancel
<1>13. ASSUME NEW p \in Partitions, WorkerAct(p) PROVE Delivered'
    <2>1. /\ UNCHANGED <<phase, mapping, todo>>
          /\ workers'[p].pc \in Opened \union {"done"} /\ p \in Running
          /\ \A q \in Partitions \ {p} : workers'[q] = workers[q]
        BY <1>13, WorkerActs
    <2>2. workers[p].pc # "idle" /\ workers'[p].pc # "idle" BY <2>1 DEF Running, Opened
    <2>3. mapping \subseteq Partitions /\ todo \subseteq Partitions BY DEF TypeOK
    <2> QED BY <2>1, <2>2, <2>3
<1>14. ASSUME Down PROVE Delivered' BY <1>14 DEF Down
<1>15. CASE LoadAll BY <1>15 DEF LoadAll
<1>16. CASE DeleteCall BY <1>16 DEF DeleteCall
<1>17. CASE DeleteWaited BY <1>17 DEF DeleteWaited
<1>18. CASE RemoveFile BY <1>18 DEF RemoveFile
<1>19. CASE Removed BY <1>19 DEF Removed
<1>c. CASE CreateFails BY <1>c DEF CreateFails
<1>x. CASE SaveFails BY <1>x DEF SaveFails
<1>r. CASE RemoveFails BY <1>r DEF RemoveFails
<1>20. CASE UNCHANGED vars BY <1>20 DEF vars, disk, save, ghosts, Delivered
<1>21. CASE Next
    BY <1>21, <1>1, <1>2, <1>3, <1>4, <1>5, <1>6, <1>7, <1>8, <1>9, <1>10, <1>11, <1>12, <1>13,
       <1>14, <1>15, <1>16, <1>17, <1>18, <1>19, <1>c, <1>x, <1>r
    DEF Next, SaveStep, Worker, Fault, DeleteStep, ReadPanics, Crash, WorkerAct
<1> QED BY <1>20, <1>21

-----------------------------------------------------------------------------
(* What the goroutines have written *)

\* A mapping describes no row at all when nothing has been read.
LEMMA CopiedNone ==
    ASSUME NEW t \in Seq(Values \union {Null}), NEW m \in Mappings
    PROVE  Copied(t, m, {}, 0)
BY BucketType DEF Copied

\* A mapping and bits that describe the rows before row k + 1, with that row's value
\* and location added, describe it too.
LEMMA CopiedRow ==
    ASSUME NEW t \in Seq(Values \union {Null}), NEW m \in Mappings, NEW B \in SUBSET Bits,
           NEW k \in Nat, k < Len(t), Copied(t, m, B, k),
           NEW m1 \in Mappings, NEW bit \in SUBSET Bits,
           t[k + 1] = Null => m1 = m /\ bit = {},
           t[k + 1] # Null => /\ m1 = getRowID(m, Field, t[k + 1])
                              /\ bit = {<<rowIDOf(m, Field, t[k + 1]), k>>}
    PROVE  Copied(t, putLocation(m1, k, k + 1), B \union bit, k + 1)
<1> DEFINE n == putLocation(m1, k, k + 1)
           v == t[k + 1]
<1>t. /\ v \in Values \union {Null}
      /\ Bucket(m.locs) \in Seq(Nat) /\ Bucket(m1.locs) \in Seq(Nat)
    BY BucketType
<1>1. /\ m1.locs = m.locs
      /\ \A u : rowID(m, Field, u) \subseteq rowID(m1, Field, u)
      /\ v # Null => /\ rowIDOf(m, Field, v) \in rowID(m1, Field, v)
                     /\ rowIDOf(m, Field, v) \in Nat
    BY <1>t, GetRowID
<1>2. n \in Mappings /\ \A u : rowID(n, Field, u) = rowID(m1, Field, u) BY PutLocation
<1>3. k <= Len(Bucket(m.locs)) /\ \A i \in 1..k : Bucket(m.locs)[i] = i BY DEF Copied
<1>4. /\ k + 1 <= Len(Bucket(n.locs)) /\ Bucket(n.locs)[k + 1] = k + 1
      /\ \A i \in 1..k : Bucket(n.locs)[i] = Bucket(m.locs)[i]
    BY <1>1, <1>3, PutLocation
<1>5. \A i \in 1..k+1 : Bucket(n.locs)[i] = i BY <1>3, <1>4
<1> HIDE DEF n
<1>6. ASSUME NEW b \in B \union bit
      PROVE  /\ b[2] < k + 1 /\ t[b[2] + 1] # Null
             /\ b[1] \in rowID(n, Field, t[b[2] + 1])
    <2>1. CASE b \in B
        <3>1. b \in Bits /\ b[2] \in Nat BY <2>1 DEF Bits
        <3>2. b[2] < k /\ t[b[2] + 1] # Null /\ b[1] \in rowID(m, Field, t[b[2] + 1])
            BY <2>1 DEF Copied
        <3> QED BY <1>1, <1>2, <3>1, <3>2
    <2>2. CASE b \in bit
        <3>1. v # Null /\ b = <<rowIDOf(m, Field, v), k>> BY <2>2
        <3> QED BY <1>1, <1>2, <3>1
    <2> QED BY <2>1, <2>2
<1>7. ASSUME NEW i \in 1..k+1, t[i] # Null PROVE \E b \in B \union bit : b[2] = i - 1
    <2>1. CASE i \in 1..k BY <1>7, <2>1 DEF Copied
    <2>2. CASE i = k + 1
        <3>1. bit = {<<rowIDOf(m, Field, v), k>>} BY <1>7, <2>2
        <3> QED BY <2>2, <3>1
    <2> QED BY <2>1, <2>2
<1>8. k + 1 <= Len(t) OBVIOUS
<1>9. Copied(t, n, B \union bit, k + 1) BY <1>4, <1>5, <1>6, <1>7, <1>8 DEF Copied
<1> QED BY <1>9 DEF n

\* The work of a partition is as it was when nothing of it has changed.
LEMMA WorkedKept ==
    ASSUME NEW q \in Partitions, Worked(q), failed => failed', table' = table,
           workers'[q] = workers[q], maps'[q] = maps[q], fields'[q] = fields[q]
    PROVE  Worked(q)'
BY DEF Worked, Complete

\* The step of a goroutine keeps its own part of the work.
LEMMA WorkedStep ==
    ASSUME TypeOK, NEW p \in Partitions, WorkerAct(p), dir, Worked(p), lost' = {}
    PROVE  Worked(p)'
<1> DEFINE w == workers[p]
           t == table[p]
<1>t. /\ w.pc \in Opened \union {"idle", "spawned", "done"} /\ w.col \in Nat
      /\ w.bits \in SUBSET Bits
      /\ w.pc \in Opened => w.tx \in Mappings
      /\ t \in Seq(Values \union {Null})
      /\ table' = table
      /\ maps \in [Partitions -> Mappings \union {NoFile}]
      /\ fields \in [Partitions -> Fields \union {NoFile}]
      /\ NoFile \notin Mappings /\ NoFile \notin Fields
    BY WorkerType, WorkerActs, ContentAssumption DEF TypeOK
<1>o. ASSUME w.pc \in Opened
      PROVE  /\ maps[p] # NoFile /\ fields[p] # NoFile
             /\ Copied(t, w.tx, fields[p].bits \union w.bits, w.col)
    BY <1>o DEF Worked
<1>e. ASSUME WorkerBecomes(p, Ended), failed' = TRUE PROVE Worked(p)'
    <2>1. workers'[p].pc = "done" BY <1>e DEF WorkerBecomes, Ended
    <2> QED BY <1>e, <2>1 DEF Worked, Opened
<1>1. CASE Start(p)
    <2>1. PICK m \in Mappings :
            /\ WorkerBecomes(p, [pc |-> "loop", col |-> 0, bits |-> {}, tx |-> m])
            /\ maps' = [maps EXCEPT ![p] = m]
            /\ fields' = [fields EXCEPT ![p] = [bits |-> {}]]
        BY <1>1, StartEffect
    <2>2. /\ workers'[p].pc = "loop" /\ workers'[p].col = 0 /\ workers'[p].bits = {}
          /\ workers'[p].tx = m
        BY <2>1 DEF WorkerBecomes
    <2>3. [bits |-> {}] \in Fields /\ [bits |-> {}].bits = {} BY DEF Fields
    <2>4. /\ maps'[p] # NoFile /\ fields'[p] # NoFile /\ fields'[p].bits = {}
        BY <1>t, <2>1, <2>3
    <2>5. Copied(t, m, {}, 0) BY <1>t, CopiedNone
    <2>6. fields'[p].bits \union workers'[p].bits = {} BY <2>2, <2>4
    <2>7. Copied(table'[p], workers'[p].tx, fields'[p].bits \union workers'[p].bits, workers'[p].col)
        BY <1>t, <2>2, <2>5, <2>6
    <2> QED BY <2>2, <2>4, <2>7 DEF Worked
<1>2. CASE SaveBits(p)
    <2>1. w.pc \in {"loop", "rest"} BY <1>2, SaveBitsEffect
    <2> DEFINE pc == IF w.pc = "loop" THEN "commit" ELSE "last"
    <2>0. WorkerBecomes(p, [pc |-> pc, col |-> w.col, bits |-> {}, tx |-> w.tx])
        BY <1>2, SaveBitsEffect
    <2>2. /\ workers'[p].pc = pc
          /\ workers'[p].col = w.col /\ workers'[p].bits = {} /\ workers'[p].tx = w.tx
        BY <2>0 DEF WorkerBecomes
    <2>3. /\ maps' = maps /\ fields'[p] # NoFile
          /\ fields'[p].bits = fields[p].bits \union w.bits
        BY <1>2, <1>o, <2>1, DiskTyped DEF SaveBits, Opened
    <2>4. fields'[p].bits \union workers'[p].bits = fields[p].bits \union w.bits BY <2>2, <2>3
    <2>5. Copied(table'[p], workers'[p].tx, fields'[p].bits \union workers'[p].bits, workers'[p].col)
        BY <1>o, <1>t, <2>1, <2>2, <2>4 DEF Opened
    <2>6. w.pc = "rest" => workers'[p].col = Len(table'[p]) BY <1>t, <2>2 DEF Worked
    <2> QED BY <1>o, <2>1, <2>2, <2>3, <2>5, <2>6 DEF Worked, Opened
<1>3. CASE saveMapping(p)
    <2>1. w.pc \in {"commit", "last"} /\ w.bits = {} BY <1>3, SaveMappingEffect DEF Worked
    <2>2. maps'[p] # NoFile /\ maps'[p] = w.tx /\ fields' = fields
        BY <1>3, <1>o, <2>1, DiskTyped DEF saveMapping, Opened
    <2>3. CASE w.pc = "commit"
        <3>0. WorkerBecomes(p, [pc |-> "read", col |-> w.col, bits |-> w.bits, tx |-> w.tx])
            BY <1>3, <2>3, SaveMappingEffect
        <3>1. /\ workers'[p].pc = "read" /\ workers'[p].col = w.col
              /\ workers'[p].bits = w.bits /\ workers'[p].tx = w.tx
            BY <3>0 DEF WorkerBecomes
        <3> QED BY <1>o, <1>t, <2>2, <2>3, <3>1 DEF Worked, Opened
    <2>4. CASE w.pc = "last"
        <3>0. WorkerBecomes(p, Ended) BY <1>3, <2>4, SaveMappingEffect
        <3>1. workers'[p].pc = "done" BY <3>0 DEF WorkerBecomes, Ended
        <3>2. w.col = Len(t) BY <2>4 DEF Worked
        <3>3. fields[p].bits \union w.bits = fields[p].bits BY <2>1
        <3>4. Copied(t, w.tx, fields[p].bits, Len(t)) BY <1>o, <2>4, <3>2, <3>3 DEF Opened
        <3>5. Complete(p)' BY <1>o, <1>t, <2>2, <2>4, <3>4 DEF Complete, Opened
        <3> QED BY <3>1, <3>5 DEF Worked, Opened
    <2> QED BY <2>1, <2>3, <2>4
<1>4. CASE ReadCancelled(p) BY <1>4, <1>e, FailEffect DEF ReadCancelled
<1>5. CASE ReadRow(p)
    <2>1. w.pc \in Opened /\ w.tx \in Mappings /\ w.col < Len(t) BY <1>5, ReadRowEffect
    <2>2. PICK m \in Mappings, bit \in SUBSET Bits :
            /\ t[w.col + 1] = Null => m = w.tx /\ bit = {}
            /\ t[w.col + 1] # Null => /\ m = getRowID(w.tx, Field, t[w.col + 1])
                                      /\ bit = {<<rowIDOf(w.tx, Field, t[w.col + 1]), w.col>>}
            /\ WorkerBecomes(p, [pc |-> "loop", col |-> w.col + 1, bits |-> w.bits \union bit,
                                 tx |-> putLocation(m, w.col, w.col + 1)])
        BY <1>5, ReadRowEffect
    <2>3. /\ workers'[p].pc = "loop" /\ workers'[p].col = w.col + 1
          /\ workers'[p].bits = w.bits \union bit
          /\ workers'[p].tx = putLocation(m, w.col, w.col + 1)
        BY <2>2 DEF WorkerBecomes
    <2>4. maps' = maps /\ fields' = fields BY <1>5 DEF ReadRow, disk
    <2> DEFINE B == fields[p].bits \union w.bits
    <2>5. B \in SUBSET Bits
        <3>1. fields[p] \in Fields BY <1>o, <1>t, <2>1
        <3>2. fields[p].bits \in SUBSET Bits BY <3>1 DEF Fields
        <3> QED BY <1>t, <3>2
    <2>6. Copied(t, w.tx, B, w.col) BY <1>o, <2>1
    <2>7. fields'[p].bits \union workers'[p].bits = B \union bit BY <2>3, <2>4
    <2> HIDE DEF B, w, t
    <2>8. Copied(t, putLocation(m, w.col, w.col + 1), B \union bit, w.col + 1)
        BY <1>t, <2>1, <2>2, <2>5, <2>6, CopiedRow
    <2>9. Copied(table'[p], workers'[p].tx, fields'[p].bits \union workers'[p].bits, workers'[p].col)
        BY <1>t, <2>3, <2>7, <2>8 DEF t
    <2> QED BY <1>o, <2>1, <2>3, <2>4, <2>9 DEF Worked
<1>6. CASE ReadEnd(p)
    <2>1. w.pc \in Opened BY <1>6 DEF ReadEnd, AtRead, Opened
    <2>2. WorkerBecomes(p, [pc |-> "rest", col |-> w.col, bits |-> w.bits, tx |-> w.tx])
        BY <1>6, PcEffect DEF ReadEnd, Opened
    <2>3. /\ workers'[p].pc = "rest" /\ workers'[p].col = w.col /\ workers'[p].bits = w.bits
          /\ workers'[p].tx = w.tx
        BY <2>2 DEF WorkerBecomes
    <2>4. w.col = Len(t) /\ maps' = maps /\ fields' = fields BY <1>6 DEF ReadEnd, disk
    <2> QED BY <1>o, <1>t, <2>1, <2>3, <2>4 DEF Worked
<1>7. CASE SaveBitsFails(p) BY <1>7, <1>e, FailEffect DEF SaveBitsFails
<1>8. CASE saveMappingFails(p) BY <1>8, <1>e, FailEffect DEF saveMappingFails
<1> QED BY <1>1, <1>2, <1>3, <1>4, <1>5, <1>6, <1>7, <1>8 DEF WorkerAct

\* Every step keeps the work of all partitions.
LEMMA WorkStep ==
    ASSUME TypeOK, FilesInDir, Delivered, Work, [Next]_vars
    PROVE  Work'
<1> USE DEF Work
<1>k. ASSUME UNCHANGED <<table, workers, maps, fields, failed>>
      PROVE  \A q \in Partitions : Worked(q) => Worked(q)'
    BY <1>k, WorkedKept
<1>1. CASE CreateDir BY <1>1 DEF CreateDir
<1>2. CASE CreateConfig BY <1>2 DEF CreateConfig
<1>3. CASE CreateProcessing BY <1>3 DEF CreateProcessing
<1>4. CASE SaveOpen
    <2>1. \A q \in Partitions : workers'[q].pc = "idle" BY <1>4 DEF SaveOpen, Delivered
    <2>2. \A q \in Partitions : Worked(q)' BY <2>1 DEF Worked, Opened
    <2> QED BY <2>2
<1>5. ASSUME NEW p \in Partitions, SaveNext(p) PROVE Work'
    <2> DEFINE w == [pc |-> "spawned", col |-> workers[p].col, bits |-> workers[p].bits,
                     tx |-> workers[p].tx]
    <2>1. WorkerBecomes(p, w) BY <1>5, PcEffect DEF SaveNext
    <2>2. workers'[p].pc = "spawned" /\ \A q \in Partitions \ {p} : workers'[q] = workers[q]
        BY <2>1 DEF WorkerBecomes
    <2>3. UNCHANGED <<table, maps, fields, failed, phase, lost>> BY <1>5 DEF SaveNext, disk, ghosts
    <2>4. Worked(p)' BY <2>2 DEF Worked, Opened
    <2>5. \A q \in Partitions \ {p} : Worked(q) => Worked(q)' BY <2>2, <2>3, WorkedKept
    <2> QED BY <2>3, <2>4, <2>5
<1>6. CASE SaveNextFails BY <1>6 DEF SaveNextFails
<1>7. CASE SaveAborted BY <1>7 DEF SaveAborted
<1>8. CASE SaveCancelled BY <1>8 DEF SaveCancelled
<1>9. CASE SaveDelivered BY <1>9, <1>k DEF SaveDelivered, disk, save, ghosts
<1>10. CASE SaveWaited BY <1>10 DEF SaveWaited
<1>11. CASE SaveDone BY <1>11 DEF SaveDone
<1>12. CASE Cancel BY <1>12, <1>k DEF Cancel, disk, ghosts
<1>13. ASSUME NEW p \in Partitions, WorkerAct(p) PROVE Work'
    <2> SUFFICES ASSUME phase' \in {"saving", "waiting"}, lost' = {}
                 PROVE  \A q \in Partitions : Worked(q)'
        OBVIOUS
    <2>1. /\ \A q \in Partitions \ {p} :
               workers'[q] = workers[q] /\ maps'[q] = maps[q] /\ fields'[q] = fields[q]
          /\ UNCHANGED <<table, phase>> /\ lost \subseteq lost' /\ (failed => failed')
        BY <1>13, WorkerActs
    <2>2. lost = {} /\ phase \in {"saving", "waiting"} BY <2>1
    <2>3. \A q \in Partitions : Worked(q) BY <2>2
    <2>4. dir BY <2>2 DEF FilesInDir
    <2>5. Worked(p)' BY <1>13, <2>3, <2>4, WorkedStep
    <2>6. \A q \in Partitions \ {p} : Worked(q)' BY <2>1, <2>3, WorkedKept
    <2> QED BY <2>5, <2>6
<1>14. ASSUME Down PROVE Work' BY <1>14 DEF Down
<1>15. CASE LoadAll BY <1>15 DEF LoadAll
<1>16. CASE DeleteCall BY <1>16, <1>k DEF DeleteCall, disk, ghosts
<1>17. CASE DeleteWaited BY <1>17 DEF DeleteWaited
<1>18. CASE RemoveFile BY <1>18 DEF RemoveFile
<1>19. CASE Removed BY <1>19 DEF Removed
<1>c. CASE CreateFails BY <1>c DEF CreateFails
<1>x. CASE SaveFails BY <1>x DEF SaveFails
<1>r. CASE RemoveFails BY <1>r DEF RemoveFails
<1>20. CASE UNCHANGED vars BY <1>20, <1>k DEF vars, disk, save, ghosts
<1>21. CASE Next
    BY <1>21, <1>1, <1>2, <1>3, <1>4, <1>5, <1>6, <1>7, <1>8, <1>9, <1>10, <1>11, <1>12, <1>13,
       <1>14, <1>15, <1>16, <1>17, <1>18, <1>19, <1>c, <1>x, <1>r
    DEF Next, SaveStep, Worker, Fault, DeleteStep, ReadPanics, Crash, WorkerAct
<1> QED BY <1>20, <1>21

\* What Save has listed is complete and remains so.
LEMMA ListedStep ==
    ASSUME TypeOK, WorkersWaited, FilesInDir, Marks, Delivered, Work, Listed, [Next]_vars
    PROVE  Listed'
<1>k. ASSUME UNCHANGED <<table, maps, fields>>
      PROVE  \A q \in Partitions : Complete(q) => Complete(q)'
    BY <1>k DEF Complete
<1>s. ASSUME UNCHANGED <<table, disk, phase, mapping, ghosts>> PROVE Listed'
    BY <1>s, <1>k DEF Listed, disk, ghosts
<1>v. ASSUME phase' \notin {"listed", "ready", "down"} PROVE Listed' BY <1>v DEF Listed
<1>1. CASE CreateDir BY <1>1, <1>v DEF CreateDir
<1>2. CASE CreateConfig BY <1>2, <1>v DEF CreateConfig
<1>3. CASE CreateProcessing BY <1>3, <1>v DEF CreateProcessing
<1>4. CASE SaveOpen BY <1>4, <1>v DEF SaveOpen
<1>5. ASSUME NEW p \in Partitions, SaveNext(p) PROVE Listed'
    BY <1>5, <1>v DEF SaveNext
<1>6. CASE SaveNextFails BY <1>6, <1>v DEF SaveNextFails
<1>7. CASE SaveAborted BY <1>7, <1>v DEF SaveAborted
<1>8. CASE SaveCancelled BY <1>8 DEF SaveCancelled, Listed
<1>9. CASE SaveDelivered BY <1>9, <1>v DEF SaveDelivered
<1>10. CASE SaveWaited
    <2>1. CASE failed BY <1>10, <1>v, <2>1 DEF SaveWaited
    <2>2. CASE ~failed /\ lost = {}
        <3>1. config = {} /\ mapping = Partitions /\ Running = {}
            BY <1>10 DEF SaveWaited, Marks, Delivered
        <3>2. \A q \in Partitions : workers[q].pc = "done" BY <1>10, <3>1 DEF SaveWaited, Delivered, Running
        <3>3. \A q \in Partitions : Worked(q) BY <1>10, <2>2 DEF SaveWaited, Work
        <3>4. \A q \in Partitions : Complete(q) BY <2>2, <3>2, <3>3 DEF Worked
        <3>5. \A q \in Partitions : Complete(q)' BY <1>10, <1>k, <3>4 DEF SaveWaited
        <3>6. config' = Partitions /\ mapping' = Partitions
            BY <1>10, <2>2, <3>1 DEF SaveWaited, save
        <3> QED BY <3>5, <3>6 DEF Listed
    <2>3. CASE lost # {} BY <1>10, <2>3 DEF SaveWaited, ghosts, Listed
    <2> QED BY <2>1, <2>2, <2>3
<1>11. CASE SaveDone BY <1>11, <1>k DEF SaveDone, save, ghosts, Listed
<1>12. CASE Cancel BY <1>12, <1>s DEF Cancel
<1>13. ASSUME NEW p \in Partitions, WorkerAct(p) PROVE Listed'
    <2>1. p \in Running /\ UNCHANGED <<phase, torn>> /\ lost \subseteq lost'
        BY <1>13, WorkerActs
    <2>2. lost # {} \/ phase \in {"saving", "aborting", "waiting"} BY <2>1 DEF WorkersWaited
    <2> QED BY <2>1, <2>2 DEF Listed
<1>14. ASSUME Down PROVE Listed'
    <2> SUFFICES ASSUME config # NoFile, processing = NoFile, lost' = {}, ~torn'
                 PROVE  config = Partitions /\ \A q \in Partitions : Complete(q)
        BY <1>14, <1>k DEF Down, disk, Listed
    <2>1. ~torn /\ phase \in {"ready", "down"} BY <1>14 DEF Down
    <2>2. "cancelled" \notin lost BY <2>1 DEF Marks, WorkersWaited
    <2>3. lost = {} BY <1>14, <2>2 DEF Down
    <2> QED BY <2>1, <2>3 DEF Listed
<1>15. CASE LoadAll
    <2> SUFFICES ASSUME phase' = "ready", lost = {}, ~torn
                 PROVE  /\ config = Partitions /\ \A q \in Partitions : Complete(q)
                        /\ mapping' = Partitions
        BY <1>15, <1>k DEF LoadAll, disk, ghosts, Listed
    <2>1. /\ config # NoFile /\ processing = NoFile /\ phase = "down"
          /\ mapping' = {p \in config : maps[p] # NoFile}
        BY <1>15 DEF LoadAll
    <2>2. config = Partitions /\ \A q \in Partitions : Complete(q) BY <2>1 DEF Listed
    <2>3. \A q \in Partitions : maps[q] # NoFile BY <2>2 DEF Complete
    <2> QED BY <2>1, <2>2, <2>3
<1>16. CASE DeleteCall BY <1>16, <1>s DEF DeleteCall
<1>17. CASE DeleteWaited BY <1>17, <1>v DEF DeleteWaited
<1>18. CASE RemoveFile BY <1>18, <1>v DEF RemoveFile
<1>19. CASE Removed BY <1>19, <1>v DEF Removed
<1>c. CASE CreateFails BY <1>c, <1>v DEF CreateFails
<1>x. CASE SaveFails BY <1>x, <1>v DEF SaveFails
<1>r. CASE RemoveFails BY <1>r, <1>v DEF RemoveFails
<1>20. CASE UNCHANGED vars BY <1>20, <1>s DEF vars, save
<1>21. CASE Next
    BY <1>21, <1>1, <1>2, <1>3, <1>4, <1>5, <1>6, <1>7, <1>8, <1>9, <1>10, <1>11, <1>12, <1>13,
       <1>14, <1>15, <1>16, <1>17, <1>18, <1>19, <1>c, <1>x, <1>r
    DEF Next, SaveStep, Worker, Fault, DeleteStep, ReadPanics, Crash, WorkerAct
<1> QED BY <1>20, <1>21

-----------------------------------------------------------------------------
(* The theorems *)

\* The first state.
LEMMA InitialState == Init => TypeOK /\ DriverInv
<1> SUFFICES ASSUME Init PROVE TypeOK /\ DriverInv OBVIOUS
<1>1. workers \in [Partitions -> Workers] BY IdleWorker DEF Init
<1>2. \A p \in Partitions : workers[p].pc = "idle" BY DEF Init, Idle
<1>3. TypeOK BY <1>1, <1>2 DEF Init, TypeOK, Phases, Opened
<1>4. Running = {} BY <1>2 DEF Running
<1> QED BY <1>3, <1>4
    DEF Init, DriverInv, WorkersWaited, FilesInDir, Marks, Delivered, Work, Listed

\* The types and the invariant that makes the driver's properties inductive hold in
\* every state: who still runs, what is on disk in each phase, and what the goroutines
\* have written so far.
THEOREM DriverInvariant == Spec => [](TypeOK /\ DriverInv)
<1>1. TypeOK /\ DriverInv /\ [Next]_vars => (TypeOK /\ DriverInv)'
    BY TypeStep, WaitedStep, FilesStep, MarksStep, DeliveredStep, WorkStep, ListedStep
    DEF DriverInv
<1> QED BY InitialState, <1>1, PTL DEF Spec

\* Every variable keeps its type.
THEOREM TypeCorrect == Spec => []TypeOK
BY DriverInvariant, PTL

\* Delete leaves nothing of an index behind, on disk or in pilosa, unless its Save had
\* returned before its goroutines (DeletedLeavesNothing).
THEOREM DeleteIsThorough == Spec => []DeletedLeavesNothing
<1>1. DriverInv => DeletedLeavesNothing
    BY DEF DriverInv, WorkersWaited, FilesInDir, DeletedLeavesNothing
<1> QED BY <1>1, DriverInvariant, PTL

\* An index that is complete answers a lookup with the rows that hold the key.
LEMMA CompleteAnswers ==
    ASSUME TypeOK, NEW p \in Partitions, p \in mapping, Complete(p), NEW v \in Values
    PROVE  IF LookupFails(p) THEN \A i \in DOMAIN table[p] : table[p][i] = Null
                             ELSE Lookup(p, v) = RowsWith(p, v)
<1> DEFINE t == table[p]
           m == maps[p]
           B == fields[p].bits
           locs == Bucket(m.locs)
           cols == {b[2] : b \in {x \in B : x[1] \in rowID(m, Field, v)}}
<1>t. /\ t \in Seq(Values \union {Null}) /\ m \in Mappings /\ B \in SUBSET Bits
      /\ m # NoFile /\ fields[p] # NoFile
    BY ContentAssumption DEF TypeOK, Complete, Fields
<1>1. /\ \A i \in 1..Len(t) : locs[i] = i
      /\ \A b \in B : b[2] < Len(t) /\ t[b[2] + 1] # Null /\ b[1] \in rowID(m, Field, t[b[2] + 1])
      /\ \A i \in 1..Len(t) : t[i] # Null => \E b \in B : b[2] = i - 1
    BY DEF Complete, Copied
<1>2. \A b \in B : b[1] \in Nat /\ b[2] \in Nat BY <1>t DEF Bits
<1>3. CASE LookupFails(p)
    <2>1. m.ids[Field] = NoBucket BY <1>3, <1>t DEF LookupFails
    <2>2. \A u : rowID(m, Field, u) = {} BY <2>1 DEF rowID, Bucket, Positions
    <2> QED BY <1>1, <1>t, <1>3, <2>2
<1>4. CASE ~LookupFails(p)
    <2>1. \A b \in B : b[1] \in rowID(m, Field, v) <=> t[b[2] + 1] = v
        BY <1>1 DEF rowID, Positions
    <2>2. Lookup(p, v) = {locs[c + 1] : c \in cols} BY DEF Lookup, locations
    <2>3. \A c \in cols : c + 1 \in 1..Len(t) /\ t[c + 1] = v /\ locs[c + 1] = c + 1
        BY <1>1, <1>2, <1>t, <2>1
    <2>4. \A i \in RowsWith(p, v) : i \in 1..Len(t) /\ i - 1 \in cols
        <3> SUFFICES ASSUME NEW i \in 1..Len(t), t[i] = v PROVE i - 1 \in cols BY DEF RowsWith
        <3>1. v # Null BY DEF Values
        <3>2. PICK b \in B : b[2] = i - 1 BY <1>1, <3>1
        <3>3. b[2] + 1 = i BY <1>2, <1>t, <3>2
        <3> QED BY <2>1, <3>2, <3>3
    <2> HIDE DEF cols, locs
    <2>5. Lookup(p, v) \subseteq RowsWith(p, v) BY <2>2, <2>3 DEF RowsWith
    <2>6. RowsWith(p, v) \subseteq Lookup(p, v)
        <3> SUFFICES ASSUME NEW i \in RowsWith(p, v) PROVE i \in Lookup(p, v) OBVIOUS
        <3>1. i - 1 \in cols /\ i \in 1..Len(t) BY <2>4
        <3>2. locs[(i - 1) + 1] = (i - 1) + 1 /\ (i - 1) + 1 = i BY <1>t, <2>3, <3>1
        <3> QED BY <2>2, <3>1, <3>2
    <2> QED BY <1>4, <2>5, <2>6
<1> QED BY <1>3, <1>4

\* An index that is offered answers every lookup with the rows that hold the key, but
\* for the exceptions that OfferedAnswers lists: whatever the partitions hold, however
\* the goroutines interleave, and after any crashes.
THEOREM OfferedIndexesAnswer == Spec => []OfferedAnswers
<1>1. TypeOK /\ DriverInv => OfferedAnswers
    BY CompleteAnswers DEF DriverInv, Listed, OfferedAnswers
<1> QED BY <1>1, DriverInvariant, PTL
=============================================================================
