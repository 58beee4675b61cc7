---------------------------- MODULE PilosaDriver ----------------------------
(***************************************************************************)
(* The life of one pilosa index (sql/index/pilosa/driver.go), in the       *)
(* process and on disk.  Create makes the directory, the configuration and *)
(* the processing file, one after another.  Save runs a goroutine for each *)
(* partition, at most Threads of them past the token channel; a goroutine  *)
(* imports the bits into pilosa and commits the mapping to bolt for each   *)
(* batch.  Save ends by listing the mappings in the configuration and      *)
(* removing the processing file.  Delete cancels a running Save, waits for *)
(* it and removes files and fields.  The process may crash between any two *)
(* steps; LoadAll then looks at what is left on disk.                      *)
(*                                                                         *)
(* The index has one expression.  Removing a directory is one step for     *)
(* each file, in any order.                                                *)
(***************************************************************************)
EXTENDS Mapping, FiniteSets

CONSTANTS
    Partitions,       \* the table's partitions
    Tables,           \* the contents the table may have when an index is built
    Null,             \* the value NULL
    NoFile,           \* the content of a file or field that does not exist
    IndexBatchSize,   \* sql.IndexBatchSize
    Threads,          \* pilosa_index_threads
    MaxCreates,       \* bound on the indexes created under this name
    MaxCrashes,       \* bound on the crashes of the process
    MaxFaults         \* bound on errors of the table, pilosa, bolt and the files

Field == "field"      \* the one expression's field

\* the values that occur in a table, and what the files can hold
Held == UNION {{t[p][i] : i \in DOMAIN t[p]} : t \in Tables, p \in Partitions}
Values == Held \ {Null}
Mappings ==
    [ids : [{Field} -> Seq(Values) \union {NoBucket}], locs : Seq(Nat) \union {NoBucket}]
Bits == Nat \X Nat    \* pairs of a row and a column
Fields == [bits : SUBSET Bits]

ASSUME DriverAssumption ==
    /\ IsFiniteSet(Partitions)
    /\ Tables # {}
    /\ \A t \in Tables : DOMAIN t = Partitions
    /\ IndexBatchSize \in Nat \ {0}
    /\ Threads \in Nat \ {0}
    /\ {MaxCreates, MaxCrashes, MaxFaults} \subseteq Nat

ASSUME ContentAssumption ==
    /\ \A t \in Tables, p \in Partitions : t[p] \in Seq(Values \union {Null})
    /\ NoFile \notin Mappings \union Fields \union {"C", "S"}
    /\ \A ps \in SUBSET Partitions : ps # NoFile
    /\ NoBucket \notin Seq(Values) \union Seq(Nat)

VARIABLES
    table,        \* what the partitions hold
    dir,          \* the index's directory exists
    config,       \* the partitions the configuration file lists, or NoFile
    processing,   \* the processing file: NoFile, "C" or "S"
    maps,         \* the mapping file of each partition, or NoFile
    fields,       \* each partition's pilosa field, [bits], or NoFile
    phase,        \* what the process is doing with the index
    mapping,      \* the partitions in the index object's mapping
    todo,         \* the partitions Save's iterator has not delivered
    workers,      \* Save's goroutine for each partition
    cancelled,    \* the context of Save is done
    failed,       \* some goroutine recorded an error
    deleting,     \* Delete has been called
    rows,         \* calls of Next counted by the logging iterators
    lost,         \* why what Save answered nil for is not all there
    torn,         \* a configuration was left without a processing file
    outlived,     \* a goroutine was still running when Save returned
    budget        \* creations, crashes and faults left

disk == <<dir, config, processing, maps, fields>>
save == <<mapping, todo, workers, cancelled, failed, rows, deleting>>
ghosts == <<lost, torn, outlived>>
vars == <<table, disk, phase, save, ghosts, budget>>

Idle == [pc |-> "idle", col |-> 0, bits |-> {}, tx |-> NoFile]

Running == {p \in Partitions : workers[p].pc \notin {"idle", "done"}}
Saving == {p \in Running : workers[p].pc # "spawned"}

Spend(what) == budget[what] > 0 /\ budget' = [budget EXCEPT ![what] = @ - 1]

Init ==
    /\ table \in Tables
    /\ dir = FALSE /\ config = NoFile /\ processing = NoFile
    /\ maps = [p \in Partitions |-> NoFile]
    /\ fields = [p \in Partitions |-> NoFile]
    /\ phase = "none"
    /\ mapping = {} /\ todo = {} /\ cancelled = FALSE /\ failed = FALSE
    /\ workers = [p \in Partitions |-> Idle]
    /\ rows = 0 /\ deleting = FALSE
    /\ lost = {} /\ torn = FALSE /\ outlived = FALSE
    /\ budget = [creates |-> MaxCreates, crashes |-> MaxCrashes, faults |-> MaxFaults]

-----------------------------------------------------------------------------
(* Create *)

\* The directory, made unless it is there.  Goroutines of an earlier index of
\* the same name have ended: the model does not run two at once.
CreateDir ==
    /\ phase \in {"none", "deleted"} /\ Running = {}
    /\ Spend("creates")
    /\ table' \in Tables
    /\ dir' = TRUE
    /\ phase' = "mkdir"
    /\ lost' = {} /\ torn' = FALSE /\ outlived' = FALSE
    /\ UNCHANGED <<config, processing, maps, fields, save>>

CreateConfig ==
    /\ phase = "mkdir"
    /\ config' = {}
    /\ phase' = "config"
    /\ UNCHANGED <<table, dir, processing, maps, fields, save, ghosts, budget>>

CreateProcessing ==
    /\ phase = "config"
    /\ processing' = "C"
    /\ phase' = "created"
    /\ mapping' = {} /\ workers' = [p \in Partitions |-> Idle]
    /\ UNCHANGED <<table, dir, config, maps, fields, todo, cancelled, failed, rows,
                   deleting, ghosts, budget>>

\* A file cannot be written, or pilosa's index not be made: Create answers an
\* error and leaves what it has written.
CreateFails ==
    /\ Spend("faults")
    /\ \/ phase = "mkdir" /\ config' \in {config, {}} /\ UNCHANGED processing
       \/ phase = "config" /\ processing' \in {processing, "C"} /\ UNCHANGED config
    /\ phase' = "none"
    /\ UNCHANGED <<table, dir, maps, fields, save, ghosts>>

-----------------------------------------------------------------------------
(* Save, the goroutine that drives the others *)

SaveOpen ==
    /\ phase = "created" /\ ~deleting
    /\ processing' = "S"
    /\ phase' = "saving"
    /\ todo' = Partitions /\ cancelled' = FALSE /\ failed' = FALSE /\ rows' = 0
    /\ UNCHANGED <<table, dir, config, maps, fields, mapping, workers, deleting, ghosts, budget>>

\* The iterator delivers a partition: its mapping is entered and a goroutine
\* started, which still has to get a token.
SaveNext(p) ==
    /\ phase = "saving" /\ ~cancelled
    /\ p \in todo
    /\ todo' = todo \ {p}
    /\ mapping' = mapping \union {p}
    /\ workers' = [workers EXCEPT ![p].pc = "spawned"]
    /\ UNCHANGED <<table, disk, phase, cancelled, failed, rows, deleting, ghosts, budget>>

\* The iterator fails: the others are cancelled and waited for.
SaveNextFails ==
    /\ phase = "saving" /\ ~cancelled
    /\ Spend("faults")
    /\ cancelled' = TRUE
    /\ phase' = "aborting"
    /\ UNCHANGED <<table, disk, mapping, todo, workers, failed, rows, deleting, ghosts>>

SaveAborted ==
    /\ phase = "aborting" /\ Running = {}
    /\ phase' = "failed"
    /\ UNCHANGED <<table, disk, save, ghosts, budget>>

\* The loop finds its context done and returns.  The error of the loop shadows
\* the function's, so Save answers nil, and nobody waits for the goroutines.
SaveCancelled ==
    /\ phase = "saving" /\ cancelled
    /\ phase' = "ready"
    /\ lost' = lost \union {"cancelled"}
    /\ outlived' = (outlived \/ Running # {})
    /\ UNCHANGED <<table, disk, save, torn, budget>>

SaveDelivered ==
    /\ phase = "saving" /\ ~cancelled
    /\ todo = {}
    /\ phase' = "waiting"
    /\ UNCHANGED <<table, disk, save, ghosts, budget>>

SaveWaited ==
    /\ phase = "waiting" /\ Running = {}
    /\ IF failed THEN phase' = "failed" /\ UNCHANGED config
                 ELSE phase' = "listed" /\ config' = config \union mapping
    /\ UNCHANGED <<table, dir, processing, maps, fields, save, ghosts, budget>>

SaveDone ==
    /\ phase = "listed"
    /\ processing' = NoFile
    /\ phase' = "ready"
    /\ UNCHANGED <<table, dir, config, maps, fields, save, ghosts, budget>>

\* Save cannot write the processing file, read the configuration or write it at
\* the end, or remove the processing file: it answers an error.
SaveFails ==
    /\ Spend("faults")
    /\ \/ phase = "created" /\ ~deleting /\ processing' \in {processing, "S"}
       \/ phase = "waiting" /\ Running = {} /\ ~failed /\ UNCHANGED processing
       \/ phase = "listed" /\ UNCHANGED processing
    /\ phase' = "failed"
    /\ UNCHANGED <<table, dir, config, maps, fields, save, ghosts>>

\* The client is killed while Save runs.
Cancel ==
    /\ phase \in {"saving", "waiting"} /\ ~cancelled
    /\ cancelled' = TRUE
    /\ UNCHANGED <<table, disk, phase, mapping, todo, workers, failed, rows, deleting, ghosts,
                   budget>>

-----------------------------------------------------------------------------
(* savePartition, in the goroutine of partition p *)

\* mutant: the error is recorded without wg.Done
FailUndone(p) ==
    /\ workers' = [workers EXCEPT ![p] = [Idle EXCEPT !.pc = "stuck"]]
    /\ failed' = TRUE /\ cancelled' = TRUE

\* The goroutine ends with an error, which is recorded and cancels the others.
Fail(p) ==
    /\ workers' = [workers EXCEPT ![p] = [Idle EXCEPT !.pc = "done"]]
    /\ failed' = TRUE /\ cancelled' = TRUE

\* mutant: CreateFieldIfNotExists, so the bits of an earlier index stay
StartKeepsField(p) ==
    /\ workers[p].pc = "spawned" /\ Cardinality(Saving) < Threads
    /\ fields' = [fields EXCEPT ![p] = IF @ = NoFile THEN [bits |-> {}] ELSE @]
    /\ IF dir
       THEN LET m == IF maps[p] = NoFile THEN newMapping({Field}) ELSE maps[p]
            IN  /\ maps' = [maps EXCEPT ![p] = m]
                /\ workers' = [workers EXCEPT ![p] = [Idle EXCEPT !.pc = "loop", !.tx = m]]
                /\ UNCHANGED <<cancelled, failed>>
       ELSE Fail(p) /\ UNCHANGED maps
    /\ UNCHANGED <<table, dir, config, processing, phase, mapping, todo, rows, deleting,
                   ghosts, budget>>

\* A token is free: the field is made anew and the mapping opened, which fails
\* once the directory is gone.
Start(p) ==
    /\ workers[p].pc = "spawned" /\ Cardinality(Saving) < Threads
    /\ fields' = [fields EXCEPT ![p] = [bits |-> {}]]
    /\ IF dir
       THEN LET m == IF maps[p] = NoFile THEN newMapping({Field}) ELSE maps[p]
            IN  /\ maps' = [maps EXCEPT ![p] = m]
                /\ workers' = [workers EXCEPT ![p] = [Idle EXCEPT !.pc = "loop", !.tx = m]]
                /\ UNCHANGED <<cancelled, failed>>
       ELSE Fail(p) /\ UNCHANGED maps
    /\ UNCHANGED <<table, dir, config, processing, phase, mapping, todo, rows, deleting,
                   ghosts, budget>>

AtBatch(w) == w.col % IndexBatchSize = 0 /\ w.col # 0

\* The field on disk after the bits of a batch have been imported.
Imported(p) ==
    IF fields[p] = NoFile THEN fields
    ELSE [fields EXCEPT ![p].bits = @ \union workers[p].bits]

\* The mapping on disk after the transaction: the file may have been removed.
Committed(p) ==
    IF maps[p] = NoFile THEN maps ELSE [maps EXCEPT ![p] = workers[p].tx]

\* savePilosa of a whole batch in the loop, or of the rest after it.
SaveBits(p) ==
    /\ \/ workers[p].pc = "loop" /\ AtBatch(workers[p])
          /\ workers' = [workers EXCEPT ![p].pc = "commit", ![p].bits = {}]
       \/ workers[p].pc = "rest"
          /\ workers' = [workers EXCEPT ![p].pc = "last", ![p].bits = {}]
    /\ fields' = Imported(p)
    /\ UNCHANGED <<table, dir, config, processing, maps, phase, mapping, todo, cancelled,
                   failed, rows, deleting, ghosts, budget>>

\* The import fails: in the loop the transaction is rolled back, after it the
\* deferred function commits what it has.
SaveBitsFails(p) ==
    /\ \/ workers[p].pc = "loop" /\ AtBatch(workers[p]) /\ UNCHANGED maps
       \/ workers[p].pc = "rest" /\ maps' = Committed(p)
    /\ Spend("faults")
    /\ Fail(p)
    /\ UNCHANGED <<table, dir, config, processing, fields, phase, mapping, todo, rows, deleting,
                   ghosts>>

saveMapping(p) ==
    /\ workers[p].pc \in {"commit", "last"}
    /\ maps' = Committed(p)
    /\ workers' = [workers EXCEPT ![p] =
                     IF @.pc = "commit" THEN [@ EXCEPT !.pc = "read"]
                                        ELSE [Idle EXCEPT !.pc = "done"]]
    /\ UNCHANGED <<table, dir, config, processing, fields, phase, mapping, todo, cancelled,
                   failed, rows, deleting, ghosts, budget>>

\* The commit fails.  The error of the last one is assigned after the result has
\* been set, so the partition counts as saved.
saveMappingFails(p) ==
    /\ Spend("faults")
    /\ \/ workers[p].pc = "commit" /\ Fail(p) /\ UNCHANGED lost
       \/ /\ workers[p].pc = "last"
          /\ workers' = [workers EXCEPT ![p] = [Idle EXCEPT !.pc = "done"]]
          /\ lost' = lost \union {"commit"}
          /\ UNCHANGED <<cancelled, failed>>
    /\ UNCHANGED <<table, disk, phase, mapping, todo, rows, deleting, torn, outlived>>

AtRead(p) ==
    workers[p].pc = "read" \/ (workers[p].pc = "loop" /\ ~AtBatch(workers[p]))

\* The context is done: roll back.
ReadCancelled(p) ==
    /\ AtRead(p) /\ cancelled
    /\ Fail(p)
    /\ UNCHANGED <<table, disk, phase, mapping, todo, rows, deleting, ghosts, budget>>

\* The logging iterator counts the call in a counter that all partitions share
\* without a lock: an increment is lost when two of them meet.
Counts(p) ==
    {(rows + 1) % IndexBatchSize} \union (IF Saving # {p} THEN {rows} ELSE {})

\* A row: its value is numbered and its bit added unless it is NULL, and its
\* location is put under the next column.
ReadRow(p) ==
    /\ AtRead(p) /\ ~cancelled
    /\ LET w == workers[p]
           v == table[p][w.col + 1]
           m == IF v = Null THEN w.tx ELSE getRowID(w.tx, Field, v)
           bit == IF v = Null THEN {} ELSE {<<rowIDOf(w.tx, Field, v), w.col>>}
       IN  /\ w.col < Len(table[p])
           /\ workers' = [workers EXCEPT ![p] =
                            [pc |-> "loop", col |-> w.col + 1, bits |-> w.bits \union bit,
                             tx |-> putLocation(m, w.col, w.col + 1)]]
    /\ rows' \in Counts(p)
    /\ UNCHANGED <<table, disk, phase, mapping, todo, cancelled, failed, deleting, ghosts,
                   budget>>

\* The end of the partition, or an error: the loop's variable shadows the
\* function's, so either ends it as the end does.  At a multiple of the batch
\* size the logging iterator has just dropped its span (ReadPanics).
ReadEnd(p) ==
    /\ AtRead(p) /\ ~cancelled
    /\ rows' \in Counts(p) \ {0}
    /\ \/ workers[p].col = Len(table[p]) /\ UNCHANGED <<lost, budget>>
       \/ /\ workers[p].col < Len(table[p])
          /\ Spend("faults")
          /\ lost' = lost \union {"read"}
    /\ workers' = [workers EXCEPT ![p].pc = "rest"]
    /\ UNCHANGED <<table, disk, phase, mapping, todo, cancelled, failed, deleting, torn,
                   outlived>>

-----------------------------------------------------------------------------
(* Crash and LoadAll *)

\* What a crash leaves: the disk.  A configuration without a processing file is
\* what a finished index looks like.
Down ==
    /\ phase' = "down"
    /\ mapping' = {} /\ todo' = {} /\ cancelled' = FALSE /\ failed' = FALSE /\ rows' = 0
    /\ workers' = [p \in Partitions |-> Idle] /\ deleting' = FALSE
    /\ lost' = lost \ {"cancelled"}
    /\ torn' = (torn \/ /\ phase \notin {"ready", "down"}
                        /\ config # NoFile /\ processing = NoFile)
    /\ outlived' = FALSE
    /\ UNCHANGED <<table, disk>>

\* The logging iterator gets an error from the table right after it has dropped
\* its span, and logs it to no span: the program panics.
ReadPanics(p) ==
    /\ AtRead(p) /\ ~cancelled
    /\ 0 \in Counts(p)
    /\ IF workers[p].col = Len(table[p]) THEN UNCHANGED budget ELSE Spend("faults")
    /\ Down

Crash ==
    /\ phase # "down"
    /\ Spend("crashes")
    /\ Down

\* loadIndex: without a configuration the directory is left alone; with a
\* processing file it is removed; otherwise the index is offered, with the
\* mappings that the configuration lists and the disk has.
LoadAll ==
    /\ phase = "down"
    /\ IF config = NoFile THEN phase' = "none" /\ UNCHANGED mapping
       ELSE IF processing # NoFile THEN phase' = "cleaning" /\ UNCHANGED mapping
       ELSE phase' = "ready" /\ mapping' = {p \in config : maps[p] # NoFile}
    /\ UNCHANGED <<table, disk, todo, workers, cancelled, failed, rows, deleting, ghosts,
                   budget>>

-----------------------------------------------------------------------------
(* Delete *)

\* Delete cancels the context of the Save that runs or ran in this process.
DeleteCall ==
    /\ phase \in {"created", "saving", "aborting", "waiting", "listed", "ready", "failed"}
    /\ ~deleting
    /\ deleting' = TRUE
    /\ cancelled' = TRUE
    /\ UNCHANGED <<table, disk, phase, mapping, todo, workers, failed, rows, ghosts, budget>>

\* mutant: Save is cancelled and not waited for
DeleteDoesNotWait ==
    /\ deleting /\ phase \in {"created", "saving", "waiting", "ready", "failed"}
    /\ phase' = "removing"
    /\ UNCHANGED <<table, disk, save, ghosts, budget>>

\* It waits for Save to return, which is not to wait for Save's goroutines.
DeleteWaited ==
    /\ deleting /\ phase \in {"created", "ready", "failed"}
    /\ phase' = "removing"
    /\ UNCHANGED <<table, disk, save, ghosts, budget>>

\* RemoveAll, one file, or the directory when it is empty.
RemoveFile ==
    /\ phase \in {"removing", "cleaning"} /\ dir
    /\ \/ config' = NoFile /\ config # NoFile /\ UNCHANGED <<dir, processing, maps>>
       \/ processing' = NoFile /\ processing # NoFile /\ UNCHANGED <<dir, config, maps>>
       \/ /\ \E p \in Partitions : maps[p] # NoFile /\ maps' = [maps EXCEPT ![p] = NoFile]
          /\ UNCHANGED <<dir, config, processing>>
       \/ /\ config = NoFile /\ processing = NoFile
          /\ \A p \in Partitions : maps[p] = NoFile
          /\ dir' = FALSE /\ UNCHANGED <<config, processing, maps>>
    /\ UNCHANGED <<table, fields, phase, save, ghosts, budget>>

\* The directory is gone: LoadAll goes on, Delete deletes the fields.
Removed ==
    /\ phase \in {"removing", "cleaning"} /\ ~dir
    /\ IF phase = "cleaning"
       THEN phase' = "none" /\ UNCHANGED <<fields, mapping>>
       ELSE /\ phase' = "deleted"
            /\ fields' = [p \in Partitions |-> NoFile]
            /\ mapping' = {}
    /\ deleting' = FALSE
    /\ UNCHANGED <<table, dir, config, processing, maps, todo, workers, cancelled, failed,
                   rows, ghosts, budget>>

\* A file or a field cannot be removed, or the partitions not be read: LoadAll
\* logs it and goes on, Delete answers an error, and the rest stays.
RemoveFails ==
    /\ phase \in {"removing", "cleaning"}
    /\ Spend("faults")
    /\ phase' = "none"
    /\ \E ps \in SUBSET Partitions :
         /\ dir \/ phase = "cleaning" => ps = {}
         /\ fields' = [p \in Partitions |-> IF p \in ps THEN NoFile ELSE fields[p]]
         /\ mapping' = mapping \ ps
    /\ deleting' = FALSE
    /\ UNCHANGED <<table, dir, config, processing, maps, todo, workers, cancelled, failed,
                   rows, ghosts>>

-----------------------------------------------------------------------------
SaveStep ==
    \/ \E p \in Partitions : SaveNext(p)
    \/ SaveOpen \/ SaveCancelled \/ SaveDelivered \/ SaveWaited \/ SaveAborted \/ SaveDone

Worker(p) ==
    \/ Start(p) \/ SaveBits(p) \/ saveMapping(p)
    \/ ReadCancelled(p) \/ ReadRow(p) \/ ReadEnd(p) \/ ReadPanics(p)

Fault ==
    \/ CreateFails \/ SaveNextFails \/ SaveFails \/ RemoveFails \/ Cancel \/ Crash
    \/ \E p \in Partitions : SaveBitsFails(p) \/ saveMappingFails(p)

DeleteStep == DeleteWaited \/ RemoveFile \/ Removed

Next ==
    \/ CreateDir \/ CreateConfig \/ CreateProcessing
    \/ SaveStep \/ (\E p \in Partitions : Worker(p))
    \/ LoadAll \/ DeleteCall \/ DeleteStep
    \/ Fault

\* Save, its goroutines, Delete and LoadAll run until they return; nobody has to
\* create or delete an index.
Fairness ==
    /\ WF_vars(SaveStep) /\ WF_vars(DeleteStep) /\ WF_vars(LoadAll)
    /\ \A p \in Partitions : WF_vars(Worker(p))

Spec == Init /\ [][Next]_vars /\ Fairness

-----------------------------------------------------------------------------
(* What an index answers *)

\* indexLookup.values answers an error when the partition has no mapping, no
\* field or no bucket for the values of the field.
LookupFails(p) ==
    \/ p \notin mapping \/ maps[p] = NoFile \/ fields[p] = NoFile
    \/ maps[p].ids[Field] = NoBucket

\* Otherwise it answers the locations of the columns whose bit is set in the row
\* of the key.
Lookup(p, v) ==
    locations(maps[p], {b[2] : b \in {x \in fields[p].bits : x[1] \in rowID(maps[p], Field, v)}})

RowsWith(p, v) == {i \in 1 .. Len(table[p]) : table[p][i] = v}

-----------------------------------------------------------------------------
(* Properties *)

\* An index that is offered, because Save answered nil or because LoadAll found it
\* on disk after any crash, finds in every partition exactly the rows that hold
\* the key; it fails only where the partition holds nothing but NULL.  The code
\* has these exceptions: a Save that was cancelled (until the next restart), a
\* read of the table or a last commit that failed without being noticed, and a
\* configuration without its processing file that a restart finds, because a crash
\* or an error ended Create before it wrote the second file, or a removal after it
\* had removed it.
OfferedAnswers ==
    phase = "ready" /\ lost = {} /\ ~torn =>
        \A p \in Partitions, v \in Values :
            IF LookupFails(p) THEN \A i \in DOMAIN table[p] : table[p][i] = Null
                              ELSE Lookup(p, v) = RowsWith(p, v)

\* A deleted index has left nothing behind, in its directory or in pilosa, and
\* stays away whatever the goroutines of its Save still do, unless Save had
\* returned before they ended.
DeletedLeavesNothing ==
    phase = "deleted" /\ ~outlived =>
        /\ ~dir /\ Running = {}
        /\ \A p \in Partitions : maps[p] = NoFile /\ fields[p] = NoFile

\* Save returns whatever fails or is cancelled, and so does the Delete that waits
\* for it, with an error or without, unless the process crashes.
CallsReturn ==
    /\ phase = "saving" ~> phase \in {"ready", "failed", "down", "removing"}
    /\ deleting ~> ~deleting
-----------------------------------------------------------------------------
(* What makes these inductive *)

Phases ==
    {"none", "mkdir", "config", "created", "saving", "aborting", "waiting", "listed", "ready",
     "failed", "removing", "cleaning", "deleted", "down"}
Opened == {"loop", "commit", "read", "rest", "last"}    \* it has opened the mapping
Workers ==
    [pc : Opened \union {"idle", "spawned", "done"}, col : Nat, bits : SUBSET Bits,
     tx : Mappings \union {NoFile}]

TypeOK ==
    /\ table \in Tables /\ dir \in BOOLEAN
    /\ config \in (SUBSET Partitions) \union {NoFile} /\ processing \in {NoFile, "C", "S"}
    /\ maps \in [Partitions -> Mappings \union {NoFile}]
    /\ fields \in [Partitions -> Fields \union {NoFile}]
    /\ phase \in Phases
    /\ mapping \subseteq Partitions /\ todo \subseteq Partitions
    /\ workers \in [Partitions -> Workers]
    /\ \A p \in Partitions : workers[p].pc \in Opened => workers[p].tx \in Mappings
    /\ {cancelled, failed, deleting, torn, outlived} \subseteq BOOLEAN
    /\ lost \subseteq {"cancelled", "read", "commit"}

\* Nobody runs outside of a Save, unless it has outlived a cancelled one.
WorkersWaited ==
    /\ Running = {} \/ outlived \/ phase \in {"saving", "aborting", "waiting"}
    /\ outlived => "cancelled" \in lost
    /\ "cancelled" \in lost => phase \in {"ready", "removing", "deleted", "none"}

\* The files are in the directory, which is there while an index is being made.
FilesInDir ==
    /\ ~dir => config = NoFile /\ processing = NoFile /\ \A p \in Partitions : maps[p] = NoFile
    /\ phase \in {"mkdir", "config", "created", "saving", "aborting", "waiting"} => dir
    /\ phase = "deleted" => ~dir /\ (~outlived => \A p \in Partitions : fields[p] = NoFile)

\* What the two marks on disk say of the index.
Marks ==
    /\ phase \in {"config", "created", "saving", "waiting"} => config = {}
    /\ phase \in {"created", "saving", "aborting", "waiting", "listed", "failed"}
         => processing # NoFile
    /\ phase = "ready" => ("cancelled" \in lost <=> processing # NoFile)

\* Every partition that the iterator has delivered has its goroutine.
Delivered ==
    /\ phase = "created" =>
         mapping = {} /\ \A p \in Partitions : workers[p].pc = "idle"
    /\ phase \in {"saving", "waiting"} =>
         /\ mapping \union todo = Partitions
         /\ \A p \in mapping : workers[p].pc # "idle"
         /\ \A p \in todo : workers[p].pc = "idle"
    /\ phase = "waiting" => todo = {}

\* The mapping m and the bits B describe the first k rows of a partition that holds t.
Copied(t, m, B, k) ==
    /\ k <= Len(t) /\ k <= Len(Bucket(m.locs))
    /\ \A i \in 1..k : Bucket(m.locs)[i] = i
    /\ \A b \in B : /\ b[2] < k /\ t[b[2] + 1] # Null
                    /\ b[1] \in rowID(m, Field, t[b[2] + 1])
    /\ \A i \in 1..k : t[i] # Null => \E b \in B : b[2] = i - 1

Complete(p) ==
    /\ maps[p] # NoFile /\ fields[p] # NoFile
    /\ Copied(table[p], maps[p], fields[p].bits, Len(table[p]))

\* A goroutine has described the rows it has read, and a partition that is done
\* without an error is complete.
Worked(p) ==
    LET w == workers[p] IN
    /\ w.pc \in Opened =>
         /\ maps[p] # NoFile /\ fields[p] # NoFile
         /\ Copied(table[p], w.tx, fields[p].bits \union w.bits, w.col)
    /\ w.pc \in {"commit", "last"} => w.bits = {}
    /\ w.pc \in {"rest", "last"} => w.col = Len(table[p])
    /\ w.pc = "done" /\ ~failed => Complete(p)

Work == phase \in {"saving", "waiting"} /\ lost = {} => \A p \in Partitions : Worked(p)

\* What Save has listed is complete, and remains so on disk.
Listed ==
    /\ phase \in {"listed", "ready"} \/ (phase = "down" /\ config # NoFile /\ processing = NoFile)
    /\ lost = {} /\ ~torn
    => /\ config = Partitions /\ \A p \in Partitions : Complete(p)
       /\ phase # "down" => mapping = Partitions

DriverInv == WorkersWaited /\ FilesInDir /\ Marks /\ Delivered /\ Work /\ Listed
=============================================================================
