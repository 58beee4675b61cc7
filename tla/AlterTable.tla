----------------------------- MODULE AlterTable -----------------------------
(***************************************************************************)
(* ALTER TABLE on an in-memory table: the statements of sql/plan/ddl.go    *)
(* and the methods AddColumn, DropColumn and ModifyColumn of               *)
(* memory/table.go.                                                        *)
(*                                                                         *)
(* A column is its name and an id that stays with it when it is renamed or *)
(* modified; a stored value is the id of the column it was stored for.     *)
(* The statements look columns up by lower-cased names, the table compares *)
(* the names as they are.                                                  *)
(***************************************************************************)
EXTENDS Integers, Sequences, FiniteSets, SequencesExt, FiniteSetsExt

CONSTANTS
  Names,     \* column names
  Lower,     \* strings.ToLower on Names
  MaxRows,   \* rows inserted in a behaviour
  MaxAlters  \* statements in a behaviour

ASSUME LowerAssumption == Lower \in [Names -> Names] /\ MaxAlters \in Nat

VARIABLES
  schema,   \* t.schema
  rows,     \* the rows of the partitions
  nextId,   \* the id of the next new column
  panicked, \* an index was out of range, or a nil column was dereferenced
  alters,   \* statements carried out
  done      \* history: what statements there were, and "odd" if one was not Plain

vars == <<schema, rows, nextId, panicked, alters, done>>

\* The slot of a schema that was made too long and not filled
NilColumn == [name |-> "nil", id |-> 0]
Column(name, id) == [name |-> name, id |-> id]
NamesOf(sch) == {sch[k].name : k \in DOMAIN sch}

\* sql.ColumnOrder: nil, First or AfterColumn
NoOrder == [kind |-> "nil", column |-> "none"]
Orders == {NoOrder, [kind |-> "first", column |-> "none"]}
            \cup {[kind |-> "after", column |-> n] : n \in Names}

Init ==
  /\ schema \in {<<Column(n, 1), Column(m, 2)>> : n, m \in Names}
  /\ Lower[schema[1].name] # Lower[schema[2].name]
  /\ rows = <<>> /\ nextId = 3 /\ panicked = FALSE /\ alters = 0 /\ done = {}

-----------------------------------------------------------------------------
(***************************************************************************)
(* The table                                                               *)
(***************************************************************************)
\* mutant: the column goes before the one it should follow
PlacesBefore(sch, order) ==
  CASE order.kind = "first" -> {0}
    [] order.kind = "after" -> {k - 1 : k \in {j \in DOMAIN sch : sch[j].name = order.column}}
    [] order.kind = "nil" -> {Len(sch)} \ {0}

\* the columns after which AddColumn writes the new one, 0 for the front
Places(sch, order) ==
  CASE order.kind = "first" -> {0}
    [] order.kind = "after" -> {k \in DOMAIN sch : sch[k].name = order.column}
    [] order.kind = "nil" -> {Len(sch)} \ {0}

\* mutant: the value goes to the end of the row
AppendValueToRows(k, val) == [r \in DOMAIN rows |-> Append(rows[r], val)]

InsertValueInRows(k, val) == [r \in DOMAIN rows |-> InsertAt(rows[r], k + 1, val)]

\* Table.AddColumn: newSch has one slot more than the schema.  It stays nil, and
\* newColIdx 0, when the column is written nowhere; a column that is written twice
\* runs past its end.
TableAddColumn(sch, col, order) ==
  LET at == Places(sch, order) IN
  \/ \E k \in at :
       /\ at = {k}
       /\ schema' = InsertAt(sch, k + 1, col) /\ rows' = InsertValueInRows(k, col.id)
       /\ UNCHANGED panicked
  \/ /\ at = {}
     /\ schema' = Append(sch, NilColumn) /\ rows' = InsertValueInRows(0, col.id)
     /\ UNCHANGED panicked
  \/ /\ \E j, k \in at : j # k
     /\ panicked' = TRUE /\ schema' = sch /\ UNCHANGED rows

\* a new schema of n slots, filled from the front with the columns of other names;
\* the slots that are left stay nil
Others(sch, name, n) ==
  LET kept == {k \in DOMAIN sch : sch[k].name # name}
      nth(i) == {k \in kept : Cardinality({j \in kept : j <= k}) = i}
  IN [i \in 1..n |-> IF nth(i) = {} THEN NilColumn ELSE sch[Min(nth(i))]]

\* mutant: newSch is made as long as the schema
DroppedHole(sch, name) == Others(sch, name, Len(sch))

\* Table.DropColumn leaves the rows alone
Dropped(sch, name) == Others(sch, name, Len(sch) - 1)

\* the order that Table.ModifyColumn works out when none is given
OrderFor(name, order) ==
  LET at == SelectInSeq(schema, LAMBDA c : c.name = name)
  IN CASE order.kind # "nil" -> order
       [] order.kind = "nil" /\ at <= 1 -> [kind |-> "first", column |-> "none"]
       [] OTHER -> [kind |-> "after", column |-> schema[at - 1].name]

\* Table.ModifyColumn: DropColumn, whose new schema is too short when no column has
\* the name, then AddColumn
TableModifyColumn(name, col, order) ==
  IF name \notin NamesOf(schema)
  THEN panicked' = TRUE /\ UNCHANGED <<schema, rows>>
  ELSE TableAddColumn(Dropped(schema, name), col, OrderFor(name, order))

-----------------------------------------------------------------------------
(***************************************************************************)
(* The statements                                                          *)
(***************************************************************************)
Ready == alters < MaxAlters /\ ~panicked
HasNil == NilColumn \in Range(schema)

\* Schema.IndexOf
IndexOf(name) == SelectInSeq(schema, LAMBDA c : Lower[c.name] = Lower[name])

Statement(op, plain) ==
  /\ Ready /\ alters' = alters + 1
  /\ done' = done \cup {op} \cup (IF plain THEN {} ELSE {"odd"})

\* A plain statement spells a column that it refers to as the schema spells it, uses
\* a new name for a new column, and does not place a column after itself
Spelt(name) == name \in NamesOf(schema)
SpeltOrder(order) == order.kind = "after" => Spelt(order.column)
Fresh(name) == \A n \in NamesOf(schema) : Lower[n] # Lower[name]

AddColumn(name, order) ==
  /\ HasNil => order.kind = "nil"
  /\ order.kind = "after" => IndexOf(order.column) # 0
  /\ Statement("add", ~HasNil /\ SpeltOrder(order) /\ Fresh(name))
  /\ TableAddColumn(schema, Column(name, nextId), order)
  /\ nextId' = nextId + 1

DropColumn(name) ==
  /\ ~HasNil
  /\ name \in NamesOf(schema)
  /\ Statement("drop", Len(schema) > 1)
  /\ schema' = Dropped(schema, name)
  /\ UNCHANGED <<rows, nextId, panicked>>

RenameColumn(name, new) ==
  /\ ~HasNil
  /\ IndexOf(name) # 0
  /\ Statement("rename", Spelt(name) /\ Fresh(new))
  /\ TableModifyColumn(name, Column(new, schema[IndexOf(name)].id), NoOrder)
  /\ UNCHANGED nextId

ModifyColumn(name, new, order) ==
  /\ ~HasNil
  /\ IndexOf(name) # 0
  /\ order.kind = "after" => IndexOf(order.column) # 0
  /\ Statement("modify", /\ Spelt(name) /\ SpeltOrder(order)
                         /\ order.column # name
                         /\ new = name \/ Fresh(new))
  /\ TableModifyColumn(name, Column(new, schema[IndexOf(name)].id), order)
  /\ UNCHANGED nextId

\* every statement but ADD COLUMN without an order goes over the columns of the
\* schema and dereferences a nil one
NilDereference ==
  /\ Ready /\ HasNil
  /\ panicked' = TRUE /\ Statement("any", FALSE)
  /\ UNCHANGED <<schema, rows, nextId>>

\* tableEditor.Insert takes a row that has the length of the schema
InsertRow ==
  /\ ~panicked /\ ~HasNil /\ schema # <<>>
  /\ Len(rows) < MaxRows
  /\ rows' = Append(rows, [k \in DOMAIN schema |-> schema[k].id])
  /\ UNCHANGED <<schema, nextId, panicked, alters, done>>

Next ==
  \/ \E n \in Names, o \in Orders : AddColumn(n, o)
  \/ \E n \in Names : DropColumn(n)
  \/ \E n, m \in Names : RenameColumn(n, m)
  \/ \E n, m \in Names, o \in Orders : ModifyColumn(n, m, o)
  \/ NilDereference
  \/ InsertRow

Spec == Init /\ [][Next]_vars

-----------------------------------------------------------------------------
(***************************************************************************)
(* Properties                                                              *)
(***************************************************************************)
Columns(n) == [name : Names, id : 1..n]
Statements == {"add", "drop", "rename", "modify", "any", "odd"}

\* A schema is a sequence of columns with names and ids; rows hold ids.
TypeOK ==
  /\ nextId \in Nat \ {0}
  /\ schema \in Seq(Columns(nextId - 1) \cup {NilColumn})
  /\ rows \in Seq(Seq(Nat))
  /\ panicked \in BOOLEAN /\ alters \in 0..MaxAlters /\ done \subseteq Statements

\* Whatever is altered, no stored row is shorter than the schema, so a query that
\* takes the value of a column by its position does not run past the end of a row;
\* and as long as columns have only been added, a row has a value for each column,
\* at the position at which the schema has it, and no others (Table.AddColumn
\* changes the rows together with the schema, wherever the column goes).
RowsMatchSchema ==
  \A r \in DOMAIN rows :
    /\ Len(rows[r]) >= Len(schema)
    /\ done \subseteq {"add"} => rows[r] = [k \in DOMAIN schema |-> schema[k].id]

\* Plain statements that add, drop, rename and move columns never leave a hole or
\* two columns of one name in the schema, and never panic.
SchemaIntact ==
  "odd" \notin done =>
    /\ ~panicked /\ ~HasNil
    /\ \A j, k \in DOMAIN schema : Lower[schema[j].name] = Lower[schema[k].name] => j = k

Ids(sch) == [k \in DOMAIN sch |-> sch[k].id]

OrderKept(n, o) ==
  LET added == nextId' # nextId
      id == IF added THEN nextId ELSE schema[IndexOf(n)].id
      at == SelectInSeq(schema', LAMBDA c : c.id = id)
  IN /\ at # 0
     /\ IF o.kind = "first" THEN at = 1
        ELSE at > 1 /\ schema'[at - 1].name = o.column
     /\ RemoveAt(schema', at) = IF added THEN schema ELSE RemoveAt(schema, IndexOf(n))

\* A column that is added or moved with an order comes first or directly after the
\* column that was named, and all others keep their order (Table.AddColumn); one
\* that is renamed, or modified without an order, keeps its place, although the
\* table drops it and adds it again (Table.ModifyColumn).
ColumnsKeepPlaces ==
  [][\A n, m \in Names : "odd" \notin done' =>
       /\ RenameColumn(n, m) \/ ModifyColumn(n, m, NoOrder) => Ids(schema') = Ids(schema)
       /\ \A o \in Orders \ {NoOrder} :
            AddColumn(n, o) \/ ModifyColumn(n, m, o) => OrderKept(n, o)]_vars
-----------------------------------------------------------------------------
(***************************************************************************)
(* What makes these inductive                                              *)
(***************************************************************************)
Distinct(sch) ==
  \A j, k \in DOMAIN sch :
    j # k => Lower[sch[j].name] # Lower[sch[k].name] /\ sch[j].id # sch[k].id

\* After plain statements the schema has a column in every slot, at least one, and no
\* two that the statements could take for each other
PlainSchema ==
  "odd" \notin done =>
    /\ ~panicked /\ schema # <<>>
    /\ schema \in Seq(Columns(nextId - 1)) /\ Distinct(schema)
=============================================================================
