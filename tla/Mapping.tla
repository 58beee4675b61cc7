------------------------------ MODULE Mapping ------------------------------
(***************************************************************************)
(* The bolt database a pilosa index keeps for one partition                *)
(* (sql/index/pilosa/mapping.go), as a value.  One bucket per field        *)
(* numbers the values of that field in the order in which they were met,   *)
(* from 1; one bucket holds the location of every column, numbered from 0. *)
(* A bucket exists from the first value that is put into it.               *)
(***************************************************************************)
EXTENDS Naturals, Sequences

CONSTANT NoBucket   \* the bucket that does not exist

\* A database just created by bolt.Open for the fields of an index.
newMapping(fields) == [ids |-> [f \in fields |-> NoBucket], locs |-> NoBucket]

Bucket(b) == IF b = NoBucket THEN <<>> ELSE b

Positions(s, v) == {i \in 1 .. Len(s) : s[i] = v}

\* The number of a value in the field's bucket: a new one gets the next of the
\* bucket's sequence, an old one keeps its own.
rowIDOf(m, f, v) ==
    LET ids == Bucket(m.ids[f])
    IN  IF Positions(ids, v) # {} THEN CHOOSE i \in Positions(ids, v) : TRUE
                                  ELSE Len(ids) + 1

\* getRowID: the database after the value has been numbered.
getRowID(m, f, v) ==
    LET ids == Bucket(m.ids[f])
    IN  IF Positions(ids, v) # {} THEN m
        ELSE [m EXCEPT !.ids[f] = Append(ids, v)]

\* putLocation of column col: columns are met in order, and a column that a
\* database already holds is written over.
putLocation(m, col, loc) ==
    LET locs == Bucket(m.locs)
    IN  [m EXCEPT !.locs = IF col < Len(locs) THEN [locs EXCEPT ![col + 1] = loc]
                                              ELSE Append(locs, loc)]

\* rowID: the numbers a key stands for, none when the value was never met (the
\* code's io.EOF).  The field's bucket has to exist.
rowID(m, f, v) == Positions(Bucket(m.ids[f]), v)

\* getMaxRowID: the bucket's sequence, 0 without a bucket.
getMaxRowID(m, f) == Len(Bucket(m.ids[f]))

\* filter: the numbers of the values that pass, none without a bucket.
filter(m, f, pass) == {i \in 1 .. getMaxRowID(m, f) : m.ids[f][i] \in pass}

\* getLocation, sortedLocations: the locations of a set of columns.
locations(m, cols) == {Bucket(m.locs)[c + 1] : c \in cols}
============================================================================
