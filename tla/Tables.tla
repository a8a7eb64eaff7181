------------------------------- MODULE Tables -------------------------------
(***************************************************************************)
(* The control-plane tables of one tenant, and what a transaction on them  *)
(* may write.  A row is a record with its table's name; the tables are one *)
(* function from row ids to rows.  A request reads committed rows (READ    *)
(* COMMITTED), changes the objects it loaded, and sends the changes in one *)
(* flush: an INSERT or DELETE, or an UPDATE that names only the columns    *)
(* whose value differs from the one loaded.                                *)
(***************************************************************************)
EXTENDS Naturals, FiniteSets

CONSTANT None      \* Python's None, SQL's NULL

NoWrites == <<>>

Insert(i, row) == [j \in {i} |-> [verb |-> "insert", set |-> row]]
Delete(S) == [i \in S |-> [verb |-> "delete", set |-> <<>>]]

\* setattr on a loaded object: an assignment that changes nothing is not sent.
Assign(rows, i, values) ==
    LET changed == {c \in DOMAIN values : rows[i][c] # values[c]}
    IN  IF changed = {} THEN NoWrites
        ELSE [j \in {i} |-> [verb |-> "update", set |-> [c \in changed |-> values[c]]]]

Sent(writes, verb) == {i \in DOMAIN writes : writes[i].verb = verb}

\* Foreign keys with ON DELETE CASCADE: a tile's dashboard and its chart.
Parents(row) == IF row.table = "tile" THEN {row.board, row.chart} \ {None} ELSE {}
Cascaded(rows, gone) == {i \in DOMAIN rows : Parents(rows[i]) \cap gone # {}}

Updated(row, set) ==
    [c \in DOMAIN row \cup DOMAIN set |-> IF c \in DOMAIN set THEN set[c] ELSE row[c]]

\* The tables once the writes are committed, and what their writer sees before.
Applied(rows, writes) ==
    LET gone == Sent(writes, "delete")
        left == (DOMAIN rows \cup Sent(writes, "insert")) \ (gone \cup Cascaded(rows, gone))
    IN  [i \in left |->
            CASE i \notin DOMAIN writes -> rows[i]
              [] i \notin DOMAIN rows   -> writes[i].set
              [] OTHER                  -> Updated(rows[i], writes[i].set)]

Emails(writes) == {writes[i].set.email : i \in {j \in Sent(writes, "insert") :
                                                   writes[j].set.table = "user"}}

\* What PostgreSQL and the unit of work accept: an updated row is still there
\* (StaleDataError), a new one's parents exist, a new user's email is free.
Accepted(rows, writes) ==
    /\ Sent(writes, "update") \subseteq DOMAIN rows
    /\ \A i \in Sent(writes, "insert") : Parents(writes[i].set) \subseteq DOMAIN rows
    /\ \A i \in DOMAIN rows : rows[i].table = "user" => rows[i].email \notin Emails(writes)

\* Writes v have to wait for the uncommitted writes w if they touch a row of
\* theirs, remove a parent of a new row or the other way round, or claim an
\* email that w claims.
Locked(rows, w) == DOMAIN w \cup Cascaded(rows, Sent(w, "delete"))
Referenced(w) == UNION {Parents(w[i].set) : i \in Sent(w, "insert")}

(* Mutant: an INSERT takes no lock on the rows it refers to.               *)
WaitsForRows(rows, v, w) ==
    \/ Locked(rows, v) \cap Locked(rows, w) # {}
    \/ Emails(v) \cap Emails(w) # {}

Waits(rows, v, w) ==
    \/ Locked(rows, v) \cap Locked(rows, w) # {}
    \/ Sent(v, "delete") \cap Referenced(w) # {}
    \/ Sent(w, "delete") \cap Referenced(v) # {}
    \/ Emails(v) \cap Emails(w) # {}
=============================================================================
