---------------------------- MODULE SqlValidator ----------------------------
(***************************************************************************)
(* The gate between generated SQL and ClickHouse (ai/nl_sql/validator.py). *)
(* A generated text is [form, tables, limit, tail]: what it parses to, the *)
(* tables its one SELECT names (in joins, CTE bodies and subqueries too),  *)
(* its LIMIT (or None) and whether it ends in a SETTINGS, INTO or FORMAT   *)
(* clause.  A LIMIT is [reads, lets]: the number the validator reads in it *)
(* (None when it reads none) and the rows it lets through.  The name of an *)
(* operator node is that of its left operand, and what follows the number  *)
(* is not looked at: "5 + 100000", "1 BY c" and "1 WITH TIES" are read as  *)
(* 5 and 1, and let more through.                                          *)
(***************************************************************************)
EXTENDS Outcomes, Integers

CONSTANTS
    TenantDb,        \* the tenant's ClickHouse database
    GovernedTables   \* the words of the governed physical tables

\* Forms that never pass: the refusal sentinel, text that does not parse, no
\* statement or several, a write, and a query that is not a plain SELECT.
RefusedForms ==
    {"unsatisfiable", "unparsable", "empty", "several", "write", "union"}

\* Every table is a plain one (no table function), of the tenant's database
\* or unqualified, and governed; names compare without case.
TablesGoverned(tables) ==
    \A t \in tables : /\ ~t.function
                      /\ t.db \in {"", TenantDb}
                      /\ t.word \in GovernedTables

Plain(n) == [reads |-> n, lets |-> n]
IsPlain(limit) == limit.reads = limit.lets

(* Mutant: a LIMIT that is there is kept.                                  *)
KeepLimit(sql, max) ==
    [sql EXCEPT !.limit = IF @ = None THEN Plain(max) ELSE @, !.tail = FALSE]

\* A LIMIT read as at most the cap is left as it is; any other, and a missing
\* one, becomes the cap; trailing clauses are removed.
WithinCap(limit, max) == limit # None /\ limit.reads \in 0..max

EnforceRowCap(sql, max) ==
    [sql EXCEPT !.limit = IF WithinCap(@, max) THEN @ ELSE Plain(max),
                !.tail = FALSE]

\* Text that the tokenizer already rejects raises what no clause names.
ValidateAndCap(sql, max) ==
    IF sql.form = "untokenizable" THEN {Raise("Unexpected")}
    ELSE IF sql.form \in RefusedForms \/ ~TablesGoverned(sql.tables)
    THEN {Raise("SQLValidationError")}
    ELSE {Return(EnforceRowCap(sql, max))}
=============================================================================
