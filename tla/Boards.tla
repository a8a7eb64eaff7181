------------------------------- MODULE Boards -------------------------------
(***************************************************************************)
(* Dashboards, their tiles and charts: for each request, when the service  *)
(* accepts it given the rows it loaded, and what it then writes            *)
(* (src/backend/app/services/dashboards.py, charts.py).  The grid          *)
(* rectangle, titles and contents of a tile are columns like its position  *)
(* and are left out.                                                       *)
(***************************************************************************)
EXTENDS Tables

Of(rows, table) == {i \in DOMAIN rows : rows[i].table = table}
TilesOf(rows, b) == {i \in Of(rows, "tile") : rows[i].board = b}

----------------------------------------------------------------------------
(* Native filters: [id, kind, parent]; a request carries a sequence of them.*)

(* Mutant: only a filter that is its own parent is refused.                *)
FiltersValidNoWalk(filters) ==
    LET parent(i) == {j \in DOMAIN filters : filters[j].id = filters[i].parent} IN
    /\ \A i, j \in DOMAIN filters : filters[i].id = filters[j].id => i = j
    /\ \A i \in DOMAIN filters : filters[i].parent # None =>
          /\ filters[i].parent # filters[i].id
          /\ \E j \in parent(i) : filters[j].kind = "value"

\* Ids are unique, a parent is a value filter of the same dashboard, and the
\* walk from a filter up its parents meets no filter twice: it is over before
\* as many steps as there are filters.
FiltersValid(filters) ==
    LET n == Cardinality(DOMAIN filters)
        up(i) == {j \in DOMAIN filters : filters[j].id = filters[i].parent}
        walk[k \in 0..n] == IF k = 0 THEN DOMAIN filters ELSE UNION {up(i) : i \in walk[k - 1]}
    IN
    /\ \A i, j \in DOMAIN filters : filters[i].id = filters[j].id => i = j
    /\ \A i \in DOMAIN filters : filters[i].parent # None =>
          /\ filters[i].parent # filters[i].id
          /\ \E j \in up(i) : filters[j].kind = "value"
    /\ walk[n] = {}

NewBoard == [table |-> "board", name |-> "first", filters |-> <<>>]
CreateBoard(new) == Insert(new, NewBoard)

\* A PATCH: the fields it leaves out are None.
UpdateBoard(rows, b, name, filters) ==
    LET given == [name |-> name, filters |-> filters]
    IN  Assign(rows, b, [c \in {x \in DOMAIN given : given[x] # None} |-> given[c]])

\* The ORM deletes the tiles it loaded; the database those added since.
DeleteBoard(rows, b) == Delete({b} \cup TilesOf(rows, b))

----------------------------------------------------------------------------
(* Tiles. *)

(* Mutant: the number of tiles is taken for the next position.             *)
NextPositionCounts(rows, b) == Cardinality(TilesOf(rows, b))

\* max((t.position for t in dashboard.tiles), default=-1) + 1
NextPosition(rows, b) ==
    LET taken == {rows[i].position : i \in TilesOf(rows, b)}
    IN  IF taken = {} THEN 0 ELSE (CHOOSE p \in taken : \A q \in taken : q <= p) + 1

\* Only a tile of kind chart has one (c is None for a decoration).
AddTile(rows, new, b, c) ==
    Insert(new, [table |-> "tile", board |-> b, chart |-> c, position |-> NextPosition(rows, b),
                 kind |-> IF c = None THEN "text" ELSE "chart"])

UpdateTile(rows, i, p) == Assign(rows, i, [position |-> p])

DeleteTile(i) == Delete({i})

\* Entries of a layout (a function from tile ids to positions) that are not
\* tiles of this dashboard are skipped.
SetLayout(rows, b, layout) ==
    LET written == {i \in TilesOf(rows, b) \cap DOMAIN layout : rows[i].position # layout[i]}
    IN  [i \in written |-> [verb |-> "update", set |-> [position |-> layout[i]]]]

\* _to_read: the tiles a page shows, and their number as the list counts them.
Shown(rows, b) == {i \in TilesOf(rows, b) : rows[i].kind = "chart" => rows[i].chart \in Of(rows, "chart")}
TileCount(rows, b) == Cardinality(TilesOf(rows, b))

----------------------------------------------------------------------------
(* Charts. *)

CreateChart(new) == Insert(new, [table |-> "chart", spec |-> 1])
UpdateChart(rows, c, spec) == Assign(rows, c, [spec |-> spec])
DeleteChart(c) == Delete({c})
=============================================================================
