---------------------------- MODULE MCWorkspace ----------------------------
(* Two requests at a time, of one of four workloads. *)
EXTENDS Workspace

Filter(id, kind, parent) == [id |-> id, kind |-> kind, parent |-> parent]
MCFilterLists ==
    {<<Filter("f", "value", None), Filter("g", "time", "f")>>,
     <<Filter("f", "value", None), Filter("f", "value", None)>>,
     <<Filter("f", "value", "f")>>, <<Filter("f", "value", "g")>>,
     <<Filter("f", "value", "g"), Filter("g", "time", None)>>,
     <<Filter("f", "value", "g"), Filter("g", "value", "f")>>,
     <<Filter("f", "value", "g"), Filter("g", "value", "h"), Filter("h", "value", "g")>>}

Tile(c, p) == [table |-> "tile", board |-> 1, chart |-> c, position |-> p,
               kind |-> IF c = None THEN "text" ELSE "chart"]
MCLayouts == {(3 :> 1) @@ (4 :> 0) @@ (9 :> 0)}
BoardRows == <<NewBoard, [table |-> "chart", spec |-> 1], Tile(2, 0), Tile(None, 1)>>

Model(table, n) == [table |-> table, name |-> n, text |-> "v1", enabled |-> TRUE]
UserRow(e, roles) == [table |-> "user", email |-> e, roles |-> roles, active |-> TRUE]

Tokens(roles) == {Mint("access", 0, roles)}

Workload(kinds, first, ids, patches, roles) ==
    [kinds |-> kinds, rows |-> first, ids |-> ids, patches |-> patches, tokens |-> Tokens(roles)]

MCUserPatches == {[roles |-> {PlatformAdmin}], [active |-> FALSE]}

MCWorkloads ==
    {Workload({"delete_chart", "add_tile", "set_layout", "update_tile", "delete_tile"}, BoardRows, 6, {}, {}),
     Workload({"create_board", "create_chart", "update_board", "delete_board", "add_tile",
               "update_chart"}, BoardRows, 5, {}, {Viewer, Superuser}),
     Workload({"create_model", "update_model", "delete_model"},
              <<[Model("dbt", "m") EXCEPT !.enabled = FALSE]>>, 2,
              {[name |-> "n"], [enabled |-> TRUE]}, {Superuser}),
     Workload({"update_model", "delete_model", "run_model"}, <<Model("dbt", "m")>>, 3,
              {[enabled |-> FALSE]}, {Superuser}),
     Workload({"create_model", "update_model", "delete_model"}, <<Model("cube", "m")>>, 2,
              {[text |-> "v2"], [enabled |-> FALSE]}, {Superuser}),
     [Workload({"create_user", "update_user", "delete_user", "login"},
               <<UserRow("a", {Superuser})>>, 2, MCUserPatches, {}) EXCEPT !.tokens = {}],
     Workload({"create_user", "update_user", "suspend"}, <<UserRow("a", {Superuser})>>, 3,
              MCUserPatches, {PlatformAdmin})}
MCRoleSets == {{}, {PlatformAdmin, Superuser}}
Symmetry == Permutations(Requests)
=============================================================================
