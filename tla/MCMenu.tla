------------------------------- MODULE MCMenu -------------------------------
(***************************************************************************)
(* Devices for model checking.  Sharing: two menus over one narrow         *)
(* parameter and a command that wants confirmation.  Wandering: one menu   *)
(* with every kind of item.  Waiting: a menu while time passes.  Careless: *)
(* a menu whose configurations break one rule each, so that a menu that    *)
(* accepts one gets lost in it.                                            *)
(***************************************************************************)
EXTENDS Menu, TLC

Parameter(p) == [kind |-> "PARAMETER", parameter |-> p]
Command(c, confirm) == [kind |-> "COMMAND", command |-> c, confirm |-> confirm]
Group(id, items) == [kind |-> "GROUP", id |-> id, items |-> items]
Page(id, count) == [kind |-> "PAGE", id |-> id, page_count |-> count]

Integer(low, high, step) ==
    [type |-> "INT32", minimum |-> low, maximum |-> high, step |-> step,
     smallest |-> 1, writable |-> TRUE]
Switch == [Integer(0, 1, 1) EXCEPT !.type = "BOOL"]
Gauge == [Integer(0, 3, 1) EXCEPT !.writable = FALSE]

Registered == <<Integer(0, 2, 1), Switch, Integer(0, 1, 1), Gauge>>

With(roots) == [roots |-> roots, feedback_duration |-> 2, step_cache_count |-> 4]
Narrow == With(0 :> Group(1, 0 :> Parameter(3) @@ 1 :> Command(1, TRUE)))
Rich == With(0 :> Group(1, 0 :> Parameter(1) @@ 1 :> Command(1, TRUE) @@ 2 :> Command(2, FALSE))
             @@ 1 :> Group(2, 0 :> Parameter(2))
             @@ 2 :> Page(1, 3))

Named ==
    "narrow" :> Narrow
    @@ "rich" :> Rich
    @@ "no_roots" :> With(<< >>)
    @@ "no_items" :> With(0 :> Group(1, << >>))
    @@ "no_subpages" :> With(0 :> Page(1, 0))
    @@ "read_only" :> With(0 :> Group(1, 0 :> Parameter(4)))
    @@ "unknown" :> With(0 :> Group(1, 0 :> Parameter(9)))
    @@ "bound_twice" :> With(0 :> Group(1, 0 :> Parameter(1) @@ 1 :> Parameter(2))
                             @@ 1 :> Group(2, 0 :> Parameter(2)))
    @@ "same_group" :> With(0 :> Group(1, 0 :> Parameter(1)) @@ 1 :> Group(1, 0 :> Parameter(2)))
    @@ "short_cache" :> [Narrow EXCEPT !.step_cache_count = 1]
    @@ "long_feedback" :> [Narrow EXCEPT !.feedback_duration = 4]

Sharing ==
    [menus |-> {"display", "bluetooth"}, configs |-> {"narrow"}, parameters |-> {3},
     values |-> {0, 1, 2}, amounts |-> {-1, 1}, elapse |-> {}]
Wandering ==
    [menus |-> {"display"}, configs |-> {"rich"}, parameters |-> {1, 2},
     values |-> {1, 4}, amounts |-> {-32, -1, 0, 31}, elapse |-> {}]
Waiting ==
    [menus |-> {"display"}, configs |-> {"narrow"}, parameters |-> {3},
     values |-> {1, 2}, amounts |-> {-1, 1}, elapse |-> {1, 2}]
Careless ==
    [menus |-> {"display"}, configs |-> DOMAIN Named \ {"rich"}, parameters |-> {},
     values |-> {1}, amounts |-> {-1, 1}, elapse |-> {}]
AllDevices == {Sharing, Wandering, Waiting, Careless}
=============================================================================
