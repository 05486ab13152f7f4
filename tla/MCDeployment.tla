---------------------------- MODULE MCDeployment ----------------------------
(***************************************************************************)
(* Small instances of Deployment.  The first release declares widgets with *)
(* a filter, a field group and a key to view them; others drop or move a   *)
(* declaration, change the params of the filter, or leave the object       *)
(* unbound or a key about another object than its name.                    *)
(***************************************************************************)
EXTENDS Deployment, TLC

CONSTANTS
  widget, crate, view, mine, money, price, site, manager, none, week, days, pair,
  r1, r2

ViewWidget == <<widget, view>>
ViewCrate == <<crate, view>>

(* The filter binds no params, or a Python value that JSON gives back as   *)
(* `week`.                                                                 *)
Mine == [v \in {none, days} |-> {r1}]

Base ==
  [explicit  |-> <<>>,
   objects   |-> (widget :> [model |-> {price}, references |-> <<>>]) @@
                 (crate :> [model |-> {}, references |-> <<>>]),
   endpoints |-> ViewWidget :> {site},
   filters   |-> mine :> [object |-> widget, q |-> Mine],
   groups    |-> <<widget, money>> :> {price},
   points    |-> {<<widget, view, site>>}]

(* The filter, the endpoint and the group leave the code.                  *)
Dropped == [Base EXCEPT !.filters = <<>>, !.endpoints = <<>>, !.groups = <<>>]

(* The whole object leaves it.                                             *)
Gone == [Dropped EXCEPT !.points = {}, !.objects = crate :> Base.objects[crate]]

(* The filter is now about crates.                                         *)
Moved == [Base EXCEPT !.filters = mine :> [object |-> crate, q |-> Mine],
                      !.points = @ \cup {<<crate, view, site>>}]

(* The filter wants other params.                                          *)
Typed == [Base EXCEPT !.filters = mine :> [object |-> widget, q |-> week :> {r1}]]

(* permission_object("widget", ...) is missing.                            *)
Unbound == [Base EXCEPT !.objects = crate :> Base.objects[crate]]

(* A key of widgets is registered as a whole, about crates.                *)
Wrapped ==
  [Base EXCEPT !.explicit = ViewWidget :> [resource |-> crate, model |-> TRUE,
                                           fields |-> {}, references |-> <<>>]]

SevenReleases == {Base, Dropped, Gone, Moved, Typed, Unbound, Wrapped}
MovingReleases == {Base, Moved}

BothKeys == {ViewWidget, ViewCrate}
OneKey == {ViewWidget}

(* Nobody else acts while permkit_sync runs, and every run commits.        *)
RunsAlone ==
  sync # None =>
    /\ UNCHANGED <<code, permissions, tables>>
    /\ sync' = None => published' = sync.release

(* The exit status is only ever written: states that differ in it are      *)
(* alike; to files alone, so are those that differ in what a run will base *)
(* it on.                                                                  *)
ButForTheExit == <<code, cat, sync, published, permissions, tables>>

ButForTheRun ==
  <<code, cat, IF sync = None THEN None ELSE <<sync.release, sync.asked>>,
    published, permissions, tables>>

NoFiles == {}

Rule(label, conds) == [key |-> ViewWidget, label |-> label, conditions |-> conds]
Entry(values) == [group |-> <<widget, money>>, verb |-> view, values |-> values]
File(rules, fields, roles) ==
  [permissions |-> 1 :> [endpoints |-> {ViewWidget}, rules |-> rules, fields |-> fields],
   roles |-> roles]

(* A tuple in a dict of values, and params: JSON changes both.             *)
Tuples == [v \in {days, price :> pair} |-> IF v = days THEN week ELSE price :> {none}]

(* A baseline with values and params that JSON changes, and the same after *)
(* an edit.                                                                *)
Baseline == File(<<Rule(mine, mine :> days)>>, <<Entry(price :> pair)>>, manager :> {1})
Edited == File(<<Rule(site, <<>>), Rule(mine, mine :> week)>>, <<>>, manager :> {})

(* A file about another permission, which grants one group twice.          *)
Other ==
  [permissions |-> 2 :> [endpoints |-> {}, rules |-> <<Rule(mine, mine :> none)>>,
                         fields |-> <<Entry(<<>>), Entry(price :> {none})>>],
   roles |-> <<>>]

FilesThatManage == {Baseline, Edited, Other}
=============================================================================
