----------------------------- MODULE MCFixture ------------------------------
(***************************************************************************)
(* A small instance of Fixture: two roles, one of them spelled in two      *)
(* ways, two filters of which the catalogue may not have the second yet,   *)
(* two field groups, one within the other, and params that bind and that   *)
(* do not.                                                                 *)
(***************************************************************************)
EXTENDS Fixture

CONSTANTS
  widget, view, mine, ours, money, notes, price, note, site, none, week, r1, r2,
  upper, lower, staff, blank, v1

Only(x, v) == [y \in {x} |-> v]

ViewWidget == <<widget, view>>

Code0 ==
  [explicit  |-> <<>>,
   objects   |-> Only(widget, [model |-> {price, note}, references |-> <<>>]),
   endpoints |-> Only(ViewWidget, {site}),
   filters   |-> [f \in {mine, ours} |->
                    [object |-> widget,
                     q |-> IF f = mine THEN Only(none, {r1})
                           ELSE [v \in {none, week} |-> IF v = none THEN {r1, r2} ELSE {r2}]]],
   groups    |-> [g \in {<<widget, money>>, <<widget, notes>>} |->
                    IF g[2] = money THEN {price, note} ELSE {note}],
   points    |-> {<<widget, view, site>>}]

Earlier == [Code0 EXCEPT !.filters = Restrict(@, {mine})]

TwoCatalogues == {Published(EmptyCatalogue, Earlier), Published(EmptyCatalogue, Code0)}

Spelling == [n \in {upper, lower, staff, blank} |->
               IF n = staff THEN 2 ELSE IF n = blank THEN Blank ELSE 1]

OneKey == {ViewWidget}

Given(x, v) == [filter |-> x, params |-> v]

(* Only `ours` binds `week`; the last list names it twice.                 *)
Conditions == {<<>>, <<Given(mine, none)>>, <<Given(mine, week)>>,
               <<Given(mine, none), Given(ours, none)>>,
               <<Given(ours, none), Given(ours, week)>>}
NoJson == <<>>
Lists == {{price}, {price, note}}
Values == {<<>>, Only(price, {v1})}
=============================================================================
