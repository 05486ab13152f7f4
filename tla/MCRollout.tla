----------------------------- MODULE MCRollout ------------------------------
(***************************************************************************)
(* Small instances of Rollout: a release, one that drops a filter and an   *)
(* endpoint, and one that moves the filter to another object and adds a    *)
(* group.                                                                  *)
(***************************************************************************)
EXTENDS Rollout

CONSTANTS widget, crate, view, mine, money, price, site, none, week, r1, s1, s2

Only(x, v) == [y \in {x} |-> v]

Filter(object, params) == Only(mine, [object |-> object, q |-> Only(params, {r1})])

Base ==
  [explicit  |-> <<>>,
   objects   |-> [o \in {widget, crate} |-> [model |-> {price}, references |-> <<>>]],
   endpoints |-> Only(<<widget, view>>, {site}),
   filters   |-> Filter(widget, none),
   groups    |-> <<>>,
   points    |-> {<<widget, view, site>>}]

Dropped == [Base EXCEPT !.filters = <<>>, !.endpoints = <<>>]

Moved == [Base EXCEPT !.filters = Filter(crate, week),
                      !.groups = Only(<<widget, money>>, {price})]

ThreeReleases == {Base, Dropped, Moved}
=============================================================================
