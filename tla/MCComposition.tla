--------------------------- MODULE MCComposition ----------------------------
(***************************************************************************)
(* Small instances of Composition: one role, two permissions, a key of     *)
(* widgets that controls the fields `price` and `cost` and whose field     *)
(* `crate` may only point at crates readable under the other key.  Rows    *)
(* are ids; both tables hold the same ids.                                 *)
(***************************************************************************)
EXTENDS Composition, TLC

CONSTANTS
  manager, updateWidget, viewCrate, widget, crate, price, cost, low, high,
  money, shelf, mine, fresh, open, none, r1, r2

MCReg ==
  [keys |-> (updateWidget :> [resource |-> widget, model |-> TRUE,
                              fields |-> {price, cost},
                              references |-> crate :> viewCrate]) @@
            (viewCrate :> [resource |-> crate, model |-> TRUE,
                           fields |-> {}, references |-> <<>>]),
   filters |-> [f \in {mine, fresh, open} |->
     CASE f = mine  -> [object |-> widget, q |-> none :> {r1}]
       [] f = fresh -> [object |-> widget, q |-> none :> {r2}]
       [] f = open  -> [object |-> crate, q |-> none :> {r1}]]]

TwoGroups == (money :> [object |-> widget, fields |-> {price}]) @@
             (shelf :> [object |-> widget, fields |-> {cost}])

PriceValues == {<<>>, price :> {low}}

(* Two parts of the state space, explored one beside the other: two rules  *)
(* and the filters of widgets, without field grants, where the endpoint of *)
(* crates is the first permission's; and the field grants of both          *)
(* permissions, where the first carries the endpoints and at most one      *)
(* rule, with the filter of crates.                                        *)
InOnePart(c) ==
  \/ /\ c.fields = {}
     /\ \A x \in c.conditions : x.filter # open
     /\ <<2, viewCrate>> \notin c.endpoints
  \/ /\ \A r \in c.rules : r.permission = 1 /\ r.id = 1
     /\ \A x \in c.conditions : x.filter = open
     /\ \A e \in c.endpoints : e[1] = 1

StaysInOnePart == InOnePart(tables')

MCUser == {[super |-> FALSE, roles |-> {manager}], [super |-> TRUE, roles |-> {}]}

PriceData == {crate :> r1, crate :> r2, crate :> NoRow,
              price :> low, price :> high, (price :> low) @@ (crate :> r2)}
=============================================================================
