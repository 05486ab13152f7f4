---------------------------- MODULE MCPolicyCalls ---------------------------
(***************************************************************************)
(* Small instances of PolicyCalls: one key, one role, one permission, and  *)
(* a handful of contents the composition tables move between.              *)
(***************************************************************************)
EXTENDS PolicyCalls, TLC

CONSTANTS manager, view, widget, mine, none, r1, r2

MCReg ==
  [keys |-> view :> [resource |-> widget, model |-> TRUE, fields |-> {},
                     references |-> <<>>],
   filters |-> mine :> [object |-> widget, q |-> none :> {r1}]]

Rule(id) == [id |-> id, permission |-> 1, key |-> view]
Condition(id) == [rule |-> id, filter |-> mine, params |-> none]

(* The manager reaches the key and sees the rows that are theirs.          *)
Narrow == [bindings |-> {<<manager, 1>>}, endpoints |-> {<<1, view>>},
           rules |-> {Rule(1)}, conditions |-> {Condition(1)}, fields |-> {}]

(* The endpoint is withdrawn and a rule for every row added.               *)
Closed == [Narrow EXCEPT !.endpoints = {}, !.rules = @ \cup {Rule(2)}]

(* The rule is deleted, its condition with it.                             *)
NoRule == [Narrow EXCEPT !.rules = {}, !.conditions = {}]

(* The permission is taken from the role.                                  *)
Unbound == [Narrow EXCEPT !.bindings = {}]

AllConfigs == {Narrow, Closed, NoRule, Unbound}
Delete == {Narrow, NoRule}

MCAccounts == {{manager}, {}}
OneAccount == {{manager}}
=============================================================================
