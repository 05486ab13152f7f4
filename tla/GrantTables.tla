---------------------------- MODULE GrantTables -----------------------------
(***************************************************************************)
(* The composition tables of permkit/models.py and the queries of          *)
(* DatabaseStore (permkit/store.py) on them.  A state c of the tables has  *)
(*   c.bindings    {<<role, permission>>}              RolePermission      *)
(*   c.endpoints   {<<permission, key>>}               PermissionEndpoint  *)
(*   c.rules       {[id, permission, key]}             PermissionRule      *)
(*   c.conditions  {[rule, filter, params]}            ...RuleCondition    *)
(*   c.fields      {[permission, group, key, values]}  ...FieldGrant       *)
(* Permissions and rule ids are numbers: their order is the one of         *)
(* PermissionRule.Meta.ordering.                                           *)
(***************************************************************************)
EXTENDS Naturals, Sequences, FiniteSets, SequencesExt

NoTables == [bindings |-> {}, endpoints |-> {}, rules |-> {},
             conditions |-> {}, fields |-> {}]

(* What the unique constraints and the foreign keys guarantee.             *)
WellFormed(c) ==
  /\ \A r, s \in c.rules : r.id = s.id => r = s
  /\ \A x \in c.conditions : \E r \in c.rules : r.id = x.rule
  /\ \A x, y \in c.conditions :
       (x.rule = y.rule /\ x.filter = y.filter) => x = y
  /\ \A x, y \in c.fields :
       (x.permission = y.permission /\ x.group = y.group /\ x.key = y.key)
         => x = y

HeldBy(c, roles) == {b[2] : b \in {x \in c.bindings : x[1] \in roles}}

HasEndpointGrant(c, roles, key) ==
  \E p \in HeldBy(c, roles) : <<p, key>> \in c.endpoints

(* PermissionRule.Meta.ordering.                                           *)
Before(r, s) ==
  \/ r.permission < s.permission
  \/ r.permission = s.permission /\ r.id < s.id

(* object_grants, first query: the rules, in that order.                   *)
RulesFor(c, roles, key) ==
  LET theirs == {r \in c.rules : r.permission \in HeldBy(c, roles) /\ r.key = key}
  IN CHOOSE s \in [1..Cardinality(theirs) -> theirs] :
       \A i, j \in DOMAIN s : i < j => Before(s[i], s[j])

(* object_grants, the prefetch: a second query for the conditions of the   *)
(* rules the first one returned.                                           *)
WithConditions(c, rules) ==
  [i \in DOMAIN rules |->
     [name |-> rules[i].id,
      conditions |-> {[filter |-> x.filter, params |-> x.params] :
                        x \in {y \in c.conditions : y.rule = rules[i].id}}]]

ObjectGrants(c, roles, key) == WithConditions(c, RulesFor(c, roles, key))

(* field_grants; groups[g].fields is what the catalogue row of g lists.    *)
FieldGrants(c, roles, key, groups) ==
  {[fields |-> groups[g.group].fields, values |-> g.values] :
     g \in {x \in c.fields : x.permission \in HeldBy(c, roles) /\ x.key = key}}

-----------------------------------------------------------------------------
(* Edits.  Deleting a rule cascades to its conditions, deleting a          *)
(* permission to everything composed under it.  The first two operators    *)
(* are slips the checks are tried on: a cascade that stops half-way.       *)
DeleteRuleAlone(c, id) ==
  [c EXCEPT !.rules = {r \in @ : r.id # id}]

DeleteRuleConditions(c, id) ==
  [c EXCEPT !.conditions = {x \in @ : x.rule # id}]

DeleteRule(c, id) ==
  [c EXCEPT !.rules = {r \in @ : r.id # id},
            !.conditions = {x \in @ : x.rule # id}]

DeletePermission(c, p) ==
  LET gone == {r.id : r \in {x \in c.rules : x.permission = p}}
  IN [bindings   |-> {b \in c.bindings : b[2] # p},
      endpoints  |-> {e \in c.endpoints : e[1] # p},
      rules      |-> {r \in c.rules : r.permission # p},
      conditions |-> {x \in c.conditions : x.rule \notin gone},
      fields     |-> {g \in c.fields : g.permission # p}]
=============================================================================
