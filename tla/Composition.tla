---------------------------- MODULE Composition -----------------------------
(***************************************************************************)
(* An administrator composes permissions (permkit/admin.py on the tables   *)
(* of permkit/models.py) and every edit changes what the policy decides    *)
(* (permkit/resolver.py over DatabaseStore).  The code is deployed once:   *)
(* Reg is what it declares.                                                *)
(***************************************************************************)
EXTENDS Resolver, GrantTables

CONSTANTS
  Role, Permission, Key,
  Reg,          \* the registry
  Groups,       \* the field groups: [group -> [object, fields]]
  Values,       \* the allowed_values an administrator may enter
  User,         \* the users the properties ask about, [super, roles]
  Data,         \* the payloads they ask about, functions field -> value
  MaxRules      \* bound: rules that exist at once

ASSUME CompositionAssumption ==
  /\ Permission \subseteq Nat
  /\ Key \subseteq DOMAIN Reg.keys
  /\ \A d \in Data, k \in Key : \A f \in DOMAIN d \cap DOMAIN Reg.keys[k].references :
       d[f] \in Row \cup {NoRow}
  /\ MaxRules \in Nat

VARIABLE tables

ConditionChoices ==
  UNION {{[filter |-> f, params |-> p] : p \in DOMAIN Reg.filters[f].q} :
           f \in DOMAIN Reg.filters}

Init == tables = NoTables

-----------------------------------------------------------------------------
(* RolePermission rows.                                                    *)
Bind(r, p) ==
  /\ <<r, p>> \notin tables.bindings
  /\ tables' = [tables EXCEPT !.bindings = @ \cup {<<r, p>>}]

Unbind(r, p) ==
  /\ <<r, p>> \in tables.bindings
  /\ tables' = [tables EXCEPT !.bindings = @ \ {<<r, p>>}]

(* The endpoint inline of the permission form.                             *)
GrantEndpoint(p, k) ==
  /\ <<p, k>> \notin tables.endpoints
  /\ tables' = [tables EXCEPT !.endpoints = @ \cup {<<p, k>>}]

RevokeEndpoint(p, k) ==
  /\ <<p, k>> \in tables.endpoints
  /\ tables' = [tables EXCEPT !.endpoints = @ \ {<<p, k>>}]

(* PermissionRuleCondition.clean on a rule that is saved: the filter is    *)
(* about the rule's object, its params bind.  On the form that adds the    *)
(* rule there is no rule_id, the first test is skipped and the dropdown    *)
(* offers the filters of every object.                                     *)
Clean(cond, rule) ==
  Reg.filters[cond.filter].object = Reg.keys[rule.key].resource

(* The rule's add form: the rule and its conditions are posted together.   *)
AddRule(p, k, conds) ==
  /\ Cardinality(tables.rules) < MaxRules
  /\ \A x, y \in conds : x.filter = y.filter => x = y
  /\ LET used == {r.id : r \in tables.rules}
         id == CHOOSE i \in 1..MaxRules : i \notin used
     IN tables' = [tables EXCEPT
          !.rules = @ \cup {[id |-> id, permission |-> p, key |-> k]},
          !.conditions = @ \cup
             {[rule |-> id, filter |-> c.filter, params |-> c.params] : c \in conds}]

(* The rule's change form: its key and its conditions are posted together. *)
(* The dropdown offers filters of the object the rule had; clean compares  *)
(* with the object it gets.  Every row that stays is checked, also those   *)
(* nobody touched.                                                         *)
ChangeRule(rule, k, conds) ==
  LET changed == [rule EXCEPT !.key = k]
  IN /\ \A x, y \in conds : x.filter = y.filter => x = y
     /\ \A x \in conds : Clean(x, rule) /\ Clean(x, changed)
     /\ tables' = [tables EXCEPT
          !.rules = (@ \ {rule}) \cup {changed},
          !.conditions = {x \in @ : x.rule # rule.id} \cup
             {[rule |-> rule.id, filter |-> c.filter, params |-> c.params] : c \in conds}]
     /\ tables' # tables

RemoveRule(rule) == tables' = DeleteRule(tables, rule.id)

RemovePermission(p) ==
  /\ DeletePermission(tables, p) # tables
  /\ tables' = DeletePermission(tables, p)

(* The field grant inline of the permission form.                          *)
GrantFields(p, g, k, values) ==
  /\ Groups[g].object = Reg.keys[k].resource
  /\ \A x \in tables.fields :
       (x.permission = p /\ x.group = g) => x.key # k
  /\ tables' = [tables EXCEPT !.fields = @ \cup
       {[permission |-> p, group |-> g, key |-> k, values |-> values]}]

RevokeFields(x) == tables' = [tables EXCEPT !.fields = @ \ {x}]

Next ==
  \/ \E r \in Role, p \in Permission : Bind(r, p) \/ Unbind(r, p)
  \/ \E p \in Permission, k \in Key : GrantEndpoint(p, k) \/ RevokeEndpoint(p, k)
  \/ \E p \in Permission, k \in Key, conds \in SUBSET ConditionChoices :
       AddRule(p, k, conds)
  \/ \E rule \in tables.rules :
       \/ RemoveRule(rule)
       \/ \E k \in Key, conds \in SUBSET ConditionChoices : ChangeRule(rule, k, conds)
  \/ \E p \in Permission : RemovePermission(p)
  \/ \E p \in Permission, g \in DOMAIN Groups, k \in Key, v \in Values :
       GrantFields(p, g, k, v)
  \/ \E x \in tables.fields : RevokeFields(x)

Spec == Init /\ [][Next]_tables

-----------------------------------------------------------------------------
(* What the policy decides on tables c.                                    *)
EndpointGrant(c, user, key) ==
  user.roles # {} /\ HasEndpointGrant(c, user.roles, key)

ScopeOf(c, user, key) ==
  ResolveScope(Reg, user, key, EndpointGrant(c, user, key),
               ObjectGrants(c, user.roles, key))

Rows(c, user, key) == RowsIn(ScopeOf(c, user, key))

Grants(c, user, key) ==
  FieldGrants(c, user.roles, key, Groups)

Visible(c, user, key) ==
  VisibleFields(Reg, user, key, Reg.keys[key].fields, Grants(c, user, key))

Verdict(c, user, key, data) ==
  Writable(Reg, user, key, EndpointGrant(c, user, key), Grants(c, user, key),
           data, [k \in DOMAIN Reg.keys |-> ScopeOf(c, user, k)])

Mortal == {u \in User : ~u.super}

-----------------------------------------------------------------------------
TypeOK == WellFormed(tables)

(* "Zero grants -> DENY": a row is only ever shown to somebody who holds   *)
(* the endpoint and a rule about that key, each through one of their       *)
(* permissions, not necessarily the same (resolver.py:187-197).            *)
RowsNeedBothTiers ==
  \A u \in Mortal, k \in Key :
    Rows(tables, u, k) # {} =>
      \E p, q \in HeldBy(tables, u.roles) :
        /\ <<p, k>> \in tables.endpoints
        /\ \E r \in tables.rules : r.permission = q /\ r.key = k

(* "A row can never be invisible in the list yet reachable by id", and a   *)
(* trace that names a row reports what check_object decides                *)
(* (resolver.py:252-255, 433-437).                                         *)
ExplainAgrees ==
  \A u \in User, k \in Key :
    LET scope == ScopeOf(tables, u, k)
    IN ~Raises(scope) => \A row \in Row :
         /\ CheckObject(scope, row) <=> row \in RowsIn(scope)
         /\ Explain(Reg, u, k, EndpointGrant(tables, u, k), scope, row)
              = IF row \in RowsIn(scope) THEN "allowed" ELSE "denied"

(* The grants of a key in every order the `order` of the rules may give    *)
(* them: that column is on the forms, and the order of ids stands for it.  *)
Reorderings(grants) ==
  {[i \in DOMAIN grants |-> grants[p[i]]] : p \in Bijection(DOMAIN grants, DOMAIN grants)}

(* Rules "union", and the order they come in decides at most one thing:    *)
(* whether, beside a rule without conditions, one that cannot be compiled  *)
(* raises or is never reached (models.py:16-19, resolver.py:203-233).      *)
OrderOnlyDecidesRaising ==
  \A u \in User, k \in Key :
    LET grants == ObjectGrants(tables, u.roles, k)
        scope == CompileGrants(Reg, k, grants)
    IN \A other \in Reorderings(grants) :
         \/ CompileGrants(Reg, k, other) = scope
         \/ {CompileGrants(Reg, k, other), scope} = {All, Misconfigured}

Added == tables.rules # tables'.rules /\ tables.rules \subseteq tables'.rules

Narrowed == /\ tables.rules = tables'.rules
            /\ tables.conditions # tables'.conditions
            /\ tables.conditions \subseteq tables'.conditions

Revoked ==
  \/ \E r \in Role, p \in Permission : Unbind(r, p)
  \/ \E p \in Permission, k \in Key : RevokeEndpoint(p, k)
  \/ \E rule \in tables.rules : RemoveRule(rule)
  \/ \E p \in Permission : RemovePermission(p)

(* "More rules can only ever add access" (models.py:18), as long as every  *)
(* rule compiles and no filter returns Q(): a filter that does is not in   *)
(* the registry of the run, and beside it a rule may hide rows.            *)
MoreRulesOnlyAdd ==
  [][Added => \A u \in User, k \in Key :
        LET scope == ScopeOf(tables', u, k)
        IN ~Raises(scope) => Rows(tables, u, k) \subseteq RowsIn(scope)
    ]_tables

(* "More conditions on a rule can only ever remove it" (models.py:18-19).  *)
MoreConditionsOnlyRemove ==
  [][Narrowed => \A u \in User, k \in Key :
        Rows(tables, u, k)' \subseteq Rows(tables, u, k)]_tables

(* Taking away a binding, an endpoint, a rule or a whole permission never  *)
(* shows anybody a row they could not see: in particular a deleted rule    *)
(* takes its conditions along and is never left behind without them        *)
(* (models.py:154-201).                                                    *)
RevocationNarrows ==
  [][Revoked => \A u \in User, k \in Key :
        ~Raises(ScopeOf(tables, u, k)) => Rows(tables, u, k)' \subseteq Rows(tables, u, k)
    ]_tables

(* assert_writable is "one call rather than three": whatever it lets       *)
(* through, the caller reaches the endpoint, may write every controlled    *)
(* field, writes permitted values only (a field grant that is silent about *)
(* a field lifts nothing: "silence is not any value") and points only at   *)
(* rows they could read under the governing key (resolver.py:291-380).     *)
WritesAreFullyChecked ==
  \A u \in Mortal, k \in Key, d \in Data :
    Verdict(tables, u, k, d) = "ok" =>
      /\ EndpointGrant(tables, u, k)
      /\ DOMAIN d \cap Reg.keys[k].fields \subseteq Visible(tables, u, k)
      /\ \A f \in DOMAIN d, g \in Grants(tables, u, k) :
           f \in DOMAIN g.values =>
             \E h \in Grants(tables, u, k) :
               f \in DOMAIN h.values /\ d[f] \in h.values[f]
      /\ \A f \in DOMAIN d \cap DOMAIN Reg.keys[k].references :
           d[f] # NoRow => d[f] \in Rows(tables, u, Reg.keys[k].references[f])
=============================================================================
