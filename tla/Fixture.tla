------------------------------ MODULE Fixture -------------------------------
(***************************************************************************)
(* permkit/store.py: the in-memory store that fixtures and tests build     *)
(* their grants in, and seed_database_from, which copies it into the       *)
(* composition tables statement by statement and in no transaction of its  *)
(* own: a statement that raises, or a crash, leaves what was written.      *)
(* With it the spelling of role names (models.py, principals.py) and       *)
(* permkit_roles, which compares those users hold with those there are.    *)
(* A fixture is                                                            *)
(*   fx.endpoint {<<role, key>>}                                           *)
(*   fx.object   <<[role, key, name, conditions]>>, conditions a list of   *)
(*               [filter, params], which may name a filter twice           *)
(*   fx.field    <<[role, key, name, fields, values]>>                     *)
(* Names are numbers, which sort.  The permission a role is seeded with    *)
(* has the number of the role.                                             *)
(***************************************************************************)
EXTENDS SpecFile

CONSTANTS
  Code,           \* the registry
  Catalogues,     \* contents of the catalogue, as releases add to it
  Raw,            \* role names as they are written
  Spelled,        \* Spelled[n]: the name n in canonical form
  Entered,        \* names administrators have entered as roles
  Blank,          \* the empty name
  Role,           \* numbers that stand for the canonical names
  Key, Name, ConditionLists, FieldLists, ValueMaps,
  User,
  MaxGrants       \* bound: object and field grants of a fixture

ASSUME FixtureAssumption ==
  /\ Role \subseteq Nat /\ Name \subseteq Nat /\ MaxGrants \in Nat
  /\ Entered \subseteq Raw
  /\ Spelled \in [Raw -> Role \cup {Blank}]

VARIABLES
  fixture,        \* the MemoryStore
  cat,            \* the catalogue tables
  roles,          \* Role rows, by key
  tables,         \* the composition tables
  work,           \* the statements seed_database_from has yet to execute
  done            \* it has executed all of them for this fixture

vars == <<fixture, cat, roles, tables, work, done>>

EmptyFixture == [endpoint |-> {}, object |-> <<>>, field |-> <<>>]

(* normalize_role.                                                         *)
Normalized(raw) == Spelled[raw]

Init ==
  /\ fixture = EmptyFixture
  /\ cat \in Catalogues
  /\ roles = {Normalized(n) : n \in Entered}
  /\ tables = NoTables
  /\ work = <<>>
  /\ done = FALSE

-----------------------------------------------------------------------------
(* MemoryStore: the three questions.  Grants of one name are one grant,    *)
(* the last.                                                               *)
MemoryHasEndpoint(fx, rs, key) == \E r \in rs : <<r, key>> \in fx.endpoint

LastOfEachName(list, rs, key) ==
  LET heard == {i \in DOMAIN list : list[i].role \in rs /\ list[i].key = key}
  IN {i \in heard : \A j \in heard : list[j].name = list[i].name => j <= i}

(* The conditions of one grant are AND-ed, in whatever order.              *)
ConditionsOf(grant) == {grant.conditions[i] : i \in DOMAIN grant.conditions}

MemoryObjectGrants(fx, rs, key) ==
  LET order == SetToSortSeq(LastOfEachName(fx.object, rs, key),
                            LAMBDA i, j : fx.object[i].name < fx.object[j].name)
  IN [n \in DOMAIN order |-> [name |-> fx.object[order[n]].name,
                              conditions |-> ConditionsOf(fx.object[order[n]])]]

MemoryFieldGrants(fx, rs, key) ==
  {[fields |-> fx.field[i].fields, values |-> fx.field[i].values] :
     i \in LastOfEachName(fx.field, rs, key)}

-----------------------------------------------------------------------------
(* The building calls.                                                     *)
Build(new) ==
  /\ work = <<>>
  /\ Len(new.object) + Len(new.field) <= MaxGrants
  /\ fixture' = new
  /\ done' = FALSE
  /\ UNCHANGED <<cat, roles, tables, work>>

GrantEndpoint(raw, key) ==
  Build([fixture EXCEPT !.endpoint = @ \cup {<<Normalized(raw), key>>}])

GrantObject(raw, key, name, conds) ==
  Build([fixture EXCEPT !.object =
           Append(@, [role |-> Normalized(raw), key |-> key, name |-> name,
                      conditions |-> conds])])

GrantField(raw, key, name, fields, values) ==
  Build([fixture EXCEPT !.field =
           Append(@, [role |-> Normalized(raw), key |-> key, name |-> name,
                      fields |-> fields, values |-> values])])

-----------------------------------------------------------------------------
(* seed_database_from, as the statements it executes.  The order of the    *)
(* endpoints is immaterial.                                                *)
Concat(seqs) == FoldLeft(LAMBDA s, t : s \o t, <<>>, seqs)

PermissionFor(role) == [do |-> "permission", role |-> role]

EndpointStatements(e) ==
  <<PermissionFor(e[1]), [do |-> "endpoint", role |-> e[1], key |-> e[2]]>>

(* Slip: the rules of a key are told apart by nothing but their key.       *)
ObjectStatementsUnlabelled(g) ==
  LET rule == [key |-> g.key, label |-> Blank]
  IN <<PermissionFor(g.role), [do |-> "rule", role |-> g.role, rule |-> rule]>>
     \o [n \in DOMAIN g.conditions |->
           [do |-> "condition", role |-> g.role, rule |-> rule, condition |-> g.conditions[n]]]

ObjectStatements(g) ==
  LET rule == [key |-> g.key, label |-> g.name]
  IN <<PermissionFor(g.role), [do |-> "rule", role |-> g.role, rule |-> rule]>>
     \o [n \in DOMAIN g.conditions |->
           [do |-> "condition", role |-> g.role, rule |-> rule, condition |-> g.conditions[n]]]

(* Slip: a group with one listed field is granted.                         *)
GroupsTouched(g) ==
  {x \in DOMAIN cat.groups :
     x[1] = g.key[1] /\ cat.groups[x].data \cap g.fields # {}}

(* Every group of the object that lists permitted fields only.             *)
GroupsWithin(g) ==
  {x \in DOMAIN cat.groups : x[1] = g.key[1] /\ cat.groups[x].data \subseteq g.fields}

FieldStatements(g) ==
  LET within == SetToSeq(GroupsWithin(g))
      Grant(x) == [permission |-> g.role, group |-> x, key |-> g.key,
                   values |-> Restrict(g.values, DOMAIN g.values \cap cat.groups[x].data)]
  IN Concat([n \in DOMAIN within |->
               <<PermissionFor(g.role), [do |-> "field", grant |-> Grant(within[n])]>>])

Statements ==
  LET endpoints == SetToSeq(fixture.endpoint)
  IN Concat([n \in DOMAIN endpoints |-> EndpointStatements(endpoints[n])])
     \o Concat([n \in DOMAIN fixture.object |-> ObjectStatements(fixture.object[n])])
     \o Concat([n \in DOMAIN fixture.field |-> FieldStatements(fixture.field[n])])

Seed ==
  /\ work = <<>>
  /\ Statements # <<>>
  /\ work' = Statements
  /\ done' = FALSE
  /\ UNCHANGED <<fixture, cat, roles, tables>>

RuleOf(s) == CHOOSE r \in SameRule(tables, s.role, s.rule) : TRUE

(* The catalogue row a statement looks up is missing: DoesNotExist.        *)
Missing(s) ==
  CASE s.do = "endpoint"  -> s.key \notin DOMAIN cat.endpoints
    [] s.do = "rule"      -> s.rule.key[1] \notin DOMAIN cat.objects
    [] s.do = "condition" -> s.condition.filter \notin DOMAIN cat.filters
    [] OTHER              -> FALSE

(* get_or_create, for each table: what is there stays as it is.            *)
Executed(s) ==
  CASE s.do = "permission" ->
         [tables EXCEPT !.bindings = @ \cup {<<s.role, s.role>>}]
    [] s.do = "endpoint" ->
         [tables EXCEPT !.endpoints = @ \cup {<<s.role, s.key>>}]
    [] s.do = "rule" ->
         IF SameRule(tables, s.role, s.rule) # {} THEN tables
         ELSE [tables EXCEPT !.rules = @ \cup
                 {[id |-> FreshId(tables), permission |-> s.role,
                   key |-> s.rule.key, label |-> s.rule.label]}]
    [] s.do = "condition" ->
         IF \E x \in tables.conditions :
              x.rule = RuleOf(s).id /\ x.filter = s.condition.filter THEN tables
         ELSE [tables EXCEPT !.conditions = @ \cup
                 {[rule |-> RuleOf(s).id, filter |-> s.condition.filter,
                   params |-> Stored(s.condition.params)]}]
    [] s.do = "field" ->
         IF \E g \in tables.fields :
              /\ g.permission = s.grant.permission
              /\ g.group = s.grant.group /\ g.key = s.grant.key
         THEN tables
         ELSE [tables EXCEPT !.fields = @ \cup {s.grant}]

Statement ==
  /\ work # <<>>
  /\ LET s == Head(work)
     IN /\ ~Missing(s)
        /\ tables' = Executed(s)
        /\ roles' = IF s.do = "permission" THEN roles \cup {s.role} ELSE roles
  /\ work' = Tail(work)
  /\ done' = (Len(work) = 1)
  /\ UNCHANGED <<fixture, cat>>

(* The statement raises, or the process dies: nothing is undone.           *)
StopSeeding ==
  /\ work # <<>>
  /\ work' = <<>>
  /\ UNCHANGED <<fixture, cat, roles, tables, done>>

(* permkit_sync adds what was missing, not while a fixture is seeded.      *)
Publish ==
  /\ work = <<>>
  /\ \E c \in Catalogues \ {cat} :
       /\ \A t \in Tables : DOMAIN cat[t] \subseteq DOMAIN c[t]
       /\ cat' = c
  /\ UNCHANGED <<fixture, roles, tables, work, done>>

Next ==
  \/ \E raw \in {n \in Raw : Normalized(n) # Blank}, key \in Key :
       \/ GrantEndpoint(raw, key)
       \/ \E name \in Name :
            \/ \E conds \in ConditionLists : GrantObject(raw, key, name, conds)
            \/ \E fields \in FieldLists, values \in ValueMaps :
                 DOMAIN values \subseteq fields /\ GrantField(raw, key, name, fields, values)
  \/ Seed \/ Statement \/ StopSeeding
  \/ Publish

Spec == Init /\ [][Next]_vars

-----------------------------------------------------------------------------
(* The filters of a grant are named once, and JSON keeps their params.     *)
PlainConditions(g) ==
  /\ \A x, y \in ConditionsOf(g) : x.filter = y.filter => x = y
  /\ \A x \in ConditionsOf(g) : Stored(x.params) = x.params

(* Fixtures the two stores understand alike: a name means one thing, a     *)
(* role has one field grant for a key, and no grant names a filter with    *)
(* different params, of which the tables hold one only.                    *)
Plain ==
  /\ \A i, j \in DOMAIN fixture.object :
       LET g == fixture.object[i]  h == fixture.object[j]
       IN /\ (g.key = h.key /\ g.name = h.name) => ConditionsOf(g) = ConditionsOf(h)
          /\ PlainConditions(g)
  /\ \A i, j \in DOMAIN fixture.field :
       LET g == fixture.field[i]  h == fixture.field[j]
       IN (g.key = h.key /\ (g.name = h.name \/ g.role = h.role)) =>
            g.fields = h.fields /\ g.values = h.values

Principal(rs) == [super |-> FALSE, roles |-> rs]

EndpointOf(rs, key) == HasEndpointGrant(tables, rs, key)

FieldsOf(rs, key) ==
  {[fields |-> cat.groups[g.group].data, values |-> g.values] :
     g \in {x \in tables.fields : x.permission \in HeldBy(tables, rs) /\ x.key = key}}

SeededScope(rs, key) ==
  ResolveScope(View(Code), Principal(rs), key, EndpointOf(rs, key),
               ObjectGrants(tables, rs, key))

FixtureScope(rs, key) ==
  ResolveScope(View(Code), Principal(rs), key, MemoryHasEndpoint(fixture, rs, key),
               MemoryObjectGrants(fixture, rs, key))

(* A rule that waits for conditions of its grant.                          *)
Unfinished(rs, key) ==
  \E r \in tables.rules, i \in DOMAIN fixture.object :
    LET g == fixture.object[i]
    IN /\ r.key = key /\ r.permission \in rs
       /\ r.permission = g.role /\ r.key = g.key /\ r.label = g.name
       /\ Cardinality({x \in tables.conditions : x.rule = r.id})
            < Cardinality({x.filter : x \in ConditionsOf(g)})

(* The stores ask the grants of a key in different orders (by name, and as *)
(* they were seeded), and an open grant ends the search: it shows          *)
(* everything if it comes before one that cannot be compiled.              *)
OpenOrRaises(s, t) ==
  \/ s.kind = "all" /\ Raises(t)
  \/ t.kind = "all" /\ Raises(s)

(* At no time, whatever raised, crashed and was seeded again, do the       *)
(* tables grant more than a fixture that can be compiled: only a rule      *)
(* whose conditions are yet to be written, or never were because one of    *)
(* them raised, opens more rows (store.py:235-279).                        *)
SeededGrantsNoMore ==
  Plain =>
    \A rs \in SUBSET Role, key \in Key :
      /\ EndpointOf(rs, key) => MemoryHasEndpoint(fixture, rs, key)
      /\ (~Unfinished(rs, key) /\ ~Raises(FixtureScope(rs, key))) =>
           RowsIn(SeededScope(rs, key)) \subseteq RowsIn(FixtureScope(rs, key))
      /\ GrantedFields(Principal(rs), FieldsOf(rs, key))
           \subseteq GrantedFields(Principal(rs), MemoryFieldGrants(fixture, rs, key))

(* "Return exactly what MemoryStore returns" (store.py:66): once a fixture *)
(* is seeded, after any failures, both stores lead to the same endpoints   *)
(* and the same rows, and, if it lists whole groups, to the same fields    *)
(* and values, for every combination of roles.  Only the order of grants   *)
(* may make one of them raise where the other shows everything.            *)
SeededMatchesFixture ==
  (done /\ Plain) =>
    \A rs \in SUBSET Role, key \in Key :
      LET memory == MemoryFieldGrants(fixture, rs, key)
          seeded == FieldsOf(rs, key)
          whole == \A g \in memory :
                     g.fields = UNION {cat.groups[x].data :
                                  x \in {y \in DOMAIN cat.groups :
                                           y[1] = key[1] /\ cat.groups[y].data \subseteq g.fields}}
      IN /\ EndpointOf(rs, key) = MemoryHasEndpoint(fixture, rs, key)
         /\ \/ RowsIn(SeededScope(rs, key)) = RowsIn(FixtureScope(rs, key))
            \/ OpenOrRaises(SeededScope(rs, key), FixtureScope(rs, key))
         /\ whole =>
              /\ GrantedFields(Principal(rs), seeded) = GrantedFields(Principal(rs), memory)
              /\ AllowedValues(Principal(rs), seeded) = AllowedValues(Principal(rs), memory)

-----------------------------------------------------------------------------
(* AttributeRoleResolver.roles_for, of an attribute that holds the names   *)
(* `written`.                                                              *)
RolesFor(written) == {Normalized(n) : n \in written}

(* permkit_roles: the names in use, in one query if the attribute is a     *)
(* plain column, else by asking the resolver user by user.                 *)
HeldInColumnRaw(population) ==
  {IF population[u] = {} THEN Blank ELSE CHOOSE n \in population[u] : TRUE : u \in User}

HeldInColumn(population) ==
  {IF population[u] = {} THEN Blank ELSE Normalized(CHOOSE n \in population[u] : TRUE) :
     u \in User}

HeldOneByOne(population) ==
  UNION {IF RolesFor(population[u]) = {} THEN {Blank} ELSE RolesFor(population[u]) :
           u \in User}

Unmatched(held) == held \ ({Blank} \cup roles)

Unheld(held) == roles \ held

Powerless == {r \in roles : HeldBy(tables, {r}) = {}}

Fails(held, strict) ==
  \/ Unmatched(held) # {}
  \/ strict /\ Unheld(held) \cup Powerless # {}

(* The command fails exactly when some user's name matches no role, by     *)
(* whichever way it read them; a name it reports is granted nothing, and   *)
(* when it passes every user with a name holds roles that exist, and under *)
(* --strict permissions (permkit_roles.py:39-81, 85-136).                  *)
RolesReportIsHonest ==
  \A population \in [User -> SUBSET Raw] :
    LET held == HeldOneByOne(population)
        column == \A u \in User : Cardinality(population[u]) <= 1
    IN /\ column => HeldInColumn(population) = held
       /\ \A r \in Unmatched(held), key \in Key : ~EndpointOf({r}, key)
       /\ \A u \in User :
            LET rs == RolesFor(population[u]) \ {Blank}
            IN /\ ~Fails(held, FALSE) => rs \subseteq roles
               /\ (~Fails(held, TRUE) /\ rs # {}) => HeldBy(tables, rs) # {}
=============================================================================
