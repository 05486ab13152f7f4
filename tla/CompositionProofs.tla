------------------------- MODULE CompositionProofs --------------------------
(***************************************************************************)
(* Proofs about Composition for any registry, roles, permissions, keys,    *)
(* users and number of rules: the tables stay well formed, and every edit  *)
(* moves access the way the documentation promises.                        *)
(*                                                                         *)
(* The invariant says what the forms let administrators store.  Everything *)
(* else goes through one equivalence (ShownIsOpen, OpenIsShown): unless    *)
(* the resolution raises, a principal sees a row if and only if they hold  *)
(* the endpoint and some rule all of whose conditions admit the row.  Then *)
(* an edit is a matter of sets.                                            *)
(***************************************************************************)
EXTENDS Composition, DecisionProofs

IsRule(r) ==
  /\ r = [id |-> r.id, permission |-> r.permission, key |-> r.key]
  /\ r.id \in 1..MaxRules /\ r.permission \in Permission /\ r.key \in Key

Inv ==
  /\ tables = [bindings |-> tables.bindings, endpoints |-> tables.endpoints,
               rules |-> tables.rules, conditions |-> tables.conditions,
               fields |-> tables.fields]
  /\ \A r \in tables.rules : IsRule(r)
  /\ IsFiniteSet(tables.rules)
  /\ TypeOK

-----------------------------------------------------------------------------
(* There is an id for one more rule.                                       *)
LEMMA FreeId ==
  ASSUME NEW rules, IsFiniteSet(rules), Cardinality(rules) < MaxRules
  PROVE  \E i \in 1..MaxRules : i \notin {r.id : r \in rules}
<1> DEFINE used == {r.id : r \in rules}
           id == [r \in rules |-> r.id]
<1>1. IsFiniteSet(used) /\ Cardinality(used) <= Cardinality(rules)
  <2>1. id \in Surjection(rules, used)
    BY DEF Surjection
  <2> QED
    BY <2>1, FS_Surjection
<1>2. Cardinality(1..MaxRules) = MaxRules
  BY CompositionAssumption, FS_Interval
<1>3. Cardinality(rules) \in Nat /\ Cardinality(used) \in Nat
  BY <1>1, FS_CardinalityType
<1>4. ~(1..MaxRules \subseteq used)
  <2> SUFFICES ASSUME 1..MaxRules \subseteq used PROVE FALSE
    OBVIOUS
  <2>1. MaxRules <= Cardinality(used)
    <3>1. \A some \in SUBSET used : Cardinality(some) <= Cardinality(used)
      BY <1>1, FS_Subset
    <3> QED
      BY <1>2, <3>1
  <2> QED
    BY <1>1, <1>3, <2>1, CompositionAssumption
<1> QED
  BY <1>4

LEMMA AddRuleInv ==
  ASSUME Inv, NEW p \in Permission, NEW k \in Key,
         NEW conds \in SUBSET ConditionChoices, AddRule(p, k, conds)
  PROVE  Inv'
<1> DEFINE used == {r.id : r \in tables.rules}
           id == CHOOSE i \in 1..MaxRules : i \notin used
           rule == [id |-> id, permission |-> p, key |-> k]
           posted == {[rule |-> id, filter |-> c.filter, params |-> c.params] : c \in conds}
<1>1. id \in 1..MaxRules /\ id \notin used
  BY FreeId DEF AddRule, Inv
<1>2. tables' = [tables EXCEPT !.rules = @ \cup {rule}, !.conditions = @ \cup posted]
  BY DEF AddRule
<1>3. \A x, y \in conds : x.filter = y.filter => x = y
  BY DEF AddRule
<1> HIDE DEF id
<1>4. /\ tables' = [bindings |-> tables.bindings, endpoints |-> tables.endpoints,
                    rules |-> tables.rules \cup {rule},
                    conditions |-> tables.conditions \cup posted,
                    fields |-> tables.fields]
  BY <1>2 DEF Inv
<1>5. \A r \in tables.rules : r.id # id
  BY <1>1
<1>6. \A r \in tables'.rules : IsRule(r)
  BY <1>1, <1>4 DEF Inv, IsRule
<1>7. IsFiniteSet(tables'.rules)
  BY <1>4, FS_AddElement DEF Inv
<1>8. WellFormed(tables')
  <2>1. \A r, s \in tables'.rules : r.id = s.id => r = s
    BY <1>4, <1>5 DEF Inv, TypeOK, WellFormed
  <2>2. \A x \in tables.conditions : x.rule # id
    BY <1>5 DEF Inv, TypeOK, WellFormed
  <2>3. \A x, y \in posted : x.filter = y.filter => x = y
    BY <1>3
  <2>4. \A x \in posted : x.rule = id
    OBVIOUS
  <2>5. \A x \in tables'.conditions : \E r \in tables'.rules : r.id = x.rule
    <3>1. rule \in tables'.rules /\ rule.id = id
      BY <1>4
    <3>2. \A x \in tables.conditions : \E r \in tables'.rules : r.id = x.rule
      BY <1>4 DEF Inv, TypeOK, WellFormed
    <3> QED
      BY <1>4, <2>4, <3>1, <3>2
  <2>6. \A x, y \in tables'.conditions : x.rule = y.rule /\ x.filter = y.filter => x = y
    BY <1>4, <2>2, <2>3, <2>4 DEF Inv, TypeOK, WellFormed
  <2>7. tables'.fields = tables.fields
    BY <1>4
  <2> QED
    BY <2>1, <2>5, <2>6, <2>7 DEF Inv, TypeOK, WellFormed
<1> QED
  BY <1>4, <1>6, <1>7, <1>8 DEF Inv, TypeOK

LEMMA ChangeRuleInv ==
  ASSUME Inv, NEW rule \in tables.rules, NEW k \in Key,
         NEW conds \in SUBSET ConditionChoices, ChangeRule(rule, k, conds)
  PROVE  Inv'
<1> DEFINE changed == [rule EXCEPT !.key = k]
           posted == {[rule |-> rule.id, filter |-> c.filter, params |-> c.params] : c \in conds}
<1>1. /\ tables' = [bindings |-> tables.bindings, endpoints |-> tables.endpoints,
                    rules |-> (tables.rules \ {rule}) \cup {changed},
                    conditions |-> {x \in tables.conditions : x.rule # rule.id} \cup posted,
                    fields |-> tables.fields]
      /\ \A x, y \in conds : x.filter = y.filter => x = y
  BY DEF ChangeRule, Inv
<1>2. changed = [id |-> rule.id, permission |-> rule.permission, key |-> k] /\ IsRule(changed)
  BY DEF Inv, IsRule
<1> HIDE DEF changed
<1>3. \A r \in tables'.rules : IsRule(r)
  BY <1>1, <1>2 DEF Inv
<1>4. IsFiniteSet(tables'.rules)
  BY <1>1, FS_AddElement, FS_RemoveElement DEF Inv
<1>5. WellFormed(tables')
  <2>1. \A r, s \in tables'.rules : r.id = s.id => r = s
    BY <1>1, <1>2 DEF Inv, TypeOK, WellFormed
  <2>2. \A x \in tables'.conditions : \E r \in tables'.rules : r.id = x.rule
    BY <1>1, <1>2 DEF Inv, TypeOK, WellFormed
  <2>3. \A x, y \in posted : x.filter = y.filter => x = y
    BY <1>1
  <2>4. \A x \in posted : x.rule = rule.id
    OBVIOUS
  <2>5. \A x, y \in tables'.conditions : x.rule = y.rule /\ x.filter = y.filter => x = y
    BY <1>1, <2>3, <2>4 DEF Inv, TypeOK, WellFormed
  <2>6. tables'.fields = tables.fields
    BY <1>1
  <2> QED
    BY <2>1, <2>2, <2>5, <2>6 DEF Inv, TypeOK, WellFormed
<1> QED
  BY <1>1, <1>3, <1>4, <1>5 DEF Inv, TypeOK
(* A deletion leaves a part of each table, and the conditions it leaves    *)
(* are those of rules it leaves.                                           *)
Part(some, all) ==
  /\ some = [bindings |-> some.bindings, endpoints |-> some.endpoints,
             rules |-> some.rules, conditions |-> some.conditions,
             fields |-> some.fields]
  /\ some.bindings \subseteq all.bindings
  /\ some.endpoints \subseteq all.endpoints
  /\ some.rules \subseteq all.rules
  /\ some.conditions \subseteq all.conditions
  /\ some.fields \subseteq all.fields
  /\ \A x \in some.conditions : \E r \in some.rules : r.id = x.rule
  /\ \A r \in some.rules : \A x \in all.conditions : x.rule = r.id => x \in some.conditions

LEMMA PartInv ==
  ASSUME Inv, Part(tables', tables)
  PROVE  Inv'
<1>1. \A r \in tables'.rules : IsRule(r)
  BY DEF Inv, Part
<1>2. IsFiniteSet(tables'.rules)
  BY FS_Subset DEF Inv, Part
<1>3. WellFormed(tables')
  BY DEF Inv, TypeOK, WellFormed, Part
<1> QED
  BY <1>1, <1>2, <1>3 DEF Inv, TypeOK, Part

LEMMA RevokedIsPart ==
  ASSUME Inv, Revoked
  PROVE  Part(tables', tables)
<1>1. /\ \A r, s \in tables.rules : r.id = s.id => r = s
      /\ \A x \in tables.conditions : \E r \in tables.rules : r.id = x.rule
  BY DEF Inv, TypeOK, WellFormed
<1>2. ASSUME NEW r \in Role, NEW p \in Permission, Unbind(r, p)
      PROVE  Part(tables', tables)
  BY <1>1, <1>2 DEF Unbind, Part, Inv
<1>3. ASSUME NEW p \in Permission, NEW k \in Key, RevokeEndpoint(p, k)
      PROVE  Part(tables', tables)
  BY <1>1, <1>3 DEF RevokeEndpoint, Part, Inv
<1>4. ASSUME NEW rule \in tables.rules, RemoveRule(rule)
      PROVE  Part(tables', tables)
  <2>1. tables' = [bindings |-> tables.bindings, endpoints |-> tables.endpoints,
                   rules |-> {r \in tables.rules : r.id # rule.id},
                   conditions |-> {x \in tables.conditions : x.rule # rule.id},
                   fields |-> tables.fields]
    BY <1>4 DEF RemoveRule, DeleteRule, Inv
  <2> QED
    BY <1>1, <2>1 DEF Part
<1>5. ASSUME NEW p \in Permission, RemovePermission(p)
      PROVE  Part(tables', tables)
  <2> DEFINE gone == {r.id : r \in {x \in tables.rules : x.permission = p}}
  <2>1. tables' = [bindings |-> {b \in tables.bindings : b[2] # p},
                   endpoints |-> {e \in tables.endpoints : e[1] # p},
                   rules |-> {r \in tables.rules : r.permission # p},
                   conditions |-> {x \in tables.conditions : x.rule \notin gone},
                   fields |-> {g \in tables.fields : g.permission # p}]
    BY <1>5 DEF RemovePermission, DeletePermission
  <2>2. \A r \in tables.rules : r.id \in gone <=> r.permission = p
    BY <1>1
  <2> QED
    BY <1>1, <2>1, <2>2 DEF Part
<1> QED
  BY <1>2, <1>3, <1>4, <1>5 DEF Revoked

(* The other edits leave rules and conditions alone.                       *)
LEMMA RestInv ==
  ASSUME Inv, tables' = [bindings |-> tables'.bindings, endpoints |-> tables'.endpoints,
                         rules |-> tables.rules, conditions |-> tables.conditions,
                         fields |-> tables'.fields],
         \A x, y \in tables'.fields :
           (x.permission = y.permission /\ x.group = y.group /\ x.key = y.key) => x = y
  PROVE  Inv'
<1>1. tables'.rules = tables.rules /\ tables'.conditions = tables.conditions
  OBVIOUS
<1>2. WellFormed(tables')
  BY <1>1 DEF Inv, TypeOK, WellFormed
<1> QED
  BY <1>1, <1>2 DEF Inv, TypeOK

LEMMA InitInv == Init => Inv
  BY FS_EmptySet DEF Init, Inv, NoTables, TypeOK, WellFormed

(* Whatever administrators do, the tables keep the constraints of          *)
(* models.py:154-201 and there are finitely many rules, each with an id.   *)
THEOREM Invariance == Spec => []Inv
<1>1. Inv /\ [Next]_tables => Inv'
  <2> SUFFICES ASSUME Inv, [Next]_tables PROVE Inv'
    OBVIOUS
  <2>1. CASE UNCHANGED tables
    BY <2>1 DEF Inv, TypeOK
  <2>2. ASSUME NEW r \in Role, NEW p \in Permission, Bind(r, p)
        PROVE  Inv'
    <3>1. tables'.fields = tables.fields
      BY <2>2 DEF Bind, Inv
    <3> QED
      BY <2>2, <3>1, RestInv DEF Bind, Inv, TypeOK, WellFormed
  <2>3. CASE Revoked
    BY <2>3, RevokedIsPart, PartInv
  <2>4. ASSUME NEW p \in Permission, NEW k \in Key, GrantEndpoint(p, k)
        PROVE  Inv'
    <3>1. tables'.fields = tables.fields
      BY <2>4 DEF GrantEndpoint, Inv
    <3> QED
      BY <2>4, <3>1, RestInv DEF GrantEndpoint, Inv, TypeOK, WellFormed
  <2>5. ASSUME NEW p \in Permission, NEW k \in Key,
               NEW conds \in SUBSET ConditionChoices, AddRule(p, k, conds)
        PROVE  Inv'
    BY <2>5, AddRuleInv
  <2>6. ASSUME NEW rule \in tables.rules, NEW k \in Key,
               NEW conds \in SUBSET ConditionChoices, ChangeRule(rule, k, conds)
        PROVE  Inv'
    BY <2>6, ChangeRuleInv
  <2>7. ASSUME NEW p \in Permission, NEW g \in DOMAIN Groups, NEW k \in Key,
               NEW v \in Values, GrantFields(p, g, k, v)
        PROVE  Inv'
    <3>1. tables' = [bindings |-> tables.bindings, endpoints |-> tables.endpoints,
                     rules |-> tables.rules, conditions |-> tables.conditions,
                     fields |-> tables.fields \cup
                       {[permission |-> p, group |-> g, key |-> k, values |-> v]}]
      BY <2>7 DEF GrantFields, Inv
    <3>2. \A x, y \in tables'.fields :
            (x.permission = y.permission /\ x.group = y.group /\ x.key = y.key) => x = y
      BY <2>7, <3>1 DEF GrantFields, Inv, TypeOK, WellFormed
    <3> QED
      BY <3>1, <3>2, RestInv
  <2>8. ASSUME NEW x \in tables.fields, RevokeFields(x)
        PROVE  Inv'
    <3>1. tables' = [bindings |-> tables.bindings, endpoints |-> tables.endpoints,
                     rules |-> tables.rules, conditions |-> tables.conditions,
                     fields |-> tables.fields \ {x}]
      BY <2>8 DEF RevokeFields, Inv
    <3> QED
      BY <3>1, RestInv DEF Inv, TypeOK, WellFormed
  <2> QED
    BY <2>1, <2>2, <2>3, <2>4, <2>5, <2>6, <2>7, <2>8 DEF Next, Revoked
<1> QED
  BY <1>1, InitInv, PTL DEF Spec

(* The constraints alone (models.py:154-201).                              *)
THEOREM TypesHold == Spec => []TypeOK
<1>1. Inv => TypeOK
  BY DEF Inv
<1> QED
  BY <1>1, Invariance, PTL

-----------------------------------------------------------------------------
(* What a principal who is no superuser sees.                              *)
LEMMA RulesInOrder ==
  ASSUME Inv PROVE Orderly(tables.rules)
  BY CompositionAssumption DEF Inv, IsRule, TypeOK, WellFormed, Orderly

LEMMA ScopeCases ==
  ASSUME NEW c, NEW u, ~u.super, NEW k
  PROVE  \/ /\ EndpointGrant(c, u, k) /\ k \in DOMAIN Reg.keys
            /\ ObjectGrants(c, u.roles, k) # <<>>
            /\ ScopeOf(c, u, k) = CompileGrants(Reg, k, ObjectGrants(c, u.roles, k))
         \/ /\ ScopeOf(c, u, k) \in {Deny, UnknownKey}
            /\ Rows(c, u, k) = {}
            /\ EndpointGrant(c, u, k) =>
                 k \notin DOMAIN Reg.keys \/ ObjectGrants(c, u.roles, k) = <<>>
  BY DEF Rows, RowsIn, ScopeOf, ResolveScope, CheckEndpoint, EndpointGrant, IsKey,
         Deny, UnknownKey

Open(c, u, k, row) ==
  /\ row \in Row
  /\ EndpointGrant(c, u, k)
  /\ \E r \in Held(c, u.roles, k) : AdmitsRow(Reg, k, ConditionsOf(c, r), row)

LEMMA ShownIsOpen ==
  ASSUME PlainFilters(Reg), NEW c, Orderly(c.rules), NEW u, ~u.super, NEW k,
         NEW row \in Rows(c, u, k)
  PROVE  Open(c, u, k, row)
<1> DEFINE grants == ObjectGrants(c, u.roles, k)
<1>1. /\ EndpointGrant(c, u, k) /\ grants # <<>>
      /\ row \in RowsIn(CompileGrants(Reg, k, grants))
  BY ScopeCases DEF Rows
<1>2. /\ DOMAIN grants \subseteq Nat /\ DOMAIN grants # {}
      /\ \A i \in DOMAIN grants : \E r \in Held(c, u.roles, k) :
           grants[i].conditions = ConditionsOf(c, r)
  BY <1>1, ObjectGrantsFind
<1> HIDE DEF grants
<1>3. row \in Row /\ \E i \in DOMAIN grants : AdmitsRow(Reg, k, grants[i].conditions, row)
  BY <1>1, <1>2, CompiledIsJustified
<1> QED
  BY <1>1, <1>2, <1>3 DEF Open

LEMMA OpenIsShown ==
  ASSUME PlainFilters(Reg), NEW c, Orderly(c.rules), NEW u, ~u.super, NEW k \in Key,
         ~Raises(ScopeOf(c, u, k)), NEW row, Open(c, u, k, row)
  PROVE  row \in Rows(c, u, k)
<1> DEFINE grants == ObjectGrants(c, u.roles, k)
<1>1. /\ DOMAIN grants \subseteq Nat
      /\ DOMAIN grants = {} <=> grants = <<>>
      /\ \A r \in Held(c, u.roles, k) : \E i \in DOMAIN grants :
           grants[i].conditions = ConditionsOf(c, r)
  BY ObjectGrantsFind
<1> HIDE DEF grants
<1>2. PICK i \in DOMAIN grants : AdmitsRow(Reg, k, grants[i].conditions, row)
  BY <1>1 DEF Open
<1>3. ScopeOf(c, u, k) = CompileGrants(Reg, k, grants)
  BY <1>1, <1>2, ScopeCases, CompositionAssumption DEF Open, grants
<1> QED
  BY <1>1, <1>2, <1>3, CompiledIsComplete DEF Open, Rows

LEMMA SuperuserSeesAll ==
  ASSUME NEW c, NEW u, u.super, NEW k \in Key
  PROVE  Rows(c, u, k) = Row
  BY CompositionAssumption DEF Rows, RowsIn, ScopeOf, ResolveScope, IsKey, All

(* An edit that opens nothing shows nothing new; one that closes nothing   *)
(* hides nothing.  What raises, raises.                                    *)
LEMMA OpeningDecides ==
  ASSUME PlainFilters(Reg), NEW c, NEW d, Orderly(c.rules), Orderly(d.rules),
         NEW u, NEW k \in Key, ~Raises(ScopeOf(d, u, k)),
         \A row : Open(c, u, k, row) => Open(d, u, k, row)
  PROVE  Rows(c, u, k) \subseteq Rows(d, u, k)
<1>1. CASE u.super
  BY <1>1, SuperuserSeesAll
<1>2. CASE ~u.super
  BY <1>2, ShownIsOpen, OpenIsShown
<1> QED
  BY <1>1, <1>2

-----------------------------------------------------------------------------
(* No rows without an endpoint and a rule, each held through one of the    *)
(* permissions of the principal (resolver.py:187-197).                     *)
THEOREM BothTiers == Spec => []RowsNeedBothTiers
<1>1. Inv => RowsNeedBothTiers
  <2> SUFFICES ASSUME Inv, NEW u \in Mortal, NEW k \in Key, Rows(tables, u, k) # {}
               PROVE  \E p, q \in HeldBy(tables, u.roles) :
                        /\ <<p, k>> \in tables.endpoints
                        /\ \E r \in tables.rules : r.permission = q /\ r.key = k
    BY DEF RowsNeedBothTiers
  <2> DEFINE grants == ObjectGrants(tables, u.roles, k)
  <2>1. EndpointGrant(tables, u, k) /\ grants # <<>>
    BY ScopeCases DEF Mortal
  <2>2. /\ DOMAIN grants = {} <=> grants = <<>>
        /\ \A i \in DOMAIN grants : \E r \in Held(tables, u.roles, k) :
             grants[i].conditions = ConditionsOf(tables, r)
    BY RulesInOrder, ObjectGrantsFind
  <2> HIDE DEF grants
  <2>3. PICK r \in Held(tables, u.roles, k) : TRUE
    BY <2>1, <2>2
  <2>4. PICK p \in HeldBy(tables, u.roles) : <<p, k>> \in tables.endpoints
    BY <2>1 DEF EndpointGrant, HasEndpointGrant
  <2> QED
    BY <2>3, <2>4 DEF Held
<1> QED
  BY <1>1, Invariance, PTL

(* The list, the detail and the trace decide alike, in every state of the  *)
(* tables (resolver.py:252-255, 433-437).                                  *)
LEMMA ScopesAgree ==
  ASSUME NEW c, NEW u, NEW k \in Key, NEW row \in Row, ~Raises(ScopeOf(c, u, k))
  PROVE  /\ CheckObject(ScopeOf(c, u, k), row) <=> row \in RowsIn(ScopeOf(c, u, k))
         /\ Explain(Reg, u, k, EndpointGrant(c, u, k), ScopeOf(c, u, k), row)
              = IF row \in RowsIn(ScopeOf(c, u, k)) THEN "allowed" ELSE "denied"
<1> DEFINE scope == ScopeOf(c, u, k)
<1>1. CheckObject(scope, row) <=> row \in RowsIn(scope)
  BY DEF CheckObject, RowsIn
<1>2. k \in DOMAIN Reg.keys /\ row # NoRow
  BY CompositionAssumption, ResolverAssumption
<1>3. CASE u.super
  BY <1>1, <1>3, SuperuserSeesAll DEF Explain, Rows
<1>4. CASE ~u.super
  <2>1. EndpointGrant(c, u, k) => u.roles # {}
    BY DEF EndpointGrant
  <2>2. ~EndpointGrant(c, u, k) => row \notin RowsIn(scope)
    BY <1>4, ScopeCases DEF Rows
  <2> HIDE DEF scope
  <2>3. Explain(Reg, u, k, EndpointGrant(c, u, k), scope, row)
          = IF EndpointGrant(c, u, k) /\ CheckObject(scope, row) THEN "allowed" ELSE "denied"
    BY <1>2, <1>4, <2>1 DEF Explain, IsKey, scope
  <2> QED
    BY <1>1, <2>2, <2>3 DEF scope
<1> QED
  BY <1>1, <1>3, <1>4

THEOREM ListDetailAndTrace == Spec => []ExplainAgrees
<1>1. ExplainAgrees
  BY ScopesAgree DEF ExplainAgrees
<1> QED
  BY <1>1, PTL

(* Two lists of the same grants compile to the same, or one of them stops  *)
(* at a rule for every row and the other at a rule that is stuck.          *)
LEMMA ReorderedCompile ==
  ASSUME NEW k, NEW grants, DOMAIN grants \subseteq Nat, NEW other \in Reorderings(grants)
  PROVE  \/ CompileGrants(Reg, k, other) = CompileGrants(Reg, k, grants)
         \/ {CompileGrants(Reg, k, other), CompileGrants(Reg, k, grants)}
              = {All, Misconfigured}
<1>1. PICK p \in Bijection(DOMAIN grants, DOMAIN grants) :
             other = [i \in DOMAIN grants |-> grants[p[i]]]
  BY DEF Reorderings
<1>2. /\ \A i \in DOMAIN grants : p[i] \in DOMAIN grants
      /\ \A j \in DOMAIN grants : \E i \in DOMAIN grants : p[i] = j
  BY <1>1 DEF Bijection, Injection, Surjection
<1>3. /\ DOMAIN other = DOMAIN grants
      /\ \A i \in DOMAIN grants : other[i] = grants[p[i]]
  BY <1>1
<1>4. \A i \in DOMAIN grants :
        i \in Stops(Reg, k, other) <=> p[i] \in Stops(Reg, k, grants)
  BY <1>2, <1>3 DEF Stops
<1>5. CASE Stops(Reg, k, grants) = {}
  <2>1. Stops(Reg, k, other) = {}
    BY <1>3, <1>4, <1>5 DEF Stops
  <2>2. {GrantQ(Reg, other[i]) : i \in DOMAIN other}
          = {GrantQ(Reg, grants[i]) : i \in DOMAIN grants}
    BY <1>2, <1>3
  <2> QED
    BY <1>3, <1>5, <2>1, <2>2, CompileCases
<1>6. CASE Stops(Reg, k, grants) # {}
  <2>1. Stops(Reg, k, other) # {}
    BY <1>2, <1>4, <1>6 DEF Stops
  <2>2. /\ CompileGrants(Reg, k, other) \in {All, Misconfigured}
        /\ CompileGrants(Reg, k, grants) \in {All, Misconfigured}
    BY <1>3, <1>6, <2>1, CompileCases
  <2> QED
    BY <2>2
<1> QED
  BY <1>5, <1>6

(* Whatever administrators compose, the order of the rules of a key does   *)
(* not move a row: it decides whether a stuck rule beside one for every    *)
(* row raises (resolver.py:203-233).                                       *)
THEOREM OrderDecidesRaising == Spec => []OrderOnlyDecidesRaising
<1>1. Inv => OrderOnlyDecidesRaising
  <2> SUFFICES ASSUME Inv, NEW u \in User, NEW k \in Key,
                      NEW other \in Reorderings(ObjectGrants(tables, u.roles, k))
               PROVE  LET scope == CompileGrants(Reg, k, ObjectGrants(tables, u.roles, k))
                      IN \/ CompileGrants(Reg, k, other) = scope
                         \/ {CompileGrants(Reg, k, other), scope} = {All, Misconfigured}
    BY DEF OrderOnlyDecidesRaising
  <2>1. DOMAIN ObjectGrants(tables, u.roles, k) \subseteq Nat
    BY RulesInOrder, ObjectGrantsFind
  <2> QED
    BY <2>1, ReorderedCompile
<1> QED
  BY <1>1, Invariance, PTL

(* What assert_writable lets through passes each of the checks it stands   *)
(* for (resolver.py:291-380).                                              *)
LEMMA OkMeansChecked ==
  ASSUME NEW c, NEW u, ~u.super, NEW k \in Key, NEW d \in Data, Verdict(c, u, k, d) = "ok"
  PROVE  /\ EndpointGrant(c, u, k)
         /\ DOMAIN d \cap Reg.keys[k].fields \subseteq Visible(c, u, k)
         /\ \A f \in DOMAIN d, g \in Grants(c, u, k) :
              f \in DOMAIN g.values =>
                \E h \in Grants(c, u, k) : f \in DOMAIN h.values /\ d[f] \in h.values[f]
         /\ \A f \in DOMAIN d \cap DOMAIN Reg.keys[k].references :
              d[f] # NoRow => d[f] \in Rows(c, u, Reg.keys[k].references[f])
<1> DEFINE grants == Grants(c, u, k)
           values == AllowedValues(u, grants)
           refs == Reg.keys[k].references
           scopes == [x \in DOMAIN Reg.keys |-> ScopeOf(c, u, x)]
<1>1. /\ CheckEndpoint(u, EndpointGrant(c, u, k))
      /\ DOMAIN d \subseteq VisibleFields(Reg, u, k, DOMAIN d, grants)
      /\ \A f \in DOMAIN d \cap DOMAIN values : d[f] \in values[f]
      /\ \A f \in DOMAIN d \cap DOMAIN refs :
           ReferenceInScope(Reg, refs[f], scopes[refs[f]], d[f])
  BY DEF Verdict, Writable
<1>2. EndpointGrant(c, u, k) /\ u.roles # {}
  BY <1>1 DEF CheckEndpoint, EndpointGrant
<1>3. DOMAIN d \cap Reg.keys[k].fields \subseteq Visible(c, u, k)
  BY <1>1 DEF Visible, VisibleFields
<1>4. ASSUME NEW f \in DOMAIN d, NEW g \in grants, f \in DOMAIN g.values
      PROVE  \E h \in grants : f \in DOMAIN h.values /\ d[f] \in h.values[f]
  <2>1. values = [x \in UNION {DOMAIN h.values : h \in grants} |->
                    UNION {h.values[x] : h \in {j \in grants : x \in DOMAIN j.values}}]
    BY <1>2 DEF AllowedValues
  <2>2. f \in DOMAIN values
    BY <1>4, <2>1
  <2>3. d[f] \in UNION {h.values[f] : h \in {j \in grants : f \in DOMAIN j.values}}
    BY <1>1, <2>1, <2>2
  <2> QED
    BY <2>3
<1>5. ASSUME NEW f \in DOMAIN d \cap DOMAIN refs, d[f] # NoRow
      PROVE  d[f] \in Rows(c, u, refs[f])
  <2>1. refs[f] \in DOMAIN Reg.keys /\ CheckObject(ScopeOf(c, u, refs[f]), d[f])
    BY <1>1, <1>5 DEF ReferenceInScope, IsKey
  <2>2. d[f] \in Row
    BY <1>5, CompositionAssumption
  <2> QED
    BY <2>1, <2>2 DEF Rows, RowsIn, CheckObject
<1> QED
  BY <1>2, <1>3, <1>4, <1>5

THEOREM WritesChecked == Spec => []WritesAreFullyChecked
<1>1. WritesAreFullyChecked
  BY OkMeansChecked DEF WritesAreFullyChecked, Mortal
<1> QED
  BY <1>1, PTL

-----------------------------------------------------------------------------
(* The three directions of an edit.  They assume filters that never return *)
(* Q(): a union drops it, so that with it none of the three is true.       *)

(* A rule and the endpoint that open a row are there in the larger tables, *)
(* and the rule has no condition it did not have.                          *)
LEMMA LargerOpensMore ==
  ASSUME NEW c, NEW d, NEW u, NEW k, NEW row, Open(c, u, k, row),
         c.bindings \subseteq d.bindings, c.endpoints \subseteq d.endpoints,
         c.rules \subseteq d.rules,
         \A r \in c.rules : \A x \in d.conditions : x.rule = r.id => x \in c.conditions
  PROVE  Open(d, u, k, row)
<1>1. HeldBy(c, u.roles) \subseteq HeldBy(d, u.roles)
  BY DEF HeldBy
<1>2. EndpointGrant(d, u, k)
  BY <1>1 DEF Open, EndpointGrant, HasEndpointGrant
<1>3. PICK r \in Held(c, u.roles, k) : AdmitsRow(Reg, k, ConditionsOf(c, r), row)
  BY DEF Open
<1>4. r \in Held(d, u.roles, k) /\ r \in c.rules
  BY <1>1 DEF Held
<1>5. ConditionsOf(d, r) \subseteq ConditionsOf(c, r)
  BY <1>4 DEF ConditionsOf
<1> QED
  BY <1>2, <1>3, <1>4, <1>5 DEF Open, AdmitsRow

(* A step that adds a rule is the add form: the conditions of the rules    *)
(* there were stay, and nothing else changes.                              *)
LEMMA AddedIsLarger ==
  ASSUME Inv, [Next]_tables, Added
  PROVE  /\ tables.bindings = tables'.bindings /\ tables.endpoints = tables'.endpoints
         /\ tables.rules \subseteq tables'.rules
         /\ \A r \in tables.rules : \A x \in tables'.conditions :
              x.rule = r.id => x \in tables.conditions
<1> DEFINE Larger ==
      /\ tables.bindings = tables'.bindings /\ tables.endpoints = tables'.endpoints
      /\ tables.rules \subseteq tables'.rules
      /\ \A r \in tables.rules : \A x \in tables'.conditions :
           x.rule = r.id => x \in tables.conditions
<1>1. ASSUME NEW p \in Permission, NEW k \in Key,
             NEW conds \in SUBSET ConditionChoices, AddRule(p, k, conds)
      PROVE  Larger
  <2> DEFINE used == {r.id : r \in tables.rules}
             id == CHOOSE i \in 1..MaxRules : i \notin used
  <2>1. \A r \in tables.rules : r.id # id
    BY <1>1, FreeId DEF AddRule, Inv
  <2>2. tables' = [tables EXCEPT
          !.rules = @ \cup {[id |-> id, permission |-> p, key |-> k]},
          !.conditions = @ \cup
             {[rule |-> id, filter |-> c.filter, params |-> c.params] : c \in conds}]
    BY <1>1 DEF AddRule
  <2> HIDE DEF id
  <2> QED
    BY <2>1, <2>2 DEF Inv
<1>2. ASSUME NEW rule \in tables.rules, NEW k \in Key,
             NEW conds \in SUBSET ConditionChoices, ChangeRule(rule, k, conds)
      PROVE  FALSE
  <2>1. tables'.rules = (tables.rules \ {rule}) \cup {[rule EXCEPT !.key = k]}
    BY <1>2 DEF ChangeRule, Inv
  <2> QED
    BY <2>1 DEF Added
<1>3. CASE Revoked
  BY <1>3, RevokedIsPart DEF Added, Part
<1>4. CASE tables'.rules = tables.rules
  BY <1>4 DEF Added
<1>5. \/ \E p \in Permission, k \in Key, conds \in SUBSET ConditionChoices :
          AddRule(p, k, conds)
      \/ \E rule \in tables.rules, k \in Key, conds \in SUBSET ConditionChoices :
          ChangeRule(rule, k, conds)
      \/ Revoked
      \/ tables'.rules = tables.rules
  BY DEF Next, Revoked, Bind, GrantEndpoint, GrantFields, RevokeFields, Inv
<1> QED
  BY <1>1, <1>2, <1>3, <1>4, <1>5

(* More rules can only ever add access, as long as they compile            *)
(* (models.py:18).                                                         *)
THEOREM RulesAdd ==
  ASSUME PlainFilters(Reg)
  PROVE  Spec => MoreRulesOnlyAdd
<1> DEFINE Adds ==
      Added => \A u \in User, k \in Key :
        LET scope == ScopeOf(tables', u, k)
        IN ~Raises(scope) => Rows(tables, u, k) \subseteq RowsIn(scope)
<1>1. Inv /\ Inv' /\ [Next]_tables => Adds
  <2> SUFFICES ASSUME Inv, Inv', [Next]_tables, Added,
                      NEW u \in User, NEW k \in Key, ~Raises(ScopeOf(tables', u, k))
               PROVE  Rows(tables, u, k) \subseteq Rows(tables', u, k)
    BY DEF Rows
  <2>1. Orderly(tables.rules) /\ Orderly(tables'.rules)
    BY RulesInOrder, CompositionAssumption DEF Inv, IsRule, TypeOK, WellFormed, Orderly
  <2>2. \A row : Open(tables, u, k, row) => Open(tables', u, k, row)
    BY AddedIsLarger, LargerOpensMore
  <2> QED
    BY <2>1, <2>2, OpeningDecides
<1>2. [][Adds]_tables => MoreRulesOnlyAdd
  BY PTL DEF MoreRulesOnlyAdd
<1> QED
  BY <1>1, <1>2, Invariance, PTL DEF Spec

(* Taking away a binding, an endpoint, a rule or a permission never shows  *)
(* anybody a row they could not see (models.py:154-201).                   *)
THEOREM RevocationsNarrow ==
  ASSUME PlainFilters(Reg)
  PROVE  Spec => RevocationNarrows
<1> DEFINE Narrows ==
      Revoked => \A u \in User, k \in Key :
        ~Raises(ScopeOf(tables, u, k)) => Rows(tables, u, k)' \subseteq Rows(tables, u, k)
<1>1. Inv /\ Inv' => Narrows
  <2> SUFFICES ASSUME Inv, Inv', Revoked,
                      NEW u \in User, NEW k \in Key, ~Raises(ScopeOf(tables, u, k))
               PROVE  Rows(tables', u, k) \subseteq Rows(tables, u, k)
    OBVIOUS
  <2>1. Orderly(tables.rules) /\ Orderly(tables'.rules)
    BY RulesInOrder, CompositionAssumption DEF Inv, IsRule, TypeOK, WellFormed, Orderly
  <2>2. \A row : Open(tables', u, k, row) => Open(tables, u, k, row)
    BY RevokedIsPart, LargerOpensMore DEF Part
  <2> QED
    BY <2>1, <2>2, OpeningDecides
<1>2. [][Narrows]_tables => RevocationNarrows
  BY PTL DEF RevocationNarrows
<1> QED
  BY <1>1, <1>2, Invariance, PTL DEF Spec

(* A step that only adds conditions is the change form: the rules that     *)
(* are found are the same, in the same order.                              *)
LEMMA NarrowedKeepsRules ==
  ASSUME Inv, [Next]_tables, Narrowed
  PROVE  tables'.bindings = tables.bindings /\ tables'.endpoints = tables.endpoints
<1>1. ASSUME NEW rule \in tables.rules, NEW k \in Key,
             NEW conds \in SUBSET ConditionChoices, ChangeRule(rule, k, conds)
      PROVE  tables'.bindings = tables.bindings /\ tables'.endpoints = tables.endpoints
  BY <1>1 DEF ChangeRule, Inv
<1>2. ASSUME NEW p \in Permission, NEW k \in Key,
             NEW conds \in SUBSET ConditionChoices, AddRule(p, k, conds)
      PROVE  FALSE
  <2> DEFINE used == {r.id : r \in tables.rules}
             id == CHOOSE i \in 1..MaxRules : i \notin used
  <2>1. \A r \in tables.rules : r.id # id
    BY <1>2, FreeId DEF AddRule, Inv
  <2>2. tables' = [tables EXCEPT
          !.rules = @ \cup {[id |-> id, permission |-> p, key |-> k]},
          !.conditions = @ \cup
             {[rule |-> id, filter |-> c.filter, params |-> c.params] : c \in conds}]
    BY <1>2 DEF AddRule
  <2> HIDE DEF id
  <2>3. [id |-> id, permission |-> p, key |-> k] \in tables'.rules
    BY <2>2 DEF Inv
  <2> QED
    BY <2>1, <2>3 DEF Narrowed
<1>3. CASE Revoked
  BY <1>3, RevokedIsPart DEF Narrowed, Part
<1>4. CASE tables'.conditions = tables.conditions
  BY <1>4 DEF Narrowed
<1>5. \/ \E p \in Permission, k \in Key, conds \in SUBSET ConditionChoices :
          AddRule(p, k, conds)
      \/ \E rule \in tables.rules, k \in Key, conds \in SUBSET ConditionChoices :
          ChangeRule(rule, k, conds)
      \/ Revoked
      \/ tables'.conditions = tables.conditions
  BY DEF Next, Revoked, Bind, GrantEndpoint, GrantFields, RevokeFields, Inv
<1> QED
  BY <1>1, <1>2, <1>3, <1>4, <1>5

(* With the same rules and fewer conditions, what compiled compiles.       *)
LEMMA FewerConditionsResolve ==
  ASSUME NEW c, NEW d, Orderly(c.rules), c.rules = d.rules,
         c.bindings = d.bindings, c.endpoints = d.endpoints,
         c.conditions \subseteq d.conditions,
         NEW u, ~u.super, NEW k \in Key, NEW row, Open(d, u, k, row),
         ~Raises(ScopeOf(d, u, k))
  PROVE  ~Raises(ScopeOf(c, u, k))
<1> DEFINE before == ObjectGrants(c, u.roles, k)
           after == ObjectGrants(d, u.roles, k)
           s == RulesFor(c, u.roles, k)
<1>1. HeldBy(c, u.roles) = HeldBy(d, u.roles)
  BY DEF HeldBy
<1>2. s = RulesFor(d, u.roles, k)
  BY <1>1 DEF RulesFor
<1>3. DOMAIN s \subseteq Nat
  BY RulesForFinds
<1>4. before = [i \in DOMAIN s |-> [name |-> s[i].id, conditions |-> ConditionsOf(c, s[i])]]
  BY DEF ObjectGrants, WithConditions, ConditionsOf
<1>5. after = [i \in DOMAIN s |-> [name |-> s[i].id, conditions |-> ConditionsOf(d, s[i])]]
  BY <1>2 DEF ObjectGrants, WithConditions, ConditionsOf
<1>6. \A r : ConditionsOf(c, r) \subseteq ConditionsOf(d, r)
  BY DEF ConditionsOf
<1>7. EndpointGrant(d, u, k) /\ after # <<>>
  <2>1. DOMAIN after # {}
    BY ObjectGrantsFind DEF Open
  <2> QED
    BY <2>1 DEF Open
<1>8. ~Raises(CompileGrants(Reg, k, after))
  BY <1>7, ScopeCases, CompositionAssumption
<1> HIDE DEF before, after, s
<1>9. ~Raises(CompileGrants(Reg, k, before))
  BY <1>3, <1>4, <1>5, <1>6, <1>8, FewerConditionsCompile
<1>10. ScopeOf(c, u, k) \in {Deny, CompileGrants(Reg, k, before)}
  BY CompositionAssumption DEF ScopeOf, ResolveScope, IsKey, before
<1> QED
  BY <1>9, <1>10 DEF Raises, Deny

(* More conditions on a rule can only ever remove access (models.py:18-19).*)
THEOREM ConditionsRemove ==
  ASSUME PlainFilters(Reg)
  PROVE  Spec => MoreConditionsOnlyRemove
<1> DEFINE Removes ==
      Narrowed => \A u \in User, k \in Key :
        Rows(tables, u, k)' \subseteq Rows(tables, u, k)
<1>1. Inv /\ Inv' /\ [Next]_tables => Removes
  <2> SUFFICES ASSUME Inv, Inv', [Next]_tables, Narrowed, NEW u \in User, NEW k \in Key,
                      NEW row \in Rows(tables', u, k)
               PROVE  row \in Rows(tables, u, k)
    OBVIOUS
  <2>1. Orderly(tables.rules) /\ Orderly(tables'.rules)
    BY RulesInOrder, CompositionAssumption DEF Inv, IsRule, TypeOK, WellFormed, Orderly
  <2>2. /\ tables.rules = tables'.rules /\ tables.conditions \subseteq tables'.conditions
        /\ tables.bindings = tables'.bindings /\ tables.endpoints = tables'.endpoints
    BY NarrowedKeepsRules DEF Narrowed
  <2>3. CASE u.super
    BY <2>3, SuperuserSeesAll
  <2>4. CASE ~u.super
    <3>1. Open(tables', u, k, row)
      BY <2>1, <2>4, ShownIsOpen
    <3>2. Open(tables, u, k, row)
      BY <2>2, <3>1, LargerOpensMore
    <3>3. ~Raises(ScopeOf(tables', u, k))
      BY DEF Rows, RowsIn, Raises
    <3>4. ~Raises(ScopeOf(tables, u, k))
      BY <2>1, <2>2, <2>4, <3>1, <3>3, FewerConditionsResolve
    <3> QED
      BY <2>1, <2>4, <3>2, <3>4, OpenIsShown
  <2> QED
    BY <2>3, <2>4
<1>2. [][Removes]_tables => MoreConditionsOnlyRemove
  BY PTL DEF MoreConditionsOnlyRemove
<1> QED
  BY <1>1, <1>2, Invariance, PTL DEF Spec
=============================================================================
