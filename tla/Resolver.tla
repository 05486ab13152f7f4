------------------------------ MODULE Resolver ------------------------------
(***************************************************************************)
(* permkit/resolver.py: what a Policy decides, as operators over           *)
(*   reg    the code's declarations:                                       *)
(*            reg.keys    [key -> [resource, model, fields, references]]   *)
(*            reg.filters [filter -> [object, q]], where q maps each       *)
(*                        params value bind() accepts to the Q it yields   *)
(*   user   [super, roles] as the principal resolver reports it            *)
(* and over what the store answered.  A Q is the set of rows it matches,   *)
(* or Neutral: Django's Q(), which matches every row on its own but        *)
(* vanishes when it is combined.                                           *)
(***************************************************************************)
EXTENDS Naturals, Sequences, FiniteSets

CONSTANTS
  Row,         \* rows of every object's table
  Neutral,     \* Q()
  AnyObject,   \* a filter declared for no object in particular
  NoRow        \* None, as the value of a foreign key

ASSUME ResolverAssumption ==
  /\ NoRow \notin Row
  /\ \A rows \in SUBSET Row : rows # Neutral

(* Django's & and | on Q objects: an empty operand is dropped.             *)
AndQ(qs) ==
  LET told == qs \ {Neutral}
  IN IF told = {} THEN Neutral ELSE {r \in Row : \A q \in told : r \in q}

OrQ(qs) ==
  LET told == qs \ {Neutral}
  IN IF told = {} THEN Neutral ELSE UNION told

(* QuerySet.filter(q) on a whole table.                                    *)
Matching(q) == IF q = Neutral THEN Row ELSE q

-----------------------------------------------------------------------------
(* Endpoint tier.                                                          *)
IsKey(reg, key) == key \in DOMAIN reg.keys

CheckEndpoint(user, endpointGrant) ==
  user.super \/ (user.roles # {} /\ endpointGrant)

-----------------------------------------------------------------------------
(* Object tier.  A scope is [kind, q]; the last two kinds are exceptions.  *)
Deny          == [kind |-> "deny", q |-> {}]
All           == [kind |-> "all", q |-> Neutral]
Filtered(q)   == [kind |-> "filtered", q |-> q]
UnknownKey    == [kind |-> "unknown_key", q |-> {}]
Misconfigured == [kind |-> "misconfigured", q |-> {}]

(* Registry.condition, the object check and ConditionSpec.bind succeed.    *)
Usable(reg, key, cond) ==
  /\ cond.filter \in DOMAIN reg.filters
  /\ reg.filters[cond.filter].object \in {AnyObject, reg.keys[key].resource}
  /\ cond.params \in DOMAIN reg.filters[cond.filter].q

(* Slips here and below, named after what they get wrong, serve the checks *)
(* that every property notices one; nothing else refers to them.           *)
Unconditional(grant) == grant.conditions = {}

GrantQOfAny(reg, grant) ==
  OrQ({reg.filters[c.filter].q[c.params] : c \in grant.conditions})

GrantQ(reg, grant) ==
  AndQ({reg.filters[c.filter].q[c.params] : c \in grant.conditions})

CompileGrantsCollapsing(reg, key, grants) ==
  IF \E i \in DOMAIN grants : \E c \in grants[i].conditions : ~Usable(reg, key, c)
  THEN Misconfigured
  ELSE Filtered(OrQ({GrantQ(reg, grants[i]) : i \in DOMAIN grants}))

CompileGrantsUntilOpen(reg, key, grants) ==
  LET before == {i \in DOMAIN grants :
                   \A j \in DOMAIN grants : Unconditional(grants[j]) => i < j}
  IN IF \E i \in before : \E c \in grants[i].conditions : ~Usable(reg, key, c)
     THEN Misconfigured
     ELSE IF before = {} THEN All
     ELSE Filtered(OrQ({GrantQ(reg, grants[i]) : i \in before}))

CompileGrantsForgiving(reg, key, grants) ==
  LET Kept(i) == {c \in grants[i].conditions : Usable(reg, key, c)}
  IN IF \E i \in DOMAIN grants : Kept(i) = {}
     THEN All
     ELSE Filtered(OrQ({GrantQ(reg, [conditions |-> Kept(i)]) : i \in DOMAIN grants}))

(* Grants are compiled in order: the first unconditional one ends the loop *)
(* with ALL, the first that cannot be compiled raises.                     *)
CompileGrants(reg, key, grants) ==
  LET Broken(i) == \E c \in grants[i].conditions : ~Usable(reg, key, c)
      stops == {i \in DOMAIN grants : Unconditional(grants[i]) \/ Broken(i)}
      first == CHOOSE i \in stops : \A j \in stops : i <= j
  IN IF stops = {}
     THEN Filtered(OrQ({GrantQ(reg, grants[i]) : i \in DOMAIN grants}))
     ELSE IF Unconditional(grants[first]) THEN All ELSE Misconfigured

ResolveScopeOfNoGrants(reg, user, key, endpointGrant, grants) ==
  IF ~IsKey(reg, key) THEN UnknownKey
  ELSE IF user.super THEN All
  ELSE IF ~CheckEndpoint(user, endpointGrant) THEN Deny
  ELSE CompileGrants(reg, key, grants)

ResolveScope(reg, user, key, endpointGrant, grants) ==
  IF ~IsKey(reg, key) THEN UnknownKey
  ELSE IF user.super THEN All
  ELSE IF ~CheckEndpoint(user, endpointGrant) \/ grants = <<>> THEN Deny
  ELSE CompileGrants(reg, key, grants)

Raises(scope) == scope.kind \in {"unknown_key", "misconfigured"}

(* apply_scope on the whole table; check_object asks the same Q by id.     *)
RowsIn(scope) ==
  CASE scope.kind = "all"      -> Row
    [] scope.kind = "filtered" -> Matching(scope.q)
    [] OTHER                   -> {}

CheckObject(scope, row) ==
  \/ scope.kind = "all"
  \/ scope.kind = "filtered" /\ row \in Matching(scope.q)

-----------------------------------------------------------------------------
(* Field tier.  A field grant is [fields, values], values a function from  *)
(* the fields it constrains to the permitted values.                       *)
GrantedFields(user, grants) ==
  IF user.roles = {} THEN {} ELSE UNION {g.fields : g \in grants}

VisibleFields(reg, user, key, candidates, grants) ==
  LET controlled == candidates \cap reg.keys[key].fields
  IN IF user.super
     THEN candidates
     ELSE (candidates \ controlled)
            \cup (controlled \cap GrantedFields(user, grants))

(* Slip: a silent grant permits every value.                               *)
AllowedValuesSilenceIsAny(user, grants) ==
  LET fs == UNION {DOMAIN g.values : g \in grants}
  IN [f \in {x \in fs : \A g \in grants : x \in DOMAIN g.values} |->
        UNION {g.values[f] : g \in grants}]

(* Constrained field -> permitted values, unioned over the grants that     *)
(* constrain it; a silent grant contributes nothing.                       *)
AllowedValues(user, grants) ==
  LET heard == IF user.roles = {} THEN {} ELSE grants
  IN [f \in UNION {DOMAIN g.values : g \in heard} |->
        UNION {g.values[f] : g \in {h \in heard : f \in DOMAIN h.values}}]

(* _assert_reference_in_scope for a single value: the governing key must   *)
(* be known and name a model even when the value is None.                  *)
ReferenceInScope(reg, key, scope, row) ==
  /\ IsKey(reg, key)
  /\ reg.keys[key].model
  /\ row = NoRow \/ CheckObject(scope, row)

(* assert_writable: data maps the fields written to their values, and      *)
(* scopes[k] is the scope of a governing key k.  The first check that      *)
(* fails decides; a reference is refused by a denial or by an exception.   *)
Writable(reg, user, key, endpointGrant, grants, data, scopes) ==
  LET written == DOMAIN data
      values == AllowedValues(user, grants)
      refs == reg.keys[key].references
  IN IF ~IsKey(reg, key) THEN "unknown_key"
     ELSE IF ~CheckEndpoint(user, endpointGrant) THEN "endpoint_denied"
     ELSE IF ~(written \subseteq VisibleFields(reg, user, key, written, grants))
          THEN "field_denied"
     ELSE IF user.super THEN "ok"
     ELSE IF \E f \in written \cap DOMAIN values : data[f] \notin values[f]
          THEN "value_denied"
     ELSE IF \E f \in written \cap DOMAIN refs :
               ~ReferenceInScope(reg, refs[f], scopes[refs[f]], data[f])
          THEN "reference_refused"
     ELSE "ok"

-----------------------------------------------------------------------------
(* explain(user, key, obj): the verdict the trace reports.  The superuser  *)
(* and the principal without roles are answered before the key is looked   *)
(* up.                                                                     *)
ExplainEndpointAlone(reg, user, key, endpointGrant, scope, row) ==
  IF user.super \/ endpointGrant THEN "allowed" ELSE "denied"

Explain(reg, user, key, endpointGrant, scope, row) ==
  IF user.super THEN "allowed"
  ELSE IF user.roles = {} THEN "denied"
  ELSE IF ~IsKey(reg, key) THEN "unknown_key"
  ELSE IF row # NoRow /\ Raises(scope) THEN scope.kind
  ELSE IF endpointGrant /\ (row = NoRow \/ CheckObject(scope, row))
       THEN "allowed" ELSE "denied"
=============================================================================
