------------------------------ MODULE SpecFile ------------------------------
(***************************************************************************)
(* permkit/spec.py: what applying a spec file does to the composition      *)
(* tables.  A file is                                                      *)
(*   file.permissions [permission -> [endpoints, rules, fields]]           *)
(*     endpoints  {key}                                                    *)
(*     rules      <<[key, label, conditions]>>, conditions a function      *)
(*                filter -> params (a later entry replaces an earlier one) *)
(*     fields     <<[group, verb, values]>>                                *)
(*   file.roles       [role -> {permission}]                               *)
(* Rules in the tables carry a label here; `existing` are the permissions  *)
(* there are.  Names, descriptions and the rows of roles are left out.     *)
(* A file is Python, the columns for params and values hold JSON: they     *)
(* give back what was written in its JSON form.                            *)
(***************************************************************************)
EXTENDS Catalogue, GrantTables

CONSTANT Json     \* Python data that JSON changes, and what it makes of it:
                  \* a tuple comes back as a list

ASSUME JsonAssumption == \A v \in DOMAIN Json : Json[v] \notin DOMAIN Json

(* What a JSONField gives back of v.                                       *)
Stored(v) == IF v \in DOMAIN Json THEN Json[v] ELSE v

StoredEach(conditions) == [f \in DOMAIN conditions |-> Stored(conditions[f])]

(* The rows get_or_create may mean: same permission, key and label.        *)
SameRule(c, p, rule) ==
  {r \in c.rules : r.permission = p /\ r.key = rule.key /\ r.label = rule.label}

(* Ids no rule has, one for each member of S.                              *)
FreshIds(c, S) ==
  CHOOSE ids \in Injection(S, 1..(Cardinality(c.rules) + Cardinality(S))) :
    \A x \in S, r \in c.rules : r.id # ids[x]

FreshId(c) == FreshIds(c, {0})[0]

(* Slip: a filter is looked up by its name only.                           *)
RuleRefusedByName(code, cat, c, p, rule) ==
  \/ rule.key[1] \notin Live(cat, "objects")
  \/ \E r, s \in SameRule(c, p, rule) : r # s
  \/ \E f \in DOMAIN rule.conditions :
       \/ f \notin Live(cat, "filters")
       \/ /\ f \in DOMAIN code.filters
          /\ rule.conditions[f] \notin DOMAIN code.filters[f].q

(* Entries for which the transaction rolls back: what the catalogue does   *)
(* not offer, two rows for one rule, a filter about another object, params *)
(* that do not bind (if the code declares the filter).                     *)
RuleRefused(code, cat, c, p, rule) ==
  \/ rule.key[1] \notin Live(cat, "objects")
  \/ \E r, s \in SameRule(c, p, rule) : r # s
  \/ \E f \in DOMAIN rule.conditions :
       \/ f \notin Live(cat, "filters")
       \/ cat.filters[f].data.object # rule.key[1]
       \/ /\ f \in DOMAIN code.filters
          /\ rule.conditions[f] \notin DOMAIN code.filters[f].q

BodyRefused(code, cat, c, p, body) ==
  \/ ~(body.endpoints \subseteq Live(cat, "endpoints"))
  \/ \E i \in DOMAIN body.rules : RuleRefused(code, cat, c, p, body.rules[i])
  \/ \E i, j \in DOMAIN body.rules :
       /\ i # j
       /\ body.rules[i].key = body.rules[j].key
       /\ body.rules[i].label = body.rules[j].label
  \/ \E i \in DOMAIN body.fields : body.fields[i].group \notin Live(cat, "groups")

Refused(code, cat, c, existing, file) ==
  \/ \E p \in DOMAIN file.permissions :
       BodyRefused(code, cat, c, p, file.permissions[p])
  \/ \E r \in DOMAIN file.roles :
       ~(file.roles[r] \subseteq existing \cup DOMAIN file.permissions)

-----------------------------------------------------------------------------
(* What is written for the permissions of specs, a function from           *)
(* permissions to what the file says of them.  The rows of a permission    *)
(* are its own, so they are written for all permissions at once.           *)
WithEndpoints(c, specs) ==
  [c EXCEPT !.endpoints = {e \in @ : e[1] \notin DOMAIN specs} \cup
     UNION {{p} \X specs[p].endpoints : p \in DOMAIN specs}]

Entries(specs) == UNION {{p} \X DOMAIN specs[p].rules : p \in DOMAIN specs}

EntryRule(specs, e) == specs[e[1]].rules[e[2]]

(* get_or_create, for each entry.                                          *)
RuleIds(c, specs) ==
  LET Rows(e) == SameRule(c, e[1], EntryRule(specs, e))
      created == FreshIds(c, {e \in Entries(specs) : Rows(e) = {}})
  IN [e \in Entries(specs) |->
        IF Rows(e) = {} THEN created[e] ELSE (CHOOSE r \in Rows(e) : TRUE).id]

(* The rules of specs with the conditions it says, beside the rules that   *)
(* are left alone.                                                         *)
RulesBeside(c, specs, alone) ==
  LET ids == RuleIds(c, specs)
      Conditions(e) == StoredEach(EntryRule(specs, e).conditions)
  IN [c EXCEPT
        !.rules = alone \cup
          {[id |-> ids[e], permission |-> e[1], key |-> EntryRule(specs, e).key,
            label |-> EntryRule(specs, e).label] : e \in Entries(specs)},
        !.conditions = {x \in @ : \E r \in alone : r.id = x.rule} \cup
          UNION {{[rule |-> ids[e], filter |-> f, params |-> Conditions(e)[f]] :
                    f \in DOMAIN Conditions(e)} : e \in Entries(specs)}]

WithRules(c, specs) ==
  RulesBeside(c, specs, {r \in c.rules : r.permission \notin DOMAIN specs})

(* Entries are applied in order, so the last one for a group and verb      *)
(* stays.                                                                  *)
SameEntry(a, b) == a.group = b.group /\ a.verb = b.verb

Row4(p, entry) ==
  [permission |-> p, group |-> entry.group,
   key |-> <<entry.group[1], entry.verb>>, values |-> Stored(entry.values)]

FieldRows(p, fields) ==
  {Row4(p, fields[i]) : i \in {j \in DOMAIN fields :
     \A k \in DOMAIN fields : k > j => ~SameEntry(fields[k], fields[j])}}

(* Slip: a field grant that is there keeps the values it has.              *)
WithFieldsAsTheyStand(c, specs) ==
  LET Standing(g) == {h \in c.fields : h.permission = g.permission /\ h.group = g.group
                                         /\ h.key = g.key}
  IN [c EXCEPT !.fields = {g \in @ : g.permission \notin DOMAIN specs} \cup
       UNION {IF Standing(g) = {} THEN {g} ELSE Standing(g) :
                g \in UNION {FieldRows(p, specs[p].fields) : p \in DOMAIN specs}}]

WithFields(c, specs) ==
  [c EXCEPT !.fields = {g \in @ : g.permission \notin DOMAIN specs} \cup
     UNION {FieldRows(p, specs[p].fields) : p \in DOMAIN specs}]

(* Slip: the roles of the file hold exactly what it says.                  *)
WithRolesReplaced(c, roles) ==
  [c EXCEPT !.bindings = {b \in @ : b[1] \notin DOMAIN roles} \cup
                         UNION {{r} \X roles[r] : r \in DOMAIN roles}]

WithRoles(c, roles) ==
  [c EXCEPT !.bindings = @ \cup UNION {{r} \X roles[r] : r \in DOMAIN roles}]

Applied(c, file) ==
  LET specs == file.permissions
  IN WithRoles(WithFields(WithRules(WithEndpoints(c, specs), specs), specs), file.roles)

-----------------------------------------------------------------------------
(* What an entry of the file is compared with is what the tables give      *)
(* back.  The values a field entry meets are those of the entry before it  *)
(* for the same group and verb, or else of the row.                        *)
MetValues(c, p, fields, i) ==
  LET before == {j \in 1..(i - 1) : SameEntry(fields[j], fields[i])}
  IN IF before # {}
     THEN {Row4(p, fields[CHOOSE j \in before : \A k \in before : k <= j]).values}
     ELSE {g.values : g \in {x \in c.fields :
             /\ x.permission = p /\ x.group = fields[i].group
             /\ x.key = Row4(p, fields[i]).key}}

MetParams(c, p, rule, f) ==
  {x.params : x \in {y \in c.conditions :
     y.filter = f /\ \E r \in SameRule(c, p, rule) : r.id = y.rule}}

Single(p, body) == [q \in {p} |-> body]

(* Slip: every rule written counts as a change.                            *)
TouchedByEveryRule(c, p, body) ==
  \/ WithEndpoints(c, Single(p, body)) # c
  \/ body.rules # <<>>
  \/ WithFields(c, Single(p, body)) # c

(* SpecReport: does this run say that it changed the permission?           *)
Touched(c, p, body) ==
  \/ WithEndpoints(c, Single(p, body)) # c
  \/ WithRules(c, Single(p, body)) # c
  \/ \E i \in DOMAIN body.rules : \E f \in DOMAIN body.rules[i].conditions :
       MetParams(c, p, body.rules[i], f) # {body.rules[i].conditions[f]}
  \/ \E i \in DOMAIN body.fields :
       MetValues(c, p, body.fields, i) # {body.fields[i].values}
  \/ WithFields(c, Single(p, body)) # c

SaysChanged(c, existing, file) ==
  \/ \E p \in DOMAIN file.permissions :
       p \notin existing \/ Touched(c, p, file.permissions[p])
  \/ WithRoles(c, file.roles) # c
=============================================================================
