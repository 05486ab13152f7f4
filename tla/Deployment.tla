----------------------------- MODULE Deployment -----------------------------
(***************************************************************************)
(* What happens to compositions as the code they refer to changes: new     *)
(* releases, permkit_sync runs publishing the registry to the catalogue    *)
(* (catalogue/sync.py), administrators composing from the catalogue        *)
(* (admin.py), spec files applied by deploys (spec.py).  A request is      *)
(* decided by the release that serves it and by the tables as they are.    *)
(***************************************************************************)
EXTENDS SpecFile

CONSTANTS
  None,
  Releases,     \* registries the code may have
  Files,        \* spec files that may be applied
  Role, Key, Label,
  Permission,   \* permissions administrators create and edit
  Params,       \* params an administrator may type
  MaxRules      \* bound: rules that exist at once

ASSUME DeploymentAssumption == MaxRules \in Nat /\ None \notin Releases

(* A release is a registry.                                                *)
ASSUME ReleasesAssumption ==
  \A release \in Releases :
    DOMAIN release = {"explicit", "objects", "endpoints", "filters", "groups", "points"}

(* A file names finitely many permissions, with lists of rules and fields. *)
IsList(s) == Len(s) \in Nat /\ DOMAIN s = 1..Len(s)

ASSUME FilesAssumption ==
  \A file \in Files :
    /\ IsFiniteSet(DOMAIN file.permissions)
    /\ \A p \in DOMAIN file.permissions :
         IsList(file.permissions[p].rules) /\ IsList(file.permissions[p].fields)

(* Permissions are numbers, which their rules are ordered by.              *)
ASSUME PermissionAssumption ==
  /\ Permission \subseteq Nat
  /\ \A file \in Files : DOMAIN file.permissions \subseteq Nat

VARIABLES
  code,         \* the release in service
  cat,          \* the catalogue tables
  sync,         \* the run of permkit_sync under way, or None
  published,    \* the release whose run committed last, or None
  exit,         \* how the last run ended: None, "clean", "errors"
  permissions,  \* Permission rows
  tables        \* the composition tables

vars == <<code, cat, sync, published, exit, permissions, tables>>

Init ==
  /\ code \in Releases
  /\ cat = EmptyCatalogue
  /\ sync = None
  /\ published = None
  /\ exit = None
  /\ permissions = {}
  /\ tables = NoTables

-----------------------------------------------------------------------------
Release ==
  /\ \E c \in Releases \ {code} : code' = c
  /\ UNCHANGED <<cat, sync, published, exit, permissions, tables>>

(* A run of permkit_sync is one transaction at READ COMMITTED, and one run *)
(* at a time writes the catalogue.  It is                                  *)
(*   [release, asked, clean, rules, conditions]                            *)
(* asked: how many queries of validate it has executed; clean: no error so *)
(* far; rules, conditions: what its second and third query returned, the   *)
(* conditions with their rules.  They matter while the run is clean.       *)
Validating(release, asked, clean, rules, conditions) ==
  [release |-> release, asked |-> asked, clean |-> clean,
   rules |-> IF clean THEN rules ELSE {}, conditions |-> IF clean THEN conditions ELSE {}]

(* The declarations of the release are loaded and the tables reconciled    *)
(* one after the other; nobody else sees that before the commit.           *)
StartSync ==
  /\ sync = None
  /\ sync' = Validating(code, 0, DeclarationErrors(code) = {}, {}, {})
  /\ UNCHANGED <<code, cat, published, exit, permissions, tables>>

(* What the open transaction has written.                                  *)
Written == Published(cat, sync.release)

(* Each query of validate sees the catalogue of its own transaction and    *)
(* the compositions committed by then.                                     *)
Ask(n, errors, rules, conditions) ==
  /\ sync # None
  /\ sync.asked = n
  /\ sync' = Validating(sync.release, n + 1, sync.clean /\ errors = {}, rules, conditions)
  /\ UNCHANGED <<code, cat, published, exit, permissions, tables>>

AskEndpoints == Ask(0, EndpointErrors(Written, tables), {}, {})

AskRules == Ask(1, RuleErrors(sync.release, Written, tables), tables.rules, {})

WithRule(c) == {pair \in c.conditions \X c.rules : pair[1].rule = pair[2].id}

AskConditions == Ask(2, ConditionErrors(Written, tables), sync.rules, WithRule(tables))

AskFields ==
  Ask(3, FieldErrors(sync.release, Written, tables), sync.rules, sync.conditions)

(* An import or a statement fails, or the process dies: the transaction    *)
(* rolls back.                                                             *)
AbortSync ==
  /\ sync # None
  /\ sync' = None
  /\ exit' = "errors"
  /\ UNCHANGED <<code, cat, published, permissions, tables>>

(* The transaction ends and the command exits.  Errors make it fail, but   *)
(* what was written is committed; --check rolls back.                      *)
EndSync(commit) ==
  /\ sync # None
  /\ sync.asked = 4
  /\ cat' = IF commit THEN Written ELSE cat
  /\ exit' = IF sync.clean /\ (commit \/ ~SomethingChanged(Reported(cat, sync.release)))
             THEN "clean" ELSE "errors"
  /\ published' = IF commit THEN sync.release ELSE published
  /\ sync' = None
  /\ UNCHANGED <<code, permissions, tables>>

-----------------------------------------------------------------------------
AddPermission(p) ==
  /\ p \notin permissions
  /\ permissions' = permissions \cup {p}
  /\ UNCHANGED <<code, cat, sync, published, exit, tables>>

Compose(new) ==
  /\ tables' = new
  /\ new # tables
  /\ UNCHANGED <<code, cat, sync, published, exit, permissions>>

Bind(r, p) == Compose([tables EXCEPT !.bindings = @ \cup {<<r, p>>}])

(* The permission form: the endpoints and field grants of p are posted     *)
(* together.  The dropdowns offer live rows of the catalogue only, and     *)
(* every row that stays is checked, also those nobody touched.             *)
SavePermission(p, keys, fields) ==
  /\ keys \subseteq Live(cat, "endpoints")
  /\ \A g \in fields : g.group \in Live(cat, "groups")
  /\ Compose([tables EXCEPT
       !.endpoints = {e \in @ : e[1] # p} \cup ({p} \X keys),
       !.fields = {g \in @ : g.permission # p} \cup fields])

(* The field grants of p, and those that may be added to them.             *)
FieldChoices(p, verbs) ==
  LET own == {g \in tables.fields : g.permission = p}
  IN own \cup
     {g \in {[permission |-> p, group |-> x, key |-> <<x[1], verb>>, values |-> <<>>] :
                x \in DOMAIN cat.groups, verb \in verbs} :
        \A h \in own : h.group = g.group => h.key # g.key}

(* The registry of a process of the release in service that has imported   *)
(* the modules of the filters `known`; nothing makes it import all.        *)
Imports == SUBSET DOMAIN code.filters

Imported(known) == [code EXCEPT !.filters = Restrict(@, known)]

Clean(cond, known) ==
  cond.filter \in known => cond.params \in DOMAIN code.filters[cond.filter].q

(* What may be posted as the conditions of a rule, at most one.            *)
ConditionSets ==
  {{}} \cup {{x} : x \in [filter : DOMAIN cat.filters, params : Params]}

(* The add form of a rule.  The filters of every object are on offer;      *)
(* params are bound if the process knows the filter.                       *)
AddRule(p, k, label, conds, known) ==
  LET id == FreshId(tables)
  IN /\ Cardinality(tables.rules) < MaxRules
     /\ k[1] \in Live(cat, "objects")
     /\ \A x \in conds : x.filter \in Live(cat, "filters") /\ Clean(x, known)
     /\ Compose([tables EXCEPT
          !.rules = @ \cup {[id |-> id, permission |-> p, key |-> k, label |-> label]},
          !.conditions = @ \cup
            {[rule |-> id, filter |-> x.filter, params |-> x.params] : x \in conds}])

(* The change form of a rule: the filters on offer are live and about its  *)
(* object, and its object is live.  Every row that stays is checked.       *)
ChangeConditions(r, conds, known) ==
  /\ r.key[1] \in Live(cat, "objects")
  /\ \A x \in conds :
       /\ x.filter \in Live(cat, "filters")
       /\ cat.filters[x.filter].data.object = r.key[1]
       /\ Clean(x, known)
  /\ Compose([tables EXCEPT
       !.conditions = {x \in @ : x.rule # r.id} \cup
         {[rule |-> r.id, filter |-> x.filter, params |-> x.params] : x \in conds}])

(* permkit_apply by the release in service: unlike permkit_sync it does    *)
(* not load the declarations.  A refused file changes nothing.             *)
ApplyFile(file, known) ==
  /\ UNCHANGED <<code, cat, sync, published, exit>>
  /\ permissions' = permissions \cup DOMAIN file.permissions
  /\ ~Refused(Imported(known), cat, tables, permissions, file)
  /\ tables' = Applied(tables, file)

Next ==
  \/ Release
  \/ StartSync \/ AskEndpoints \/ AskRules \/ AskConditions \/ AskFields \/ AbortSync
  \/ \E commit \in BOOLEAN : EndSync(commit)
  \/ \E p \in Permission : AddPermission(p)
  \/ \E p \in permissions \cap Permission :
       \/ \E r \in Role : Bind(r, p)
       \/ \E keys \in SUBSET Live(cat, "endpoints"),
             fields \in SUBSET FieldChoices(p, {k[2] : k \in Key}) :
               SavePermission(p, keys, fields)
       \/ \E k \in Key, label \in Label, conds \in ConditionSets, known \in Imports :
               AddRule(p, k, label, conds, known)
  \/ \E r \in {x \in tables.rules : x.permission \in Permission} :
       \/ Compose(DeleteRule(tables, r.id))
       \/ \E conds \in ConditionSets, known \in Imports : ChangeConditions(r, conds, known)
  \/ \E file \in Files, known \in Imports : ApplyFile(file, known)

Spec == Init /\ [][Next]_vars

-----------------------------------------------------------------------------
(* Beside the constraints of the composition tables: whatever the code     *)
(* drops, the rows a composition points at stay in the catalogue           *)
(* (catalogue/models.py:13-19).                                            *)
TypeOK ==
  /\ WellFormed(tables)
  /\ \A r \in tables.rules : r.key[1] \in DOMAIN cat.objects
  /\ \A x \in tables.conditions : x.filter \in DOMAIN cat.filters
  /\ \A e \in tables.endpoints : e[2] \in DOMAIN cat.endpoints
  /\ \A g \in tables.fields : g.group \in DOMAIN cat.groups
  /\ \A f \in DOMAIN cat.filters : cat.filters[f].data.object \in DOMAIN cat.objects

(* Through any sequence of releases that drop, move and bring back         *)
(* declarations, what the last committed run left live is exactly what its *)
(* release declares, as it declares it (sync.py:130-183).                  *)
CatalogueMirrorsCode == published # None => InStep(cat, published)

(* "A second run against an unchanged registry creates, updates, revives   *)
(* and retires nothing" (sync.py:499-501), whatever else happened between. *)
SecondSyncIsNoOp ==
  [][\A commit \in BOOLEAN :
       (EndSync(commit) /\ published = sync.release)
         => ~SomethingChanged(Reported(cat, sync.release))]_vars

Bindable(release, x) ==
  x.params \in DOMAIN release.filters[x.filter].q

(* The filters of a rule are judged by the object its key names; a key     *)
(* registered as a whole may say that it is about another one.             *)
Renamed(release, k) ==
  k \in DOMAIN release.explicit /\ release.explicit[k].resource # k[1]

(* A request can use the rule, and its conditions that the run under way   *)
(* has read, but for what validate does not look at: an object bound to    *)
(* nothing, a key registered under the name of another object, params that *)
(* no longer bind.                                                         *)
UsableAsRead(release, r) ==
  (r.key[1] \in DOMAIN release.objects /\ ~Renamed(release, r.key)) =>
    /\ r.key \in ResolvableKeys(release)
    /\ \A x \in tables.conditions :
         <<x, r>> \in sync.conditions =>
           \/ Usable(View(release), r.key, x)
           \/ x.filter \in DOMAIN release.filters /\ ~Bindable(release, x)

(* When a run exits clean, every rule its second query returned and every  *)
(* condition its third returned that are still there are ones a request    *)
(* can use, whatever was composed between the queries and the commit.      *)
(* What was composed after the query that would have returned it may raise *)
(* (sync.py:318-484, permkit_sync.py:97-123).                              *)
CleanSyncMeansUsable ==
  [][\A commit \in BOOLEAN :
       (EndSync(commit) /\ exit' = "clean") =>
         \A r \in tables.rules \cap sync.rules : UsableAsRead(sync.release, r)]_vars

(* What the release in service shows under key k to who holds exactly the  *)
(* permissions ps.                                                         *)
Shown(ps, k) ==
  LET c == [tables EXCEPT !.bindings = {None} \X ps]
  IN RowsIn(ResolveScope(View(code), [super |-> FALSE, roles |-> {None}], k,
                         HasEndpointGrant(c, {None}, k), ObjectGrants(c, {None}, k)))

(* However far the tables and the release in service have drifted apart,   *)
(* and whatever a clean exit did not report, drift opens nothing: a row is *)
(* shown because of a rule that is held and whose conditions are all       *)
(* conditions of that release, each of which admits the row.  A filter     *)
(* that left, moved or takes other params, an object bound to nothing: all *)
(* of them close (resolver.py:187-233, registry.py:213-247).               *)
DriftFailsClosed ==
  \A ps \in SUBSET permissions, k \in Key : \A row \in Shown(ps, k) :
    \E r \in tables.rules :
      /\ r.permission \in ps /\ r.key = k
      /\ \A x \in tables.conditions : x.rule = r.id =>
           /\ Usable(View(code), k, x)
           /\ row \in Matching(code.filters[x.filter].q[x.params])

(* What a file says of a permission is all that the permission holds, with *)
(* the params and values it says.                                          *)
Holds(c, p, body) ==
  LET own == {r \in c.rules : r.permission = p}
      Conditions(r) == {<<x.filter, x.params>> : x \in {y \in c.conditions : y.rule = r.id}}
  IN /\ {e \in c.endpoints : e[1] = p} = {p} \X body.endpoints
     /\ \A r \in own : \E i \in DOMAIN body.rules : r \in SameRule(c, p, body.rules[i])
     /\ \A i \in DOMAIN body.rules : \E r \in own :
          /\ SameRule(c, p, body.rules[i]) = {r}
          /\ Conditions(r) = {<<f, Stored(body.rules[i].conditions[f])>> :
                                f \in DOMAIN body.rules[i].conditions}
     /\ {g \in c.fields : g.permission = p} = FieldRows(p, body.fields)

(* "A permission named in the spec is fully managed": after a run it holds *)
(* the endpoints, rules, conditions and field grants of the file, with its *)
(* params and allowed values, and no others, whatever it held before; of   *)
(* two entries for one group and verb the last (spec.py:32-35).            *)
FileIsTheTruth ==
  [][\A file \in Files, known \in Imports : ApplyFile(file, known) =>
       \A p \in DOMAIN file.permissions : Holds(tables', p, file.permissions[p])]_vars

(* What the tables hold of a permission.                                   *)
OwnedBy(c, p) ==
  <<{e \in c.endpoints : e[1] = p},
    {r \in c.rules : r.permission = p},
    {g \in c.fields : g.permission = p},
    {x \in c.conditions : \E r \in c.rules : r.id = x.rule /\ r.permission = p}>>

(* "Role bindings are only ever added", and "permissions the spec does not *)
(* name are never touched" (spec.py:36-40).                                *)
FileRevokesNothing ==
  [][\A file \in Files, known \in Imports : ApplyFile(file, known) =>
       /\ tables.bindings \subseteq tables'.bindings
       /\ \A p \in permissions \ DOMAIN file.permissions :
            OwnedBy(tables', p) = OwnedBy(tables, p)]_vars

(* One group is granted twice for one verb, with different values.         *)
Wavers(fields) ==
  \E i, j \in DOMAIN fields :
    SameEntry(fields[i], fields[j]) /\ fields[i].values # fields[j].values

(* The file says something the tables give back in another form.           *)
Garbled(body) ==
  \/ \E i \in DOMAIN body.fields : Stored(body.fields[i].values) # body.fields[i].values
  \/ \E i \in DOMAIN body.rules : \E f \in DOMAIN body.rules[i].conditions :
       Stored(body.rules[i].conditions[f]) # body.rules[i].conditions[f]

NeverSettles(file) ==
  \E p \in DOMAIN file.permissions :
    Wavers(file.permissions[p].fields) \/ Garbled(file.permissions[p])

(* Right after a run the same file is not refused and changes nothing.  It *)
(* says so, unless the file grants one group twice with different values,  *)
(* each of which is written over the other for ever, or holds data that    *)
(* JSON changes, which is for ever compared with what the tables give back *)
(* (permkit_apply.py:6, spec.py:200, 236-245, 254-314).                    *)
ApplyingAgainIsNoOp ==
  [][\A file \in Files, known \in Imports : ApplyFile(file, known) =>
       /\ ~Refused(Imported(known), cat, tables', permissions', file)
       /\ Applied(tables', file) = tables'
       /\ SaysChanged(tables', permissions', file) <=> NeverSettles(file)]_vars

(* JSON changes the params the file writes for the condition x of rule r.  *)
ChangedByJson(body, r, x) ==
  \E i \in DOMAIN body.rules :
    LET rule == body.rules[i]
    IN /\ rule.key = r.key /\ rule.label = r.label
       /\ x.filter \in DOMAIN rule.conditions
       /\ Stored(rule.conditions[x.filter]) # rule.conditions[x.filter]

(* A file that is accepted, against a catalogue in step with the code,     *)
(* composes conditions the code can use on every key that resolves, except *)
(* those whose params were not looked at: the process had not imported the *)
(* filter, or JSON changed them after they were bound (spec.py:173-203).   *)
AppliedRulesResolve ==
  [][\A file \in Files, known \in Imports :
       (ApplyFile(file, known) /\ published = code) =>
       \A x \in tables'.conditions, r \in tables'.rules :
         (x.rule = r.id /\ r.permission \in DOMAIN file.permissions
            /\ r.key \in ResolvableKeys(code) /\ ~Renamed(code, r.key)
            /\ x.filter \in known /\ ~ChangedByJson(file.permissions[r.permission], r, x))
           => Usable(View(code), r.key, x)
    ]_vars
=============================================================================
