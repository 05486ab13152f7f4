---------------------------- MODULE Declaration -----------------------------
(***************************************************************************)
(* How the registry of one process is filled: the registration functions   *)
(* of permkit/registry.py as the decorators of declare.py and the          *)
(* serializers and views of drf.py call them, while Python imports the     *)
(* modules of an application.  A module is a sequence of declarations; an  *)
(* import runs them one by one, and may be interrupted by the imports of   *)
(* other modules, which it triggers itself or another thread makes.  When  *)
(* a declaration raises, the import fails: Python forgets the module and   *)
(* its classes, the registry keeps what was registered so far, and the     *)
(* next import of the module starts again.                                 *)
(*                                                                         *)
(* The registry is a record as in Registry, with the label each endpoint   *)
(* was given.  A declaration is a record whose op names the function it    *)
(* calls: object, references, endpoint, group, point, condition, filter    *)
(* and key register something; class starts the class statement of a view. *)
(* Lists of fields are taken as sets; labels of objects and of groups are  *)
(* left out.                                                               *)
(***************************************************************************)
EXTENDS Catalogue, SequencesExt

CONSTANTS
  Module,        \* Python modules that declare something
  Programs,      \* what they may contain: functions from Module to sequences
  NoLabel,       \* a label left empty
  None,
  MaxFailures    \* bound: imports that fail for reasons of their own

Ops == {"object", "references", "endpoint", "group", "point", "condition",
        "filter", "key", "class"}

(* A class is what one class statement defines.                            *)
ASSUME DeclarationAssumption ==
  /\ MaxFailures \in Nat
  /\ \A p \in Programs :
       /\ p = [m \in Module |-> p[m]]
       /\ \A m \in Module : /\ p[m] \in Seq(ToSet(p[m]))
                            /\ \A d \in ToSet(p[m]) : d.op \in Ops
       /\ \A m, n \in Module : \A i \in DOMAIN p[m], j \in DOMAIN p[n] :
            (p[m][i].op = "class" /\ p[n][j].op = "class"
               /\ p[m][i].class = p[n][j].class) => m = n /\ i = j

(* Decorators run right after the body of the class they are written on:   *)
(* no other class statement comes between.  It is they that list the       *)
(* endpoints of the class; its body may name one.                          *)
ASSUME DecoratorAssumption ==
  \A p \in Programs : \A m \in Module : \A i \in DOMAIN p[m] :
    /\ p[m][i].op = "endpoint" =>
         /\ p[m][i].key # None
         /\ \E j \in 1..i : /\ p[m][j].op = "class" /\ p[m][j].class = p[m][i].class
                            /\ \A k \in (j + 1)..i : p[m][k].op # "class"
    /\ p[m][i].op = "class" => "permission_endpoints" \notin DOMAIN p[m][i].own

VARIABLES
  program,       \* the application: chosen once
  reg,           \* the registry
  pos,           \* pos[m]: declarations of m executed by its latest import
  classes,       \* the view classes that exist
  failures       \* imports that failed for reasons of their own so far

vars == <<program, reg, pos, classes, failures>>

EmptyRegistry ==
  [explicit |-> <<>>, objects |-> <<>>, endpoints |-> <<>>, labels |-> <<>>,
   filters |-> <<>>, groups |-> <<>>, points |-> {}]

(* What the class statement of a serializer declares: its own field groups *)
(* and references, if it is about an object at all.                        *)
SerializerClass(object, groups, references) ==
  IF object = None THEN <<>>
  ELSE [i \in DOMAIN groups |->
          [op |-> "group", object |-> object,
           group |-> groups[i].group, fields |-> groups[i].fields]]
       \o IF DOMAIN references = {} THEN <<>>
          ELSE <<[op |-> "references", object |-> object, references |-> references]>>

(* What a selector decorated with @object_permissions declares.            *)
SelectorSite(object, verb, filters, target) ==
  [i \in DOMAIN filters |->
     [op |-> "filter", object |-> object, filter |-> filters[i].filter, q |-> filters[i].q]]
  \o <<[op |-> "point", object |-> object, verb |-> verb, target |-> target]>>

With(f, x, v) == [y \in DOMAIN f \cup {x} |-> IF y = x THEN v ELSE f[y]]

-----------------------------------------------------------------------------
(* The registration functions.  A slip the checks are tried on first:   *)
(* the references of an earlier serializer are lost.                       *)
RegisterReferencesAnew(r, d) ==
  [r EXCEPT !.objects = With(@, d.object,
     [model |-> Model(r, d.object), references |-> d.references])]

References(r, o) == IF o \in DOMAIN r.objects THEN r.objects[o].references ELSE <<>>

RegisterObject(r, d) ==
  [r EXCEPT !.objects = With(@, d.object,
     [model |-> IF d.model = NoModel THEN Model(r, d.object) ELSE d.model,
      references |-> References(r, d.object)])]

(* A key already governed by another one is overridden.                    *)
RegisterReferences(r, d) ==
  LET old == References(r, d.object)
  IN [r EXCEPT !.objects = With(@, d.object,
        [model |-> Model(r, d.object),
         references |-> [f \in DOMAIN old \cup DOMAIN d.references |->
                           IF f \in DOMAIN d.references THEN d.references[f]
                           ELSE old[f]]])]

(* A second component adds itself to the targets; the label of the first   *)
(* one stays.                                                              *)
RegisterEndpoint(r, d) ==
  LET new == d.key \notin DOMAIN r.endpoints
  IN [r EXCEPT !.endpoints = With(@, d.key,
                               {d.class} \cup IF new THEN {} ELSE @[d.key]),
               !.labels = IF new THEN With(@, d.key, d.label) ELSE @]

RegisterFieldGroup(r, d) ==
  [r EXCEPT !.groups = With(@, <<d.object, d.group>>, d.fields)]

RegisterScopePoint(r, d) ==
  [r EXCEPT !.points = @ \cup {<<d.object, d.verb, d.target>>}]

RegisterCondition(r, d) ==
  [r EXCEPT !.filters = With(@, d.filter, [object |-> d.object, q |-> d.q])]

(* Slip: the last declaration of a filter wins.                            *)
RegisterFilterAgain(r, d) == RegisterCondition(r, d)

(* _register_condition: a filter another site has declared is left alone.  *)
RegisterFilter(r, d) ==
  IF d.filter \in DOMAIN r.filters THEN r ELSE RegisterCondition(r, d)

RegisterKey(r, d) == [r EXCEPT !.explicit = With(@, d.key, d.spec)]

Registered(r, d) ==
  CASE d.op = "object"     -> RegisterObject(r, d)
    [] d.op = "references" -> RegisterReferences(r, d)
    [] d.op = "endpoint"   -> RegisterEndpoint(r, d)
    [] d.op = "group"      -> RegisterFieldGroup(r, d)
    [] d.op = "point"      -> RegisterScopePoint(r, d)
    [] d.op = "condition"  -> RegisterCondition(r, d)
    [] d.op = "filter"     -> RegisterFilter(r, d)
    [] d.op = "key"        -> RegisterKey(r, d)
    [] d.op = "class"      -> r

(* DuplicateRegistration is raised, before anything is written: for        *)
(* another model, another label, other fields, and for the second raw      *)
(* registration of a condition or a key.                                   *)
Rebinds(r, d) ==
  /\ d.op = "object"
  /\ NoModel \notin {d.model, Model(r, d.object)}
  /\ d.model # Model(r, d.object)

Relabels(r, d) ==
  /\ d.op = "endpoint"
  /\ d.key \in DOMAIN r.endpoints
  /\ d.label \notin {NoLabel, r.labels[d.key]}

(* Slip: the last list of fields wins.                                     *)
RegroupsNever(r, d) == FALSE

Regroups(r, d) ==
  /\ d.op = "group"
  /\ <<d.object, d.group>> \in DOMAIN r.groups
  /\ r.groups[<<d.object, d.group>>] # d.fields

(* Slip: a filter may be declared by one site only.                        *)
RedeclaresFilters(r, d) ==
  \/ d.op \in {"condition", "filter"} /\ d.filter \in DOMAIN r.filters
  \/ d.op = "key" /\ d.key \in DOMAIN r.explicit

Redeclares(r, d) ==
  \/ d.op = "condition" /\ d.filter \in DOMAIN r.filters
  \/ d.op = "key" /\ d.key \in DOMAIN r.explicit

Clashes(r, d) == Rebinds(r, d) \/ Relabels(r, d) \/ Regroups(r, d) \/ Redeclares(r, d)

-----------------------------------------------------------------------------
(* Views.  A class has the attributes `own` of its body and of its         *)
(* decorators, and finds the others along its mro.                         *)
Attribute(cs, c, a) ==
  LET mro == cs[c].mro
      holders == {i \in DOMAIN mro : a \in DOMAIN cs[mro[i]].own}
      nearest == CHOOSE i \in holders : \A j \in holders : i <= j
  IN IF holders = {} THEN None ELSE cs[mro[nearest]].own[a]

Own(cs, c, a) == IF a \in DOMAIN cs[c].own THEN cs[c].own[a] ELSE None

Set(cs, c, a, v) == [cs EXCEPT ![c].own = With(@, a, v)]

Defined(cs, m, d) ==
  With(cs, d.class,
       [module |-> m,
        mro |-> <<d.class>> \o IF d.parent = None THEN <<>> ELSE cs[d.parent].mro,
        own |-> d.own])

(* The keys earlier decorators of the class named.                         *)
Seen(cs, c) ==
  IF "permission_endpoints" \in DOMAIN cs[c].own THEN cs[c].own["permission_endpoints"]
  ELSE IF Own(cs, c, "permission_endpoint") # None
       THEN <<Own(cs, c, "permission_endpoint")>> ELSE <<>>

(* Slip: the key of the first decorator stays.                             *)
DecoratedOnce(cs, d) ==
  LET c == d.class
      seen == Seen(cs, c)
      all == IF d.key \in ToSet(seen) THEN seen ELSE Append(seen, d.key)
      named == Set(Set(cs, c, "permission_endpoints", all), c, "permission_endpoint", d.key)
  IN IF Attribute(cs, c, "permission_key") = None
     THEN Set(named, c, "permission_key", d.key) ELSE named

(* api_permission: the attributes it leaves on the class.                  *)
Decorated(cs, d) ==
  LET c == d.class
      seen == Seen(cs, c)
      all == IF d.key \in ToSet(seen) THEN seen ELSE Append(seen, d.key)
      named == Set(cs, c, "permission_endpoints", all)
      single == Set(named, c, "permission_endpoint", d.key)
      several == Set(named, c, "permission_endpoint", None)
  IN IF Len(all) = 1
     THEN IF Attribute(cs, c, "permission_key") = None
          THEN Set(single, c, "permission_key", d.key) ELSE single
     ELSE IF Own(cs, c, "permission_key") \in ToSet(seen)
          THEN Set(several, c, "permission_key", None) ELSE several

(* PermissionRequired._key_for: permission_keys, by action, then by        *)
(* method; else permission_key; else permission_endpoint.                  *)
KeyFor(cs, c, action, method) ==
  LET keys == Attribute(cs, c, "permission_keys")
      byName == {n \in {action, method} : keys # None /\ n \in DOMAIN keys}
      key == Attribute(cs, c, "permission_key")
  IN IF action \in byName THEN keys[action]
     ELSE IF method \in byName THEN keys[method]
     ELSE IF key # None THEN key
     ELSE Attribute(cs, c, "permission_endpoint")

(* The key has_object_permission checks a row against, and the one         *)
(* ScopedQuerysetMixin narrows the rows by; without it, it raises.         *)
ObjectKeyFor(cs, c, action, method) ==
  LET key == Attribute(cs, c, "object_key")
  IN IF key # None THEN key ELSE KeyFor(cs, c, action, method)

QuerysetKey(cs, c) ==
  LET key == Attribute(cs, c, "read_key")
  IN IF key # None THEN key ELSE Attribute(cs, c, "permission_key")

-----------------------------------------------------------------------------
Init ==
  /\ program \in Programs
  /\ reg = EmptyRegistry
  /\ pos = [m \in Module |-> 0]
  /\ classes = <<>>
  /\ failures = 0

Loaded(m) == pos[m] = Len(program[m])

AllLoaded == \A m \in Module : Loaded(m)

Upcoming(m) == program[m][pos[m] + 1]

(* The module of a parent class is imported before the class statement.    *)
ParentImported(m, d) ==
  (d.op = "class" /\ d.parent # None) =>
    /\ d.parent \in DOMAIN classes
    /\ classes[d.parent].module = m \/ Loaded(classes[d.parent].module)

Execute(m) ==
  /\ ~Loaded(m)
  /\ LET d == Upcoming(m)
     IN /\ ParentImported(m, d)
        /\ ~Clashes(reg, d)
        /\ reg' = Registered(reg, d)
        /\ classes' = CASE d.op = "class"    -> Defined(classes, m, d)
                        [] d.op = "endpoint" -> Decorated(classes, d)
                        [] OTHER             -> classes
  /\ pos' = [pos EXCEPT ![m] = @ + 1]
  /\ UNCHANGED <<program, failures>>

(* The import ends with an exception.                                      *)
Forget(m) ==
  /\ pos' = [pos EXCEPT ![m] = 0]
  /\ classes' = [c \in {x \in DOMAIN classes : classes[x].module # m} |-> classes[c]]
  /\ UNCHANGED <<program, reg>>

Clash(m) ==
  /\ ~Loaded(m)
  /\ Clashes(reg, Upcoming(m))
  /\ Forget(m)
  /\ UNCHANGED failures

Fail(m) ==
  /\ ~Loaded(m)
  /\ failures < MaxFailures
  /\ failures' = failures + 1
  /\ Forget(m)

Next == \E m \in Module : Execute(m) \/ Clash(m) \/ Fail(m)

(* A process goes on importing what it needs: permkit_sync names every     *)
(* module, a web process resolves its URLconf again for the next request.  *)
Fairness == \A m \in Module : WF_vars(Execute(m) \/ Clash(m))

Spec == Init /\ [][Next]_vars /\ Fairness

-----------------------------------------------------------------------------
Declarations == UNION {ToSet(program[m]) : m \in Module}

Of(op) == {d \in Declarations : d.op = op}

Honoured(r, cs, d) ==
  CASE d.op = "object"     -> d.object \in DOMAIN r.objects
                              /\ d.model \in {NoModel, Model(r, d.object)}
    [] d.op = "references" -> d.object \in DOMAIN r.objects
                              /\ DOMAIN d.references
                                   \subseteq DOMAIN r.objects[d.object].references
    [] d.op = "endpoint"   -> d.key \in DOMAIN r.endpoints
                              /\ d.class \in r.endpoints[d.key]
                              /\ d.label \in {NoLabel, r.labels[d.key]}
    [] d.op = "group"      -> <<d.object, d.group>> \in DOMAIN r.groups
                              /\ r.groups[<<d.object, d.group>>] = d.fields
    [] d.op = "point"      -> <<d.object, d.verb, d.target>> \in r.points
    [] d.op = "condition"  -> d.filter \in DOMAIN r.filters
                              /\ r.filters[d.filter] = [object |-> d.object, q |-> d.q]
    [] d.op = "filter"     -> d.filter \in DOMAIN r.filters
    [] d.op = "key"        -> d.key \in DOMAIN r.explicit /\ r.explicit[d.key] = d.spec
    [] d.op = "class"      -> d.class \in DOMAIN cs

(* Once an import has succeeded, what the module declares stays in force,  *)
(* whatever is imported, fails or is retried afterwards: two modules that  *)
(* contradict each other never both load (registry.py:100, 145, 175).      *)
DeclarationsStayInForce ==
  \A m \in Module : Loaded(m) => \A d \in ToSet(program[m]) : Honoured(reg, classes, d)

(* What does not depend on the order of the modules: no two declarations,  *)
(* at whatever places, contradict or hide one another.                     *)
Places == UNION {{m} \X DOMAIN program[m] : m \in Module}

At(x) == program[x[1]][x[2]]

Raw == {"condition", "key"}

Agree(d, e) ==
  /\ (d.op = "object" /\ e.op = "object" /\ d.object = e.object)
       => d.model = e.model \/ NoModel \in {d.model, e.model}
  /\ (d.op = "references" /\ e.op = "references" /\ d.object = e.object)
       => \A f \in DOMAIN d.references \cap DOMAIN e.references :
            d.references[f] = e.references[f]
  /\ (d.op = "endpoint" /\ e.op = "endpoint" /\ d.key = e.key) => d.label = e.label
  /\ (d.op = "group" /\ e.op = "group" /\ d.object = e.object /\ d.group = e.group)
       => d.fields = e.fields
  /\ (d.op = "filter" /\ e.op = "filter" /\ d.filter = e.filter)
       => d.object = e.object /\ d.q = e.q
  /\ (d.op = "condition" /\ e.op \in {"condition", "filter"}) => d.filter # e.filter
  /\ (d.op = "key" /\ e.op = "key") => d.key # e.key

Harmonious == \A x, y \in Places : x # y => Agree(At(x), At(y))

(* The registry an application declares.                                   *)
Sum ==
  LET TheOne(S) == CHOOSE d \in S : TRUE
      filters == Of("filter") \cup Of("condition")
      About(o, op) == {d \in Of(op) : d.object = o}
      models(o) == {d.model : d \in About(o, "object")} \ {NoModel}
      governing(o, f) == {d \in About(o, "references") : f \in DOMAIN d.references}
  IN [explicit |-> [k \in {d.key : d \in Of("key")} |->
                      TheOne({d \in Of("key") : d.key = k}).spec],
      objects |-> [o \in {d.object : d \in Of("object") \cup Of("references")} |->
                     [model |-> IF models(o) = {} THEN NoModel ELSE TheOne(models(o)),
                      references |->
                        [f \in UNION {DOMAIN d.references : d \in About(o, "references")} |->
                           TheOne(governing(o, f)).references[f]]]],
      endpoints |-> [k \in {d.key : d \in Of("endpoint")} |->
                       {d.class : d \in {e \in Of("endpoint") : e.key = k}}],
      labels |-> [k \in {d.key : d \in Of("endpoint")} |->
                    TheOne({d \in Of("endpoint") : d.key = k}).label],
      filters |-> [f \in {d.filter : d \in filters} |->
                     LET d == TheOne({e \in filters : e.filter = f})
                     IN [object |-> d.object, q |-> d.q]],
      groups |-> [g \in {<<d.object, d.group>> : d \in Of("group")} |->
                    TheOne({d \in Of("group") : <<d.object, d.group>> = g}).fields],
      points |-> {<<d.object, d.verb, d.target>> : d \in Of("point")}]

(* The registry depends on what the modules say, not on the order they are *)
(* imported in, how their imports interleave or how often they were        *)
(* retried (registry.py:39-191, declare.py:219-251).                       *)
RegistryIsTheSum == (Harmonious /\ AllLoaded) => reg = Sum

(* A raw registration cannot be repeated: one that is followed by another  *)
(* declaration may stand in the way of the module's next import.           *)
Repeatable == \A x \in Places : At(x).op \in Raw => x[2] = Len(program[x[1]])

(* An import that failed can be tried again, until all have succeeded:     *)
(* loading is "idempotent" (catalogue/loading.py:19).                      *)
EventuallyLoaded == (Harmonious /\ Repeatable) => <>[]AllLoaded

(* Decisions about a principal with a role, between two imports.           *)
Somebody == [super |-> FALSE, roles |-> {"role"}]

Grants ==
  LET filters == Of("filter") \cup Of("condition")
      conds == UNION {[filter : {d.filter}, params : DOMAIN d.q] : d \in filters}
  IN {[name |-> 1, conditions |-> cs] : cs \in SUBSET conds}

GrantLists == {<<>>} \cup {<<g>> : g \in Grants} \cup (Grants \X Grants)

Visible(r, k) ==
  VisibleFields(View(r), Somebody, k, UNION {d.fields : d \in Of("group")}, {})

(* The keys that references name.                                          *)
Governing(r) == UNION {ReferencedKeys(r, o) : o \in DOMAIN r.objects}

(* A process that has imported part of the code answers a request for rows *)
(* as the whole code does, or raises; of the fields it may leave more      *)
(* open, never less, and a governed reference stays governed.  Importing   *)
(* changes nothing else, unless it declares the key itself, or the key was *)
(* known by a reference only and another serializer has that reference     *)
(* governed by another key (registry.py:108-122, 203-237,                  *)
(* declare.py:237-239).                                                    *)
ImportsOnlyTighten ==
  [][\A k \in ResolvableKeys(reg) \ (DOMAIN reg'.explicit \ DOMAIN reg.explicit) :
       \/ k \in Governing(reg) \ Governing(reg') /\ k \notin ResolvableKeys(reg')
       \/ /\ \A grants \in GrantLists :
               LET before == ResolveScope(View(reg), Somebody, k, TRUE, grants)
               IN ~Raises(before) =>
                    ResolveScope(View(reg'), Somebody, k, TRUE, grants) = before
          /\ Visible(reg', k) \subseteq Visible(reg, k)
          /\ DOMAIN View(reg).keys[k].references
               \subseteq DOMAIN View(reg').keys[k].references
    ]_vars

-----------------------------------------------------------------------------
(* What the body of a class writes; the endpoints it and the decorators    *)
(* name; the key that is written by hand.                                  *)
Statement(c) == CHOOSE d \in Of("class") : d.class = c

InBody(c, a) == IF a \in DOMAIN Statement(c).own THEN Statement(c).own[a] ELSE None

Decorating(c) == {d.key : d \in {e \in Of("endpoint") : e.class = c}}

Named(c) == Decorating(c) \cup ({InBody(c, "permission_endpoint")} \ {None})

Written(c) == InBody(c, "permission_key")

(* What a request asks that permission_keys does not name: the key written *)
(* by hand; else the endpoint of the class if there is one only; else      *)
(* nothing, which is denied.  The rows it works on are chosen, and checked *)
(* one by one, by the same key, unless the class names others: the list    *)
(* and the detail come from one Q (drf.py:128-130), or from none.          *)
AsksOwn(c) ==
  \A action, method \in {"list", "POST"} :
    LET named == Attribute(classes, c, "permission_keys")
        asked == KeyFor(classes, c, action, method)
    IN (named = None \/ DOMAIN named \cap {action, method} = {}) =>
         /\ Written(c) # None => asked = Written(c)
         /\ Written(c) = None =>
              IF Cardinality(Named(c)) = 1
              THEN asked \in Named(c) /\ c \in reg.endpoints[asked]
              ELSE asked = None
         /\ Attribute(classes, c, "read_key") = None => QuerysetKey(classes, c) = asked
         /\ Attribute(classes, c, "object_key") = None =>
              ObjectKeyFor(classes, c, action, method) = asked

Complete(c) == Loaded(classes[c].module) /\ Decorating(c) # {}

Inherited(cs, c) ==
  LET mro == cs[c].mro
  IN IF Len(mro) = 1 THEN None ELSE Attribute(cs, mro[2], "permission_key")

(* A class that inherits no key asks its own endpoint if it enforces one,  *)
(* and nothing by default if it enforces several, whatever the order of    *)
(* its decorators and however often its module was imported                *)
(* (declare.py:71-98, drf.py:71-100).                                      *)
ViewsAskTheirOwn ==
  \A c \in DOMAIN classes :
    (Complete(c) /\ Inherited(classes, c) = None /\ Written(c) \notin Named(c)) => AsksOwn(c)

(* declare.py:78-79: an inherited value belongs to the parent's            *)
(* declaration, not to the one of the class.                               *)
OwnEndpointIsAsked ==
  \A c \in DOMAIN classes : (Complete(c) /\ Written(c) = None) => AsksOwn(c)
=============================================================================
