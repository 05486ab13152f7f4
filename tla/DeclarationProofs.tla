-------------------------- MODULE DeclarationProofs -------------------------
(***************************************************************************)
(* Proofs about Declaration for any modules, any applications made of      *)
(* them and any number of failing imports.                                 *)
(*                                                                         *)
(* Everything rests on what a registration that does not raise leaves of   *)
(* the registry it finds (RegisteringExtends): entries are added, and the  *)
(* only ones that change are the model of an object that had none, the     *)
(* targets of an endpoint, and the key that governs a reference.           *)
(*                                                                         *)
(* What a view asks for rests on its class (ViewInv): its mro is its own   *)
(* name before the mro of its parent; the classes above it are settled, as *)
(* each has its decorators before the next statement and its module before *)
(* a module that inherits from it; and its own attributes are what its     *)
(* body says, or what the decorators that have run so far make of it: a    *)
(* list of exactly the keys they named.                                    *)
(***************************************************************************)
EXTENDS Declaration, DecisionProofs

IsFunction(f) == f = [x \in DOMAIN f |-> f[x]]

(* A registry, and the entry of an object in it.                           *)
ObjectEntry(x) ==
  /\ x = [model |-> x.model, references |-> x.references]
  /\ IsFunction(x.references)

WellShaped(r) ==
  /\ r = [explicit |-> r.explicit, objects |-> r.objects, endpoints |-> r.endpoints,
          labels |-> r.labels, filters |-> r.filters, groups |-> r.groups,
          points |-> r.points]
  /\ IsFunction(r.explicit) /\ IsFunction(r.objects) /\ IsFunction(r.endpoints)
  /\ IsFunction(r.labels) /\ IsFunction(r.filters) /\ IsFunction(r.groups)
  /\ \A o \in DOMAIN r.objects : ObjectEntry(r.objects[o])
  /\ DOMAIN r.labels = DOMAIN r.endpoints

(* The function g has the entries of f.                                    *)
Grown(f, g) == DOMAIN f \subseteq DOMAIN g /\ \A x \in DOMAIN f : g[x] = f[x]

(* s has what r has, and perhaps more.                                     *)
Extended(r, s) ==
  /\ Grown(r.explicit, s.explicit) /\ Grown(r.filters, s.filters)
  /\ Grown(r.groups, s.groups) /\ Grown(r.labels, s.labels)
  /\ r.points \subseteq s.points
  /\ DOMAIN r.objects \subseteq DOMAIN s.objects
  /\ \A o \in DOMAIN r.objects :
       /\ r.objects[o].model \in {NoModel, s.objects[o].model}
       /\ DOMAIN r.objects[o].references \subseteq DOMAIN s.objects[o].references
  /\ DOMAIN r.endpoints \subseteq DOMAIN s.endpoints
  /\ \A k \in DOMAIN r.endpoints : r.endpoints[k] \subseteq s.endpoints[k]

(* g is f with v at x.                                                     *)
Updated(f, x, v, g) ==
  /\ IsFunction(g) /\ DOMAIN g = DOMAIN f \cup {x} /\ g[x] = v
  /\ \A y \in DOMAIN f : y # x => g[y] = f[y]

LEMMA WithUpdates ==
  ASSUME NEW f, NEW x, NEW v
  PROVE  Updated(f, x, v, With(f, x, v))
  BY DEF With, IsFunction, Updated

LEMMA ExtendedByNothing ==
  ASSUME NEW r PROVE Extended(r, r)
  BY DEF Extended, Grown

(* What each registration function writes.                                 *)
Rest(r, s, changed) ==
  /\ s = [explicit |-> s.explicit, objects |-> s.objects, endpoints |-> s.endpoints,
          labels |-> s.labels, filters |-> s.filters, groups |-> s.groups,
          points |-> s.points]
  /\ "explicit" \notin changed => s.explicit = r.explicit
  /\ "objects" \notin changed => s.objects = r.objects
  /\ "endpoints" \notin changed => s.endpoints = r.endpoints /\ s.labels = r.labels
  /\ "filters" \notin changed => s.filters = r.filters
  /\ "groups" \notin changed => s.groups = r.groups
  /\ "points" \notin changed => s.points = r.points

LEMMA KeyWrites ==
  ASSUME NEW r, WellShaped(r), NEW d
  PROVE  LET s == RegisterKey(r, d)
         IN Rest(r, s, {"explicit"}) /\ s.explicit = With(r.explicit, d.key, d.spec)
  BY DEF WellShaped, RegisterKey, Rest

LEMMA ConditionWrites ==
  ASSUME NEW r, WellShaped(r), NEW d
  PROVE  LET s == RegisterCondition(r, d)
         IN /\ Rest(r, s, {"filters"})
            /\ s.filters = With(r.filters, d.filter, [object |-> d.object, q |-> d.q])
  BY DEF WellShaped, RegisterCondition, Rest

LEMMA GroupWrites ==
  ASSUME NEW r, WellShaped(r), NEW d
  PROVE  LET s == RegisterFieldGroup(r, d)
         IN Rest(r, s, {"groups"}) /\ s.groups = With(r.groups, <<d.object, d.group>>, d.fields)
  BY DEF WellShaped, RegisterFieldGroup, Rest

LEMMA PointWrites ==
  ASSUME NEW r, WellShaped(r), NEW d
  PROVE  LET s == RegisterScopePoint(r, d)
         IN Rest(r, s, {"points"}) /\ s.points = r.points \cup {<<d.object, d.verb, d.target>>}
  BY DEF WellShaped, RegisterScopePoint, Rest

WroteEndpoint(r, s, a, b) ==
  Rest(r, s, {"endpoints"}) /\ s.endpoints = a /\ s.labels = b

LEMMA TwoFields ==
  ASSUME NEW r, WellShaped(r), NEW a, NEW b,
         NEW s, s = [r EXCEPT !.endpoints = a, !.labels = b]
  PROVE  WroteEndpoint(r, s, a, b)
<1> DEFINE once == [r EXCEPT !.endpoints = a]
           twice == [once EXCEPT !.labels = b]
<1>1. once = [explicit |-> r.explicit, objects |-> r.objects, endpoints |-> a,
              labels |-> r.labels, filters |-> r.filters, groups |-> r.groups,
              points |-> r.points]
  BY DEF WellShaped
<1> HIDE DEF once
<1>2. twice = [explicit |-> r.explicit, objects |-> r.objects, endpoints |-> a,
               labels |-> b, filters |-> r.filters, groups |-> r.groups,
               points |-> r.points]
  BY <1>1
<1>3. [r EXCEPT !.endpoints = a, !.labels = b] = twice
  BY DEF once
<1> HIDE DEF twice
<1>4. Rest(r, twice, {"endpoints"}) /\ twice.endpoints = a /\ twice.labels = b
  BY <1>2 DEF Rest
<1> QED
  BY <1>3, <1>4 DEF WroteEndpoint

LEMMA EndpointWrites ==
  ASSUME NEW r, WellShaped(r), NEW d
  PROVE  LET s == RegisterEndpoint(r, d)
             new == d.key \notin DOMAIN r.endpoints
         IN /\ Rest(r, s, {"endpoints"})
            /\ s.endpoints = With(r.endpoints, d.key,
                                  {d.class} \cup IF new THEN {} ELSE r.endpoints[d.key])
            /\ s.labels = IF new THEN With(r.labels, d.key, d.label) ELSE r.labels
<1> DEFINE new == d.key \notin DOMAIN r.endpoints
           a == With(r.endpoints, d.key,
                     {d.class} \cup IF new THEN {} ELSE r.endpoints[d.key])
           b == IF new THEN With(r.labels, d.key, d.label) ELSE r.labels
<1>1. RegisterEndpoint(r, d) = [r EXCEPT !.endpoints = a, !.labels = b]
  BY DEF RegisterEndpoint
<1> HIDE DEF a, b
<1> DEFINE s == RegisterEndpoint(r, d)
<1> HIDE DEF s
<1>2. WroteEndpoint(r, s, a, b)
  BY <1>1, TwoFields DEF s
<1> QED
  BY <1>2 DEF a, b, s, WroteEndpoint

LEMMA ObjectWrites ==
  ASSUME NEW r, WellShaped(r), NEW d
  PROVE  LET s == RegisterObject(r, d)
         IN /\ Rest(r, s, {"objects"})
            /\ s.objects = With(r.objects, d.object,
                 [model |-> IF d.model = NoModel THEN Model(r, d.object) ELSE d.model,
                  references |-> References(r, d.object)])
  BY DEF WellShaped, RegisterObject, Rest

Merged(old, new) ==
  [f \in DOMAIN old \cup DOMAIN new |-> IF f \in DOMAIN new THEN new[f] ELSE old[f]]

LEMMA ReferencesWrite ==
  ASSUME NEW r, WellShaped(r), NEW d
  PROVE  LET s == RegisterReferences(r, d)
         IN /\ Rest(r, s, {"objects"})
            /\ s.objects = With(r.objects, d.object,
                 [model |-> Model(r, d.object),
                  references |-> Merged(References(r, d.object), d.references)])
  BY DEF WellShaped, RegisterReferences, Rest, Merged

-----------------------------------------------------------------------------
(* A registration that does not raise keeps the shape and extends.         *)
LEMMA FunctionExtends ==
  ASSUME NEW f, NEW x, NEW v, x \in DOMAIN f => f[x] = v,
         NEW g, g = With(f, x, v)
  PROVE  Grown(f, g) /\ IsFunction(g)
<1>1. Updated(f, x, v, g)
  BY WithUpdates
<1> QED
  BY <1>1 DEF Grown, Updated

LEMMA KeyExtends ==
  ASSUME NEW r, WellShaped(r), NEW d, d.op = "key", ~Clashes(r, d)
  PROVE  WellShaped(RegisterKey(r, d)) /\ Extended(r, RegisterKey(r, d))
<1> DEFINE s == RegisterKey(r, d)
<1>1. Rest(r, s, {"explicit"}) /\ s.explicit = With(r.explicit, d.key, d.spec)
  BY KeyWrites
<1>2. Grown(r.explicit, s.explicit) /\ IsFunction(s.explicit)
  BY <1>1, FunctionExtends DEF Clashes, Redeclares
<1> HIDE DEF s
<1>3. WellShaped(s)
  BY <1>1, <1>2 DEF Rest, WellShaped
<1>4. Extended(r, s)
  BY <1>1, <1>2 DEF Rest, Extended, Grown
<1> QED
  BY <1>3, <1>4 DEF s

LEMMA ConditionExtends ==
  ASSUME NEW r, WellShaped(r), NEW d, d.filter \notin DOMAIN r.filters
  PROVE  WellShaped(RegisterCondition(r, d)) /\ Extended(r, RegisterCondition(r, d))
<1> DEFINE s == RegisterCondition(r, d)
           v == [object |-> d.object, q |-> d.q]
<1>1. Rest(r, s, {"filters"}) /\ s.filters = With(r.filters, d.filter, v)
  BY ConditionWrites
<1> HIDE DEF s, v
<1>2. Grown(r.filters, s.filters) /\ IsFunction(s.filters)
  BY <1>1, FunctionExtends
<1>3. WellShaped(s)
  BY <1>1, <1>2 DEF Rest, WellShaped
<1>4. Extended(r, s)
  BY <1>1, <1>2 DEF Rest, Extended, Grown
<1> QED
  BY <1>3, <1>4 DEF s

LEMMA GroupExtends ==
  ASSUME NEW r, WellShaped(r), NEW d, d.op = "group", ~Clashes(r, d)
  PROVE  WellShaped(RegisterFieldGroup(r, d)) /\ Extended(r, RegisterFieldGroup(r, d))
<1> DEFINE s == RegisterFieldGroup(r, d)
           g == <<d.object, d.group>>
<1>1. Rest(r, s, {"groups"}) /\ s.groups = With(r.groups, g, d.fields)
  BY GroupWrites
<1>2. g \in DOMAIN r.groups => r.groups[g] = d.fields
  BY DEF Clashes, Regroups
<1> HIDE DEF s, g
<1>3. Grown(r.groups, s.groups) /\ IsFunction(s.groups)
  BY <1>1, <1>2, FunctionExtends
<1>4. WellShaped(s)
  BY <1>1, <1>3 DEF Rest, WellShaped
<1>5. Extended(r, s)
  BY <1>1, <1>3 DEF Rest, Extended, Grown
<1> QED
  BY <1>4, <1>5 DEF s

LEMMA PointExtends ==
  ASSUME NEW r, WellShaped(r), NEW d
  PROVE  WellShaped(RegisterScopePoint(r, d)) /\ Extended(r, RegisterScopePoint(r, d))
<1> DEFINE s == RegisterScopePoint(r, d)
<1>1. Rest(r, s, {"points"}) /\ r.points \subseteq s.points
  BY PointWrites
<1> HIDE DEF s
<1>2. WellShaped(s)
  BY <1>1 DEF Rest, WellShaped
<1>3. Extended(r, s)
  BY <1>1 DEF Rest, Extended, Grown
<1> QED
  BY <1>2, <1>3 DEF s

LEMMA EndpointExtends ==
  ASSUME NEW r, WellShaped(r), NEW d
  PROVE  WellShaped(RegisterEndpoint(r, d)) /\ Extended(r, RegisterEndpoint(r, d))
<1> DEFINE s == RegisterEndpoint(r, d)
           new == d.key \notin DOMAIN r.endpoints
           v == {d.class} \cup IF new THEN {} ELSE r.endpoints[d.key]
<1>1. /\ Rest(r, s, {"endpoints"}) /\ s.endpoints = With(r.endpoints, d.key, v)
      /\ s.labels = IF new THEN With(r.labels, d.key, d.label) ELSE r.labels
  BY EndpointWrites
<1>2. d.key \in DOMAIN r.endpoints => r.endpoints[d.key] \subseteq v
  OBVIOUS
<1> HIDE DEF s, v
<1>3. /\ DOMAIN s.endpoints = DOMAIN r.endpoints \cup {d.key} /\ IsFunction(s.endpoints)
      /\ \A k \in DOMAIN r.endpoints : r.endpoints[k] \subseteq s.endpoints[k]
  <2>1. Updated(r.endpoints, d.key, v, s.endpoints)
    BY <1>1, WithUpdates
  <2> QED
    BY <1>2, <2>1 DEF Updated
<1>4. /\ DOMAIN s.labels = DOMAIN s.endpoints /\ IsFunction(s.labels)
      /\ Grown(r.labels, s.labels)
  <2>1. DOMAIN r.labels = DOMAIN r.endpoints /\ IsFunction(r.labels)
    BY DEF WellShaped
  <2>2. CASE new
    <3>1. Updated(r.labels, d.key, d.label, s.labels)
      BY <1>1, <2>2, WithUpdates
    <3> QED
      BY <1>3, <2>1, <2>2, <3>1 DEF Grown, Updated
  <2>3. CASE ~new
    BY <1>1, <1>3, <2>1, <2>3 DEF Grown
  <2> QED
    BY <2>2, <2>3
<1>5. WellShaped(s)
  BY <1>1, <1>3, <1>4 DEF Rest, WellShaped
<1>6. Extended(r, s)
  BY <1>1, <1>3, <1>4 DEF Rest, Extended, Grown
<1> QED
  BY <1>5, <1>6 DEF s

LEMMA ReferencesIsFunction ==
  ASSUME NEW r, WellShaped(r), NEW o
  PROVE  IsFunction(References(r, o))
  BY DEF WellShaped, ObjectEntry, References, IsFunction

(* An object gets an entry with the model it had, if any, and at least the *)
(* references it had.                                                      *)
LEMMA EntryExtends ==
  ASSUME NEW r, WellShaped(r), NEW s, Rest(r, s, {"objects"}), NEW o, NEW m, NEW refs,
         s.objects = With(r.objects, o, [model |-> m, references |-> refs]),
         IsFunction(refs), Model(r, o) \in {NoModel, m},
         DOMAIN References(r, o) \subseteq DOMAIN refs
  PROVE  WellShaped(s) /\ Extended(r, s)
<1> DEFINE v == [model |-> m, references |-> refs]
<1>1. ObjectEntry(v) /\ v.model = m /\ v.references = refs
  BY DEF ObjectEntry
<1>2. s.objects = With(r.objects, o, v)
  OBVIOUS
<1> HIDE DEF v
<1>3. /\ DOMAIN s.objects = DOMAIN r.objects \cup {o} /\ IsFunction(s.objects)
      /\ s.objects[o] = v
      /\ \A x \in DOMAIN r.objects : x # o => s.objects[x] = r.objects[x]
  <2>1. Updated(r.objects, o, v, s.objects)
    BY <1>2, WithUpdates
  <2> QED
    BY <2>1 DEF Updated
<1>4. WellShaped(s)
  BY <1>1, <1>3 DEF Rest, WellShaped
<1>5. o \in DOMAIN r.objects =>
        Model(r, o) = r.objects[o].model /\ References(r, o) = r.objects[o].references
  BY DEF Model, References
<1>6. \A x \in DOMAIN r.objects :
        /\ r.objects[x].model \in {NoModel, s.objects[x].model}
        /\ DOMAIN r.objects[x].references \subseteq DOMAIN s.objects[x].references
  BY <1>1, <1>3, <1>5
<1>7. Extended(r, s)
  BY <1>3, <1>6 DEF Rest, Extended, Grown
<1> QED
  BY <1>4, <1>7

LEMMA ObjectExtends ==
  ASSUME NEW r, WellShaped(r), NEW d, d.op = "object", ~Clashes(r, d)
  PROVE  WellShaped(RegisterObject(r, d)) /\ Extended(r, RegisterObject(r, d))
<1> DEFINE s == RegisterObject(r, d)
           m == IF d.model = NoModel THEN Model(r, d.object) ELSE d.model
           refs == References(r, d.object)
<1>1. /\ Rest(r, s, {"objects"})
      /\ s.objects = With(r.objects, d.object, [model |-> m, references |-> refs])
  BY ObjectWrites
<1>2. Model(r, d.object) \in {NoModel, m}
  BY DEF Clashes, Rebinds
<1>3. IsFunction(refs)
  BY ReferencesIsFunction
<1> HIDE DEF s, m
<1> QED
  BY <1>1, <1>2, <1>3, EntryExtends DEF s

LEMMA ReferencesExtend ==
  ASSUME NEW r, WellShaped(r), NEW d
  PROVE  WellShaped(RegisterReferences(r, d)) /\ Extended(r, RegisterReferences(r, d))
<1> DEFINE s == RegisterReferences(r, d)
           m == Model(r, d.object)
           refs == Merged(References(r, d.object), d.references)
<1>1. /\ Rest(r, s, {"objects"})
      /\ s.objects = With(r.objects, d.object, [model |-> m, references |-> refs])
  BY ReferencesWrite
<1>2. IsFunction(refs) /\ DOMAIN References(r, d.object) \subseteq DOMAIN refs
  BY DEF Merged, IsFunction
<1> HIDE DEF s, refs
<1> QED
  BY <1>1, <1>2, EntryExtends DEF s

LEMMA RegisteringExtends ==
  ASSUME NEW r, WellShaped(r), NEW d, d.op \in Ops, ~Clashes(r, d)
  PROVE  WellShaped(Registered(r, d)) /\ Extended(r, Registered(r, d))
<1>1. CASE d.op = "object"
  BY <1>1, ObjectExtends DEF Registered
<1>2. CASE d.op = "references"
  BY <1>2, ReferencesExtend DEF Registered
<1>3. CASE d.op = "endpoint"
  BY <1>3, EndpointExtends DEF Registered
<1>4. CASE d.op = "group"
  BY <1>4, GroupExtends DEF Registered
<1>5. CASE d.op = "point"
  BY <1>5, PointExtends DEF Registered
<1>6. CASE d.op = "condition"
  <2>1. d.filter \notin DOMAIN r.filters
    BY <1>6 DEF Clashes, Redeclares
  <2> QED
    BY <1>6, <2>1, ConditionExtends DEF Registered
<1>7. CASE d.op = "filter"
  BY <1>7, ConditionExtends, ExtendedByNothing DEF Registered, RegisterFilter
<1>8. CASE d.op = "key"
  BY <1>8, KeyExtends DEF Registered
<1>9. CASE d.op = "class"
  BY <1>9, ExtendedByNothing DEF Registered
<1> QED
  BY <1>1, <1>2, <1>3, <1>4, <1>5, <1>6, <1>7, <1>8, <1>9 DEF Ops

-----------------------------------------------------------------------------
(* What is declared is in force, and stays so in every extension.          *)
LEMMA HonouredStays ==
  ASSUME NEW r, WellShaped(r), NEW s, Extended(r, s), NEW d, d.op \in Ops \ {"class"},
         NEW cs, NEW ds, Honoured(r, cs, d)
  PROVE  Honoured(s, ds, d)
<1>1. CASE d.op = "object"
  <2>1. d.object \in DOMAIN r.objects /\ d.model \in {NoModel, Model(r, d.object)}
    BY <1>1 DEF Honoured
  <2>2. d.object \in DOMAIN s.objects /\ Model(r, d.object) \in {NoModel, Model(s, d.object)}
    BY <2>1 DEF Extended, Model
  <2> QED
    BY <1>1, <2>1, <2>2 DEF Honoured
<1>2. CASE d.op = "references"
  BY <1>2 DEF Honoured, Extended
<1>3. CASE d.op = "endpoint"
  <2>1. d.key \in DOMAIN r.labels /\ DOMAIN r.labels = DOMAIN r.endpoints
    BY <1>3 DEF Honoured, WellShaped
  <2> QED
    BY <1>3, <2>1 DEF Honoured, Extended, Grown
<1>4. CASE d.op = "group"
  BY <1>4 DEF Honoured, Extended, Grown
<1>5. CASE d.op = "point"
  BY <1>5 DEF Honoured, Extended
<1>6. CASE d.op = "condition"
  BY <1>6 DEF Honoured, Extended, Grown
<1>7. CASE d.op = "filter"
  BY <1>7 DEF Honoured, Extended, Grown
<1>8. CASE d.op = "key"
  BY <1>8 DEF Honoured, Extended, Grown
<1> QED
  BY <1>1, <1>2, <1>3, <1>4, <1>5, <1>6, <1>7, <1>8 DEF Ops

LEMMA RegisteredIsHonoured ==
  ASSUME NEW r, WellShaped(r), NEW d, d.op \in Ops \ {"class"}, ~Clashes(r, d), NEW cs
  PROVE  Honoured(Registered(r, d), cs, d)
<1>1. CASE d.op = "object"
  <2> DEFINE s == RegisterObject(r, d)
             m == IF d.model = NoModel THEN Model(r, d.object) ELSE d.model
             v == [model |-> m, references |-> References(r, d.object)]
  <2>1. s.objects = With(r.objects, d.object, v)
    BY ObjectWrites
  <2>2. v.model = m
    OBVIOUS
  <2> HIDE DEF s, v
  <2>3. Updated(r.objects, d.object, v, s.objects)
    BY <2>1, WithUpdates
  <2>4. d.object \in DOMAIN s.objects /\ s.objects[d.object] = v
    BY <2>3 DEF Updated
  <2> QED
    BY <1>1, <2>2, <2>4 DEF Honoured, Registered, Model, s
<1>2. CASE d.op = "references"
  <2> DEFINE s == RegisterReferences(r, d)
             refs == Merged(References(r, d.object), d.references)
             v == [model |-> Model(r, d.object), references |-> refs]
  <2>1. s.objects = With(r.objects, d.object, v)
    BY ReferencesWrite
  <2>2. v.references = refs /\ DOMAIN d.references \subseteq DOMAIN refs
    BY DEF Merged
  <2> HIDE DEF s, v, refs
  <2>3. Updated(r.objects, d.object, v, s.objects)
    BY <2>1, WithUpdates
  <2>4. d.object \in DOMAIN s.objects /\ s.objects[d.object] = v
    BY <2>3 DEF Updated
  <2> QED
    BY <1>2, <2>2, <2>4 DEF Honoured, Registered, s
<1>3. CASE d.op = "endpoint"
  <2> DEFINE s == RegisterEndpoint(r, d)
             new == d.key \notin DOMAIN r.endpoints
             v == {d.class} \cup IF new THEN {} ELSE r.endpoints[d.key]
  <2>1. /\ s.endpoints = With(r.endpoints, d.key, v)
        /\ s.labels = IF new THEN With(r.labels, d.key, d.label) ELSE r.labels
    BY EndpointWrites
  <2>2. d.class \in v
    OBVIOUS
  <2> HIDE DEF s, v
  <2>3. Updated(r.endpoints, d.key, v, s.endpoints)
    BY <2>1, WithUpdates
  <2>4. d.key \in DOMAIN s.endpoints /\ s.endpoints[d.key] = v
    BY <2>3 DEF Updated
  <2>5. d.label \in {NoLabel, s.labels[d.key]}
    <3>1. CASE new
      <4>1. Updated(r.labels, d.key, d.label, s.labels)
        BY <2>1, <3>1, WithUpdates
      <4> QED
        BY <4>1 DEF Updated
    <3>2. CASE ~new
      BY <1>3, <2>1, <3>2 DEF Clashes, Relabels
    <3> QED
      BY <3>1, <3>2
  <2> QED
    BY <1>3, <2>2, <2>4, <2>5 DEF Honoured, Registered, s
<1>4. CASE d.op = "group"
  <2> DEFINE s == RegisterFieldGroup(r, d)
             g == <<d.object, d.group>>
  <2>1. s.groups = With(r.groups, g, d.fields)
    BY GroupWrites
  <2> HIDE DEF s
  <2>2. Updated(r.groups, g, d.fields, s.groups)
    BY <2>1, WithUpdates
  <2>3. g \in DOMAIN s.groups /\ s.groups[g] = d.fields
    BY <2>2 DEF Updated
  <2> QED
    BY <1>4, <2>3 DEF Honoured, Registered, s
<1>5. CASE d.op = "point"
  <2>1. <<d.object, d.verb, d.target>> \in RegisterScopePoint(r, d).points
    BY PointWrites
  <2> QED
    BY <1>5, <2>1 DEF Honoured, Registered
<1>6. CASE d.op \in {"condition", "filter"}
  <2> DEFINE s == RegisterCondition(r, d)
             v == [object |-> d.object, q |-> d.q]
  <2>1. s.filters = With(r.filters, d.filter, v)
    BY ConditionWrites
  <2> HIDE DEF s
  <2>2. Updated(r.filters, d.filter, v, s.filters)
    BY <2>1, WithUpdates
  <2>3. d.filter \in DOMAIN s.filters /\ s.filters[d.filter] = v
    BY <2>2 DEF Updated
  <2> QED
    BY <1>6, <2>3 DEF Honoured, Registered, RegisterFilter, s
<1>7. CASE d.op = "key"
  <2> DEFINE s == RegisterKey(r, d)
  <2>1. s.explicit = With(r.explicit, d.key, d.spec)
    BY KeyWrites
  <2> HIDE DEF s
  <2>2. Updated(r.explicit, d.key, d.spec, s.explicit)
    BY <2>1, WithUpdates
  <2>3. d.key \in DOMAIN s.explicit /\ s.explicit[d.key] = d.spec
    BY <2>2 DEF Updated
  <2> QED
    BY <1>7, <2>3 DEF Honoured, Registered, s
<1> QED
  BY <1>1, <1>2, <1>3, <1>4, <1>5, <1>6, <1>7 DEF Ops

-----------------------------------------------------------------------------
(* Decorators write attributes: no class comes, goes or moves.             *)
ClassTable(cs) ==
  /\ IsFunction(cs)
  /\ \A c \in DOMAIN cs : cs[c] = [module |-> cs[c].module, mro |-> cs[c].mro,
                                   own |-> cs[c].own]

SameClasses(cs, ds) ==
  /\ ClassTable(ds) /\ DOMAIN ds = DOMAIN cs
  /\ \A c \in DOMAIN cs : ds[c].module = cs[c].module

LEMMA SetKeepsClasses ==
  ASSUME NEW cs, ClassTable(cs), NEW c, NEW a, NEW v
  PROVE  SameClasses(cs, Set(cs, c, a, v))
<1> DEFINE ds == Set(cs, c, a, v)
           w == With(cs[c].own, a, v)
<1>1. ds = [cs EXCEPT ![c].own = w]
  BY DEF Set
<1> HIDE DEF ds, w
<1>2. IsFunction(ds) /\ DOMAIN ds = DOMAIN cs
  BY <1>1 DEF IsFunction
<1>3. \A x \in DOMAIN cs : x # c => ds[x] = cs[x]
  BY <1>1 DEF ClassTable, IsFunction
<1>4. c \in DOMAIN cs => ds[c] = [module |-> cs[c].module, mro |-> cs[c].mro, own |-> w]
  BY <1>1 DEF ClassTable, IsFunction
<1> QED
  BY <1>2, <1>3, <1>4 DEF SameClasses, ClassTable, ds

LEMMA SameClassesTwice ==
  ASSUME NEW cs, NEW ds, NEW es, SameClasses(cs, ds), SameClasses(ds, es)
  PROVE  SameClasses(cs, es)
  BY DEF SameClasses

LEMMA DecoratedKeepsClasses ==
  ASSUME NEW cs, ClassTable(cs), NEW d
  PROVE  SameClasses(cs, Decorated(cs, d))
<1> DEFINE c == d.class
           seen == Seen(cs, c)
           all == IF d.key \in ToSet(seen) THEN seen ELSE Append(seen, d.key)
           named == Set(cs, c, "permission_endpoints", all)
           single == Set(named, c, "permission_endpoint", d.key)
           several == Set(named, c, "permission_endpoint", None)
<1>1. Decorated(cs, d) \in {single, Set(single, c, "permission_key", d.key),
                            several, Set(several, c, "permission_key", None)}
  BY DEF Decorated
<1> HIDE DEF all, seen
<1>2. SameClasses(cs, named) /\ ClassTable(named)
  BY SetKeepsClasses DEF SameClasses
<1> HIDE DEF named
<1>3. /\ SameClasses(cs, single) /\ ClassTable(single)
      /\ SameClasses(cs, several) /\ ClassTable(several)
  BY <1>2, SetKeepsClasses, SameClassesTwice DEF SameClasses
<1> HIDE DEF single, several
<1>4. /\ SameClasses(cs, Set(single, c, "permission_key", d.key))
      /\ SameClasses(cs, Set(several, c, "permission_key", None))
  BY <1>3, SetKeepsClasses, SameClassesTwice
<1> QED
  BY <1>1, <1>3, <1>4

-----------------------------------------------------------------------------
Imports ==
  /\ program \in Programs
  /\ pos = [m \in Module |-> pos[m]]
  /\ \A m \in Module : pos[m] \in 0..Len(program[m])
  /\ WellShaped(reg)
  /\ ClassTable(classes)

(* A declaration is in force; a class belongs to the module that has it.   *)
InForce(r, cs, m, d) ==
  /\ Honoured(r, cs, d)
  /\ d.op = "class" => cs[d.class].module = m

(* What has been executed is in force, and not only once all is loaded.    *)
ExecutedStands ==
  \A m \in Module : \A i \in 1..pos[m] : InForce(reg, classes, m, program[m][i])

Inv == Imports /\ ExecutedStands

(* What an application is made of.                                         *)
LEMMA Applications ==
  ASSUME Imports
  PROVE  /\ \A m \in Module : /\ Len(program[m]) \in Nat /\ pos[m] \in Nat
                              /\ pos[m] <= Len(program[m])
                              /\ DOMAIN program[m] = 1..Len(program[m])
                              /\ \A i \in 1..Len(program[m]) : program[m][i].op \in Ops
         /\ \A m, n \in Module : \A i \in 1..Len(program[m]), j \in 1..Len(program[n]) :
              (program[m][i].op = "class" /\ program[n][j].op = "class"
                 /\ program[m][i].class = program[n][j].class) => m = n /\ i = j
<1>1. ASSUME NEW m \in Module
      PROVE  /\ Len(program[m]) \in Nat /\ DOMAIN program[m] = 1..Len(program[m])
             /\ \A i \in 1..Len(program[m]) : program[m][i].op \in Ops
  <2> DEFINE p == program[m]
             S == ToSet(p)
  <2>1. p \in Seq(S) /\ \A d \in S : d.op \in Ops
    BY DeclarationAssumption DEF Imports
  <2>2. \A i \in DOMAIN p : p[i] \in S
    BY DEF ToSet
  <2> HIDE DEF p, S
  <2>3. Len(p) \in Nat /\ DOMAIN p = 1..Len(p)
    BY <2>1
  <2> QED
    BY <2>1, <2>2, <2>3 DEF p
<1>2. \A m \in Module : pos[m] \in Nat /\ pos[m] <= Len(program[m])
  BY <1>1 DEF Imports
<1>3. \A m, n \in Module : \A i \in 1..Len(program[m]), j \in 1..Len(program[n]) :
        (program[m][i].op = "class" /\ program[n][j].op = "class"
           /\ program[m][i].class = program[n][j].class) => m = n /\ i = j
  BY <1>1, DeclarationAssumption DEF Imports
<1> QED
  BY <1>1, <1>2, <1>3

LEMMA InitInv == Init => Inv
<1> SUFFICES ASSUME Init PROVE Inv
  OBVIOUS
<1>1. WellShaped(EmptyRegistry)
  BY DEF EmptyRegistry, WellShaped, IsFunction
<1>2. ClassTable(classes)
  BY DEF Init, ClassTable, IsFunction
<1>3. \A m \in Module : Len(program[m]) \in Nat
  <2> TAKE m \in Module
  <2>1. program[m] \in Seq(ToSet(program[m]))
    BY DeclarationAssumption DEF Init
  <2> QED
    BY <2>1
<1>4. Imports
  BY <1>1, <1>2, <1>3 DEF Init, Imports
<1>5. ExecutedStands
  BY DEF Init, ExecutedStands
<1> QED
  BY <1>4, <1>5 DEF Inv

(* The next declaration of a module takes effect.                          *)
LEMMA ExecuteInv ==
  ASSUME Inv, NEW m \in Module, Execute(m)
  PROVE  Inv'
<1> DEFINE i == pos[m] + 1
           d == program[m][i]
<1>1. Imports /\ ExecutedStands
  BY DEF Inv
<1>2. /\ pos[m] # Len(program[m]) /\ ~Clashes(reg, d) /\ reg' = Registered(reg, d)
      /\ classes' = CASE d.op = "class"    -> Defined(classes, m, d)
                      [] d.op = "endpoint" -> Decorated(classes, d)
                      [] OTHER             -> classes
      /\ pos' = [pos EXCEPT ![m] = @ + 1] /\ program' = program
  BY DEF Execute, Loaded, Upcoming
<1>3. pos[m] \in Nat /\ i \in 1..Len(program[m]) /\ Len(program[m]) \in Nat /\ d.op \in Ops
  BY <1>1, <1>2, Applications
<1> HIDE DEF d
<1>4. WellShaped(reg) /\ WellShaped(reg') /\ Extended(reg, reg')
  BY <1>1, <1>2, <1>3, RegisteringExtends DEF Imports
(* A class statement defines a class no other one does.                    *)
<1>5. /\ ClassTable(classes')
      /\ \A c \in DOMAIN classes :
           /\ c \in DOMAIN classes'
           /\ \/ c = d.class /\ d.op = "class"
              \/ classes'[c].module = classes[c].module
      /\ d.op = "class" => d.class \in DOMAIN classes' /\ classes'[d.class].module = m
  <2>1. CASE d.op = "class"
    <3> DEFINE v == [module |-> m,
                     mro |-> <<d.class>> \o IF d.parent = None THEN <<>>
                                            ELSE classes[d.parent].mro,
                     own |-> d.own]
    <3>1. classes' = With(classes, d.class, v)
      BY <1>2, <2>1 DEF Defined
    <3>2. v.module = m /\ v = [module |-> v.module, mro |-> v.mro, own |-> v.own]
      OBVIOUS
    <3> HIDE DEF v
    <3>3. Updated(classes, d.class, v, classes')
      BY <3>1, WithUpdates
    <3>4. ClassTable(classes)
      BY <1>1 DEF Imports
    <3>5. ClassTable(classes')
      BY <3>2, <3>3, <3>4 DEF ClassTable, Updated
    <3>6. \A c \in DOMAIN classes : c \in DOMAIN classes' /\ (c # d.class => classes'[c] = classes[c])
      BY <3>3 DEF Updated
    <3>7. d.class \in DOMAIN classes' /\ classes'[d.class] = v
      BY <3>3 DEF Updated
    <3> QED
      BY <2>1, <3>2, <3>5, <3>6, <3>7
  <2>2. CASE d.op = "endpoint"
    <3>1. SameClasses(classes, classes')
      BY <1>1, <1>2, <2>2, DecoratedKeepsClasses DEF Imports
    <3> QED
      BY <2>2, <3>1 DEF SameClasses
  <2>3. CASE d.op \notin {"class", "endpoint"}
    BY <1>1, <1>2, <2>3 DEF Imports
  <2> QED
    BY <2>1, <2>2, <2>3
<1>6. pos'[m] = i /\ \A n \in Module : n # m => pos'[n] = pos[n]
  BY <1>1, <1>2 DEF Imports
<1>7. Imports'
  <2>1. pos' = [n \in Module |-> pos'[n]]
    BY <1>1, <1>2 DEF Imports
  <2>2. \A n \in Module : pos'[n] \in 0..Len(program[n])
    BY <1>1, <1>3, <1>6 DEF Imports
  <2> QED
    BY <1>1, <1>2, <1>4, <1>5, <2>1, <2>2 DEF Imports
<1>8. InForce(reg', classes', m, d)
  <2>1. CASE d.op = "class"
    BY <1>5, <2>1 DEF InForce, Honoured
  <2>2. CASE d.op # "class"
    BY <1>2, <1>3, <1>4, <2>2, RegisteredIsHonoured DEF InForce
  <2> QED
    BY <2>1, <2>2
<1>9. ASSUME NEW n \in Module, NEW j \in 1..pos[n]
      PROVE  InForce(reg', classes', n, program[n][j])
  <2> DEFINE e == program[n][j]
  <2>1. InForce(reg, classes, n, e)
    BY <1>1 DEF ExecutedStands
  <2>2. j \in 1..Len(program[n]) /\ e.op \in Ops
    BY <1>1, Applications
  <2>3. CASE e.op = "class"
    <3>1. e.class \in DOMAIN classes /\ classes[e.class].module = n
      BY <2>1, <2>3 DEF InForce, Honoured
    <3>2. ~(d.op = "class" /\ d.class = e.class)
      <4>1. SUFFICES ASSUME d.op = "class", d.class = e.class PROVE FALSE
        OBVIOUS
      <4>2. m = n /\ i = j
        BY <1>1, <1>3, <2>2, <2>3, <4>1, Applications DEF d
      <4> QED
        BY <1>3, <4>2
    <3>3. e.class \in DOMAIN classes' /\ classes'[e.class].module = n
      BY <1>5, <3>1, <3>2
    <3> QED
      BY <2>3, <3>3 DEF InForce, Honoured
  <2>4. CASE e.op # "class"
    <3>1. Honoured(reg, classes, e)
      BY <2>1 DEF InForce
    <3> HIDE DEF e
    <3>2. Honoured(reg', classes', e)
      BY <1>4, <2>2, <2>4, <3>1, HonouredStays
    <3> QED
      BY <2>4, <3>2 DEF InForce, e
  <2> QED
    BY <2>3, <2>4
<1>10. ExecutedStands'
  <2> SUFFICES ASSUME NEW n \in Module, NEW j \in 1..pos'[n]
               PROVE  InForce(reg', classes', n, program[n][j])
    BY <1>2 DEF ExecutedStands
  <2>1. CASE n = m /\ j = i
    BY <1>8, <2>1 DEF d
  <2>2. CASE ~(n = m /\ j = i)
    <3>1. j \in 1..pos[n]
      BY <1>3, <1>6, <2>2
    <3> QED
      BY <1>9, <3>1
  <2> QED
    BY <2>1, <2>2
<1> QED
  BY <1>7, <1>10 DEF Inv

(* An import that fails takes its own classes along, and nothing else.     *)
LEMMA ForgetInv ==
  ASSUME Inv, NEW m \in Module, Forget(m)
  PROVE  Inv'
<1>1. Imports /\ ExecutedStands
  BY DEF Inv
<1>2. /\ pos' = [pos EXCEPT ![m] = 0] /\ program' = program /\ reg' = reg
      /\ classes' = [c \in {x \in DOMAIN classes : classes[x].module # m} |-> classes[c]]
  BY DEF Forget
<1>3. ClassTable(classes) /\ IsFunction(classes')
  BY <1>1, <1>2 DEF Imports, IsFunction
<1>4. /\ \A c \in DOMAIN classes : classes[c].module # m => c \in DOMAIN classes'
      /\ \A c \in DOMAIN classes' : c \in DOMAIN classes /\ classes'[c] = classes[c]
  BY <1>2
<1>5. ClassTable(classes')
  BY <1>3, <1>4 DEF ClassTable
<1>6. pos'[m] = 0 /\ \A n \in Module : n # m => pos'[n] = pos[n]
  BY <1>1, <1>2 DEF Imports
<1>7. Imports'
  <2>1. pos' = [n \in Module |-> pos'[n]]
    BY <1>1, <1>2 DEF Imports
  <2>2. \A n \in Module : pos'[n] \in 0..Len(program[n])
    BY <1>1, <1>6, Applications DEF Imports
  <2> QED
    BY <1>1, <1>2, <1>5, <2>1, <2>2 DEF Imports
<1>8. ASSUME NEW n \in Module, NEW j \in 1..pos'[n]
      PROVE  InForce(reg, classes', n, program[n][j])
  <2> DEFINE e == program[n][j]
  <2>1. n # m /\ j \in 1..pos[n]
    BY <1>6
  <2>2. InForce(reg, classes, n, e) /\ e.op \in Ops
    BY <1>1, <2>1, Applications DEF ExecutedStands
  <2>3. CASE e.op = "class"
    <3>1. e.class \in DOMAIN classes /\ classes[e.class].module = n
      BY <2>2, <2>3 DEF InForce, Honoured
    <3>2. e.class \in DOMAIN classes' /\ classes'[e.class].module = n
      BY <1>4, <2>1, <3>1
    <3> QED
      BY <2>3, <3>2 DEF InForce, Honoured
  <2>4. CASE e.op # "class"
    <3>1. Honoured(reg, classes, e) /\ WellShaped(reg)
      BY <1>1, <2>2 DEF InForce, Imports
    <3> HIDE DEF e
    <3>2. Honoured(reg, classes', e)
      BY <2>2, <2>4, <3>1, HonouredStays, ExtendedByNothing
    <3> QED
      BY <2>4, <3>2 DEF InForce, e
  <2> QED
    BY <2>3, <2>4
<1>9. ExecutedStands'
  BY <1>2, <1>8 DEF ExecutedStands
<1> QED
  BY <1>7, <1>9 DEF Inv

LEMMA NextInv == Inv /\ [Next]_vars => Inv'
<1> SUFFICES ASSUME Inv, [Next]_vars PROVE Inv'
  OBVIOUS
<1>1. ASSUME NEW m \in Module, Execute(m) PROVE Inv'
  BY <1>1, ExecuteInv
<1>2. ASSUME NEW m \in Module, Clash(m) \/ Fail(m) PROVE Inv'
  BY <1>2, ForgetInv DEF Clash, Fail
<1>3. CASE UNCHANGED vars
  BY <1>3 DEF vars, Inv, Imports, ExecutedStands
<1> QED
  BY <1>1, <1>2, <1>3 DEF Next

(* Declaration (registry.py, declare.py): whatever has been executed and   *)
(* not been forgotten is in force.                                         *)
THEOREM Invariance == Spec => []Inv
  BY InitInv, NextInv, PTL DEF Spec

(* What a module that loaded declares stays in force, so two that          *)
(* contradict each other never both load (registry.py:100, 145, 175).      *)
THEOREM StaysInForce == Spec => []DeclarationsStayInForce
<1>1. Inv => DeclarationsStayInForce
  <2> SUFFICES ASSUME Inv, NEW m \in Module, pos[m] = Len(program[m]),
                      NEW d \in ToSet(program[m])
               PROVE  Honoured(reg, classes, d)
    BY DEF DeclarationsStayInForce, Loaded
  <2>1. PICK i \in DOMAIN program[m] : d = program[m][i]
    BY DEF ToSet
  <2>2. i \in 1..pos[m]
    BY Applications DEF Inv
  <2> QED
    BY <2>1, <2>2 DEF Inv, ExecutedStands, InForce
<1> QED
  BY <1>1, Invariance, PTL

-----------------------------------------------------------------------------
(* A resolution that does not raise comes out the same when filters are    *)
(* added.                                                                  *)
LEMMA MoreFiltersResolveAlike ==
  ASSUME NEW v, NEW w, Grown(v.filters, w.filters), NEW k,
         v.keys[k].resource = w.keys[k].resource,
         NEW grants, DOMAIN grants \subseteq Nat, ~Raises(CompileGrants(v, k, grants))
  PROVE  CompileGrants(w, k, grants) = CompileGrants(v, k, grants)
<1>1. ASSUME NEW c, Usable(v, k, c)
      PROVE  Usable(w, k, c) /\ Matched(w, c) = Matched(v, c)
  BY <1>1 DEF Usable, Grown, Matched
<1>2. \A i \in DOMAIN grants : Stuck(w, k, grants[i]) => Stuck(v, k, grants[i])
  BY <1>1 DEF Stuck
<1>3. \A i \in Stops(w, k, grants) : i \in Stops(v, k, grants)
  BY <1>2 DEF Stops
<1>4. CASE Stops(v, k, grants) = {}
  <2>1. Stops(w, k, grants) = {}
    BY <1>3, <1>4
  <2>2. ASSUME NEW i \in DOMAIN grants
        PROVE  GrantQ(w, grants[i]) = GrantQ(v, grants[i])
    <3>1. \A c \in grants[i].conditions : Matched(w, c) = Matched(v, c)
      BY <1>1, <1>4 DEF Stops, Stuck
    <3>2. {Matched(w, c) : c \in grants[i].conditions} = {Matched(v, c) : c \in grants[i].conditions}
      BY <3>1
    <3> QED
      BY <3>2 DEF GrantQ, Matched
  <2>3. {GrantQ(w, grants[i]) : i \in DOMAIN grants} = {GrantQ(v, grants[i]) : i \in DOMAIN grants}
    BY <2>2
  <2>4. /\ CompileGrants(v, k, grants) = Filtered(OrQ({GrantQ(v, grants[i]) : i \in DOMAIN grants}))
        /\ CompileGrants(w, k, grants) = Filtered(OrQ({GrantQ(w, grants[i]) : i \in DOMAIN grants}))
    BY <1>4, <2>1, CompileCases
  <2> QED
    BY <2>3, <2>4
<1>5. ASSUME NEW i \in Stops(v, k, grants), \A j \in Stops(v, k, grants) : i <= j,
             CompileGrants(v, k, grants)
               = IF Unconditional(grants[i]) THEN All ELSE Misconfigured
      PROVE  CompileGrants(w, k, grants) = CompileGrants(v, k, grants)
  <2>1. Unconditional(grants[i])
    BY <1>5 DEF Raises, Misconfigured
  <2>2. i \in Stops(w, k, grants) /\ i \in Nat
    BY <2>1 DEF Stops
  <2>3. PICK j \in Stops(w, k, grants) :
          /\ \A h \in Stops(w, k, grants) : j <= h
          /\ CompileGrants(w, k, grants) = IF Unconditional(grants[j]) THEN All ELSE Misconfigured
    BY <2>2, CompileCases
  <2>4. j <= i /\ i <= j /\ j \in Nat
    BY <1>3, <1>5, <2>2, <2>3 DEF Stops
  <2>5. i = j
    BY <2>2, <2>4
  <2> QED
    BY <1>5, <2>3, <2>5
<1> QED
  BY <1>4, <1>5, CompileCases

(* A key is lost only by a reference that another key governs from now on. *)
LEMMA KeysLost ==
  ASSUME NEW r, NEW s, Extended(r, s), NEW k \in ResolvableKeys(r), k \notin ResolvableKeys(s)
  PROVE  k \in Governing(r) \ Governing(s)
<1>1. k \in DOMAIN s.explicit \/ k[1] \in DOMAIN s.objects
  BY DEF Extended, Grown, ResolvableKeys
<1>2. k \notin KnownKeys(s)
  BY <1>1 DEF ResolvableKeys
<1>3. k \notin DOMAIN r.explicit /\ k \notin DOMAIN r.endpoints
  BY <1>2 DEF KnownKeys, Extended, Grown
<1>4. k \notin {<<p[1], p[2]>> : p \in r.points}
  BY <1>2 DEF KnownKeys, Extended
<1>5. k \in Governing(r)
  BY <1>3, <1>4 DEF ResolvableKeys, KnownKeys, Governing
<1>6. k \notin Governing(s)
  BY <1>2 DEF KnownKeys, Governing
<1> QED
  BY <1>5, <1>6

(* A key that is kept is about the same object, whose fields and governed  *)
(* references it may have more of.                                         *)
LEMMA KeysKept ==
  ASSUME NEW r, WellShaped(r), NEW s, Extended(r, s),
         NEW k \in ResolvableKeys(r) \cap ResolvableKeys(s),
         k \in DOMAIN s.explicit => k \in DOMAIN r.explicit
  PROVE  LET before == View(r).keys[k]
             after == View(s).keys[k]
         IN /\ after.resource = before.resource
            /\ before.fields \subseteq after.fields
            /\ DOMAIN before.references \subseteq DOMAIN after.references
<1>1. View(r).keys[k] = KeySpec(r, k) /\ View(s).keys[k] = KeySpec(s, k)
  BY DEF View
<1>2. CASE k \in DOMAIN r.explicit
  <2>1. KeySpec(r, k) = KeySpec(s, k)
    BY <1>2 DEF KeySpec, Extended, Grown
  <2> QED
    BY <1>1, <2>1
<1>3. CASE k \notin DOMAIN r.explicit
  <2>1. k[1] \in DOMAIN r.objects
    BY <1>3 DEF ResolvableKeys
  <2>2. ControlledFields(r, k[1]) \subseteq ControlledFields(s, k[1])
    BY DEF ControlledFields, Extended, Grown
  <2>3. DOMAIN r.objects[k[1]].references \subseteq DOMAIN s.objects[k[1]].references
    BY <2>1 DEF Extended
  <2>4. /\ KeySpec(r, k).resource = k[1] /\ KeySpec(s, k).resource = k[1]
        /\ KeySpec(r, k).fields = ControlledFields(r, k[1])
        /\ KeySpec(s, k).fields = ControlledFields(s, k[1])
        /\ KeySpec(r, k).references = r.objects[k[1]].references
        /\ KeySpec(s, k).references = s.objects[k[1]].references
    BY <1>3 DEF KeySpec
  <2> QED
    BY <1>1, <2>2, <2>3, <2>4
<1> QED
  BY <1>2, <1>3

LEMMA GrantListsAreLists ==
  ASSUME NEW grants \in GrantLists
  PROVE  DOMAIN grants \subseteq Nat
  BY DEF GrantLists

(* What a decision about a key that is kept turns into.                    *)
Tightened(r, s, k) ==
  /\ \A grants \in GrantLists :
       LET before == ResolveScope(View(r), Somebody, k, TRUE, grants)
       IN ~Raises(before) => ResolveScope(View(s), Somebody, k, TRUE, grants) = before
  /\ Visible(s, k) \subseteq Visible(r, k)
  /\ DOMAIN View(r).keys[k].references \subseteq DOMAIN View(s).keys[k].references

LEMMA KeptKeysTighten ==
  ASSUME NEW r, WellShaped(r), NEW s, Extended(r, s),
         NEW k \in ResolvableKeys(r) \cap ResolvableKeys(s),
         k \in DOMAIN s.explicit => k \in DOMAIN r.explicit
  PROVE  Tightened(r, s, k)
<1> DEFINE v == View(r)
           w == View(s)
<1>1. /\ v.keys[k].resource = w.keys[k].resource
      /\ v.keys[k].fields \subseteq w.keys[k].fields
      /\ DOMAIN v.keys[k].references \subseteq DOMAIN w.keys[k].references
  BY KeysKept
<1>2. IsKey(v, k) /\ IsKey(w, k) /\ Grown(v.filters, w.filters)
  BY DEF IsKey, View, Extended
<1> HIDE DEF v, w
<1>3. ASSUME NEW grants \in GrantLists, ~Raises(ResolveScope(v, Somebody, k, TRUE, grants))
      PROVE  ResolveScope(w, Somebody, k, TRUE, grants) = ResolveScope(v, Somebody, k, TRUE, grants)
  <2>1. ~Somebody.super /\ CheckEndpoint(Somebody, TRUE)
    BY DEF Somebody, CheckEndpoint
  <2>2. /\ ResolveScope(v, Somebody, k, TRUE, grants)
             = IF grants = <<>> THEN Deny ELSE CompileGrants(v, k, grants)
        /\ ResolveScope(w, Somebody, k, TRUE, grants)
             = IF grants = <<>> THEN Deny ELSE CompileGrants(w, k, grants)
    BY <1>2, <2>1 DEF ResolveScope
  <2>3. CASE grants = <<>>
    BY <2>2, <2>3
  <2>4. CASE grants # <<>>
    <3>1. ~Raises(CompileGrants(v, k, grants))
      BY <1>3, <2>2, <2>4
    <3>2. CompileGrants(w, k, grants) = CompileGrants(v, k, grants)
      BY <1>1, <1>2, <3>1, GrantListsAreLists, MoreFiltersResolveAlike
    <3> QED
      BY <2>2, <2>4, <3>2
  <2> QED
    BY <2>3, <2>4
<1>4. Visible(s, k) \subseteq Visible(r, k)
  BY <1>1 DEF Visible, VisibleFields, GrantedFields, Somebody, v, w
<1> QED
  BY <1>1, <1>3, <1>4 DEF Tightened, v, w

(* A process that has imported part of the code never answers more openly  *)
(* than the whole code, whatever its imports do next (registry.py:39-191,  *)
(* 203-237).                                                               *)
THEOREM Tighten == Spec => ImportsOnlyTighten
<1> DEFINE Step ==
      \A k \in ResolvableKeys(reg) \ (DOMAIN reg'.explicit \ DOMAIN reg.explicit) :
        \/ k \in Governing(reg) \ Governing(reg') /\ k \notin ResolvableKeys(reg')
        \/ Tightened(reg, reg', k)
<1>1. Inv /\ [Next]_vars => Step
  <2> SUFFICES ASSUME Inv, [Next]_vars PROVE Step
    OBVIOUS
  <2>1. WellShaped(reg)
    BY DEF Inv, Imports
  <2>2. Extended(reg, reg')
    <3>1. ASSUME NEW m \in Module, Execute(m) PROVE Extended(reg, reg')
      <4> DEFINE d == Upcoming(m)
      <4>1. ~Clashes(reg, d) /\ reg' = Registered(reg, d) /\ pos[m] # Len(program[m])
        BY <3>1 DEF Execute, Loaded
      <4>2. d.op \in Ops
        <5>1. pos[m] + 1 \in 1..Len(program[m])
          BY <4>1, Applications DEF Inv
        <5> QED
          BY <5>1, Applications DEF Inv, Upcoming
      <4> HIDE DEF d
      <4> QED
        BY <2>1, <4>1, <4>2, RegisteringExtends
    <3>2. ASSUME NEW m \in Module, Clash(m) \/ Fail(m) PROVE Extended(reg, reg')
      BY <3>2, ExtendedByNothing DEF Clash, Fail, Forget
    <3>3. CASE UNCHANGED vars
      BY <3>3, ExtendedByNothing DEF vars
    <3> QED
      BY <3>1, <3>2, <3>3 DEF Next
  <2>3. ASSUME NEW k \in ResolvableKeys(reg) \ (DOMAIN reg'.explicit \ DOMAIN reg.explicit)
        PROVE  \/ k \in Governing(reg) \ Governing(reg') /\ k \notin ResolvableKeys(reg')
               \/ Tightened(reg, reg', k)
    <3>1. CASE k \in ResolvableKeys(reg')
      BY <2>1, <2>2, <2>3, <3>1, KeptKeysTighten
    <3>2. CASE k \notin ResolvableKeys(reg')
      BY <2>2, <3>2, KeysLost
    <3> QED
      BY <3>1, <3>2
  <2> QED
    BY <2>3
<1>2. Spec => [][Step]_vars
  BY <1>1, Invariance, PTL DEF Spec
<1> QED
  BY <1>2, PTL DEF ImportsOnlyTighten, Tightened

-----------------------------------------------------------------------------
(* Every entry of a registry was declared, with its contents, by one of    *)
(* the declarations D.                                                     *)
KeysFrom(D, f) ==
  \A k \in DOMAIN f : \E d \in D : d.op = "key" /\ d.key = k /\ d.spec = f[k]

FiltersFrom(D, f) ==
  \A x \in DOMAIN f : \E d \in D :
    /\ d.op \in {"filter", "condition"} /\ d.filter = x
    /\ f[x] = [object |-> d.object, q |-> d.q]

GroupsFrom(D, f) ==
  \A g \in DOMAIN f : \E d \in D :
    d.op = "group" /\ <<d.object, d.group>> = g /\ d.fields = f[g]

PointsFrom(D, points) ==
  \A p \in points : \E d \in D : d.op = "point" /\ <<d.object, d.verb, d.target>> = p

LabelsFrom(D, f) ==
  \A k \in DOMAIN f : \E d \in D : d.op = "endpoint" /\ d.key = k /\ d.label = f[k]

TargetsFrom(D, f) ==
  \A k \in DOMAIN f : \A c \in f[k] : \E d \in D :
    d.op = "endpoint" /\ d.key = k /\ d.class = c

ModelFrom(D, o, model) ==
  model # NoModel => \E d \in D : d.op = "object" /\ d.object = o /\ d.model = model

ReferencesFrom(D, o, references) ==
  \A f \in DOMAIN references : \E d \in D :
    /\ d.op = "references" /\ d.object = o
    /\ f \in DOMAIN d.references /\ d.references[f] = references[f]

EntryFrom(D, o, x) ==
  /\ \E d \in D : d.op \in {"object", "references"} /\ d.object = o
  /\ ModelFrom(D, o, x.model)
  /\ ReferencesFrom(D, o, x.references)

ObjectsFrom(D, f) == \A o \in DOMAIN f : EntryFrom(D, o, f[o])

DeclaredBy(D, r) ==
  /\ KeysFrom(D, r.explicit) /\ FiltersFrom(D, r.filters) /\ GroupsFrom(D, r.groups)
  /\ PointsFrom(D, r.points) /\ LabelsFrom(D, r.labels) /\ TargetsFrom(D, r.endpoints)
  /\ ObjectsFrom(D, r.objects)

EntriesDeclared == DeclaredBy(Declarations, reg)

LEMMA KeyDeclared ==
  ASSUME NEW D, NEW r, WellShaped(r), DeclaredBy(D, r), NEW d \in D, d.op = "key"
  PROVE  DeclaredBy(D, RegisterKey(r, d))
<1> DEFINE s == RegisterKey(r, d)
<1>1. Rest(r, s, {"explicit"}) /\ s.explicit = With(r.explicit, d.key, d.spec)
  BY KeyWrites
<1> HIDE DEF s
<1>2. Updated(r.explicit, d.key, d.spec, s.explicit)
  BY <1>1, WithUpdates
<1>3. KeysFrom(D, s.explicit)
  BY <1>2 DEF Updated, KeysFrom, DeclaredBy
<1> QED
  BY <1>1, <1>3 DEF Rest, DeclaredBy, s

LEMMA ConditionDeclared ==
  ASSUME NEW D, NEW r, WellShaped(r), DeclaredBy(D, r),
         NEW d \in D, d.op \in {"filter", "condition"}
  PROVE  DeclaredBy(D, RegisterCondition(r, d))
<1> DEFINE s == RegisterCondition(r, d)
           v == [object |-> d.object, q |-> d.q]
<1>1. Rest(r, s, {"filters"}) /\ s.filters = With(r.filters, d.filter, v)
  BY ConditionWrites
<1> HIDE DEF s
<1>2. Updated(r.filters, d.filter, v, s.filters)
  BY <1>1, WithUpdates
<1>3. FiltersFrom(D, s.filters)
  BY <1>2 DEF Updated, FiltersFrom, DeclaredBy
<1> QED
  BY <1>1, <1>3 DEF Rest, DeclaredBy, s

LEMMA GroupDeclared ==
  ASSUME NEW D, NEW r, WellShaped(r), DeclaredBy(D, r), NEW d \in D, d.op = "group"
  PROVE  DeclaredBy(D, RegisterFieldGroup(r, d))
<1> DEFINE s == RegisterFieldGroup(r, d)
           g == <<d.object, d.group>>
<1>1. Rest(r, s, {"groups"}) /\ s.groups = With(r.groups, g, d.fields)
  BY GroupWrites
<1> HIDE DEF s
<1>2. Updated(r.groups, g, d.fields, s.groups)
  BY <1>1, WithUpdates
<1>3. GroupsFrom(D, s.groups)
  BY <1>2 DEF Updated, GroupsFrom, DeclaredBy
<1> QED
  BY <1>1, <1>3 DEF Rest, DeclaredBy, s

LEMMA PointDeclared ==
  ASSUME NEW D, NEW r, WellShaped(r), DeclaredBy(D, r), NEW d \in D, d.op = "point"
  PROVE  DeclaredBy(D, RegisterScopePoint(r, d))
<1> DEFINE s == RegisterScopePoint(r, d)
<1>1. Rest(r, s, {"points"}) /\ s.points = r.points \cup {<<d.object, d.verb, d.target>>}
  BY PointWrites
<1> HIDE DEF s
<1>2. PointsFrom(D, s.points)
  BY <1>1 DEF PointsFrom, DeclaredBy
<1> QED
  BY <1>1, <1>2 DEF Rest, DeclaredBy, s

LEMMA EndpointDeclared ==
  ASSUME NEW D, NEW r, WellShaped(r), DeclaredBy(D, r), NEW d \in D, d.op = "endpoint"
  PROVE  DeclaredBy(D, RegisterEndpoint(r, d))
<1> DEFINE s == RegisterEndpoint(r, d)
           new == d.key \notin DOMAIN r.endpoints
           v == {d.class} \cup IF new THEN {} ELSE r.endpoints[d.key]
<1>1. /\ Rest(r, s, {"endpoints"}) /\ s.endpoints = With(r.endpoints, d.key, v)
      /\ s.labels = IF new THEN With(r.labels, d.key, d.label) ELSE r.labels
  BY EndpointWrites
<1> HIDE DEF s
<1>2. Updated(r.endpoints, d.key, v, s.endpoints)
  BY <1>1, WithUpdates
<1>3. TargetsFrom(D, s.endpoints)
  <2> SUFFICES ASSUME NEW k \in DOMAIN s.endpoints, NEW c \in s.endpoints[k]
               PROVE  \E e \in D : e.op = "endpoint" /\ e.key = k /\ e.class = c
    BY DEF TargetsFrom
  <2>1. CASE k = d.key /\ c = d.class
    BY <2>1
  <2>2. CASE ~(k = d.key /\ c = d.class)
    <3>1. k \in DOMAIN r.endpoints /\ c \in r.endpoints[k]
      BY <1>2, <2>2 DEF Updated
    <3> QED
      BY <3>1 DEF DeclaredBy, TargetsFrom
  <2> QED
    BY <2>1, <2>2
<1>4. LabelsFrom(D, s.labels)
  <2>1. CASE new
    <3>1. Updated(r.labels, d.key, d.label, s.labels)
      BY <1>1, <2>1, WithUpdates
    <3> QED
      BY <3>1 DEF Updated, LabelsFrom, DeclaredBy
  <2>2. CASE ~new
    BY <1>1, <2>2 DEF DeclaredBy
  <2> QED
    BY <2>1, <2>2
<1> QED
  BY <1>1, <1>3, <1>4 DEF Rest, DeclaredBy, s

LEMMA EntryDeclared ==
  ASSUME NEW D, NEW r, DeclaredBy(D, r), NEW s, Rest(r, s, {"objects"}), NEW o, NEW x,
         s.objects = With(r.objects, o, x), EntryFrom(D, o, x)
  PROVE  DeclaredBy(D, s)
<1>1. Updated(r.objects, o, x, s.objects)
  BY WithUpdates
<1>2. ObjectsFrom(D, s.objects)
  BY <1>1 DEF Updated, ObjectsFrom, DeclaredBy
<1> QED
  BY <1>2 DEF Rest, DeclaredBy

(* What an object has already was declared.                                *)
LEMMA OldEntryDeclared ==
  ASSUME NEW D, NEW r, DeclaredBy(D, r), NEW o
  PROVE  ModelFrom(D, o, Model(r, o)) /\ ReferencesFrom(D, o, References(r, o))
<1>1. CASE o \in DOMAIN r.objects
  BY <1>1 DEF DeclaredBy, ObjectsFrom, EntryFrom, Model, References
<1>2. CASE o \notin DOMAIN r.objects
  <2>1. Model(r, o) = NoModel /\ References(r, o) = <<>>
    BY <1>2 DEF Model, References
  <2> QED
    BY <2>1 DEF ModelFrom, ReferencesFrom
<1> QED
  BY <1>1, <1>2

LEMMA ObjectDeclared ==
  ASSUME NEW D, NEW r, WellShaped(r), DeclaredBy(D, r), NEW d \in D, d.op = "object"
  PROVE  DeclaredBy(D, RegisterObject(r, d))
<1> DEFINE s == RegisterObject(r, d)
           m == IF d.model = NoModel THEN Model(r, d.object) ELSE d.model
           x == [model |-> m, references |-> References(r, d.object)]
<1>1. Rest(r, s, {"objects"}) /\ s.objects = With(r.objects, d.object, x)
  BY ObjectWrites
<1>2. ModelFrom(D, d.object, m)
  BY OldEntryDeclared DEF ModelFrom
<1> HIDE DEF s, m
<1>3. EntryFrom(D, d.object, x)
  BY <1>2, OldEntryDeclared DEF EntryFrom
<1> HIDE DEF x
<1> QED
  BY <1>1, <1>3, EntryDeclared DEF s

LEMMA ReferencesDeclared ==
  ASSUME NEW D, NEW r, WellShaped(r), DeclaredBy(D, r), NEW d \in D, d.op = "references"
  PROVE  DeclaredBy(D, RegisterReferences(r, d))
<1> DEFINE s == RegisterReferences(r, d)
           refs == Merged(References(r, d.object), d.references)
           x == [model |-> Model(r, d.object), references |-> refs]
<1>1. Rest(r, s, {"objects"}) /\ s.objects = With(r.objects, d.object, x)
  BY ReferencesWrite
<1>2. ReferencesFrom(D, d.object, refs)
  <2> DEFINE old == References(r, d.object)
  <2>1. ReferencesFrom(D, d.object, old)
    BY OldEntryDeclared
  <2> HIDE DEF old
  <2>2. DOMAIN Merged(old, d.references) = DOMAIN old \cup DOMAIN d.references
    BY DEF Merged
  <2>3. \A f \in DOMAIN Merged(old, d.references) :
          Merged(old, d.references)[f] = IF f \in DOMAIN d.references THEN d.references[f] ELSE old[f]
    BY DEF Merged
  <2>4. ReferencesFrom(D, d.object, Merged(old, d.references))
    BY <2>1, <2>2, <2>3 DEF ReferencesFrom
  <2> QED
    BY <2>4 DEF old
<1> HIDE DEF s, refs
<1>3. EntryFrom(D, d.object, x)
  BY <1>2, OldEntryDeclared DEF EntryFrom
<1> HIDE DEF x
<1> QED
  BY <1>1, <1>3, EntryDeclared DEF s

LEMMA RegisteringDeclares ==
  ASSUME NEW D, NEW r, WellShaped(r), DeclaredBy(D, r), NEW d \in D, d.op \in Ops
  PROVE  DeclaredBy(D, Registered(r, d))
<1>1. CASE d.op = "object"
  BY <1>1, ObjectDeclared DEF Registered
<1>2. CASE d.op = "references"
  BY <1>2, ReferencesDeclared DEF Registered
<1>3. CASE d.op = "endpoint"
  BY <1>3, EndpointDeclared DEF Registered
<1>4. CASE d.op = "group"
  BY <1>4, GroupDeclared DEF Registered
<1>5. CASE d.op = "point"
  BY <1>5, PointDeclared DEF Registered
<1>6. CASE d.op = "condition"
  BY <1>6, ConditionDeclared DEF Registered
<1>7. CASE d.op = "filter"
  BY <1>7, ConditionDeclared DEF Registered, RegisterFilter
<1>8. CASE d.op = "key"
  BY <1>8, KeyDeclared DEF Registered
<1>9. CASE d.op = "class"
  BY <1>9 DEF Registered
<1> QED
  BY <1>1, <1>2, <1>3, <1>4, <1>5, <1>6, <1>7, <1>8, <1>9 DEF Ops

(* Nothing gets into the registry that the application does not declare.   *)
THEOREM NothingElse == Spec => []EntriesDeclared
<1>1. Init => EntriesDeclared
  <2>1. ASSUME NEW D PROVE DeclaredBy(D, EmptyRegistry)
    BY DEF DeclaredBy, EmptyRegistry, KeysFrom, FiltersFrom, GroupsFrom, PointsFrom,
           LabelsFrom, TargetsFrom, ObjectsFrom
  <2> QED
    BY <2>1 DEF Init, EntriesDeclared
<1>2. Inv /\ EntriesDeclared /\ [Next]_vars => EntriesDeclared'
  <2> SUFFICES ASSUME Inv, EntriesDeclared, [Next]_vars PROVE EntriesDeclared'
    OBVIOUS
  <2>1. ASSUME NEW m \in Module, Execute(m) PROVE DeclaredBy(Declarations, reg')
    <3> DEFINE i == pos[m] + 1
               d == program[m][i]
    <3>1. reg' = Registered(reg, d) /\ pos[m] # Len(program[m])
      BY <2>1 DEF Execute, Loaded, Upcoming
    <3>2. i \in DOMAIN program[m] /\ d.op \in Ops
      BY <3>1, Applications DEF Inv
    <3>3. d \in Declarations
      BY <3>2 DEF Declarations, ToSet
    <3> HIDE DEF d
    <3>4. WellShaped(reg) /\ DeclaredBy(Declarations, reg)
      BY DEF Inv, Imports, EntriesDeclared
    <3> QED
      BY <3>1, <3>2, <3>3, <3>4, RegisteringDeclares
  <2>2. ASSUME NEW m \in Module, Clash(m) \/ Fail(m) PROVE DeclaredBy(Declarations, reg')
    BY <2>2 DEF Clash, Fail, Forget, EntriesDeclared
  <2>3. ASSUME UNCHANGED vars PROVE DeclaredBy(Declarations, reg')
    BY <2>3 DEF vars, EntriesDeclared
  <2>4. Declarations' = Declarations
    BY DEF Next, Execute, Clash, Fail, Forget, vars, Declarations
  <2> QED
    BY <2>1, <2>2, <2>3, <2>4 DEF Next, EntriesDeclared
<1> QED
  BY <1>1, <1>2, Invariance, PTL DEF Spec

-----------------------------------------------------------------------------
(* What registering changes is the same in every order: if all that D      *)
(* declares is honoured, and no two declarations contradict one another,   *)
(* the registry is known entry by entry.                                   *)
Peaceful(D) == \A d, e \in D : d = e \/ Agree(d, e)

AllHonoured(D, r) == \A d \in D : \E cs : Honoured(r, cs, d)

LEMMA SumOfKeys ==
  ASSUME NEW D, NEW r, DeclaredBy(D, r), AllHonoured(D, r)
  PROVE  /\ DOMAIN r.explicit = {d.key : d \in {e \in D : e.op = "key"}}
         /\ \A d \in D : d.op = "key" => r.explicit[d.key] = d.spec
<1>1. \A d \in D : d.op = "key" => d.key \in DOMAIN r.explicit /\ r.explicit[d.key] = d.spec
  BY DEF AllHonoured, Honoured
<1>2. \A k \in DOMAIN r.explicit : \E d \in D : d.op = "key" /\ d.key = k
  BY DEF DeclaredBy, KeysFrom
<1> QED
  BY <1>1, <1>2

LEMMA SumOfFilters ==
  ASSUME NEW D, NEW r, DeclaredBy(D, r), AllHonoured(D, r), Peaceful(D)
  PROVE  LET filters == {e \in D : e.op = "filter"} \cup {e \in D : e.op = "condition"}
         IN /\ DOMAIN r.filters = {d.filter : d \in filters}
            /\ \A d \in filters : r.filters[d.filter] = [object |-> d.object, q |-> d.q]
<1> DEFINE filters == {e \in D : e.op = "filter"} \cup {e \in D : e.op = "condition"}
<1>1. \A d \in filters : d.filter \in DOMAIN r.filters
  BY DEF AllHonoured, Honoured
<1>2. \A x \in DOMAIN r.filters : \E d \in filters :
        d.filter = x /\ r.filters[x] = [object |-> d.object, q |-> d.q]
  BY DEF DeclaredBy, FiltersFrom
<1>3. ASSUME NEW d \in filters
      PROVE  r.filters[d.filter] = [object |-> d.object, q |-> d.q]
  <2>1. PICK e \in filters :
          e.filter = d.filter /\ r.filters[d.filter] = [object |-> e.object, q |-> e.q]
    BY <1>1, <1>2
  <2>2. d.object = e.object /\ d.q = e.q
    <3>1. d = e \/ (Agree(d, e) /\ Agree(e, d))
      BY DEF Peaceful
    <3>2. d.op \in {"filter", "condition"} /\ e.op \in {"filter", "condition"}
      OBVIOUS
    <3> QED
      BY <2>1, <3>1, <3>2 DEF Agree
  <2> QED
    BY <2>1, <2>2
<1> QED
  BY <1>1, <1>2, <1>3

LEMMA SumOfGroups ==
  ASSUME NEW D, NEW r, DeclaredBy(D, r), AllHonoured(D, r)
  PROVE  LET groups == {e \in D : e.op = "group"}
         IN /\ DOMAIN r.groups = {<<d.object, d.group>> : d \in groups}
            /\ \A d \in groups : r.groups[<<d.object, d.group>>] = d.fields
<1>1. \A d \in D : d.op = "group" =>
        /\ <<d.object, d.group>> \in DOMAIN r.groups
        /\ r.groups[<<d.object, d.group>>] = d.fields
  BY DEF AllHonoured, Honoured
<1>2. \A g \in DOMAIN r.groups : \E d \in D : d.op = "group" /\ <<d.object, d.group>> = g
  BY DEF DeclaredBy, GroupsFrom
<1> QED
  BY <1>1, <1>2

LEMMA SumOfPoints ==
  ASSUME NEW D, NEW r, DeclaredBy(D, r), AllHonoured(D, r)
  PROVE  r.points = {<<d.object, d.verb, d.target>> : d \in {e \in D : e.op = "point"}}
<1>1. \A d \in D : d.op = "point" => <<d.object, d.verb, d.target>> \in r.points
  BY DEF AllHonoured, Honoured
<1>2. \A p \in r.points : \E d \in D : d.op = "point" /\ <<d.object, d.verb, d.target>> = p
  BY DEF DeclaredBy, PointsFrom
<1> QED
  BY <1>1, <1>2

LEMMA SumOfEndpoints ==
  ASSUME NEW D, NEW r, WellShaped(r), DeclaredBy(D, r), AllHonoured(D, r), Peaceful(D)
  PROVE  LET endpoints == {e \in D : e.op = "endpoint"}
         IN /\ DOMAIN r.endpoints = {d.key : d \in endpoints}
            /\ DOMAIN r.labels = {d.key : d \in endpoints}
            /\ \A k \in DOMAIN r.endpoints :
                 r.endpoints[k] = {d.class : d \in {e \in endpoints : e.key = k}}
            /\ \A d \in endpoints : r.labels[d.key] = d.label
<1> DEFINE endpoints == {e \in D : e.op = "endpoint"}
<1>1. \A d \in endpoints : d.key \in DOMAIN r.endpoints /\ d.class \in r.endpoints[d.key]
  BY DEF AllHonoured, Honoured
<1>2. \A k \in DOMAIN r.labels : \E d \in endpoints : d.key = k /\ d.label = r.labels[k]
  BY DEF DeclaredBy, LabelsFrom
<1>3. \A k \in DOMAIN r.endpoints : \A c \in r.endpoints[k] :
        \E d \in endpoints : d.key = k /\ d.class = c
  BY DEF DeclaredBy, TargetsFrom
<1>4. DOMAIN r.labels = DOMAIN r.endpoints
  BY DEF WellShaped
<1>5. ASSUME NEW d \in endpoints
      PROVE  r.labels[d.key] = d.label
  <2>1. PICK e \in endpoints : e.key = d.key /\ e.label = r.labels[d.key]
    BY <1>1, <1>2, <1>4
  <2>2. e = d \/ e.label = d.label
    BY <2>1 DEF Peaceful, Agree
  <2> QED
    BY <2>1, <2>2
<1> QED
  BY <1>1, <1>2, <1>3, <1>4, <1>5

(* The entry of an object puts together what is declared about it.         *)
SumOfEntry(D, o, x) ==
  LET governing == {d \in {e \in D : e.op = "references"} : d.object = o}
      models == {d.model : d \in {e \in {y \in D : y.op = "object"} : e.object = o}} \ {NoModel}
  IN /\ models = IF x.model = NoModel THEN {} ELSE {x.model}
     /\ DOMAIN x.references = UNION {DOMAIN d.references : d \in governing}
     /\ \A d \in governing : \A f \in DOMAIN d.references :
          x.references[f] = d.references[f]

LEMMA SumOfObjects ==
  ASSUME NEW D, NEW r, DeclaredBy(D, r), AllHonoured(D, r), Peaceful(D)
  PROVE  /\ DOMAIN r.objects = {d.object : d \in {e \in D : e.op = "object"}
                                            \cup {e \in D : e.op = "references"}}
         /\ \A o \in DOMAIN r.objects : SumOfEntry(D, o, r.objects[o])
<1>1. \A d \in D : d.op \in {"object", "references"} => d.object \in DOMAIN r.objects
  BY DEF AllHonoured, Honoured
<1>2. \A o \in DOMAIN r.objects : EntryFrom(D, o, r.objects[o])
  BY DEF DeclaredBy, ObjectsFrom
<1>3. \A o \in DOMAIN r.objects : \E d \in D : d.op \in {"object", "references"} /\ d.object = o
  BY <1>2 DEF EntryFrom
<1>4. ASSUME NEW o \in DOMAIN r.objects
      PROVE  LET models == {d.model : d \in {e \in {x \in D : x.op = "object"} : e.object = o}}
                             \ {NoModel}
                 x == r.objects[o]
             IN models = IF x.model = NoModel THEN {} ELSE {x.model}
  <2>1. \A d \in D : d.op = "object" /\ d.object = o =>
                       d.model \in {NoModel, r.objects[o].model}
    BY DEF AllHonoured, Honoured, Model
  <2>2. r.objects[o].model # NoModel =>
          \E d \in D : d.op = "object" /\ d.object = o /\ d.model = r.objects[o].model
    BY <1>2 DEF EntryFrom, ModelFrom
  <2> QED
    BY <2>1, <2>2
<1>5. ASSUME NEW o \in DOMAIN r.objects
      PROVE  LET governing == {d \in {e \in D : e.op = "references"} : d.object = o}
                 x == r.objects[o]
             IN /\ DOMAIN x.references = UNION {DOMAIN d.references : d \in governing}
                /\ \A d \in governing : \A f \in DOMAIN d.references :
                     x.references[f] = d.references[f]
  <2> DEFINE governing == {d \in {e \in D : e.op = "references"} : d.object = o}
             refs == r.objects[o].references
  <2>1. \A d \in governing : DOMAIN d.references \subseteq DOMAIN refs
    BY DEF AllHonoured, Honoured
  <2>2. \A f \in DOMAIN refs : \E d \in governing :
          f \in DOMAIN d.references /\ d.references[f] = refs[f]
    BY <1>2 DEF EntryFrom, ReferencesFrom
  <2>3. ASSUME NEW d \in governing, NEW f \in DOMAIN d.references
        PROVE  refs[f] = d.references[f]
    <3>1. PICK e \in governing : f \in DOMAIN e.references /\ e.references[f] = refs[f]
      BY <2>1, <2>2
    <3>2. d = e \/ d.references[f] = e.references[f]
      BY <3>1 DEF Peaceful, Agree
    <3> QED
      BY <3>1, <3>2
  <2> HIDE DEF refs
  <2>4. DOMAIN refs = UNION {DOMAIN d.references : d \in governing}
    BY <2>1, <2>2
  <2> QED
    BY <2>3, <2>4 DEF refs
<1>6. DOMAIN r.objects = {d.object : d \in {e \in D : e.op = "object"}
                                             \cup {e \in D : e.op = "references"}}
  BY <1>1, <1>3
<1>7. \A o \in DOMAIN r.objects : SumOfEntry(D, o, r.objects[o])
  BY <1>4, <1>5 DEF SumOfEntry
<1> QED
  BY <1>6, <1>7

LEMMA ChosenIsMember ==
  ASSUME NEW S, S # {}
  PROVE  (CHOOSE d \in S : TRUE) \in S
  OBVIOUS

LEMMA AllHonouredMakesTheSum ==
  ASSUME WellShaped(reg), DeclaredBy(Declarations, reg), AllHonoured(Declarations, reg),
         Peaceful(Declarations)
  PROVE  reg = Sum
<1> DEFINE TheOne(S) == CHOOSE d \in S : TRUE
           filters == Of("filter") \cup Of("condition")
           About(o, op) == {d \in Of(op) : d.object = o}
           models(o) == {d.model : d \in About(o, "object")} \ {NoModel}
           governing(o, f) == {d \in About(o, "references") : f \in DOMAIN d.references}
           Objects == {d.object : d \in Of("object") \cup Of("references")}
           Refs(o) == UNION {DOMAIN d.references : d \in About(o, "references")}
<1>1. \A op : Of(op) = {d \in Declarations : d.op = op}
  BY DEF Of
<1>2. reg.explicit = [k \in {d.key : d \in Of("key")} |->
                        TheOne({d \in Of("key") : d.key = k}).spec]
  <2>1. /\ DOMAIN reg.explicit = {d.key : d \in Of("key")}
        /\ \A d \in Of("key") : reg.explicit[d.key] = d.spec
    BY <1>1, SumOfKeys
  <2>2. ASSUME NEW k \in DOMAIN reg.explicit
        PROVE  reg.explicit[k] = TheOne({d \in Of("key") : d.key = k}).spec
    <3>1. TheOne({d \in Of("key") : d.key = k}) \in {d \in Of("key") : d.key = k}
      BY <2>1, ChosenIsMember
    <3> QED
      BY <2>1, <3>1
  <2> QED
    BY <2>1, <2>2 DEF WellShaped, IsFunction
<1>3. reg.filters = [f \in {d.filter : d \in filters} |->
                       LET d == TheOne({e \in filters : e.filter = f})
                       IN [object |-> d.object, q |-> d.q]]
  <2>1. /\ DOMAIN reg.filters = {d.filter : d \in filters}
        /\ \A d \in filters : reg.filters[d.filter] = [object |-> d.object, q |-> d.q]
    BY <1>1, SumOfFilters
  <2> HIDE DEF filters
  <2>2. ASSUME NEW f \in DOMAIN reg.filters
        PROVE  reg.filters[f] = LET d == TheOne({e \in filters : e.filter = f})
                                IN [object |-> d.object, q |-> d.q]
    <3>1. TheOne({e \in filters : e.filter = f}) \in {e \in filters : e.filter = f}
      BY <2>1, ChosenIsMember
    <3> QED
      BY <2>1, <3>1
  <2>3. IsFunction(reg.filters)
    BY DEF WellShaped
  <2> HIDE DEF TheOne
  <2> QED
    BY <2>1, <2>2, <2>3 DEF IsFunction
<1>4. reg.groups = [g \in {<<d.object, d.group>> : d \in Of("group")} |->
                      TheOne({d \in Of("group") : <<d.object, d.group>> = g}).fields]
  <2>1. /\ DOMAIN reg.groups = {<<d.object, d.group>> : d \in Of("group")}
        /\ \A d \in Of("group") : reg.groups[<<d.object, d.group>>] = d.fields
    BY <1>1, SumOfGroups
  <2>2. ASSUME NEW g \in DOMAIN reg.groups
        PROVE  reg.groups[g] = TheOne({d \in Of("group") : <<d.object, d.group>> = g}).fields
    <3>1. TheOne({d \in Of("group") : <<d.object, d.group>> = g})
            \in {d \in Of("group") : <<d.object, d.group>> = g}
      BY <2>1, ChosenIsMember
    <3> QED
      BY <2>1, <3>1
  <2>3. IsFunction(reg.groups)
    BY DEF WellShaped
  <2> QED
    BY <2>1, <2>2, <2>3 DEF IsFunction
<1>5. reg.points = {<<d.object, d.verb, d.target>> : d \in Of("point")}
  BY <1>1, SumOfPoints
<1>6. /\ reg.endpoints = [k \in {d.key : d \in Of("endpoint")} |->
                            {d.class : d \in {e \in Of("endpoint") : e.key = k}}]
      /\ reg.labels = [k \in {d.key : d \in Of("endpoint")} |->
                         TheOne({d \in Of("endpoint") : d.key = k}).label]
  <2>1. /\ DOMAIN reg.endpoints = {d.key : d \in Of("endpoint")}
        /\ DOMAIN reg.labels = {d.key : d \in Of("endpoint")}
        /\ \A k \in DOMAIN reg.endpoints :
             reg.endpoints[k] = {d.class : d \in {e \in Of("endpoint") : e.key = k}}
        /\ \A d \in Of("endpoint") : reg.labels[d.key] = d.label
    BY <1>1, SumOfEndpoints
  <2>2. ASSUME NEW k \in DOMAIN reg.labels
        PROVE  reg.labels[k] = TheOne({d \in Of("endpoint") : d.key = k}).label
    <3>1. TheOne({d \in Of("endpoint") : d.key = k}) \in {d \in Of("endpoint") : d.key = k}
      BY <2>1, ChosenIsMember
    <3> QED
      BY <2>1, <3>1
  <2>3. IsFunction(reg.endpoints) /\ IsFunction(reg.labels)
    BY DEF WellShaped
  <2>4. reg.endpoints = [k \in {d.key : d \in Of("endpoint")} |->
                           {d.class : d \in {e \in Of("endpoint") : e.key = k}}]
    BY <2>1, <2>3 DEF IsFunction
  <2>5. reg.labels = [k \in {d.key : d \in Of("endpoint")} |->
                        TheOne({d \in Of("endpoint") : d.key = k}).label]
    BY <2>1, <2>2, <2>3 DEF IsFunction
  <2> QED
    BY <2>4, <2>5
<1>7. reg.objects = [o \in Objects |->
                       [model |-> IF models(o) = {} THEN NoModel ELSE TheOne(models(o)),
                        references |-> [f \in Refs(o) |->
                                          TheOne(governing(o, f)).references[f]]]]
  <2>1. /\ DOMAIN reg.objects = Objects
        /\ \A o \in Objects :
             /\ models(o) = IF reg.objects[o].model = NoModel THEN {}
                            ELSE {reg.objects[o].model}
             /\ DOMAIN reg.objects[o].references = Refs(o)
             /\ \A d \in About(o, "references") : \A f \in DOMAIN d.references :
                  reg.objects[o].references[f] = d.references[f]
    <3>1. DOMAIN reg.objects = Objects
      BY SumOfObjects DEF Of
    <3>2. \A o \in DOMAIN reg.objects :
            /\ models(o) = IF reg.objects[o].model = NoModel THEN {}
                           ELSE {reg.objects[o].model}
            /\ DOMAIN reg.objects[o].references = Refs(o)
            /\ \A d \in About(o, "references") : \A f \in DOMAIN d.references :
                 reg.objects[o].references[f] = d.references[f]
      <4> SUFFICES ASSUME NEW o \in DOMAIN reg.objects
                   PROVE  /\ models(o) = IF reg.objects[o].model = NoModel THEN {}
                                         ELSE {reg.objects[o].model}
                          /\ DOMAIN reg.objects[o].references = Refs(o)
                          /\ \A d \in About(o, "references") : \A f \in DOMAIN d.references :
                               reg.objects[o].references[f] = d.references[f]
        OBVIOUS
      <4>1. SumOfEntry(Declarations, o, reg.objects[o])
        BY SumOfObjects
      <4> QED
        BY <4>1 DEF SumOfEntry, Of
    <3> HIDE DEF Objects, models, About, Refs
    <3> QED
      BY <3>1, <3>2
  <2>2. ASSUME NEW o \in Objects
        PROVE  reg.objects[o].model = IF models(o) = {} THEN NoModel ELSE TheOne(models(o))
    <3> DEFINE S == models(o)
    <3>1. S = IF reg.objects[o].model = NoModel THEN {} ELSE {reg.objects[o].model}
      BY <2>1
    <3> HIDE DEF S
    <3>2. S # {} => TheOne(S) \in S
      BY ChosenIsMember
    <3>3. reg.objects[o].model = IF S = {} THEN NoModel ELSE TheOne(S)
      BY <3>1, <3>2
    <3> QED
      BY <3>3 DEF S
  <2>3. ASSUME NEW o \in Objects
        PROVE  reg.objects[o].references
                 = [f \in Refs(o) |-> TheOne(governing(o, f)).references[f]]
    <3>1. ASSUME NEW f \in Refs(o)
          PROVE  reg.objects[o].references[f] = TheOne(governing(o, f)).references[f]
      <4>1. governing(o, f) # {}
        OBVIOUS
      <4>2. TheOne(governing(o, f)) \in governing(o, f)
        BY <4>1, ChosenIsMember
      <4> QED
        BY <2>1, <4>2
    <3>2. IsFunction(reg.objects[o].references)
      BY <2>1 DEF WellShaped, ObjectEntry
    <3>3. DOMAIN reg.objects[o].references = Refs(o)
      BY <2>1
    <3> HIDE DEF TheOne, governing, Refs, Objects
    <3> QED
      BY <3>1, <3>2, <3>3 DEF IsFunction
  <2> HIDE DEF TheOne, governing, Refs, Objects, models, About
  <2>4. ASSUME NEW o \in Objects
        PROVE  reg.objects[o] =
                 [model |-> IF models(o) = {} THEN NoModel ELSE TheOne(models(o)),
                  references |-> [f \in Refs(o) |-> TheOne(governing(o, f)).references[f]]]
    <3>1. ObjectEntry(reg.objects[o])
      BY <2>1 DEF WellShaped
    <3> QED
      BY <2>2, <2>3, <3>1 DEF ObjectEntry
  <2>5. IsFunction(reg.objects) /\ DOMAIN reg.objects = Objects
    BY <2>1 DEF WellShaped
  <2> QED
    BY <2>4, <2>5 DEF IsFunction
<1>8. reg = [explicit |-> reg.explicit, objects |-> reg.objects,
             endpoints |-> reg.endpoints, labels |-> reg.labels,
             filters |-> reg.filters, groups |-> reg.groups, points |-> reg.points]
  BY DEF WellShaped
<1> QED
  BY <1>2, <1>3, <1>4, <1>5, <1>6, <1>7, <1>8 DEF Sum

(* Applications whose declarations do not contradict or hide one another   *)
(* end with one registry, in whatever order their modules are imported     *)
(* (registry.py:39-191, declare.py:219-251).                               *)
THEOREM SumOf == Spec => []RegistryIsTheSum
<1>1. Inv /\ EntriesDeclared => RegistryIsTheSum
  <2> SUFFICES ASSUME Inv, EntriesDeclared, Harmonious, AllLoaded PROVE reg = Sum
    BY DEF RegistryIsTheSum
  <2>1. \A d \in Declarations : \E m \in Module : \E i \in DOMAIN program[m] : d = program[m][i]
    BY DEF Declarations, ToSet
  <2>2. AllHonoured(Declarations, reg)
    <3> SUFFICES ASSUME NEW d \in Declarations PROVE \E cs : Honoured(reg, cs, d)
      BY DEF AllHonoured
    <3>1. PICK m \in Module : \E i \in DOMAIN program[m] : d = program[m][i]
      BY <2>1
    <3>2. PICK i \in DOMAIN program[m] : d = program[m][i]
      BY <3>1
    <3>3. i \in 1..pos[m]
      BY <3>2, Applications DEF Inv, AllLoaded, Loaded
    <3>4. Honoured(reg, classes, d)
      BY <3>2, <3>3 DEF Inv, ExecutedStands, InForce
    <3> QED
      BY <3>4
  <2>3. Peaceful(Declarations)
    <3> SUFFICES ASSUME NEW d \in Declarations, NEW e \in Declarations, d # e
                 PROVE  Agree(d, e)
      BY DEF Peaceful
    <3>1. PICK m \in Module : \E i \in DOMAIN program[m] : d = program[m][i]
      BY <2>1
    <3>2. PICK n \in Module : \E j \in DOMAIN program[n] : e = program[n][j]
      BY <2>1
    <3>3. PICK i \in DOMAIN program[m] : d = program[m][i]
      BY <3>1
    <3>4. PICK j \in DOMAIN program[n] : e = program[n][j]
      BY <3>2
    <3>5. <<m, i>> \in Places /\ <<n, j>> \in Places
      BY DEF Places
    <3>6. At(<<m, i>>) = d /\ At(<<n, j>>) = e
      BY <3>3, <3>4 DEF At
    <3>7. <<m, i>> # <<n, j>>
      BY <3>6
    <3> QED
      BY <3>5, <3>6, <3>7 DEF Harmonious
  <2>4. WellShaped(reg) /\ DeclaredBy(Declarations, reg)
    BY DEF Inv, Imports, EntriesDeclared
  <2> QED
    BY <2>2, <2>3, <2>4, AllHonouredMakesTheSum
<1> QED
  BY <1>1, Invariance, NothingElse, PTL

-----------------------------------------------------------------------------
(* The attributes of a view class.  The mro of a class is the class, then  *)
(* the mro of its parent.                                                  *)
Chain(cs, c) ==
  LET mro == cs[c].mro
  IN /\ mro \in Seq(ToSet(mro)) /\ Len(mro) >= 1 /\ mro[1] = c
     /\ Len(mro) > 1 => cs[mro[2]].mro = Tail(mro)

(* A parent will not be decorated or forgotten any more while the class of *)
(* statement i of m is there.                                              *)
Settled(p, cs, ps, m, i, x) ==
  /\ x \in DOMAIN cs /\ cs[x].module \in Module
  /\ \/ ps[cs[x].module] = Len(p[cs[x].module])
     \/ cs[x].module = m /\ \E j \in 1..(i - 1) : p[m][j].op = "class" /\ p[m][j].class = x

(* The keys the first n declarations of m decorate the class c with.       *)
KeysIn(p, m, n, c) ==
  {p[m][j].key : j \in {k \in 1..n : p[m][k].op = "endpoint" /\ p[m][k].class = c}}

AttributeOf(own, a) == IF a \in DOMAIN own THEN own[a] ELSE None

(* A list of the members of S.                                             *)
Listed(s, S) ==
  /\ s \in Seq(S) /\ S = {s[i] : i \in 1..Len(s)}
  /\ \A i, j \in 1..Len(s) : s[i] = s[j] => i = j

(* What the decorators that named the keys heard leave, all of them being  *)
(* the ones the class will have.                                           *)
Collected(own, body, heard, all, inherited) ==
  LET hand == {AttributeOf(body, "permission_endpoint")} \ {None}
      written == AttributeOf(body, "permission_key")
  IN IF heard = {} THEN own = body
     ELSE /\ {"permission_endpoint", "permission_endpoints"} \subseteq DOMAIN own
          /\ Listed(own["permission_endpoints"], heard \cup hand)
          /\ own["permission_endpoint"]
               = IF Len(own["permission_endpoints"]) = 1
                 THEN own["permission_endpoints"][1] ELSE None
          /\ (inherited = None /\ written \notin all \cup hand) =>
               AttributeOf(own, "permission_key")
                 = IF written # None THEN written ELSE own["permission_endpoint"]

(* The class of statement i of m.                                          *)
ViewStands(p, cs, ps, m, i) ==
  LET c == p[m][i].class
      mro == cs[c].mro
  IN /\ Chain(cs, c)
     /\ \A k \in 2..Len(mro) : Settled(p, cs, ps, m, i, mro[k])
     /\ Collected(cs[c].own, p[m][i].own, KeysIn(p, m, ps[m], c),
                  KeysIn(p, m, Len(p[m]), c), Inherited(cs, c))

ViewsStand(p, cs, ps) ==
  /\ \A m \in Module : \A i \in 1..ps[m] :
       p[m][i].op = "class" => ViewStands(p, cs, ps, m, i)
  /\ \A c \in DOMAIN cs :
       /\ cs[c].module \in Module
       /\ \E i \in 1..ps[cs[c].module] :
            p[cs[c].module][i].op = "class" /\ p[cs[c].module][i].class = c

ViewInv == ViewsStand(program, classes, pos)

-----------------------------------------------------------------------------
(* Where an attribute is found.                                            *)
Holders(cs, mro, a) == {i \in DOMAIN mro : a \in DOMAIN cs[mro[i]].own}

FirstOf(S) == CHOOSE i \in S : \A j \in S : i <= j

Found(cs, mro, a) ==
  IF Holders(cs, mro, a) = {} THEN None ELSE cs[mro[FirstOf(Holders(cs, mro, a))]].own[a]

LEMMA AttributeIsFound ==
  ASSUME NEW cs, NEW c, NEW a
  PROVE  Attribute(cs, c, a) = Found(cs, cs[c].mro, a)
  BY DEF Attribute, Found, Holders, FirstOf

LEMMA OwnIsFirst ==
  ASSUME NEW cs, NEW c, Chain(cs, c), NEW a, a \in DOMAIN cs[c].own
  PROVE  Attribute(cs, c, a) = cs[c].own[a]
<1> DEFINE mro == cs[c].mro
           H == Holders(cs, mro, a)
<1>1. DOMAIN mro = 1..Len(mro) /\ Len(mro) \in Nat /\ Len(mro) >= 1 /\ mro[1] = c
  BY DEF Chain
<1>2. Attribute(cs, c, a) = IF H = {} THEN None ELSE cs[mro[FirstOf(H)]].own[a]
  BY AttributeIsFound DEF Found
<1> HIDE DEF mro
<1>3. 1 \in H /\ \A j \in H : j \in Nat /\ 1 <= j
  BY <1>1 DEF Holders
<1> HIDE DEF H
<1>4. FirstOf(H) = 1
  BY <1>3 DEF FirstOf
<1> QED
  BY <1>1, <1>2, <1>3, <1>4

LEMMA FoundAbove ==
  ASSUME NEW cs, NEW mro, NEW up, NEW a, NEW n \in Nat, n >= 1,
         DOMAIN mro = 1..n, a \notin DOMAIN cs[mro[1]].own,
         DOMAIN up = 1..(n - 1), \A i \in 1..(n - 1) : up[i] = mro[i + 1]
  PROVE  Found(cs, mro, a) = Found(cs, up, a)
<1> DEFINE H == Holders(cs, mro, a)
           G == Holders(cs, up, a)
<1>1. /\ \A i \in G : i + 1 \in H /\ i \in 1..(n - 1)
      /\ \A i \in H : i - 1 \in G /\ i \in 1..n
  BY DEF Holders
<1> HIDE DEF G, H
<1>2. CASE G = {}
  BY <1>1, <1>2 DEF Found, G, H
<1>3. CASE G # {}
  <2>1. G \in SUBSET Nat
    BY <1>1
  <2>2. \E i \in G : \A j \in G : i <= j
    BY <1>3, <2>1, NatMinimum
  <2>3. FirstOf(G) \in G /\ \A j \in G : FirstOf(G) <= j
    BY <2>2 DEF FirstOf
  <2>4. FirstOf(G) + 1 \in H /\ \A j \in H : FirstOf(G) + 1 <= j
    BY <1>1, <2>3
  <2>5. FirstOf(H) = FirstOf(G) + 1
    BY <1>1, <2>4 DEF FirstOf
  <2>6. mro[FirstOf(H)] = up[FirstOf(G)]
    BY <1>1, <2>3, <2>5
  <2> QED
    BY <1>3, <2>4, <2>6 DEF Found, G, H
<1> QED
  BY <1>2, <1>3

LEMMA OthersAreInherited ==
  ASSUME NEW cs, NEW c, Chain(cs, c), NEW a, a \notin DOMAIN cs[c].own
  PROVE  Attribute(cs, c, a) = IF Len(cs[c].mro) = 1 THEN None
                               ELSE Attribute(cs, cs[c].mro[2], a)
<1> DEFINE mro == cs[c].mro
           n == Len(mro)
           up == cs[mro[2]].mro
<1>1. /\ DOMAIN mro = 1..n /\ n \in Nat /\ n >= 1 /\ mro[1] = c
      /\ mro \in Seq(ToSet(mro)) /\ (n > 1 => up = Tail(mro))
  BY DEF Chain
<1>2. Attribute(cs, c, a) = Found(cs, mro, a) /\ Attribute(cs, mro[2], a) = Found(cs, up, a)
  BY AttributeIsFound
<1>3. a \notin DOMAIN cs[mro[1]].own
  BY <1>1
<1> SUFFICES Found(cs, mro, a) = IF n = 1 THEN None ELSE Found(cs, up, a)
  BY <1>2
<1> HIDE DEF mro, up
<1>4. CASE n = 1
  <2>1. Holders(cs, mro, a) = {}
    BY <1>1, <1>3, <1>4 DEF Holders
  <2> QED
    BY <1>4, <2>1 DEF Found
<1>5. CASE n # 1
  <2>1. DOMAIN up = 1..(n - 1) /\ \A i \in 1..(n - 1) : up[i] = mro[i + 1]
    BY <1>1, <1>5
  <2> QED
    BY <1>1, <1>3, <1>5, <2>1, FoundAbove
<1> QED
  BY <1>4, <1>5

(* It does not depend on other classes.                                    *)
LEMMA AttributeElsewhere ==
  ASSUME NEW cs, NEW ds, NEW c, NEW a, DOMAIN cs[c].mro \subseteq Nat,
         ds[c].mro = cs[c].mro,
         \A i \in DOMAIN cs[c].mro : ds[cs[c].mro[i]].own = cs[cs[c].mro[i]].own
  PROVE  Attribute(ds, c, a) = Attribute(cs, c, a)
<1> DEFINE mro == cs[c].mro
           H == Holders(cs, mro, a)
<1>1. Holders(ds, mro, a) = H
  BY DEF Holders
<1>2. \A i \in H : i \in DOMAIN mro /\ ds[mro[i]].own = cs[mro[i]].own
  BY DEF Holders
<1>3. /\ Attribute(cs, c, a) = IF H = {} THEN None ELSE cs[mro[FirstOf(H)]].own[a]
      /\ Attribute(ds, c, a) = IF H = {} THEN None ELSE ds[mro[FirstOf(H)]].own[a]
  BY <1>1, AttributeIsFound DEF Found
<1>4. CASE H # {}
  <2>1. \E i \in H : \A j \in H : i <= j
    BY <1>2, <1>4, NatMinimum
  <2>2. FirstOf(H) \in H
    BY <2>1 DEF FirstOf
  <2> QED
    BY <1>2, <1>3, <2>2
<1> QED
  BY <1>3, <1>4

-----------------------------------------------------------------------------
(* What a decorator writes.                                                *)
SetTo(cs, ds, c, a, v) ==
  /\ ClassTable(ds) /\ DOMAIN ds = DOMAIN cs
  /\ \A x \in DOMAIN cs : ds[x].module = cs[x].module /\ ds[x].mro = cs[x].mro
  /\ \A x \in DOMAIN cs : x # c => ds[x] = cs[x]
  /\ DOMAIN ds[c].own = DOMAIN cs[c].own \cup {a} /\ ds[c].own[a] = v
  /\ \A b \in DOMAIN cs[c].own : b # a => ds[c].own[b] = cs[c].own[b]

LEMMA SetSets ==
  ASSUME NEW cs, ClassTable(cs), NEW c \in DOMAIN cs, NEW a, NEW v
  PROVE  SetTo(cs, Set(cs, c, a, v), c, a, v)
<1> DEFINE ds == Set(cs, c, a, v)
           w == With(cs[c].own, a, v)
<1>1. ds = [cs EXCEPT ![c].own = w]
  BY DEF Set
<1>2. Updated(cs[c].own, a, v, w)
  BY WithUpdates
<1> HIDE DEF ds, w
<1>3. IsFunction(ds) /\ DOMAIN ds = DOMAIN cs
  BY <1>1 DEF IsFunction
<1>4. \A x \in DOMAIN cs : x # c => ds[x] = cs[x]
  BY <1>1 DEF ClassTable, IsFunction
<1>5. ds[c] = [module |-> cs[c].module, mro |-> cs[c].mro, own |-> w]
  BY <1>1 DEF ClassTable, IsFunction
<1>6. ds[c].own = w /\ ds[c].module = cs[c].module /\ ds[c].mro = cs[c].mro
  BY <1>5
<1>7. ClassTable(ds)
  BY <1>3, <1>4, <1>5, <1>6 DEF ClassTable
<1>8. \A x \in DOMAIN cs : ds[x].module = cs[x].module /\ ds[x].mro = cs[x].mro
  BY <1>4, <1>6
<1>9. /\ DOMAIN ds[c].own = DOMAIN cs[c].own \cup {a} /\ ds[c].own[a] = v
      /\ \A b \in DOMAIN cs[c].own : b # a => ds[c].own[b] = cs[c].own[b]
  BY <1>2, <1>6 DEF Updated
<1>10. SetTo(cs, ds, c, a, v)
  BY <1>3, <1>4, <1>7, <1>8, <1>9 DEF SetTo
<1> QED
  BY <1>10 DEF ds

(* The attributes of a class before and after it is decorated with a key:  *)
(* found is what getattr answers for its permission_key.                   *)
SeenIn(own) ==
  IF "permission_endpoints" \in DOMAIN own THEN own["permission_endpoints"]
  ELSE IF AttributeOf(own, "permission_endpoint") # None
       THEN <<AttributeOf(own, "permission_endpoint")>> ELSE <<>>

WithKey(s, key) == IF key \in ToSet(s) THEN s ELSE Append(s, key)

DecoratedWith(own, new, key, found) ==
  LET seen == SeenIn(own)
      listed == WithKey(seen, key)
  IN /\ {"permission_endpoint", "permission_endpoints"} \subseteq DOMAIN new
     /\ new["permission_endpoints"] = listed
     /\ new["permission_endpoint"] = IF Len(listed) = 1 THEN key ELSE None
     /\ AttributeOf(new, "permission_key")
          = IF Len(listed) = 1
            THEN IF found = None THEN key ELSE AttributeOf(own, "permission_key")
            ELSE IF AttributeOf(own, "permission_key") \in ToSet(seen) THEN None
                 ELSE AttributeOf(own, "permission_key")

OnlyDecorates(cs, ds, c) ==
  /\ ClassTable(ds) /\ DOMAIN ds = DOMAIN cs
  /\ \A x \in DOMAIN cs : ds[x].module = cs[x].module /\ ds[x].mro = cs[x].mro
  /\ \A x \in DOMAIN cs : x # c => ds[x] = cs[x]

LEMMA DecoratingWrites ==
  ASSUME NEW cs, ClassTable(cs), NEW d, d.class \in DOMAIN cs
  PROVE  /\ OnlyDecorates(cs, Decorated(cs, d), d.class)
         /\ DecoratedWith(cs[d.class].own, Decorated(cs, d)[d.class].own, d.key,
                          Attribute(cs, d.class, "permission_key"))
<1> DEFINE c == d.class
           own == cs[c].own
           seen == Seen(cs, c)
           listed == WithKey(seen, d.key)
           found == Attribute(cs, c, "permission_key")
           held == AttributeOf(own, "permission_key")
           named == Set(cs, c, "permission_endpoints", listed)
           single == Set(named, c, "permission_endpoint", d.key)
           several == Set(named, c, "permission_endpoint", None)
           ds == Decorated(cs, d)
<1>1. ds = IF Len(listed) = 1
           THEN IF found = None THEN Set(single, c, "permission_key", d.key) ELSE single
           ELSE IF held \in ToSet(seen) THEN Set(several, c, "permission_key", None)
                ELSE several
  BY DEF Decorated, WithKey, AttributeOf, Own
<1>2. seen = SeenIn(own)
  BY DEF Seen, SeenIn, AttributeOf, Own
<1> HIDE DEF ds, found, seen, listed
<1>3. SetTo(cs, named, c, "permission_endpoints", listed) /\ ClassTable(named)
      /\ c \in DOMAIN named
  BY SetSets DEF SetTo
<1> HIDE DEF named
<1>4. /\ SetTo(named, single, c, "permission_endpoint", d.key)
      /\ ClassTable(single) /\ c \in DOMAIN single
      /\ SetTo(named, several, c, "permission_endpoint", None)
      /\ ClassTable(several) /\ c \in DOMAIN several
  BY <1>3, SetSets DEF SetTo
<1> HIDE DEF single, several
<1>5. /\ SetTo(single, Set(single, c, "permission_key", d.key), c, "permission_key", d.key)
      /\ SetTo(several, Set(several, c, "permission_key", None), c, "permission_key", None)
  BY <1>4, SetSets
<1> HIDE DEF c
<1>6. OnlyDecorates(cs, ds, c)
  BY <1>1, <1>3, <1>4, <1>5 DEF SetTo, OnlyDecorates
<1>7. DecoratedWith(own, ds[c].own, d.key, found)
  <2>1. /\ AttributeOf(single[c].own, "permission_key") = held
        /\ AttributeOf(several[c].own, "permission_key") = held
    BY <1>3, <1>4 DEF SetTo, AttributeOf
  <2>2. CASE Len(listed) = 1 /\ found = None
    BY <1>1, <1>2, <1>3, <1>4, <1>5, <2>2 DEF SetTo, DecoratedWith, AttributeOf, listed
  <2>3. CASE Len(listed) = 1 /\ found # None
    BY <1>1, <1>2, <1>3, <1>4, <2>1, <2>3 DEF SetTo, DecoratedWith, listed
  <2>4. CASE Len(listed) # 1 /\ held \in ToSet(seen)
    BY <1>1, <1>2, <1>3, <1>4, <1>5, <2>4 DEF SetTo, DecoratedWith, AttributeOf, listed
  <2>5. CASE Len(listed) # 1 /\ held \notin ToSet(seen)
    BY <1>1, <1>2, <1>3, <1>4, <2>1, <2>5 DEF SetTo, DecoratedWith, listed
  <2> QED
    BY <2>2, <2>3, <2>4, <2>5
<1> QED
  BY <1>6, <1>7 DEF c, ds, found

(* Decorating a class once more extends what its decorators have left.     *)
LEMMA ListGrows ==
  ASSUME NEW s, NEW S, Listed(s, S), NEW key
  PROVE  /\ Listed(WithKey(s, key), S \cup {key})
         /\ key \in S <=> key \in ToSet(s)
         /\ ToSet(s) = S
         /\ Len(WithKey(s, key)) = 1 => WithKey(s, key)[1] = key
         /\ Len(WithKey(s, key)) \in Nat /\ Len(WithKey(s, key)) >= 1
         /\ Len(s) \in Nat /\ Len(WithKey(s, key)) >= Len(s)
<1>1. s \in Seq(S) /\ S = {s[i] : i \in 1..Len(s)} /\ DOMAIN s = 1..Len(s) /\ Len(s) \in Nat
  BY DEF Listed
<1>2. ToSet(s) = S
  BY <1>1 DEF ToSet
<1>3. CASE key \in S
  <2>1. WithKey(s, key) = s /\ S \cup {key} = S
    BY <1>2, <1>3 DEF WithKey
  <2>2. PICK i \in 1..Len(s) : s[i] = key
    BY <1>1, <1>3
  <2>3. Len(s) >= 1 /\ (Len(s) = 1 => s[1] = key)
    BY <1>1, <2>2
  <2>4. Listed(WithKey(s, key), S \cup {key})
    BY <2>1
  <2> QED
    BY <1>1, <1>2, <1>3, <2>1, <2>3, <2>4
<1>4. CASE key \notin S
  <2> DEFINE t == Append(s, key)
             T == S \cup {key}
  <2>1. WithKey(s, key) = t
    BY <1>2, <1>4 DEF WithKey
  <2>2. s \in Seq(T)
    BY <1>1
  <2>3. /\ t \in Seq(T) /\ Len(t) = Len(s) + 1 /\ t[Len(s) + 1] = key
        /\ \A i \in 1..Len(s) : t[i] = s[i]
    BY <1>1, <2>2
  <2> HIDE DEF t
  <2>4. T = {t[i] : i \in 1..Len(t)}
    <3>1. \A i \in 1..Len(t) : i \in 1..Len(s) \/ i = Len(s) + 1
      BY <1>1, <2>3
    <3>2. 1..Len(s) \subseteq 1..Len(t) /\ Len(s) + 1 \in 1..Len(t)
      BY <1>1, <2>3
    <3> QED
      BY <1>1, <2>3, <3>1, <3>2
  <2>5. \A i, j \in 1..Len(t) : t[i] = t[j] => i = j
    <3>1. \A i \in 1..Len(t) : i \in 1..Len(s) \/ i = Len(s) + 1
      BY <1>1, <2>3
    <3>2. \A i \in 1..Len(s) : t[i] \in S
      BY <1>1, <2>3
    <3>3. \A i, j \in 1..Len(s) : s[i] = s[j] => i = j
      BY DEF Listed
    <3> QED
      BY <1>4, <2>3, <3>1, <3>2, <3>3
  <2>6. Listed(t, T)
    BY <2>3, <2>4, <2>5 DEF Listed
  <2> QED
    BY <1>1, <1>2, <1>4, <2>1, <2>3, <2>6
<1> QED
  BY <1>3, <1>4

LEMMA SeenIsListed ==
  ASSUME NEW own, NEW body, NEW heard, NEW all, NEW inherited,
         Collected(own, body, heard, all, inherited),
         "permission_endpoints" \notin DOMAIN body
  PROVE  Listed(SeenIn(own),
                heard \cup ({AttributeOf(body, "permission_endpoint")} \ {None}))
<1> DEFINE hand == {AttributeOf(body, "permission_endpoint")} \ {None}
<1>1. CASE heard = {}
  <2>1. own = body
    BY <1>1 DEF Collected
  <2>2. CASE AttributeOf(body, "permission_endpoint") = None
    <3>1. SeenIn(own) = <<>> /\ hand = {}
      BY <2>1, <2>2 DEF SeenIn
    <3> QED
      BY <1>1, <3>1 DEF Listed
  <2>3. CASE AttributeOf(body, "permission_endpoint") # None
    <3> DEFINE k == AttributeOf(body, "permission_endpoint")
    <3>1. SeenIn(own) = <<k>> /\ hand = {k}
      BY <2>1, <2>3 DEF SeenIn
    <3> HIDE DEF k
    <3>2. <<k>> \in Seq({k}) /\ Len(<<k>>) = 1 /\ <<k>>[1] = k
      OBVIOUS
    <3>3. {k} = {<<k>>[i] : i \in 1..Len(<<k>>)}
      BY <3>2
    <3>4. Listed(<<k>>, {k})
      BY <3>2, <3>3 DEF Listed
    <3>5. heard \cup hand = {k}
      BY <1>1, <3>1
    <3> QED
      BY <3>1, <3>4, <3>5
  <2> QED
    BY <2>2, <2>3
<1>2. CASE heard # {}
  BY <1>2 DEF Collected, SeenIn
<1> QED
  BY <1>1, <1>2

LEMMA DecoratingCollects ==
  ASSUME NEW own, NEW new, NEW body, NEW heard, NEW all, NEW inherited, NEW key, NEW found,
         Collected(own, body, heard, all, inherited),
         DecoratedWith(own, new, key, found),
         key \in all, heard \subseteq all, None \notin all,
         "permission_endpoints" \notin DOMAIN body,
         inherited = None => found = AttributeOf(own, "permission_key")
  PROVE  Collected(new, body, heard \cup {key}, all, inherited)
<1> DEFINE hand == {AttributeOf(body, "permission_endpoint")} \ {None}
           written == AttributeOf(body, "permission_key")
           held == AttributeOf(own, "permission_key")
           seen == SeenIn(own)
           listed == WithKey(seen, key)
           S == heard \cup hand
<1>1. Listed(seen, S)
  BY SeenIsListed
<1>2. /\ {"permission_endpoint", "permission_endpoints"} \subseteq DOMAIN new
      /\ new["permission_endpoints"] = listed
      /\ new["permission_endpoint"] = IF Len(listed) = 1 THEN key ELSE None
      /\ AttributeOf(new, "permission_key")
           = IF Len(listed) = 1
             THEN IF found = None THEN key ELSE held
             ELSE IF held \in ToSet(seen) THEN None ELSE held
  BY DEF DecoratedWith
<1>3. /\ heard = {} => own = body
      /\ heard # {} =>
           /\ own["permission_endpoints"] = seen
           /\ own["permission_endpoint"] = IF Len(seen) = 1 THEN seen[1] ELSE None
           /\ (inherited = None /\ written \notin all \cup hand) =>
                held = IF written # None THEN written ELSE own["permission_endpoint"]
  BY DEF Collected, SeenIn
<1> HIDE DEF seen, listed
<1>4. /\ Listed(listed, S \cup {key}) /\ ToSet(seen) = S
      /\ Len(listed) = 1 => listed[1] = key
      /\ Len(listed) \in Nat /\ Len(listed) >= 1 /\ Len(seen) \in Nat /\ Len(listed) >= Len(seen)
  BY <1>1, ListGrows DEF listed
<1> HIDE DEF written, hand, held
<1>5. ASSUME inherited = None, written \notin all \cup hand
      PROVE  AttributeOf(new, "permission_key")
               = IF written # None THEN written ELSE new["permission_endpoint"]
  <2>1. found = held
    BY <1>5 DEF held
  <2>2. S \subseteq all \cup hand /\ None \notin S
    BY DEF hand
  <2>3. CASE heard = {}
    <3>1. held = written
      BY <1>3, <2>3 DEF held, written
    <3> QED
      BY <1>2, <1>4, <1>5, <2>1, <2>2, <3>1
  <2>4. CASE heard # {} /\ written # None
    <3>1. held = written
      BY <1>3, <1>5, <2>4
    <3> QED
      BY <1>2, <1>4, <1>5, <2>1, <2>2, <2>4, <3>1
  <2>5. CASE heard # {} /\ written = None
    <3>1. held = IF Len(seen) = 1 THEN seen[1] ELSE None
      BY <1>3, <1>5, <2>5
    <3>2. Len(seen) >= 1 /\ (Len(seen) = 1 => seen[1] \in S)
      <4>1. S = {seen[i] : i \in 1..Len(seen)}
        BY <1>1 DEF Listed
      <4>2. PICK x : x \in heard
        BY <2>5
      <4>3. PICK i \in 1..Len(seen) : seen[i] = x
        BY <4>1, <4>2
      <4> QED
        BY <1>4, <4>1, <4>3
    <3>3. CASE Len(listed) = 1
      <4>1. Len(seen) = 1 /\ S \subseteq {key}
        <5>1. Len(seen) = 1
          <6>1. Len(seen) >= 1
            BY <3>2
          <6>2. Len(seen) \in Nat /\ Len(seen) <= Len(listed)
            BY <1>4
          <6>3. \A a, b \in Nat : (a >= 1 /\ a <= b /\ b = 1) => a = 1
            OBVIOUS
          <6> QED
            BY <1>4, <3>3, <6>1, <6>2, <6>3, Zenon
        <5>2. S \cup {key} = {listed[i] : i \in 1..Len(listed)}
          BY <1>4 DEF Listed
        <5>3. \A i \in 1..Len(listed) : i = 1
          BY <3>3
        <5> QED
          BY <1>4, <3>3, <5>1, <5>2, <5>3
      <4>2. held = key
        BY <3>1, <3>2, <4>1
      <4> QED
        BY <1>2, <2>1, <2>5, <3>3, <4>2
    <3>4. CASE Len(listed) # 1
      <4>1. AttributeOf(new, "permission_key") = None
        BY <1>2, <1>4, <3>1, <3>2, <3>4
      <4> QED
        BY <1>2, <2>5, <3>4, <4>1
    <3> QED
      BY <3>3, <3>4
  <2> QED
    BY <2>3, <2>4, <2>5
<1>6. /\ Listed(new["permission_endpoints"], (heard \cup {key}) \cup hand)
      /\ new["permission_endpoint"] = IF Len(new["permission_endpoints"]) = 1
                                      THEN new["permission_endpoints"][1] ELSE None
  <2>1. (heard \cup {key}) \cup hand = S \cup {key}
    OBVIOUS
  <2> QED
    BY <1>2, <1>4, <2>1
<1> QED
  BY <1>2, <1>5, <1>6 DEF Collected, hand, written

-----------------------------------------------------------------------------
(* The classes of a process while modules are imported.  A class of which  *)
(* nothing changed, nor of its ancestors, stands as it stood.              *)
Untouched(p, cs, ds, ps, qs, m, i) ==
  LET c == p[m][i].class
      mro == cs[c].mro
  IN /\ \A k \in DOMAIN mro : mro[k] \in DOMAIN ds /\ ds[mro[k]] = cs[mro[k]]
     /\ KeysIn(p, m, qs[m], c) = KeysIn(p, m, ps[m], c)
     /\ \A n \in Module : ps[n] = Len(p[n]) => qs[n] = Len(p[n])

LEMMA InheritedElsewhere ==
  ASSUME NEW cs, NEW ds, NEW c, Chain(cs, c), ds[c].mro = cs[c].mro,
         \A k \in 2..Len(cs[c].mro) :
           LET x == cs[c].mro[k] IN ds[x].mro = cs[x].mro /\ ds[x].own = cs[x].own
  PROVE  Inherited(ds, c) = Inherited(cs, c) /\ Chain(ds, c)
<1> DEFINE mro == cs[c].mro
           up == cs[mro[2]].mro
<1>1. /\ mro \in Seq(ToSet(mro)) /\ Len(mro) \in Nat /\ Len(mro) >= 1 /\ mro[1] = c
      /\ Len(mro) > 1 => up = Tail(mro)
  BY DEF Chain
<1>2. Len(mro) > 1 => ds[mro[2]].mro = up
  <2>1. Len(mro) > 1 => 2 \in 2..Len(mro)
    BY <1>1
  <2> QED
    BY <2>1
<1>3. Chain(ds, c)
  <2> HIDE DEF up
  <2> QED
    BY <1>1, <1>2 DEF Chain
<1>4. CASE Len(mro) = 1
  BY <1>3, <1>4 DEF Inherited
<1>5. CASE Len(mro) # 1
  <2> DEFINE x == mro[2]
  <2>1. Len(mro) > 1
    <3>1. \A n \in Nat : n >= 1 /\ n # 1 => n > 1
      OBVIOUS
    <3> HIDE DEF mro
    <3> QED
      BY <1>1, <1>5, <3>1, Zenon
  <2>2. ds[x].mro = up
    BY <1>2, <2>1
  <2> HIDE DEF mro
  <2>3. /\ DOMAIN up = 1..(Len(mro) - 1)
        /\ \A k \in 1..(Len(mro) - 1) : up[k] = mro[k + 1] /\ k + 1 \in 2..Len(mro)
    <3>1. up = Tail(mro)
      BY <1>1, <2>1
    <3> HIDE DEF up
    <3> QED
      BY <1>1, <2>1, <3>1
  <2>4. \A k \in DOMAIN up : ds[up[k]].own = cs[up[k]].own
    BY <2>3 DEF mro
  <2>5. DOMAIN up \subseteq Nat
    BY <1>1, <2>3
  <2>6. Attribute(ds, x, "permission_key") = Attribute(cs, x, "permission_key")
    BY <2>2, <2>4, <2>5, AttributeElsewhere
  <2> QED
    BY <1>3, <1>5, <2>6 DEF Inherited, mro
<1> QED
  BY <1>3, <1>4, <1>5

LEMMA UntouchedStands ==
  ASSUME NEW p, NEW cs, NEW ds, NEW ps, NEW qs, NEW m \in Module, NEW i,
         ViewStands(p, cs, ps, m, i), Untouched(p, cs, ds, ps, qs, m, i)
  PROVE  ViewStands(p, ds, qs, m, i)
<1> DEFINE c == p[m][i].class
           mro == cs[c].mro
<1>1. /\ Chain(cs, c)
      /\ \A k \in 2..Len(mro) : Settled(p, cs, ps, m, i, mro[k])
      /\ Collected(cs[c].own, p[m][i].own, KeysIn(p, m, ps[m], c),
                   KeysIn(p, m, Len(p[m]), c), Inherited(cs, c))
  BY DEF ViewStands
<1>2. /\ \A k \in DOMAIN mro : mro[k] \in DOMAIN ds /\ ds[mro[k]] = cs[mro[k]]
      /\ KeysIn(p, m, qs[m], c) = KeysIn(p, m, ps[m], c)
      /\ \A n \in Module : ps[n] = Len(p[n]) => qs[n] = Len(p[n])
  BY DEF Untouched
<1> HIDE DEF c
<1>3. DOMAIN mro = 1..Len(mro) /\ 1 \in DOMAIN mro /\ mro[1] = c /\ 2..Len(mro) \subseteq DOMAIN mro
  <2>1. mro \in Seq(ToSet(mro)) /\ Len(mro) >= 1 /\ mro[1] = c
    BY <1>1 DEF Chain
  <2> HIDE DEF mro
  <2> QED
    BY <2>1
<1>4. ds[c] = cs[c]
  BY <1>2, <1>3
<1>5. Inherited(ds, c) = Inherited(cs, c) /\ Chain(ds, c)
  BY <1>1, <1>2, <1>3, <1>4, InheritedElsewhere
<1>6. ASSUME NEW k \in 2..Len(mro)
      PROVE  Settled(p, ds, qs, m, i, mro[k])
  <2>1. Settled(p, cs, ps, m, i, mro[k]) /\ mro[k] \in DOMAIN ds /\ ds[mro[k]] = cs[mro[k]]
    BY <1>1, <1>2, <1>3
  <2> HIDE DEF mro
  <2> QED
    BY <1>2, <2>1 DEF Settled
<1>7. Collected(ds[c].own, p[m][i].own, KeysIn(p, m, qs[m], c),
                KeysIn(p, m, Len(p[m]), c), Inherited(ds, c))
  BY <1>1, <1>2, <1>4, <1>5
<1>8. \A k \in 2..Len(ds[c].mro) : Settled(p, ds, qs, m, i, ds[c].mro[k])
  BY <1>4, <1>6
<1> QED
  BY <1>5, <1>7, <1>8 DEF ViewStands, c

(* What an application is made of, of the places of class statements and   *)
(* of the endpoints a class is decorated with.                             *)
LEMMA Decorators ==
  ASSUME Imports, NEW m \in Module, NEW i \in 1..Len(program[m])
  PROVE  LET d == program[m][i]
         IN /\ d.op = "endpoint" =>
                 /\ d.key # None
                 /\ \E j \in 1..i : /\ program[m][j].op = "class"
                                    /\ program[m][j].class = d.class
                                    /\ \A k \in (j + 1)..i : program[m][k].op # "class"
            /\ d.op = "class" => "permission_endpoints" \notin DOMAIN d.own
<1>1. DOMAIN program[m] = 1..Len(program[m])
  BY Applications
<1> QED
  BY <1>1, DecoratorAssumption DEF Imports

(* The statement of a class.                                               *)
LEMMA StatementOf ==
  ASSUME Inv, ViewInv, NEW c \in DOMAIN classes
  PROVE  \E i \in 1..pos[classes[c].module] :
           LET m == classes[c].module
           IN /\ m \in Module /\ program[m][i].op = "class" /\ program[m][i].class = c
              /\ ViewStands(program, classes, pos, m, i)
  BY DEF ViewInv, ViewsStand

(* A class that may be decorated now is on no other mro than its own.      *)
LEMMA NotYetAParent ==
  ASSUME Inv, ViewInv, NEW m \in Module, pos[m] # Len(program[m]),
         NEW j \in 1..pos[m], program[m][j].op = "class",
         \A k \in (j + 1)..pos[m] : program[m][k].op # "class",
         NEW n \in Module, NEW i \in 1..pos[n], program[n][i].op = "class",
         NEW k \in 2..Len(classes[program[n][i].class].mro)
  PROVE  classes[program[n][i].class].mro[k] # program[m][j].class
<1> DEFINE x == program[m][j].class
<1> SUFFICES ASSUME classes[program[n][i].class].mro[k] = x PROVE FALSE
  OBVIOUS
<1>1. Imports /\ ExecutedStands
  BY DEF Inv
<1>2. Settled(program, classes, pos, n, i, x)
  BY DEF ViewInv, ViewsStand, ViewStands
<1>3. classes[x].module = m
  BY <1>1 DEF ExecutedStands, InForce
<1>4. n = m /\ \E l \in 1..(i - 1) : program[m][l].op = "class" /\ program[m][l].class = x
  BY <1>2, <1>3 DEF Settled
<1>5. pos[m] \in Nat /\ pos[n] \in Nat /\ pos[m] <= Len(program[m]) /\ Len(program[m]) \in Nat
  BY <1>1, Applications
<1>6. PICK l \in 1..(i - 1) : program[m][l].op = "class" /\ program[m][l].class = x
  BY <1>4
<1>7. l = j
  <2>1. i \in 1..pos[m]
    BY <1>4
  <2>2. l \in 1..Len(program[m]) /\ j \in 1..Len(program[m])
    BY <1>5, <1>6, <2>1
  <2> QED
    BY <1>1, <1>6, <2>2, Applications
<1>8. i \in (j + 1)..pos[m]
  BY <1>4, <1>5, <1>6, <1>7
<1> QED
  BY <1>4, <1>8

-----------------------------------------------------------------------------
LEMMA ForgettingLeavesViews ==
  ASSUME Inv, ViewInv, NEW m \in Module, pos[m] # Len(program[m]), Forget(m)
  PROVE  ViewInv'
<1>1. Imports /\ ExecutedStands
  BY DEF Inv
<1>2. /\ pos' = [pos EXCEPT ![m] = 0] /\ program' = program
      /\ classes' = [c \in {x \in DOMAIN classes : classes[x].module # m} |-> classes[c]]
  BY DEF Forget
<1>3. pos'[m] = 0 /\ \A n \in Module : n # m => pos'[n] = pos[n]
  BY <1>1, <1>2 DEF Imports
<1>4. \A c : c \in DOMAIN classes' <=> c \in DOMAIN classes /\ classes[c].module # m
  BY <1>2
<1>5. \A c \in DOMAIN classes' : classes'[c] = classes[c]
  BY <1>2
<1>6. ASSUME NEW n \in Module, NEW i \in 1..pos'[n], program[n][i].op = "class"
      PROVE  ViewStands(program, classes', pos', n, i)
  <2> DEFINE c == program[n][i].class
             mro == classes[c].mro
  <2>1. n # m /\ pos'[n] = pos[n] /\ i \in 1..pos[n]
    BY <1>3
  <2>2. ViewStands(program, classes, pos, n, i)
    BY <1>6, <2>1 DEF ViewInv, ViewsStand
  <2>3. c \in DOMAIN classes /\ classes[c].module = n
    BY <1>1, <1>6, <2>1 DEF ExecutedStands, InForce, Honoured
  <2>4. ASSUME NEW k \in DOMAIN mro
        PROVE  mro[k] \in DOMAIN classes' /\ classes'[mro[k]] = classes[mro[k]]
    <3>1. mro[1] = c /\ (k = 1 \/ k \in 2..Len(mro))
      <4>1. mro[1] = c /\ mro \in Seq(ToSet(mro))
        BY <2>2 DEF ViewStands, Chain
      <4> HIDE DEF mro
      <4> QED
        BY <4>1
    <3>2. CASE k = 1
      BY <1>4, <1>5, <2>1, <2>3, <3>1, <3>2
    <3>3. CASE k \in 2..Len(mro)
      <4>1. Settled(program, classes, pos, n, i, mro[k])
        BY <2>2, <3>3 DEF ViewStands
      <4> DEFINE x == mro[k]
      <4> HIDE DEF x
      <4>2. /\ x \in DOMAIN classes
            /\ pos[classes[x].module] = Len(program[classes[x].module])
               \/ classes[x].module = n
        BY <4>1 DEF Settled, x
      <4>3. mro[k] \in DOMAIN classes /\ classes[mro[k]].module # m
        BY <2>1, <4>2 DEF x
      <4> QED
        BY <1>4, <1>5, <4>3
    <3> QED
      BY <3>1, <3>2, <3>3
  <2>5. \A l \in Module : pos[l] = Len(program[l]) => pos'[l] = Len(program[l])
    BY <1>3
  <2>6. Untouched(program, classes, classes', pos, pos', n, i)
    BY <2>1, <2>4, <2>5 DEF Untouched
  <2> QED
    BY <2>2, <2>6, UntouchedStands
<1>7. ASSUME NEW c \in DOMAIN classes'
      PROVE  /\ classes'[c].module \in Module
             /\ \E i \in 1..pos'[classes'[c].module] :
                  /\ program[classes'[c].module][i].op = "class"
                  /\ program[classes'[c].module][i].class = c
  <2>1. c \in DOMAIN classes /\ classes[c].module # m /\ classes'[c] = classes[c]
    BY <1>4, <1>5
  <2> QED
    BY <1>3, <2>1 DEF ViewInv, ViewsStand
<1> QED
  BY <1>2, <1>6, <1>7 DEF ViewInv, ViewsStand

(* A declaration that is not about views.                                  *)
LEMMA NoNewKey ==
  ASSUME NEW p, NEW m, NEW n \in Nat, NEW c,
         ~(p[m][n + 1].op = "endpoint" /\ p[m][n + 1].class = c)
  PROVE  KeysIn(p, m, n + 1, c) = KeysIn(p, m, n, c)
<1>1. \A k \in 1..(n + 1) : k \in 1..n \/ k = n + 1
  OBVIOUS
<1>2. 1..n \subseteq 1..(n + 1)
  OBVIOUS
<1>3. {k \in 1..(n + 1) : p[m][k].op = "endpoint" /\ p[m][k].class = c}
        = {k \in 1..n : p[m][k].op = "endpoint" /\ p[m][k].class = c}
  BY <1>1, <1>2
<1> QED
  BY <1>3 DEF KeysIn

(* A step of an import leaves the views it does not concern.               *)
LEMMA OtherViewsStand ==
  ASSUME Inv, ViewInv, NEW m \in Module, pos[m] # Len(program[m]),
         pos' = [pos EXCEPT ![m] = @ + 1],
         NEW n \in Module, NEW i \in 1..pos[n], program[n][i].op = "class",
         ~(n = m /\ program[m][pos[m] + 1].op = "endpoint"
             /\ program[m][pos[m] + 1].class = program[n][i].class),
         \A k \in DOMAIN classes[program[n][i].class].mro :
           LET x == classes[program[n][i].class].mro[k]
           IN x \in DOMAIN classes' /\ classes'[x] = classes[x]
  PROVE  ViewStands(program, classes', pos', n, i)
<1>1. Imports
  BY DEF Inv
<1>2. pos'[m] = pos[m] + 1 /\ \A l \in Module : l # m => pos'[l] = pos[l]
  BY <1>1 DEF Imports
<1>3. pos[m] \in Nat
  BY <1>1, Applications
<1>4. KeysIn(program, n, pos'[n], program[n][i].class)
        = KeysIn(program, n, pos[n], program[n][i].class)
  <2>1. CASE n = m
    BY <1>2, <1>3, <2>1, NoNewKey
  <2>2. CASE n # m
    BY <1>2, <2>2
  <2> QED
    BY <2>1, <2>2
<1>5. \A l \in Module : pos[l] = Len(program[l]) => pos'[l] = Len(program[l])
  BY <1>2
<1>6. Untouched(program, classes, classes', pos, pos', n, i)
  BY <1>4, <1>5 DEF Untouched
<1>7. ViewStands(program, classes, pos, n, i)
  BY DEF ViewInv, ViewsStand
<1> QED
  BY <1>6, <1>7, UntouchedStands

LEMMA Preceded ==
  ASSUME NEW S, NEW up \in Seq(S), NEW c
  PROVE  LET mro == <<c>> \o up
         IN /\ mro \in Seq(ToSet(mro)) /\ Len(mro) = Len(up) + 1 /\ Len(up) \in Nat
            /\ mro[1] = c /\ Tail(mro) = up
            /\ \A k \in 2..Len(mro) : mro[k] = up[k - 1] /\ k - 1 \in 1..Len(up)
<1> DEFINE mro == <<c>> \o up
           T == S \cup {c}
<1>1. up \in Seq(T) /\ <<c>> \in Seq(T)
  OBVIOUS
<1>2. mro \in Seq(T) /\ Len(mro) = Len(up) + 1 /\ Len(up) \in Nat
      /\ \A k \in 1..Len(mro) : mro[k] = IF k = 1 THEN c ELSE up[k - 1]
  BY <1>1
<1> HIDE DEF mro
<1>3. \A k \in 1..Len(mro) : mro[k] \in ToSet(mro)
  BY <1>2 DEF ToSet
<1>4. mro \in [1..Len(mro) -> ToSet(mro)]
  BY <1>2, <1>3
<1>5. mro \in Seq(ToSet(mro))
  BY <1>2, <1>4
<1>6. mro[1] = c /\ \A k \in 2..Len(mro) : mro[k] = up[k - 1] /\ k - 1 \in 1..Len(up)
  BY <1>2
<1>7. Tail(mro) = up
  <2>1. Tail(mro) \in Seq(T) /\ Len(Tail(mro)) = Len(up)
        /\ \A k \in 1..Len(up) : Tail(mro)[k] = mro[k + 1]
    BY <1>2
  <2>2. \A k \in 1..Len(up) : Tail(mro)[k] = up[k]
    BY <1>2, <2>1
  <2> QED
    BY <1>1, <1>2, <2>1, <2>2
<1> QED
  BY <1>2, <1>5, <1>6, <1>7 DEF mro

(* A class statement: the new class is on no other mro, and its parent is  *)
(* above it or in a module that has loaded.                                *)
LEMMA DefiningKeepsViews ==
  ASSUME Inv, ViewInv, NEW m \in Module, Execute(m), Upcoming(m).op = "class"
  PROVE  ViewInv'
<1> DEFINE i == pos[m] + 1
           d == program[m][i]
           c == d.class
           up == IF d.parent = None THEN <<>> ELSE classes[d.parent].mro
           v == [module |-> m, mro |-> <<c>> \o up, own |-> d.own]
<1>1. Imports /\ ExecutedStands
  BY DEF Inv
<1>2. /\ pos[m] # Len(program[m]) /\ pos' = [pos EXCEPT ![m] = @ + 1] /\ program' = program
      /\ ParentImported(m, d) /\ classes' = With(classes, c, v) /\ d.op = "class"
  BY DEF Execute, Loaded, Upcoming, Defined
<1>3. /\ pos[m] \in Nat /\ i \in 1..Len(program[m]) /\ Len(program[m]) \in Nat
      /\ pos'[m] = i /\ \A n \in Module : n # m => pos'[n] = pos[n]
      /\ i - 1 = pos[m]
  <2>1. pos[m] \in Nat /\ pos[m] <= Len(program[m]) /\ Len(program[m]) \in Nat
    BY <1>1, Applications
  <2>2. pos'[m] = i /\ \A n \in Module : n # m => pos'[n] = pos[n]
    BY <1>1, <1>2 DEF Imports
  <2>3. \A a, b \in Nat : (a <= b /\ a # b) => a + 1 \in 1..b /\ (a + 1) - 1 = a
    OBVIOUS
  <2>4. i \in 1..Len(program[m]) /\ i - 1 = pos[m]
    BY <1>2, <2>1, <2>3
  <2> QED
    BY <2>1, <2>2, <2>4
<1> HIDE DEF d, v, i
<1>4. Updated(classes, c, v, classes')
  BY <1>2, WithUpdates
(* No other class has this name.                                           *)
<1>5. c \notin DOMAIN classes
  <2> SUFFICES ASSUME c \in DOMAIN classes PROVE FALSE
    OBVIOUS
  <2>1. PICK j \in 1..pos[classes[c].module] :
          /\ classes[c].module \in Module /\ program[classes[c].module][j].op = "class"
          /\ program[classes[c].module][j].class = c
    BY StatementOf
  <2> DEFINE n == classes[c].module
  <2>2. j \in 1..Len(program[n]) /\ pos[n] \in Nat /\ n \in Module
    BY <1>1, <2>1, Applications
  <2>3. program[m][i].op = "class" /\ program[m][i].class = program[n][j].class
    BY <1>2, <2>1 DEF d
  <2>4. n = m /\ j = i
    BY <1>1, <1>3, <2>1, <2>2, <2>3, Applications
  <2> QED
    BY <1>3, <2>1, <2>4 DEF i
<1>6. \A x \in DOMAIN classes : x \in DOMAIN classes' /\ classes'[x] = classes[x]
  BY <1>4, <1>5 DEF Updated
<1>7. c \in DOMAIN classes' /\ classes'[c] = v /\ DOMAIN classes' = DOMAIN classes \cup {c}
  BY <1>4 DEF Updated
<1>8. v.module = m /\ v.mro = <<c>> \o up /\ v.own = d.own
  BY DEF v
<1>9. ASSUME NEW n \in Module, NEW j \in 1..pos[n], program[n][j].op = "class"
      PROVE  ViewStands(program, classes', pos', n, j)
  <2> DEFINE e == program[n][j].class
             mro == classes[e].mro
  <2>1. ViewStands(program, classes, pos, n, j) /\ e \in DOMAIN classes
    <3>1. ViewStands(program, classes, pos, n, j)
      BY <1>9 DEF ViewInv, ViewsStand
    <3>2. Honoured(reg, classes, program[n][j])
      BY <1>1 DEF ExecutedStands, InForce
    <3> QED
      BY <1>9, <3>1, <3>2 DEF Honoured
  <2>2. mro[1] = e /\ \A k \in DOMAIN mro : k = 1 \/ k \in 2..Len(mro)
    <3>1. mro[1] = e /\ mro \in Seq(ToSet(mro))
      BY <2>1 DEF ViewStands, Chain
    <3> HIDE DEF mro
    <3> QED
      BY <3>1
  <2>3. \A k \in DOMAIN mro : mro[k] \in DOMAIN classes
    BY <2>1, <2>2 DEF ViewStands, Settled
  <2>4. \A k \in DOMAIN mro : mro[k] \in DOMAIN classes' /\ classes'[mro[k]] = classes[mro[k]]
    BY <1>6, <2>3
  <2>5. program[m][pos[m] + 1].op # "endpoint"
    BY <1>2 DEF d, i
  <2> QED
    BY <1>2, <1>9, <2>4, <2>5, OtherViewsStand
(* The ancestors of the new class.                                         *)
<1>10. /\ up \in Seq(ToSet(up))
       /\ up # <<>> => up[1] \in DOMAIN classes /\ classes[up[1]].mro = up
       /\ \A k \in 1..Len(up) : Settled(program, classes, pos, m, i, up[k])
  <2>1. CASE d.parent = None
    BY <2>1
  <2>2. CASE d.parent # None
    <3> DEFINE q == d.parent
               n == classes[q].module
    <3>1. q \in DOMAIN classes /\ (n = m \/ pos[n] = Len(program[n])) /\ up = classes[q].mro
      BY <1>2, <2>2 DEF ParentImported, Loaded
    <3> HIDE DEF up
    <3>2. PICK j \in 1..pos[n] :
            /\ n \in Module /\ program[n][j].op = "class" /\ program[n][j].class = q
            /\ ViewStands(program, classes, pos, n, j)
      BY <3>1, StatementOf
    <3>3. up \in Seq(ToSet(up)) /\ up[1] = q
      BY <3>1, <3>2 DEF ViewStands, Chain
    <3>4. ASSUME NEW k \in 1..Len(up)
          PROVE  Settled(program, classes, pos, m, i, up[k])
      <4>1. CASE k = 1
        <5>1. up[k] = q /\ q \in DOMAIN classes /\ n \in Module
          BY <3>1, <3>2, <3>3, <4>1
        <5>2. n = m => j \in 1..(i - 1)
          BY <1>3
        <5> QED
          BY <3>1, <3>2, <5>1, <5>2 DEF Settled
      <4>2. CASE k # 1
        <5>1. k \in 2..Len(up)
          BY <4>2
        <5> DEFINE x == up[k]
        <5>2. Settled(program, classes, pos, n, j, x)
          BY <3>1, <3>2, <5>1 DEF ViewStands
        <5> SUFFICES Settled(program, classes, pos, m, i, x)
          OBVIOUS
        <5> HIDE DEF x
        <5> DEFINE nx == classes[x].module
        <5>3. CASE pos[nx] = Len(program[nx])
          <6>1. x \in DOMAIN classes /\ nx \in Module
            BY <5>2 DEF Settled
          <6> QED
            BY <5>3, <6>1 DEF Settled
        <5>4. CASE pos[nx] # Len(program[nx])
          <6>1. PICK l \in 1..(j - 1) : program[n][l].op = "class" /\ program[n][l].class = x
            BY <5>2, <5>4 DEF Settled
          <6>2. x \in DOMAIN classes /\ nx \in Module /\ nx = n /\ n = m
            BY <3>1, <5>2, <5>4 DEF Settled
          <6>3. j \in 1..pos[m]
            BY <6>2
          <6>4. l \in 1..(i - 1)
            BY <1>3, <6>1, <6>3
          <6> QED
            BY <6>1, <6>2, <6>4 DEF Settled
        <5> QED
          BY <5>3, <5>4
      <4> QED
        BY <4>1, <4>2
    <3> QED
      BY <3>1, <3>3, <3>4
  <2> QED
    BY <2>1, <2>2
<1> HIDE DEF up
<1>11. /\ v.mro \in Seq(ToSet(v.mro)) /\ Len(v.mro) = Len(up) + 1 /\ Len(up) \in Nat
       /\ v.mro[1] = c /\ Tail(v.mro) = up
       /\ \A k \in 2..Len(v.mro) : v.mro[k] = up[k - 1] /\ k - 1 \in 1..Len(up)
  BY <1>8, <1>10, Preceded
<1>12. Chain(classes', c)
  <2>1. ASSUME Len(v.mro) > 1 PROVE classes'[v.mro[2]].mro = up
    <3>1. v.mro[2] = up[1] /\ up # <<>>
      <4>1. 2 \in 2..Len(v.mro)
        BY <1>11, <2>1
      <4>2. v.mro[2] = up[2 - 1] /\ 2 - 1 \in 1..Len(up)
        BY <1>11, <4>1
      <4> QED
        BY <1>10, <4>2
    <3> QED
      BY <1>6, <1>10, <3>1
  <2>2. Len(v.mro) >= 1
    BY <1>11
  <2> QED
    BY <1>7, <1>11, <2>1, <2>2 DEF Chain
<1>13. ASSUME NEW k \in 2..Len(v.mro)
       PROVE  Settled(program, classes', pos', m, i, v.mro[k])
  <2> DEFINE x == up[k - 1]
  <2>1. v.mro[k] = x /\ Settled(program, classes, pos, m, i, x)
    BY <1>10, <1>11
  <2> HIDE DEF x
  <2>2. x \in DOMAIN classes' /\ classes'[x] = classes[x]
    BY <1>6, <2>1 DEF Settled
  <2> QED
    BY <1>2, <1>3, <2>1, <2>2 DEF Settled
<1>14. KeysIn(program, m, i, c) = {}
  <2> SUFFICES ASSUME NEW k \in 1..i, program[m][k].op = "endpoint", program[m][k].class = c
               PROVE  FALSE
    BY DEF KeysIn
  <2>1. k \in 1..Len(program[m]) /\ i \in Nat
    BY <1>3
  <2>2. PICK j \in 1..k : program[m][j].op = "class" /\ program[m][j].class = c
    BY <1>1, <2>1, Decorators
  <2>3. j \in 1..Len(program[m])
    BY <1>3, <2>1, <2>2
  <2>4. j = i
    BY <1>1, <1>2, <1>3, <2>2, <2>3, Applications DEF d
  <2>5. k = i
    BY <2>1, <2>2, <2>4
  <2> QED
    BY <1>2, <2>5 DEF d
<1>15. ViewStands(program, classes', pos', m, i)
  <2>1. Collected(v.own, d.own, {}, KeysIn(program, m, Len(program[m]), c),
                  Inherited(classes', c))
    BY <1>8 DEF Collected
  <2>2. program[m][i] = d /\ classes'[c] = v /\ pos'[m] = i
    BY <1>3, <1>7 DEF d
  <2> HIDE DEF c
  <2>3. Collected(classes'[c].own, d.own, KeysIn(program, m, pos'[m], c),
                  KeysIn(program, m, Len(program[m]), c), Inherited(classes', c))
    BY <1>14, <2>1, <2>2
  <2> QED
    BY <1>12, <1>13, <2>2, <2>3 DEF ViewStands, c
<1>16. ASSUME NEW n \in Module, NEW j \in 1..pos'[n], program[n][j].op = "class"
       PROVE  ViewStands(program, classes', pos', n, j)
  <2>1. CASE n = m /\ j = i
    BY <1>15, <2>1
  <2>2. CASE ~(n = m /\ j = i)
    <3>1. j \in 1..pos[n]
      BY <1>3, <2>2
    <3> QED
      BY <1>9, <1>16, <3>1
  <2> QED
    BY <2>1, <2>2
<1>17. ASSUME NEW x \in DOMAIN classes'
       PROVE  /\ classes'[x].module \in Module
              /\ \E j \in 1..pos'[classes'[x].module] :
                   /\ program[classes'[x].module][j].op = "class"
                   /\ program[classes'[x].module][j].class = x
  <2>1. CASE x = c
    <3>1. classes'[x].module = m /\ i \in 1..pos'[m]
      BY <1>3, <1>7, <1>8, <2>1
    <3> QED
      BY <1>2, <2>1, <3>1 DEF d
  <2>2. CASE x # c
    <3>1. x \in DOMAIN classes /\ classes'[x] = classes[x]
      BY <1>6, <1>7, <2>2
    <3> DEFINE n == classes[x].module
    <3>2. n \in Module /\ \E j \in 1..pos[n] : program[n][j].op = "class" /\ program[n][j].class = x
      BY <3>1 DEF ViewInv, ViewsStand
    <3>3. 1..pos[n] \subseteq 1..pos'[n]
      BY <1>3, <3>2
    <3> QED
      BY <3>1, <3>2, <3>3
  <2> QED
    BY <2>1, <2>2
<1>18. ViewsStand(program, classes', pos')
  BY <1>16, <1>17 DEF ViewsStand
<1> QED
  BY <1>2, <1>18 DEF ViewInv

(* A decorator changes the class it is written on, which nothing inherits  *)
(* from yet.                                                               *)
LEMMA KeyIsFound ==
  ASSUME NEW cs, NEW c, Chain(cs, c), Inherited(cs, c) = None
  PROVE  Attribute(cs, c, "permission_key") = AttributeOf(cs[c].own, "permission_key")
<1>1. CASE "permission_key" \in DOMAIN cs[c].own
  BY <1>1, OwnIsFirst DEF AttributeOf
<1>2. CASE "permission_key" \notin DOMAIN cs[c].own
  BY <1>2, OthersAreInherited DEF AttributeOf, Inherited
<1> QED
  BY <1>1, <1>2

LEMMA DecoratingKeepsViews ==
  ASSUME Inv, ViewInv, NEW m \in Module, Execute(m), Upcoming(m).op = "endpoint"
  PROVE  ViewInv'
<1> DEFINE i == pos[m] + 1
           d == program[m][i]
           c == d.class
<1>1. Imports /\ ExecutedStands
  BY DEF Inv
<1>2. /\ pos[m] # Len(program[m]) /\ pos' = [pos EXCEPT ![m] = @ + 1] /\ program' = program
      /\ classes' = Decorated(classes, d) /\ d.op = "endpoint"
  BY DEF Execute, Loaded, Upcoming
<1>3. /\ pos[m] \in Nat /\ i \in 1..Len(program[m]) /\ Len(program[m]) \in Nat
      /\ pos'[m] = i /\ \A n \in Module : n # m => pos'[n] = pos[n]
  <2>1. pos[m] \in Nat /\ pos[m] <= Len(program[m]) /\ Len(program[m]) \in Nat
    BY <1>1, Applications
  <2>2. pos'[m] = i /\ \A n \in Module : n # m => pos'[n] = pos[n]
    BY <1>1, <1>2 DEF Imports
  <2>3. \A a, b \in Nat : (a <= b /\ a # b) => a + 1 \in 1..b
    OBVIOUS
  <2>4. i \in 1..Len(program[m])
    BY <1>2, <2>1, <2>3
  <2> QED
    BY <2>1, <2>2, <2>4
<1> HIDE DEF d
<1>4. PICK j \in 1..i : /\ program[m][j].op = "class" /\ program[m][j].class = c
                        /\ \A k \in (j + 1)..i : program[m][k].op # "class"
  BY <1>1, <1>2, <1>3, Decorators DEF d
<1>5. j \in 1..pos[m] /\ \A k \in (j + 1)..pos[m] : program[m][k].op # "class"
  <2>1. j # i
    BY <1>2, <1>4 DEF d
  <2> QED
    BY <1>3, <1>4, <2>1
<1>6. c \in DOMAIN classes /\ classes[c].module = m
  <2>1. InForce(reg, classes, m, program[m][j])
    BY <1>1, <1>5 DEF ExecutedStands
  <2> QED
    BY <1>4, <2>1 DEF InForce, Honoured
<1>7. /\ OnlyDecorates(classes, classes', c)
      /\ DecoratedWith(classes[c].own, classes'[c].own, d.key,
                       Attribute(classes, c, "permission_key"))
  BY <1>1, <1>2, <1>6, DecoratingWrites DEF Imports
<1>8. /\ DOMAIN classes' = DOMAIN classes
      /\ \A x \in DOMAIN classes :
           /\ classes'[x].module = classes[x].module /\ classes'[x].mro = classes[x].mro
           /\ x # c => classes'[x] = classes[x]
  BY <1>7 DEF OnlyDecorates
<1>9. ASSUME NEW n \in Module, NEW k \in 1..pos[n], program[n][k].op = "class"
      PROVE  /\ ViewStands(program, classes, pos, n, k)
             /\ program[n][k].class \in DOMAIN classes
             /\ \A l \in 2..Len(classes[program[n][k].class].mro) :
                  LET x == classes[program[n][k].class].mro[l]
                  IN x \in DOMAIN classes /\ x # c
  <2>1. ViewStands(program, classes, pos, n, k)
    BY <1>9 DEF ViewInv, ViewsStand
  <2>2. Honoured(reg, classes, program[n][k])
    BY <1>1 DEF ExecutedStands, InForce
  <2>3. \A l \in 2..Len(classes[program[n][k].class].mro) :
          classes[program[n][k].class].mro[l] \in DOMAIN classes
    BY <2>1 DEF ViewStands, Settled
  <2>4. \A l \in 2..Len(classes[program[n][k].class].mro) :
          classes[program[n][k].class].mro[l] # c
    BY <1>2, <1>4, <1>5, <1>9, NotYetAParent
  <2> QED
    BY <1>9, <2>1, <2>2, <2>3, <2>4 DEF Honoured
(* Other classes.                                                          *)
<1>10. ASSUME NEW n \in Module, NEW k \in 1..pos[n], program[n][k].op = "class",
              program[n][k].class # c
       PROVE  ViewStands(program, classes', pos', n, k)
  <2> DEFINE e == program[n][k].class
             mro == classes[e].mro
  <2>1. mro[1] = e /\ \A l \in DOMAIN mro : l = 1 \/ l \in 2..Len(mro)
    <3>1. mro[1] = e /\ mro \in Seq(ToSet(mro))
      BY <1>9, <1>10 DEF ViewStands, Chain
    <3> HIDE DEF mro
    <3> QED
      BY <3>1
  <2>2. \A l \in DOMAIN mro : mro[l] \in DOMAIN classes /\ mro[l] # c
    BY <1>9, <1>10, <2>1
  <2>3. \A l \in DOMAIN mro : mro[l] \in DOMAIN classes' /\ classes'[mro[l]] = classes[mro[l]]
    BY <1>8, <2>2
  <2>4. program[m][pos[m] + 1].class # e
    BY <1>10 DEF d
  <2> QED
    BY <1>2, <1>10, <2>3, <2>4, OtherViewsStand
(* The class itself.                                                       *)
<1>11. ViewStands(program, classes', pos', m, j)
  <2> DEFINE own == classes[c].own
             new == classes'[c].own
             mro == classes[c].mro
             heard == KeysIn(program, m, pos[m], c)
             all == KeysIn(program, m, Len(program[m]), c)
             body == program[m][j].own
  <2>1. /\ Chain(classes, c)
        /\ \A k \in 2..Len(mro) : Settled(program, classes, pos, m, j, mro[k])
        /\ Collected(own, body, heard, all, Inherited(classes, c))
    BY <1>4, <1>5, <1>9 DEF ViewStands
  <2>2. \A k \in 2..Len(mro) : /\ mro[k] \in DOMAIN classes
                               /\ classes'[mro[k]] = classes[mro[k]]
    BY <1>4, <1>5, <1>8, <1>9
  <2>3. classes'[c].mro = mro
    BY <1>6, <1>8
  <2>4. Inherited(classes', c) = Inherited(classes, c) /\ Chain(classes', c)
    BY <2>1, <2>2, <2>3, InheritedElsewhere
  <2>5. ASSUME NEW k \in 2..Len(mro)
        PROVE  Settled(program, classes', pos', m, j, mro[k])
    <3> DEFINE x == mro[k]
    <3>1. Settled(program, classes, pos, m, j, x) /\ classes'[x] = classes[x]
      BY <2>1, <2>2
    <3> HIDE DEF x
    <3>2. Settled(program, classes', pos', m, j, x)
      BY <1>2, <1>3, <1>8, <3>1 DEF Settled
    <3> QED
      BY <3>2 DEF x
  <2>6. KeysIn(program, m, pos'[m], c) = heard \cup {d.key}
    <3>1. i = pos[m] + 1 /\ pos[m] \in Nat /\ pos'[m] = i
      BY <1>3
    <3>2. program[m][i].op = "endpoint" /\ program[m][i].class = c /\ program[m][i].key = d.key
      BY <1>2 DEF d
    <3> HIDE DEF c, i
    <3>3. KeysIn(program, m, i, c) = KeysIn(program, m, pos[m], c) \cup {program[m][i].key}
      <4>1. 1..i = (1..pos[m]) \cup {i}
        BY <3>1
      <4>2. {k \in 1..i : program[m][k].op = "endpoint" /\ program[m][k].class = c}
              = {k \in 1..pos[m] : program[m][k].op = "endpoint" /\ program[m][k].class = c}
                \cup {i}
        BY <3>2, <4>1
      <4> QED
        BY <4>2 DEF KeysIn
    <3> QED
      BY <3>1, <3>2, <3>3
  <2>7. d.key \in all /\ heard \subseteq all /\ None \notin all
    <3>1. 1..pos[m] \subseteq 1..Len(program[m])
      BY <1>3
    <3>2. \A k \in 1..Len(program[m]) :
            program[m][k].op = "endpoint" => program[m][k].key # None
      BY <1>1, Decorators
    <3> QED
      BY <1>2, <1>3, <3>1, <3>2 DEF KeysIn, d
  <2>8. "permission_endpoints" \notin DOMAIN body
    <3>1. j \in 1..Len(program[m])
      BY <1>3, <1>4
    <3> QED
      BY <1>1, <1>4, <3>1, Decorators
  <2>9. Collected(new, body, heard \cup {d.key}, all, Inherited(classes, c))
    <3> HIDE DEF heard, all, body, c
    <3> QED
      BY <1>7, <2>1, <2>7, <2>8, KeyIsFound, DecoratingCollects
  <2>10. Collected(new, body, KeysIn(program, m, pos'[m], c), all, Inherited(classes', c))
    BY <2>4, <2>6, <2>9
  <2>11. \A k \in 2..Len(classes'[c].mro) :
           Settled(program, classes', pos', m, j, classes'[c].mro[k])
    BY <2>3, <2>5
  <2>12. program[m][j].class = c
    BY <1>4
  <2> HIDE DEF c
  <2> QED
    BY <2>4, <2>10, <2>11, <2>12 DEF ViewStands
<1>12. ASSUME NEW n \in Module, NEW k \in 1..pos'[n], program[n][k].op = "class"
       PROVE  ViewStands(program, classes', pos', n, k)
  <2>1. k \in 1..pos[n]
    <3>1. CASE n = m
      <4>1. k # i
        BY <1>2, <1>12, <3>1 DEF d
      <4> QED
        BY <1>3, <3>1, <4>1
    <3>2. CASE n # m
      BY <1>3, <3>2
    <3> QED
      BY <3>1, <3>2
  <2>2. CASE program[n][k].class = c
    <3>1. pos[n] \in Nat /\ pos[n] <= Len(program[n])
      BY <1>1, Applications
    <3>2. k \in 1..Len(program[n]) /\ j \in 1..Len(program[m])
      BY <1>3, <1>4, <2>1, <3>1, Applications
    <3>3. n = m /\ k = j
      BY <1>1, <1>4, <1>12, <2>2, <3>2, Applications
    <3> QED
      BY <1>11, <3>3
  <2>3. CASE program[n][k].class # c
    BY <1>10, <1>12, <2>1, <2>3
  <2> QED
    BY <2>2, <2>3
<1>13. ASSUME NEW x \in DOMAIN classes'
       PROVE  /\ classes'[x].module \in Module
              /\ \E k \in 1..pos'[classes'[x].module] :
                   /\ program[classes'[x].module][k].op = "class"
                   /\ program[classes'[x].module][k].class = x
  <2> DEFINE n == classes[x].module
  <2>1. x \in DOMAIN classes /\ classes'[x].module = n
    BY <1>8
  <2>2. n \in Module /\ \E k \in 1..pos[n] : program[n][k].op = "class" /\ program[n][k].class = x
    BY <2>1 DEF ViewInv, ViewsStand
  <2>3. 1..pos[n] \subseteq 1..pos'[n]
    BY <1>3, <2>2
  <2> QED
    BY <2>1, <2>2, <2>3
<1>14. ViewsStand(program, classes', pos')
  BY <1>12, <1>13 DEF ViewsStand
<1> QED
  BY <1>2, <1>14 DEF ViewInv

(* Other declarations are not about views.                                 *)
LEMMA RegisteringKeepsViews ==
  ASSUME Inv, ViewInv, NEW m \in Module, Execute(m),
         Upcoming(m).op \notin {"class", "endpoint"}
  PROVE  ViewInv'
<1> DEFINE d == program[m][pos[m] + 1]
<1>1. Imports
  BY DEF Inv
<1>2. /\ pos[m] # Len(program[m]) /\ pos' = [pos EXCEPT ![m] = @ + 1] /\ program' = program
      /\ classes' = classes /\ d.op \notin {"class", "endpoint"}
  BY DEF Execute, Loaded, Upcoming
<1>3. /\ pos[m] \in Nat /\ pos'[m] = pos[m] + 1
      /\ \A n \in Module : n # m => pos'[n] = pos[n]
  BY <1>1, <1>2, Applications DEF Imports
<1>4. ASSUME NEW n \in Module, NEW i \in 1..pos'[n], program[n][i].op = "class"
      PROVE  ViewStands(program, classes', pos', n, i)
  <2>1. i \in 1..pos[n]
    <3>1. CASE n = m
      <4>1. i # pos[m] + 1
        BY <1>2, <1>4, <3>1
      <4> QED
        BY <1>3, <3>1, <4>1
    <3>2. CASE n # m
      BY <1>3, <3>2
    <3> QED
      BY <3>1, <3>2
  <2> DEFINE mro == classes[program[n][i].class].mro
  <2>2. ViewStands(program, classes, pos, n, i)
    BY <1>4, <2>1 DEF ViewInv, ViewsStand
  <2>3. Honoured(reg, classes, program[n][i])
    BY <2>1 DEF Inv, ExecutedStands, InForce
  <2>4. mro[1] = program[n][i].class /\ \A k \in DOMAIN mro : k = 1 \/ k \in 2..Len(mro)
    <3>1. mro[1] = program[n][i].class /\ mro \in Seq(ToSet(mro))
      BY <2>2 DEF ViewStands, Chain
    <3> HIDE DEF mro
    <3> QED
      BY <3>1
  <2>5. \A k \in DOMAIN mro : mro[k] \in DOMAIN classes' /\ classes'[mro[k]] = classes[mro[k]]
    BY <1>2, <1>4, <2>2, <2>3, <2>4 DEF ViewStands, Settled, Honoured
  <2> QED
    BY <1>2, <1>4, <2>1, <2>5, OtherViewsStand
<1>5. ASSUME NEW x \in DOMAIN classes'
      PROVE  /\ classes'[x].module \in Module
             /\ \E k \in 1..pos'[classes'[x].module] :
                  /\ program[classes'[x].module][k].op = "class"
                  /\ program[classes'[x].module][k].class = x
  <2> DEFINE n == classes[x].module
  <2>1. n \in Module /\ \E k \in 1..pos[n] : program[n][k].op = "class" /\ program[n][k].class = x
    BY <1>2 DEF ViewInv, ViewsStand
  <2>2. 1..pos[n] \subseteq 1..pos'[n]
    BY <1>3, <2>1
  <2> QED
    BY <1>2, <2>1, <2>2
<1>6. ViewsStand(program, classes', pos')
  BY <1>4, <1>5 DEF ViewsStand
<1> QED
  BY <1>2, <1>6 DEF ViewInv

(* What the decorators of a class leave on it, at every moment of any      *)
(* imports that fail and are tried again.                                  *)
THEOREM ViewsStandAlways == Spec => []ViewInv
<1>1. Init => ViewInv
  BY DEF Init, ViewInv, ViewsStand
<1>2. Inv /\ ViewInv /\ [Next]_vars => ViewInv'
  <2> SUFFICES ASSUME Inv, ViewInv, [Next]_vars PROVE ViewInv'
    OBVIOUS
  <2>1. ASSUME NEW m \in Module, Execute(m) PROVE ViewInv'
    BY <2>1, DefiningKeepsViews, DecoratingKeepsViews, RegisteringKeepsViews
  <2>2. ASSUME NEW m \in Module, Clash(m) \/ Fail(m) PROVE ViewInv'
    BY <2>2, ForgettingLeavesViews DEF Clash, Fail, Loaded
  <2>3. CASE UNCHANGED vars
    BY <2>3 DEF vars, ViewInv
  <2> QED
    BY <2>1, <2>2, <2>3 DEF Next
<1> QED
  BY <1>1, <1>2, Invariance, PTL DEF Spec

-----------------------------------------------------------------------------
(* What a view whose module has loaded asks.                               *)
LEMMA AllDecoratorsHeard ==
  ASSUME Inv, NEW m \in Module, NEW j \in 1..Len(program[m]),
         program[m][j].op = "class"
  PROVE  LET c == program[m][j].class
         IN /\ Decorating(c) = KeysIn(program, m, Len(program[m]), c)
            /\ \A a : InBody(c, a) = AttributeOf(program[m][j].own, a)
<1> DEFINE c == program[m][j].class
<1>1. Imports
  BY DEF Inv
<1>2. \A n \in Module : ToSet(program[n]) = {program[n][k] : k \in 1..Len(program[n])}
  BY <1>1, Applications DEF ToSet
<1>3. \A d : d \in Declarations <=> \E n \in Module : \E k \in 1..Len(program[n]) : d = program[n][k]
  <2>1. \A d : d \in Declarations <=> \E n \in Module : d \in ToSet(program[n])
    BY DEF Declarations
  <2>2. \A n \in Module : \A d :
          d \in ToSet(program[n]) <=> \E k \in 1..Len(program[n]) : d = program[n][k]
    BY <1>2
  <2>3. ASSUME NEW d, d \in Declarations
        PROVE  \E n \in Module : \E k \in 1..Len(program[n]) : d = program[n][k]
    <3>1. PICK n \in Module : d \in ToSet(program[n])
      BY <2>1, <2>3
    <3> QED
      BY <2>2, <3>1
  <2>4. ASSUME NEW n \in Module, NEW k \in 1..Len(program[n])
        PROVE  program[n][k] \in Declarations
    BY <2>1, <2>2
  <2> QED
    BY <2>3, <2>4
<1>4. Decorating(c) = KeysIn(program, m, Len(program[m]), c)
  <2>1. ASSUME NEW n \in Module, NEW k \in 1..Len(program[n]),
               program[n][k].op = "endpoint", program[n][k].class = c
        PROVE  n = m
    <3>1. PICK l \in 1..k : program[n][l].op = "class" /\ program[n][l].class = c
      BY <1>1, <2>1, Decorators
    <3>2. l \in 1..Len(program[n])
      BY <1>1, Applications
    <3> QED
      BY <1>1, <3>1, <3>2, Applications
  <2>2. \A key : key \in Decorating(c) <=>
                 \E n \in Module : \E k \in 1..Len(program[n]) :
                    /\ program[n][k].op = "endpoint" /\ program[n][k].class = c
                    /\ key = program[n][k].key
    BY <1>3 DEF Decorating, Of
  <2>3. \A key : key \in KeysIn(program, m, Len(program[m]), c) <=>
                 \E k \in 1..Len(program[m]) :
                    /\ program[m][k].op = "endpoint" /\ program[m][k].class = c
                    /\ key = program[m][k].key
    BY DEF KeysIn
  <2>4. \A key : key \in Decorating(c) <=> key \in KeysIn(program, m, Len(program[m]), c)
    BY <2>1, <2>2, <2>3
  <2> QED
    BY <2>4
<1>5. Statement(c) = program[m][j]
  <2>1. program[m][j] \in Of("class")
    BY <1>3 DEF Of
  <2>2. \A d \in Of("class") : d.class = c => d = program[m][j]
    <3> SUFFICES ASSUME NEW d \in Of("class"), d.class = c PROVE d = program[m][j]
      OBVIOUS
    <3>1. PICK n \in Module : \E k \in 1..Len(program[n]) : d = program[n][k]
      BY <1>3 DEF Of
    <3>2. PICK k \in 1..Len(program[n]) : d = program[n][k]
      BY <3>1
    <3>3. program[n][k].op = "class" /\ program[n][k].class = c
      BY <3>2 DEF Of
    <3> QED
      BY <1>1, <3>2, <3>3, Applications
  <2> QED
    BY <2>1, <2>2 DEF Statement
<1>6. \A a : InBody(c, a) = AttributeOf(program[m][j].own, a)
  BY <1>5 DEF InBody, AttributeOf
<1> QED
  BY <1>4, <1>6

LEMMA ListedOnce ==
  ASSUME NEW s, NEW S, Listed(s, S), S # {}
  PROVE  /\ Cardinality(S) = 1 <=> Len(s) = 1
         /\ Len(s) = 1 => S = {s[1]}
<1>1. s \in Seq(S) /\ S = {s[i] : i \in 1..Len(s)} /\ Len(s) \in Nat
      /\ \A i, j \in 1..Len(s) : s[i] = s[j] => i = j
  BY DEF Listed
<1>2. PICK x : x \in S
  OBVIOUS
<1>3. Len(s) >= 1
  BY <1>1, <1>2
<1>4. CASE Len(s) = 1
  <2>1. S = {s[1]}
    BY <1>1, <1>4
  <2> QED
    BY <1>4, <2>1, FS_Singleton
<1>5. CASE Len(s) # 1
  <2>1. 1 \in 1..Len(s) /\ 2 \in 1..Len(s)
    <3>1. \A n \in Nat : (n >= 1 /\ n # 1) => 1 \in 1..n /\ 2 \in 1..n
      OBVIOUS
    <3> QED
      BY <1>1, <1>3, <1>5, <3>1, Zenon
  <2>2. s[1] \in S /\ s[2] \in S /\ s[1] # s[2]
    BY <1>1, <2>1
  <2>3. IsFiniteSet(S)
    <3>1. IsFiniteSet(1..Len(s))
      BY <1>1, FS_Interval
    <3>2. s \in Surjection(1..Len(s), S)
      BY <1>1 DEF Surjection
    <3> QED
      BY <3>1, <3>2, FS_Surjection
  <2>4. Cardinality(S) # 1
    BY <2>2, <2>3, FS_Singleton
  <2> QED
    BY <1>5, <2>4
<1> QED
  BY <1>4, <1>5

LEMMA KeyByDefault ==
  ASSUME NEW cs, NEW c, NEW action, NEW method,
         LET named == Attribute(cs, c, "permission_keys")
         IN named = None \/ DOMAIN named \cap {action, method} = {}
  PROVE  KeyFor(cs, c, action, method)
           = IF Attribute(cs, c, "permission_key") # None
             THEN Attribute(cs, c, "permission_key")
             ELSE Attribute(cs, c, "permission_endpoint")
<1> DEFINE named == Attribute(cs, c, "permission_keys")
           byName == {n \in {action, method} : named # None /\ n \in DOMAIN named}
<1> HIDE DEF named
<1>1. action \notin byName /\ method \notin byName
  BY DEF named
<1> QED
  BY <1>1 DEF KeyFor, named

(* The attributes of a class whose module has loaded.                      *)
LEMMA CompleteViews ==
  ASSUME Inv, ViewInv, NEW c \in DOMAIN classes, Complete(c),
         Inherited(classes, c) = None, Written(c) \notin Named(c)
  PROVE  LET key == Attribute(classes, c, "permission_key")
             endpoint == Attribute(classes, c, "permission_endpoint")
         IN /\ key = IF Written(c) # None THEN Written(c) ELSE endpoint
            /\ Cardinality(Named(c)) = 1 =>
                 endpoint \in Named(c) /\ c \in reg.endpoints[endpoint]
            /\ Cardinality(Named(c)) # 1 => endpoint = None
<1> DEFINE m == classes[c].module
           own == classes[c].own
           collected == own["permission_endpoints"]
<1>1. PICK j \in 1..pos[m] :
        /\ m \in Module /\ program[m][j].op = "class" /\ program[m][j].class = c
        /\ ViewStands(program, classes, pos, m, j)
  BY StatementOf
<1>2. Imports /\ ExecutedStands
  BY DEF Inv
<1>3. pos[m] = Len(program[m]) /\ Decorating(c) # {} /\ j \in 1..Len(program[m])
  BY <1>1 DEF Complete, Loaded
<1> DEFINE body == program[m][j].own
           hand == {AttributeOf(body, "permission_endpoint")} \ {None}
           heard == KeysIn(program, m, Len(program[m]), c)
<1>4. /\ Decorating(c) = heard
      /\ \A a : InBody(c, a) = AttributeOf(body, a)
  BY <1>1, <1>3, AllDecoratorsHeard
<1>5. /\ Named(c) = heard \cup hand
      /\ Written(c) = AttributeOf(body, "permission_key")
  BY <1>4 DEF Named, Written
<1>6. Chain(classes, c) /\ Collected(own, body, heard, heard, Inherited(classes, c))
  BY <1>1, <1>3 DEF ViewStands
<1>7. /\ "permission_endpoint" \in DOMAIN own
      /\ Listed(collected, heard \cup hand)
      /\ own["permission_endpoint"] = IF Len(collected) = 1 THEN collected[1] ELSE None
      /\ AttributeOf(own, "permission_key")
           = IF AttributeOf(body, "permission_key") # None
             THEN AttributeOf(body, "permission_key") ELSE own["permission_endpoint"]
  <2>1. heard # {}
    BY <1>3, <1>4
  <2>2. AttributeOf(body, "permission_key") \notin heard \cup hand
    BY <1>5
  <2> HIDE DEF own, heard, hand, body
  <2> QED
    BY <1>6, <2>1, <2>2 DEF Collected, hand
<1>8. /\ Attribute(classes, c, "permission_key") = AttributeOf(own, "permission_key")
      /\ Attribute(classes, c, "permission_endpoint") = own["permission_endpoint"]
  BY <1>6, <1>7, KeyIsFound, OwnIsFirst
<1> DEFINE S == Named(c)
<1>9. /\ Listed(collected, S) /\ S # {} /\ Decorating(c) \subseteq S
      /\ Cardinality(S) = 1 <=> Len(collected) = 1
      /\ Len(collected) = 1 => S = {collected[1]}
  <2>1. Listed(collected, S) /\ S # {} /\ Decorating(c) \subseteq S
    BY <1>3, <1>4, <1>5, <1>7
  <2> HIDE DEF S, collected
  <2> QED
    BY <2>1, ListedOnce
<1>10. ASSUME Cardinality(S) = 1
       PROVE  own["permission_endpoint"] \in S /\ c \in reg.endpoints[own["permission_endpoint"]]
  <2>1. S = {collected[1]} /\ own["permission_endpoint"] = collected[1]
    BY <1>7, <1>9, <1>10
  <2>2. own["permission_endpoint"] \in Decorating(c)
    BY <1>3, <1>9, <2>1
  <2>3. PICK k \in 1..Len(program[m]) :
          /\ program[m][k].op = "endpoint" /\ program[m][k].class = c
          /\ program[m][k].key = own["permission_endpoint"]
    BY <1>4, <2>2 DEF KeysIn
  <2>4. Honoured(reg, classes, program[m][k])
    BY <1>1, <1>2, <1>3 DEF ExecutedStands, InForce
  <2>5. c \in reg.endpoints[own["permission_endpoint"]]
    BY <2>3, <2>4 DEF Honoured
  <2> QED
    BY <2>1, <2>5
<1>11. Cardinality(S) # 1 => own["permission_endpoint"] = None
  BY <1>7, <1>9
<1> HIDE DEF own
<1> QED
  BY <1>5, <1>7, <1>8, <1>10, <1>11

(* A class that inherits no key asks its own endpoint if it enforces one,  *)
(* and nothing by default if it enforces several, whatever the order of    *)
(* its decorators and however often its module was imported                *)
(* (declare.py:71-98, drf.py:71-100).                                      *)
THEOREM AskTheirOwn == Spec => []ViewsAskTheirOwn
<1>1. Inv /\ ViewInv => ViewsAskTheirOwn
  <2> SUFFICES ASSUME Inv, ViewInv, NEW c \in DOMAIN classes,
                      Complete(c), Inherited(classes, c) = None, Written(c) \notin Named(c)
               PROVE  AsksOwn(c)
    BY DEF ViewsAskTheirOwn
  <2> DEFINE key == Attribute(classes, c, "permission_key")
             endpoint == Attribute(classes, c, "permission_endpoint")
  <2>1. /\ key = IF Written(c) # None THEN Written(c) ELSE endpoint
        /\ Cardinality(Named(c)) = 1 =>
             endpoint \in Named(c) /\ c \in reg.endpoints[endpoint]
        /\ Cardinality(Named(c)) # 1 => endpoint = None
    BY CompleteViews
  <2>2. ASSUME NEW action \in {"list", "POST"}, NEW method \in {"list", "POST"},
               LET named == Attribute(classes, c, "permission_keys")
               IN named = None \/ DOMAIN named \cap {action, method} = {}
        PROVE  LET asked == KeyFor(classes, c, action, method)
               IN /\ Written(c) # None => asked = Written(c)
                  /\ Written(c) = None =>
                       IF Cardinality(Named(c)) = 1
                       THEN asked \in Named(c) /\ c \in reg.endpoints[asked]
                       ELSE asked = None
                  /\ Attribute(classes, c, "read_key") = None => QuerysetKey(classes, c) = asked
                  /\ Attribute(classes, c, "object_key") = None =>
                       ObjectKeyFor(classes, c, action, method) = asked
    <3> DEFINE asked == KeyFor(classes, c, action, method)
    <3>1. asked = IF key # None THEN key ELSE endpoint
      BY <2>2, KeyByDefault
    <3>2. asked = key
      BY <2>1, <3>1
    <3>3. /\ Attribute(classes, c, "read_key") = None => QuerysetKey(classes, c) = key
          /\ Attribute(classes, c, "object_key") = None =>
               ObjectKeyFor(classes, c, action, method) = asked
      BY DEF QuerysetKey, ObjectKeyFor
    <3> HIDE DEF asked, key, endpoint
    <3>4. /\ Written(c) # None => asked = Written(c)
          /\ Written(c) = None => asked = endpoint
      BY <2>1, <3>2
    <3>5. Written(c) = None => IF Cardinality(Named(c)) = 1
                               THEN asked \in Named(c) /\ c \in reg.endpoints[asked]
                               ELSE asked = None
      BY <2>1, <3>4
    <3> QED
      BY <3>2, <3>3, <3>4, <3>5 DEF asked
  <2> QED
    BY <2>2 DEF AsksOwn
<1> QED
  BY <1>1, Invariance, ViewsStandAlways, PTL
=============================================================================
