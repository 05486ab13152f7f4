------------------------------ MODULE Registry ------------------------------
(***************************************************************************)
(* permkit/registry.py: what one release of the code declares, and the     *)
(* keys assembled from it.  A key is a pair <<object, verb>>; a release    *)
(* `code` is the contents of the registry once everything is imported:     *)
(*   code.explicit  [key -> spec]          register_key                    *)
(*   code.objects   [object -> [model, references]]   permission_object    *)
(*   code.endpoints [key -> targets]       @api_permission                 *)
(*   code.filters   [filter -> [object, q]]           @object_condition    *)
(*   code.groups    [<<object, group>> -> fields]     permission_fields    *)
(*   code.points    {<<object, verb, target>>}        @object_permissions  *)
(* q maps the params bind() accepts to the Q they yield; a model is the    *)
(* set of its attributes.                                                  *)
(***************************************************************************)
EXTENDS Resolver

CONSTANT NoModel      \* the object is bound to no model

ReferencedKeys(code, o) ==
  {code.objects[o].references[f] : f \in DOMAIN code.objects[o].references}

(* Registry.known_keys.                                                    *)
KnownKeys(code) ==
  DOMAIN code.explicit
    \cup DOMAIN code.endpoints
    \cup {<<p[1], p[2]>> : p \in code.points}
    \cup UNION {ReferencedKeys(code, o) : o \in DOMAIN code.objects}

(* Registry.key raises UnknownKey for any other key: also for one that is  *)
(* known but whose object nothing registered.                              *)
ResolvableKeys(code) ==
  {k \in KnownKeys(code) : k \in DOMAIN code.explicit \/ k[1] \in DOMAIN code.objects}

ControlledFields(code, o) ==
  UNION {code.groups[g] : g \in {x \in DOMAIN code.groups : x[1] = o}}

(* Registry.key.                                                           *)
KeySpec(code, k) ==
  IF k \in DOMAIN code.explicit THEN code.explicit[k]
  ELSE [resource |-> k[1],
        model |-> code.objects[k[1]].model # NoModel,
        fields |-> ControlledFields(code, k[1]),
        references |-> code.objects[k[1]].references]

(* The registry as the resolver consults it.                               *)
View(code) ==
  [keys |-> [k \in ResolvableKeys(code) |-> KeySpec(code, k)],
   filters |-> code.filters]
=============================================================================
