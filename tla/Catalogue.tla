----------------------------- MODULE Catalogue ------------------------------
(***************************************************************************)
(* permkit/catalogue: the tables permkit_sync publishes the registry to    *)
(* (models.py), how a run reconciles them and what it then reports         *)
(* (sync.py).  A table is a function from natural keys to rows             *)
(* [live, data], where data is what the row holds beside its natural key:  *)
(*   objects   object -> the bound model          endpoints key -> targets *)
(*   filters   filter -> [object, params]         groups    group -> fields*)
(*   points    <<object, verb, target>> -> {}                              *)
(***************************************************************************)
EXTENDS Registry

Tables == {"objects", "endpoints", "filters", "groups", "points"}

EmptyCatalogue == [t \in Tables |-> <<>>]

(* Every object key anything mentions, bound to a model or not.            *)
ObjectKeys(code) ==
  DOMAIN code.objects
    \cup ({code.filters[f].object : f \in DOMAIN code.filters} \ {AnyObject})
    \cup {g[1] : g \in DOMAIN code.groups}
    \cup {p[1] : p \in code.points}

Model(code, o) ==
  IF o \in DOMAIN code.objects THEN code.objects[o].model ELSE NoModel

Attached(code) == {f \in DOMAIN code.filters : code.filters[f].object # AnyObject}

(* The rows a release wants, table by table.                               *)
Desired(code) ==
  [objects   |-> [o \in ObjectKeys(code) |-> Model(code, o)],
   endpoints |-> code.endpoints,
   filters   |-> [f \in Attached(code) |->
                    [object |-> code.filters[f].object,
                     params |-> DOMAIN code.filters[f].q]],
   groups    |-> code.groups,
   points    |-> [p \in code.points |-> {}]]

(* Slips the checks are tried on: a row that came back stays retired; what *)
(* is gone is deleted.                                                     *)
UpsertWithoutReviving(table, desired) ==
  [i \in DOMAIN table \cup DOMAIN desired |->
     IF i \in DOMAIN desired
     THEN [live |-> IF i \in DOMAIN table THEN table[i].live ELSE TRUE,
           data |-> desired[i]]
     ELSE [table[i] EXCEPT !.live = FALSE]]

UpsertDeleting(table, desired) ==
  [i \in DOMAIN desired |-> [live |-> TRUE, data |-> desired[i]]]

(* _upsert: create or update and revive what is declared, retire the rest. *)
Upsert(table, desired) ==
  [i \in DOMAIN table \cup DOMAIN desired |->
     IF i \in DOMAIN desired
     THEN [live |-> TRUE, data |-> desired[i]]
     ELSE [table[i] EXCEPT !.live = FALSE]]

(* Slip: rows retired before are counted again.                            *)
ChangesCountingTheDead(table, desired) ==
  [created |-> DOMAIN desired \ DOMAIN table,
   revived |-> {i \in DOMAIN desired \cap DOMAIN table : ~table[i].live},
   updated |-> {i \in DOMAIN desired \cap DOMAIN table :
                  table[i].live /\ table[i].data # desired[i]},
   retired |-> DOMAIN table \ DOMAIN desired]

(* What _upsert reports of it.                                             *)
Changes(table, desired) ==
  [created |-> DOMAIN desired \ DOMAIN table,
   revived |-> {i \in DOMAIN desired \cap DOMAIN table : ~table[i].live},
   updated |-> {i \in DOMAIN desired \cap DOMAIN table :
                  table[i].live /\ table[i].data # desired[i]},
   retired |-> {i \in DOMAIN table \ DOMAIN desired : table[i].live}]

Published(cat, code) == [t \in Tables |-> Upsert(cat[t], Desired(code)[t])]

Reported(cat, code) == [t \in Tables |-> Changes(cat[t], Desired(code)[t])]

SomethingChanged(report) ==
  \E t \in Tables : \E kind \in DOMAIN report[t] : report[t][kind] # {}

Live(cat, t) == {i \in DOMAIN cat[t] : cat[t][i].live}

(* What is live in the catalogue is what the release declares, as it       *)
(* declares it.                                                            *)
InStep(cat, code) ==
  \A t \in Tables :
    /\ Live(cat, t) = DOMAIN Desired(code)[t]
    /\ \A i \in Live(cat, t) : cat[t][i].data = Desired(code)[t][i]

-----------------------------------------------------------------------------
(* validate.  The composition c is one of GrantTables.                     *)

Problem(kind, about) == [kind |-> kind, about |-> about]

DeclarationErrors(code) ==
  LET filtered == {code.filters[f].object : f \in Attached(code)}
      scoped == {p[1] : p \in code.points}
  IN {Problem("filters-never-fire", o) : o \in filtered \ scoped}
     \cup {Problem("unknown-field", g) :
             g \in {x \in DOMAIN code.groups :
                      /\ Model(code, x[1]) # NoModel
                      /\ ~(code.groups[x] \subseteq Model(code, x[1]))}}

StaleFilters(cat, c) == {x \in c.conditions : x.filter \notin Live(cat, "filters")}

(* The query joins the filters: it finds conditions on rows there are.     *)
MisfiledFilters(cat, c) ==
  {x \in c.conditions : \E r \in c.rules :
     /\ r.id = x.rule
     /\ x.filter \in DOMAIN cat.filters
     /\ cat.filters[x.filter].data.object # r.key[1]}

(* One operator for each query of _validate_compositions, in their order.  *)
EndpointErrors(cat, c) ==
  {Problem("stale-endpoint", e) : e \in {x \in c.endpoints : x[2] \notin Live(cat, "endpoints")}}

RuleErrors(code, cat, c) ==
  LET dead == {r \in c.rules : r.key[1] \notin Live(cat, "objects")}
  IN {Problem("stale-object", r) : r \in dead}
     \cup {Problem("stale-key", r) : r \in {x \in c.rules \ dead : x.key \notin KnownKeys(code)}}

(* Slip: a filter that is still declared is taken to be about the object   *)
(* of the rule that uses it.                                               *)
ConditionErrorsTrustingForeignKeys(cat, c) ==
  {Problem("stale-filter", x) : x \in StaleFilters(cat, c)}

ConditionErrors(cat, c) ==
  {Problem("stale-filter", x) : x \in StaleFilters(cat, c)}
    \cup {Problem("misfiled-filter", x) : x \in MisfiledFilters(cat, c)}

FieldErrors(code, cat, c) ==
  LET dead == {g \in c.fields : g.group \notin Live(cat, "groups")}
  IN {Problem("stale-group", g) : g \in dead}
     \cup {Problem("stale-key", g) : g \in {x \in c.fields \ dead : x.key \notin KnownKeys(code)}}

CompositionErrors(code, cat, c) ==
  EndpointErrors(cat, c) \cup RuleErrors(code, cat, c)
    \cup ConditionErrors(cat, c) \cup FieldErrors(code, cat, c)
=============================================================================
