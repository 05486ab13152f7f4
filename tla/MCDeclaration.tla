--------------------------- MODULE MCDeclaration ----------------------------
(***************************************************************************)
(* Small instances of Declaration: every application of two modules that   *)
(* hold at most two blocks and one block out of a pool.  A block is what   *)
(* one class, function or call of the source declares; the pool has        *)
(* several that agree, contradict and hide one another.                    *)
(***************************************************************************)
EXTENDS Declaration

CONSTANTS
  m1, m2, widget, crate, view, update, mine, money, none, r1, r2,
  price, note, owner, box, list, detail, both, child, selector, export,
  long, short

Object(model) == [op |-> "object", object |-> widget, model |-> model]
Params(q) == [p \in {none} |-> q]
Serializer(fields, f, k) ==
  SerializerClass(widget,
    IF fields = {} THEN <<>> ELSE <<[group |-> money, fields |-> fields]>>,
    [x \in {f} |-> k])
Selector(q, target) ==
  SelectorSite(widget, view, <<[filter |-> mine, q |-> Params(q)]>>, target)
RawCondition ==
  [op |-> "condition", filter |-> mine, object |-> widget, q |-> Params({r1})]
Class(c, parent, own) == [op |-> "class", class |-> c, parent |-> parent, own |-> own]
Endpoint(c, verb, label) ==
  [op |-> "endpoint", class |-> c, key |-> <<widget, verb>>, label |-> label]
RawKey ==
  [op |-> "key", key |-> <<widget, update>>,
   spec |-> [resource |-> widget, model |-> TRUE, fields |-> {}, references |-> <<>>]]

Attributes(a, v) == [x \in {a} |-> v]
NoAttributes == <<>>

Registrations ==
  {<<Object({price})>>, <<Object({note})>>, <<Object(NoModel)>>,
   Serializer({price}, owner, <<crate, view>>),
   Serializer({price, note}, box, <<crate, view>>),
   Serializer({}, owner, <<widget, update>>),
   Selector({r1}, selector), Selector({r2}, export),
   <<RawCondition>>, <<RawKey>>}

Views ==
  {<<Class(list, None, NoAttributes), Endpoint(list, view, NoLabel)>>,
   <<Class(detail, None, NoAttributes), Endpoint(detail, view, long)>>,
   <<Class(both, None, NoAttributes),
     Endpoint(both, update, short), Endpoint(both, view, NoLabel)>>}

Handwritten ==
  {<<Class(export, None, Attributes("permission_keys", [x \in {"POST"} |-> <<widget, update>>])),
     Endpoint(export, view, short), Endpoint(export, update, NoLabel)>>,
   <<Class(detail, None, Attributes("permission_key", <<widget, update>>)),
     Endpoint(detail, view, NoLabel)>>,
   <<Class(list, None, Attributes("read_key", <<widget, update>>)),
     Endpoint(list, view, NoLabel)>>,
   <<Class(export, None, Attributes("permission_endpoint", <<widget, update>>)),
     Endpoint(export, view, NoLabel)>>,
   <<Class(child, both, NoAttributes), Endpoint(child, view, NoLabel)>>}

Inheriting ==
  {<<Class(child, list, NoAttributes), Endpoint(child, update, NoLabel)>>,
   <<Class(child, both, NoAttributes), Endpoint(child, update, NoLabel)>>}

(* A class is defined once, and its parent in the same module above it or  *)
(* in the other module.                                                    *)
ClassesIn(p) == {x \in {m1, m2} \X (1..9) : x[2] \in DOMAIN p[x[1]] /\ p[x[1]][x[2]].op = "class"}

Importable(p) ==
  \A x, y \in ClassesIn(p) :
    LET d == p[x[1]][x[2]]
    IN /\ p[y[1]][y[2]].class = d.class => x = y
       /\ d.parent # None =>
            \E z \in ClassesIn(p) :
              p[z[1]][z[2]].class = d.parent /\ (z[1] = x[1] => z[2] < x[2])

ProgramsOf(pool) ==
  {p \in {[m \in {m1, m2} |-> IF m = m1 THEN b \o c ELSE d] :
            b, c \in pool \cup {<<>>}, d \in pool} :
     Importable(p)}

AllPrograms == ProgramsOf(Registrations \cup Views) \cup ProgramsOf(Views \cup Handwritten)

InheritingPrograms == ProgramsOf(Views \cup Inheriting)
=============================================================================
