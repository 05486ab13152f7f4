--------------------------- MODULE PermissionSite ---------------------------
(***************************************************************************)
(* permkit/declare.py: selectors decorated with @object_permissions, and   *)
(* the ContextVar _PENDING through which apply_permissions learns which    *)
(* site it is called in.  Selectors call one another, apply their filters  *)
(* where they like, raise, and catch what the selectors they call raise.   *)
(* One thread; what a selector does with its queryset is left out.         *)
(***************************************************************************)
EXTENDS Naturals, Sequences

CONSTANTS
  Key,      \* object_key.endpoint_key of the sites
  Actor,    \* who they are called for
  Frame,    \* names for the calls of sites, each with a dict of its own
  None

ASSUME SiteAssumption == None \notin Frame /\ None \notin Key /\ None \notin Actor

VARIABLES
  stack,     \* the calls in progress, innermost last
  pending,   \* value of _PENDING: the dict of a call, or None
  saved,     \* saved[f]: the value the token of call f restores
  site,      \* site[f]: the dict f put in _PENDING, [key, actor, applied]
  raising,   \* an exception is on its way to the innermost call
  made,      \* history: the calls of apply_scope, with the body they are in,
             \* the actor it named (None: it named nobody), and their outcome
  returned   \* history: the calls that returned

vars == <<stack, pending, saved, site, raising, made, returned>>

NoSite == [key |-> None, actor |-> None, applied |-> FALSE]

Init ==
  /\ stack = <<>>
  /\ pending = None
  /\ saved = [f \in Frame |-> None]
  /\ site = [f \in Frame |-> NoSite]
  /\ raising = FALSE
  /\ made = {}
  /\ returned = {}

Innermost(s) == IF s = <<>> THEN None ELSE s[Len(s)]

Running == Innermost(stack)

-----------------------------------------------------------------------------
(* wrapper: the actor keyword is there; a fresh dict goes into _PENDING    *)
(* and the body starts.                                                    *)
CallSite(f, k, a) ==
  /\ ~raising
  /\ site[f] = NoSite
  /\ stack' = Append(stack, f)
  /\ saved' = [saved EXCEPT ![f] = pending]
  /\ pending' = f
  /\ site' = [site EXCEPT ![f] = [key |-> k, actor |-> a, applied |-> FALSE]]
  /\ UNCHANGED <<raising, made, returned>>

(* The body raises, or calls a site without the actor keyword, which is a  *)
(* TypeError before the callee has set anything.                           *)
Raise ==
  /\ ~raising
  /\ stack # <<>>
  /\ raising' = TRUE
  /\ UNCHANGED <<stack, pending, saved, site, made, returned>>

(* Slips, here and below, for the checks that every property notices one:  *)
(* applying marks the outermost site; the declaration is the caller's.     *)
ApplyMarkingOutermost(given, ok) ==
  /\ ~raising
  /\ pending # None
  /\ site' = [site EXCEPT ![stack[1]].applied = TRUE]
  /\ made' = made \cup
       {[frame |-> Running, key |-> site[pending].key, given |-> given,
         actor |-> IF given = None THEN site[pending].actor ELSE given, ok |-> ok]}
  /\ raising' = ~ok
  /\ UNCHANGED <<stack, pending, saved, returned>>

ApplyForCaller(given, ok) ==
  LET p == IF saved[pending] = None THEN pending ELSE saved[pending]
  IN /\ ~raising
     /\ pending # None
     /\ site' = [site EXCEPT ![pending].applied = TRUE]
     /\ made' = made \cup
          {[frame |-> Running, key |-> site[p].key, given |-> given,
            actor |-> IF given = None THEN site[p].actor ELSE given, ok |-> ok]}
     /\ raising' = ~ok
     /\ UNCHANGED <<stack, pending, saved, returned>>

(* apply_permissions(qs, actor=given) in the running body: the flag is     *)
(* set, then apply_scope narrows the queryset or raises.                   *)
Apply(given, ok) ==
  /\ ~raising
  /\ pending # None
  /\ site' = [site EXCEPT ![pending].applied = TRUE]
  /\ made' = made \cup
       {[frame |-> Running, key |-> site[pending].key, given |-> given,
         actor |-> IF given = None THEN site[pending].actor ELSE given, ok |-> ok]}
  /\ raising' = ~ok
  /\ UNCHANGED <<stack, pending, saved, returned>>

(* Slip: _PENDING is reset on the way out of a return only.                *)
UnwindReturnsOnly ==
  /\ stack' = SubSeq(stack, 1, Len(stack) - 1)
  /\ pending' = IF raising THEN pending ELSE saved[Running]

(* The finally clause: the token puts back what the call replaced.         *)
Unwind ==
  /\ stack' = SubSeq(stack, 1, Len(stack) - 1)
  /\ pending' = saved[Running]

(* The body returns after apply_permissions was called.                    *)
Return ==
  /\ ~raising
  /\ stack # <<>>
  /\ site[pending].applied
  /\ Unwind
  /\ returned' = returned \cup {Running}
  /\ UNCHANGED <<saved, site, raising, made>>

(* An exception leaves the running call for the body of its caller.        *)
Leave ==
  /\ stack # <<>>
  /\ Unwind
  /\ raising' = (Len(stack) > 1)
  /\ UNCHANGED <<saved, site, made, returned>>

(* The body returns without having applied: the wrapper raises.            *)
ReturnUnapplied ==
  /\ ~raising
  /\ Leave
  /\ ~site[pending].applied

Propagate == raising /\ Leave

(* The running body catches what was raised in it.                         *)
Catch ==
  /\ raising
  /\ raising' = FALSE
  /\ UNCHANGED <<stack, pending, saved, site, made, returned>>

Next ==
  \/ \E f \in Frame, k \in Key, a \in Actor : CallSite(f, k, a)
  \/ Raise
  \/ \E given \in Actor \cup {None}, ok \in BOOLEAN : Apply(given, ok)
  \/ Return
  \/ ReturnUnapplied
  \/ Propagate
  \/ Catch

Spec == Init /\ [][Next]_vars

-----------------------------------------------------------------------------
TypeOK ==
  /\ stack \in Seq(Frame)
  /\ pending \in Frame \cup {None}
  /\ saved \in [Frame -> Frame \cup {None}]
  /\ site \in [Frame -> [key : Key \cup {None}, actor : Actor \cup {None},
                        applied : BOOLEAN]]
  /\ raising \in BOOLEAN
  /\ made \subseteq [frame : Frame, key : Key, given : Actor \cup {None},
                     actor : Actor, ok : BOOLEAN]
  /\ returned \subseteq Frame

(* Whatever was called, raised and caught before, _PENDING is the dict of  *)
(* the selector that is running, and nothing once the last one is left     *)
(* (declare.py:165-184, 201-207).                                          *)
PendingIsRunning == pending = Running

(* The filters applied in a body are those of the selector it belongs to,  *)
(* for the actor that selector was called with unless the body names       *)
(* another: never those of a selector it called or was called by           *)
(* (declare.py:196-197, 209).                                              *)
OwnDeclarationApplied ==
  \A m \in made :
    /\ m.key = site[m.frame].key
    /\ m.given = None => m.actor = site[m.frame].actor

(* A call that returned called apply_permissions in its own body: calls in *)
(* the bodies of the selectors it called, returned or raised and caught,   *)
(* do not count (declare.py:174-184).  Whether the rows were filtered is   *)
(* the next property's matter.                                             *)
ReturnedSitesApplied ==
  \A f \in returned : \E m \in made : m.frame = f

(* "The wrapper raises if the body returns without having applied the      *)
(* filters" (declare.py:144-145, tests/test_declaration.py:32-37): some    *)
(* apply_permissions of a body that returned gave it filtered rows.        *)
ReturnedSitesFiltered ==
  \A f \in returned : \E m \in made : m.frame = f /\ m.ok
=============================================================================
