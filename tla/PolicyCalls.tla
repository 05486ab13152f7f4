----------------------------- MODULE PolicyCalls ----------------------------
(***************************************************************************)
(* Requests that ask the policy (permkit/resolver.py) one query at a time, *)
(* through the grant cache (GrantCache), while other processes commit      *)
(* edits of the composition tables and change who holds which role.  A     *)
(* worker thread serves one request after another; with the middleware a   *)
(* request is a scope of the cache, without it there is none.              *)
(***************************************************************************)
EXTENDS Resolver, GrantTables

CONSTANTS
  Thread, Scope, None, Absent, MaxCommits,   \* as in GrantCache
  Config,        \* the contents the tables may be given
  Accounts,      \* the role sets the principal may be given
  Reg, Key,      \* the registry and the keys asked about
  MaxRequests,   \* bound: requests served
  MaxCalls       \* bound: policy calls per request

VARIABLES
  db, current, outer, dict, asking, born, held, heard,   \* GrantCache
  account,    \* the roles of the principal as the principal store has them
  request,    \* request[t]: the request thread t serves, and its user object
  served,     \* requests started so far
  call,       \* call[t]: the policy call in progress
  decided     \* history: every decision, with the span it was made in

cacheVars == <<db, current, outer, dict, asking, born, held, heard>>
vars == <<cacheVars, account, request, served, call, decided>>

Question == {"endpoint", "object"} \X (Accounts \ {{}}) \X Key

(* DatabaseStore: has_endpoint_grant is one statement, object_grants is    *)
(* one for the rules and one for their conditions.                         *)
StoreAnswer(c, d, q) ==
  IF q[1] = "endpoint" THEN HasEndpointGrant(c, q[2], q[3])
                       ELSE WithConditions(d, RulesFor(c, q[2], q[3]))

Value == {StoreAnswer(c, d, q) : c, d \in Config, q \in Question}

Cache == INSTANCE GrantCache WITH Answer <- StoreAnswer

ASSUME PolicyCallsAssumption ==
  /\ None \notin Scope \cup Accounts
  /\ None \notin [question : Question, since : Nat]
  /\ None \notin [id : Nat, roles : Accounts \cup {None}, since : Nat, calls : Nat]
  /\ Absent \notin Value
  /\ MaxCommits \in Nat

Init ==
  /\ Cache!Init
  /\ account \in Accounts
  /\ request = [t \in Thread |-> None]
  /\ served = 0
  /\ call = [t \in Thread |-> None]
  /\ decided = {}

-----------------------------------------------------------------------------
(* A request arrives: authentication builds a user object; the middleware, *)
(* if it is installed, opens a scope.                                      *)
Arrive(t) ==
  /\ request[t] = None
  /\ served < MaxRequests
  /\ served' = served + 1
  /\ request' = [request EXCEPT ![t] =
       [id |-> served + 1, roles |-> None, since |-> Len(db), calls |-> 0]]
  /\ Cache!Open(t) \/ UNCHANGED cacheVars
  /\ UNCHANGED <<account, call, decided>>

(* The response is returned: the scope is closed, the user object dropped. *)
Leave(t) ==
  /\ request[t] # None
  /\ call[t] = None
  /\ request' = [request EXCEPT ![t] = None]
  /\ Cache!Close(t) \/ (current[t] = None /\ UNCHANGED cacheVars)
  /\ UNCHANGED <<account, served, call, decided>>

(* Slip: the roles are resolved again by every call.                       *)
RolesForAgain(user) == account

(* roles_for: remembered on the user object once resolved, even when the   *)
(* principal has no roles (resolver.py:125-134).                           *)
RolesFor(user) == IF user.roles = None THEN account ELSE user.roles

Decide(t, kind, key, roles, scope) ==
  decided' = decided \cup
    {[request |-> request[t].id, unit |-> current[t], kind |-> kind, key |-> key,
      roles |-> roles, scope |-> scope,
      since |-> IF current[t] = None THEN call[t].since ELSE request[t].since,
      at |-> Len(db)]}

(* check_endpoint or scope is called for a principal who is no superuser;  *)
(* the roles come first.                                                   *)
Call(t, kind, key) ==
  /\ request[t] # None
  /\ call[t] = None
  /\ request[t].calls < MaxCalls
  /\ request' = [request EXCEPT ![t].roles = RolesFor(request[t]),
                                ![t].calls = @ + 1]
  /\ call' = [call EXCEPT ![t] =
       [kind |-> kind, key |-> key, since |-> Len(db),
        roles |-> RolesFor(request[t]), endpoint |-> None, grants |-> None]]
  /\ UNCHANGED <<cacheVars, account, served, decided>>

(* The store question the call asks next.                                  *)
Pending(c) ==
  IF c.roles = {} THEN {}
  ELSE IF c.endpoint = None THEN {<<"endpoint", c.roles, c.key>>}
  ELSE IF c.kind = "scope" /\ c.endpoint /\ c.grants = None
       THEN {<<"object", c.roles, c.key>>}
  ELSE {}

Learn(t, q, v) ==
  call' = [call EXCEPT ![t] = IF q[1] = "endpoint"
                              THEN [@ EXCEPT !.endpoint = v]
                              ELSE [@ EXCEPT !.grants = v]]

AskStore(t) ==
  /\ call[t] # None
  /\ \E q \in Pending(call[t]) : Cache!Ask(t, q)
  /\ UNCHANGED <<account, request, served, call, decided>>

StoreAnswers(t) ==
  /\ call[t] # None
  /\ Cache!Answered(t)
  /\ Learn(t, asking[t].question,
           StoreAnswer(db[asking[t].since], db[Len(db)], asking[t].question))
  /\ UNCHANGED <<account, request, served, decided>>

Remember(t) ==
  /\ call[t] # None
  /\ \E q \in Pending(call[t]) :
       Cache!Recall(t, q) /\ Learn(t, q, dict[current[t]][q])
  /\ UNCHANGED <<account, request, served, decided>>

(* The database fails: the call raises and decides nothing.                *)
StoreFails(t) ==
  /\ call[t] # None
  /\ Cache!Failed(t)
  /\ call' = [call EXCEPT ![t] = None]
  /\ UNCHANGED <<account, request, served, decided>>

(* Everything needed is known: the call returns.                           *)
Return(t) ==
  LET c == call[t]
      user == [super |-> FALSE, roles |-> c.roles]
      granted == c.endpoint = TRUE
  IN /\ c # None
     /\ asking[t] = None
     /\ Pending(c) = {}
     /\ Decide(t, c.kind, c.key, c.roles,
               IF c.kind = "scope"
               THEN ResolveScope(Reg, user, c.key, granted,
                                 IF c.grants = None THEN <<>> ELSE c.grants)
               ELSE IF CheckEndpoint(user, granted) THEN All ELSE Deny)
     /\ call' = [call EXCEPT ![t] = None]
     /\ UNCHANGED <<cacheVars, account, request, served>>

(* Somebody edits the composition, or the principal's roles.               *)
Edit ==
  /\ Cache!Commit
  /\ UNCHANGED <<account, request, served, call, decided>>

Reassign ==
  /\ \E roles \in Accounts \ {account} : account' = roles
  /\ UNCHANGED <<cacheVars, request, served, call, decided>>

Next ==
  \/ Edit
  \/ Reassign
  \/ \E t \in Thread :
       \/ Arrive(t) \/ Leave(t)
       \/ \E kind \in {"endpoint", "scope"}, key \in Key : Call(t, kind, key)
       \/ AskStore(t) \/ StoreAnswers(t) \/ Remember(t) \/ StoreFails(t)
       \/ Return(t)

Spec == Init /\ [][Next]_vars

-----------------------------------------------------------------------------
ScopeDecisions == {d \in decided : d.kind = "scope"}

(* A request that is shown rows reached the endpoint under some            *)
(* configuration and held a rule under some configuration, both no older   *)
(* than its scope or, without a scope, than the call: a revocation is      *)
(* honoured by the next request (resolver.py:187-197, cache.py:75-77).     *)
RowsWereGranted ==
  \A d \in ScopeDecisions :
    RowsIn(d.scope) # {} =>
      /\ \E i \in d.since..d.at : HasEndpointGrant(db[i], d.roles, d.key)
      /\ \E i \in d.since..d.at : RulesFor(db[i], d.roles, d.key) # <<>>

(* "The list and the detail cannot disagree": in one scope two resolutions *)
(* of one key give the same rows, whatever is committed between them       *)
(* (drf.py:128-130, resolver.py:252-253).                                  *)
ListAndDetailAgree ==
  \A d, e \in ScopeDecisions :
    (d.unit # None /\ d.unit = e.unit /\ d.key = e.key) => d.scope = e.scope

(* "The acting user's roles, resolved once per user object": every         *)
(* decision of a request is about the same roles (resolver.py:102-112).    *)
OneIdentityPerRequest ==
  \A d, e \in decided : d.request = e.request => d.roles = e.roles

(* "A rule with no conditions means every row" (models.py:149), and only   *)
(* such a rule: every row is shown only to somebody whose roles held a     *)
(* rule without conditions.                                                *)
OpenOnlyByAnOpenRule ==
  \A d \in ScopeDecisions :
    d.scope = All =>
      \E i \in d.since..d.at :
        \E r \in db[i].rules :
          /\ r.permission \in HeldBy(db[i], d.roles) /\ r.key = d.key
          /\ \A x \in db[i].conditions : x.rule # r.id
=============================================================================
