------------------------- MODULE PolicyCallsProofs --------------------------
(***************************************************************************)
(* Proofs about PolicyCalls for any threads, accounts, keys, contents of   *)
(* the tables and number of requests: what a decision rests on, and that   *)
(* decisions of one request agree, while others edit the tables.           *)
(*                                                                         *)
(* The cache is taken with what GrantCacheProofs proves of it: its         *)
(* invariant is a conjunct of the one here (CacheInv), and CacheKnows says *)
(* what follows for a caller.  The rest of the invariant follows a request *)
(* from its arrival to its decisions:                                      *)
(*   - a thread is bound to a scope only while it serves the request that  *)
(*     opened it, and the two began together (Requests);                   *)
(*   - what a call in progress has learnt was heard in its scope or, where *)
(*     there is none, since the call began (Calls);                        *)
(*   - a decision about rows is what the resolver makes of such answers    *)
(*     (Justified), for the roles its request was given; a scope belongs   *)
(*     to one request (Decisions).                                         *)
(***************************************************************************)
EXTENDS PolicyCalls, TLAPS

Proved == INSTANCE GrantCacheProofs WITH Answer <- StoreAnswer

CacheInv == Proved!Inv

(* What a caller may rely on.                                              *)
CacheKnows ==
  /\ Len(db) \in Nat \ {0}
  /\ current = [t \in Thread |-> current[t]]
  /\ born \in [Scope -> Nat]
  /\ outer = [s \in Scope |-> outer[s]]
  /\ \A t \in Thread : current[t] # None => current[t] \in Scope /\ born[current[t]] > 0
  /\ \A t, u \in Thread : (current[t] # None /\ current[t] = current[u]) => t = u
  /\ asking = [t \in Thread |-> asking[t]]
  /\ \A t \in Thread : asking[t] # None =>
       asking[t].since \in Nat /\ 0 < asking[t].since /\ asking[t].since <= Len(db)

HeardKnows ==
  /\ \A r \in heard : /\ r.since \in Nat \ {0} /\ r.at \in Nat /\ r.at <= Len(db)
                      /\ r.question \in Question
  /\ \A r \in heard : r.scope # None =>
       \E i, j \in born[r.scope]..r.at :
         r.value = StoreAnswer(db[i], db[j], r.question)
  /\ \A r \in heard : r.scope = None =>
       r.value = StoreAnswer(db[r.since], db[r.at], r.question)
  /\ \A r, x \in heard :
       (r.scope = x.scope /\ r.scope # None /\ r.question = x.question)
         => r.value = x.value

LEMMA CacheAssumption == Proved!ConstantsAssumption
<1>1. \A c, d \in Config, q \in Question : StoreAnswer(c, d, q) \in Value
  BY DEF Value
<1> QED
  BY <1>1, PolicyCallsAssumption DEF Proved!ConstantsAssumption

LEMMA CacheTells == CacheInv => CacheKnows /\ HeardKnows
<1> SUFFICES ASSUME CacheInv PROVE CacheKnows /\ HeardKnows
  OBVIOUS
<1> USE DEF CacheInv, Proved!Inv
<1>1. Len(db) \in Nat \ {0}
  BY DEF Proved!TypeOK
<1>2. CacheKnows
  BY <1>1 DEF CacheKnows, Proved!TypeOK, Proved!Allocated, Proved!HeldOnce,
     Proved!PrivateScope, Proved!CallsInProgress
<1>3. \A r \in heard : /\ r.since \in Nat \ {0} /\ r.at \in Nat /\ r.at <= Len(db)
                       /\ r.question \in Question
  BY DEF Proved!TypeOK, Proved!Reply, Proved!Allocated
<1>4. HeardKnows
  BY <1>3 DEF HeardKnows, Proved!HeardIsRemembered, Proved!AnswersFromThisScope,
     Proved!CurrentOutsideScopes
<1> QED
  BY <1>2, <1>4

-----------------------------------------------------------------------------
(* One of the answers `said` was heard by `at`: v, to q, in scope `unit`,  *)
(* or in none since `since`.                                               *)
Told(said, unit, since, at, q, v) ==
  \E r \in said :
    /\ r.scope = unit /\ r.question = q /\ r.value = v /\ r.at <= at
    /\ unit = None => since <= r.since /\ r.since <= r.at

(* A request is served in `bound`, a scope or none, that began with it.    *)
Serving(req, bound, now, ids) ==
  req # None =>
    /\ req \in [id : 1..ids, roles : Accounts \cup {None}, since : 1..now, calls : Nat]
    /\ bound # None => born[bound] = req.since

Requests ==
  /\ served \in Nat /\ account \in Accounts
  /\ request = [t \in Thread |-> request[t]]
  /\ \A s \in Scope : outer[s] = None
  /\ \A t \in Thread : request[t] = None => current[t] = None
  /\ \A t \in Thread : Serving(request[t], current[t], Len(db), served)
  /\ \A t, u \in Thread :
       (request[t] # None /\ request[u] # None /\ request[t].id = request[u].id) => t = u

CallRecord(c) ==
  /\ c = [kind |-> c.kind, key |-> c.key, since |-> c.since, roles |-> c.roles,
          endpoint |-> c.endpoint, grants |-> c.grants]
  /\ c.kind \in {"endpoint", "scope"} /\ c.key \in Key /\ c.roles \in Accounts
  /\ c.endpoint \in BOOLEAN \cup {None}

(* A call c in progress, for the request req, in `bound`.                  *)
Learnt(c, req, bound, said, now) ==
  c # None =>
    /\ req # None
    /\ CallRecord(c)
    /\ c.roles = req.roles
    /\ c.since \in req.since..now
    /\ c.endpoint # None =>
         Told(said, bound, c.since, now, <<"endpoint", c.roles, c.key>>, c.endpoint)
    /\ c.grants # None =>
         Told(said, bound, c.since, now, <<"object", c.roles, c.key>>, c.grants)

Asks(a, c) ==
  a # None => c # None /\ a.question \in Pending(c) /\ c.since <= a.since

Calls ==
  /\ call = [t \in Thread |-> call[t]]
  /\ \A t \in Thread : Asks(asking[t], call[t])
  /\ \A t \in Thread : Learnt(call[t], request[t], current[t], heard, Len(db))

(* What the resolver makes of the answers of the store.                    *)
Resolved(d, endpoint, grants) ==
  ResolveScope(Reg, [super |-> FALSE, roles |-> d.roles], d.key, endpoint, grants)

Justified(d, said) ==
  \/ /\ d.scope = Resolved(d, FALSE, <<>>)
     /\ \/ d.roles = {}
        \/ Told(said, d.unit, d.since, d.at, <<"endpoint", d.roles, d.key>>, FALSE)
  \/ /\ Told(said, d.unit, d.since, d.at, <<"endpoint", d.roles, d.key>>, TRUE)
     /\ \E r \in said :
          /\ r.question = <<"object", d.roles, d.key>>
          /\ Told(said, d.unit, d.since, d.at, r.question, r.value)
          /\ d.scope = Resolved(d, TRUE, r.value)

Decided(d, ids) ==
  /\ d.request \in 1..ids /\ d.roles \in Accounts
  /\ d.since \in Nat /\ d.at \in Nat /\ d.since <= d.at
  /\ d.unit # None => d.unit \in Scope /\ born[d.unit] > 0 /\ born[d.unit] = d.since

Decisions ==
  /\ \A d \in decided : Decided(d, served)
  /\ \A d \in decided, t \in Thread : request[t] # None =>
       /\ d.request = request[t].id => d.roles = request[t].roles
       /\ (d.unit # None /\ d.unit = current[t]) => d.request = request[t].id
  /\ \A d, e \in decided : d.request = e.request => d.roles = e.roles
  /\ \A d, e \in decided : (d.unit # None /\ d.unit = e.unit) => d.request = e.request

Reasons == \A d \in ScopeDecisions : Justified(d, heard)

Inv == CacheInv /\ Requests /\ Calls /\ Decisions /\ Reasons

-----------------------------------------------------------------------------
LEMMA InitInv == Init => Inv
<1> SUFFICES ASSUME Init PROVE Inv
  OBVIOUS
<1>1. CacheInv
  BY CacheAssumption, Proved!InitInv
     DEF Init, CacheInv, Cache!Init, Proved!Init, Cache!Empty, Proved!Empty
<1>2. Requests /\ Calls /\ Decisions /\ Reasons
  BY DEF Init, Cache!Init, Requests, Serving, Calls, Asks, Learnt, Decisions, Reasons,
         ScopeDecisions
<1> QED
  BY <1>1, <1>2 DEF Inv

(* A call asks questions of the cache, and of nobody else.                 *)
LEMMA PendingIsQuestion ==
  ASSUME Calls, NEW t \in Thread, call[t] # None, NEW q \in Pending(call[t])
  PROVE  /\ q \in Question
         /\ q \in {<<"endpoint", call[t].roles, call[t].key>>,
                   <<"object", call[t].roles, call[t].key>>}
<1>1. call[t].roles \in Accounts /\ call[t].key \in Key
  BY DEF Calls, Learnt, CallRecord
<1>2. /\ call[t].roles # {}
      /\ q \in {<<"endpoint", call[t].roles, call[t].key>>,
                <<"object", call[t].roles, call[t].key>>}
  BY DEF Pending
<1> QED
  BY <1>1, <1>2 DEF Question

(* The cache is used as GrantCache says it is.                             *)
LEMMA SameCache ==
  ASSUME NEW t, NEW q
  PROVE  /\ Cache!Open(t) => Proved!Open(t)
         /\ Cache!Close(t) => Proved!Close(t)
         /\ Cache!Ask(t, q) => Proved!Ask(t, q)
         /\ Cache!Answered(t) => Proved!Answered(t)
         /\ Cache!Failed(t) => Proved!Failed(t)
         /\ Cache!Recall(t, q) => Proved!Recall(t, q)
         /\ Cache!Commit => Proved!Commit
<1>1. Cache!Open(t) => Proved!Open(t)
  BY DEF Cache!Open, Proved!Open, Cache!Empty, Proved!Empty
<1>2. Cache!Close(t) => Proved!Close(t)
  BY DEF Cache!Close, Proved!Close
<1>3. Cache!Remembered(t, q) <=> Proved!Remembered(t, q)
  BY DEF Cache!Remembered, Proved!Remembered
<1>4. Cache!Ask(t, q) => Proved!Ask(t, q)
  BY <1>3 DEF Cache!Ask, Proved!Ask
<1>5. Cache!Answered(t) => Proved!Answered(t)
  BY DEF Cache!Answered, Proved!Answered, Cache!Now, Proved!Now, Cache!Hear, Proved!Hear
<1>6. Cache!Failed(t) => Proved!Failed(t)
  BY DEF Cache!Failed, Proved!Failed
<1>7. Cache!Recall(t, q) => Proved!Recall(t, q)
  BY <1>3 DEF Cache!Recall, Proved!Recall, Cache!Hear, Proved!Hear
<1>8. Cache!Commit => Proved!Commit
  BY DEF Cache!Commit, Proved!Commit, Cache!Now, Proved!Now
<1> QED
  BY <1>1, <1>2, <1>4, <1>5, <1>6, <1>7, <1>8

LEMMA CacheSteps ==
  ASSUME CacheInv, Calls, [Next]_vars
  PROVE  CacheInv'
<1>1. Proved!Next \/ UNCHANGED cacheVars
  <2>1. CASE Edit
    BY <2>1, SameCache DEF Edit, Proved!Next
  <2>2. ASSUME NEW t \in Thread, Arrive(t)
        PROVE  Proved!Next \/ UNCHANGED cacheVars
    BY <2>2, SameCache DEF Arrive, Proved!Next
  <2>3. ASSUME NEW t \in Thread, Leave(t)
        PROVE  Proved!Next \/ UNCHANGED cacheVars
    BY <2>3, SameCache DEF Leave, Proved!Next
  <2>4. ASSUME NEW t \in Thread, AskStore(t)
        PROVE  Proved!Next
    <3>1. PICK q \in Pending(call[t]) : Cache!Ask(t, q)
      BY <2>4 DEF AskStore
    <3>2. q \in Question
      BY <2>4, PendingIsQuestion DEF AskStore
    <3> QED
      BY <3>1, <3>2, SameCache DEF Proved!Next
  <2>5. ASSUME NEW t \in Thread, StoreAnswers(t)
        PROVE  Proved!Next
    BY <2>5, SameCache DEF StoreAnswers, Proved!Next
  <2>6. ASSUME NEW t \in Thread, Remember(t)
        PROVE  Proved!Next
    <3>1. PICK q \in Pending(call[t]) : Cache!Recall(t, q)
      BY <2>6 DEF Remember
    <3>2. q \in Question
      BY <2>6, PendingIsQuestion DEF Remember
    <3> QED
      BY <3>1, <3>2, SameCache DEF Proved!Next
  <2>7. ASSUME NEW t \in Thread, StoreFails(t)
        PROVE  Proved!Next
    BY <2>7, SameCache DEF StoreFails, Proved!Next
  <2>8. CASE UNCHANGED cacheVars
    BY <2>8
  <2>9. \/ Edit
        \/ \E t \in Thread : \/ Arrive(t) \/ Leave(t) \/ AskStore(t) \/ StoreAnswers(t)
                             \/ Remember(t) \/ StoreFails(t)
        \/ UNCHANGED cacheVars
    BY DEF Next, vars, Reassign, Call, Return
  <2> QED
    BY <2>1, <2>2, <2>3, <2>4, <2>5, <2>6, <2>7, <2>8, <2>9
<1>2. [Proved!Next]_(Proved!vars)
  BY <1>1 DEF cacheVars, Proved!vars
<1> QED
  BY <1>2, CacheAssumption, Proved!NextInv DEF CacheInv

-----------------------------------------------------------------------------
(* What was heard stays heard, and time only moves on.                     *)
LEMMA ToldStays ==
  ASSUME NEW said, NEW more, said \subseteq more, NEW unit, NEW since,
         NEW now \in Nat, NEW later \in Nat, now <= later,
         \A r \in said : r.at \in Nat, NEW q, NEW v, Told(said, unit, since, now, q, v)
  PROVE  Told(more, unit, since, later, q, v)
  BY DEF Told

LEMMA LearntStays ==
  ASSUME NEW said, NEW more, said \subseteq more, NEW c, NEW req, NEW bound,
         NEW now \in Nat, NEW later \in Nat, now <= later, req # None => req.since \in Nat,
         \A r \in said : r.at \in Nat, Learnt(c, req, bound, said, now)
  PROVE  Learnt(c, req, bound, more, later)
<1> SUFFICES ASSUME c # None PROVE Learnt(c, req, bound, more, later)
  BY DEF Learnt
<1>1. c.endpoint # None =>
        Told(more, bound, c.since, later, <<"endpoint", c.roles, c.key>>, c.endpoint)
  BY ToldStays DEF Learnt
<1>2. c.grants # None =>
        Told(more, bound, c.since, later, <<"object", c.roles, c.key>>, c.grants)
  BY ToldStays DEF Learnt
<1>3. c.since \in req.since..later
  BY DEF Learnt
<1> QED
  BY <1>1, <1>2, <1>3 DEF Learnt

LEMMA JustifiedStays ==
  ASSUME NEW said, NEW more, said \subseteq more, NEW d, d.at \in Nat,
         \A r \in said : r.at \in Nat, Justified(d, said)
  PROVE  Justified(d, more)
<1>1. \A q, v : Told(said, d.unit, d.since, d.at, q, v)
                  => Told(more, d.unit, d.since, d.at, q, v)
  BY ToldStays
<1>2. CASE d.scope = Resolved(d, FALSE, <<>>)
  BY <1>1, <1>2 DEF Justified, Told
<1>3. CASE d.scope # Resolved(d, FALSE, <<>>)
  <2>1. /\ Told(said, d.unit, d.since, d.at, <<"endpoint", d.roles, d.key>>, TRUE)
        /\ \E r \in said :
             /\ r.question = <<"object", d.roles, d.key>>
             /\ Told(said, d.unit, d.since, d.at, r.question, r.value)
             /\ d.scope = Resolved(d, TRUE, r.value)
    BY <1>3 DEF Justified
  <2>2. PICK r \in more :
             /\ r.question = <<"object", d.roles, d.key>>
             /\ Told(said, d.unit, d.since, d.at, r.question, r.value)
             /\ d.scope = Resolved(d, TRUE, r.value)
    BY <2>1
  <2> QED
    BY <1>1, <2>1, <2>2 DEF Justified
<1> QED
  BY <1>2, <1>3

(* A step that leaves requests, calls and decisions alone.                 *)
LEMMA CallsFrame ==
  ASSUME Requests, Calls, CacheKnows, HeardKnows, CacheKnows',
         UNCHANGED <<request, current, call>>, Len(db) <= Len(db)', heard \subseteq heard',
         \A t \in Thread : Asks(asking[t]', call[t])
  PROVE  Calls'
<1>1. ASSUME NEW t \in Thread
      PROVE  Learnt(call[t], request[t], current[t], heard', Len(db)')
  <2>1. request[t] # None => request[t].since \in Nat
    BY DEF Requests, Serving, CacheKnows
  <2> QED
    BY <2>1, LearntStays DEF Calls, CacheKnows, HeardKnows
<1> QED
  BY <1>1 DEF Calls

LEMMA RequestsFrame ==
  ASSUME Requests, CacheKnows, CacheKnows', account' \in Accounts, Len(db) <= Len(db)',
         UNCHANGED <<request, served, current, outer, born>>
  PROVE  Requests'
<1>1. ASSUME NEW t \in Thread
      PROVE  Serving(request[t], current[t], Len(db), served)'
  BY DEF Requests, Serving, CacheKnows
<1> QED
  BY <1>1 DEF Requests

LEMMA DecisionsFrame ==
  ASSUME Decisions, UNCHANGED <<decided, request, served, current, born>>
  PROVE  Decisions'
  BY DEF Decisions, Decided

LEMMA ReasonsFrame ==
  ASSUME Reasons, Decisions, HeardKnows, UNCHANGED decided, heard \subseteq heard'
  PROVE  Reasons'
<1>1. \A d \in ScopeDecisions : d.at \in Nat
  BY DEF Decisions, Decided, ScopeDecisions
<1>2. \A d \in ScopeDecisions : Justified(d, heard')
  BY <1>1, JustifiedStays DEF Reasons, HeardKnows
<1> QED
  BY <1>2 DEF Reasons, ScopeDecisions

Rest == Requests /\ Calls /\ Decisions /\ Reasons

(* A call runs within its request, and not before it.                      *)
LEMMA CallSpan ==
  ASSUME Requests, Calls, CacheKnows, NEW t \in Thread, call[t] # None
  PROVE  /\ request[t] # None
         /\ request[t].since \in Nat \ {0} /\ request[t].since <= Len(db)
         /\ call[t].since \in Nat /\ call[t].since <= Len(db)
         /\ request[t].since <= call[t].since
<1>1. request[t] # None /\ call[t].since \in request[t].since..Len(db)
  BY DEF Calls, Learnt
<1>2. request[t].since \in 1..Len(db)
  BY <1>1 DEF Requests, Serving
<1>3. Len(db) \in Nat
  BY DEF CacheKnows
<1> QED
  BY <1>1, <1>2, <1>3

(* The tables are edited, or the roles.                                    *)
LEMMA OutsideKeeps ==
  ASSUME Inv, CacheKnows', Edit \/ Reassign \/ UNCHANGED vars
  PROVE  Rest'
<1>1. CacheKnows /\ HeardKnows
  BY CacheTells DEF Inv
<1>2. /\ UNCHANGED <<request, served, current, outer, born, asking, call, decided, heard>>
      /\ account' \in Accounts
      /\ Len(db) <= Len(db)'
  <2>1. CASE Edit
    BY <1>1, <2>1 DEF Edit, Cache!Commit, Inv, Requests, CacheKnows
  <2>2. CASE Reassign
    BY <1>1, <2>2 DEF Reassign, cacheVars, CacheKnows
  <2>3. CASE UNCHANGED vars
    BY <1>1, <2>3 DEF vars, cacheVars, Inv, Requests, CacheKnows
  <2> QED
    BY <2>1, <2>2, <2>3
<1>3. \A t \in Thread : Asks(asking[t]', call[t])
  BY <1>2 DEF Inv, Calls
<1> QED
  BY <1>1, <1>2, <1>3, CallsFrame, RequestsFrame, DecisionsFrame, ReasonsFrame
     DEF Inv, Rest

(* A question is put to the store.                                         *)
LEMMA AskStoreKeeps ==
  ASSUME Inv, CacheKnows', NEW t \in Thread, AskStore(t)
  PROVE  Rest'
<1>1. CacheKnows /\ HeardKnows
  BY CacheTells DEF Inv
<1>2. PICK q \in Pending(call[t]) : Cache!Ask(t, q)
  BY DEF AskStore
<1>3. /\ UNCHANGED <<request, served, account, current, outer, born, call, decided, heard, db>>
      /\ asking' = [asking EXCEPT ![t] = [question |-> q, since |-> Len(db)]]
      /\ call[t] # None
  BY <1>2 DEF AskStore, Cache!Ask
<1>4. account' \in Accounts /\ Len(db) <= Len(db)'
  BY <1>1, <1>3 DEF Inv, Requests, CacheKnows
<1>5. call[t].since <= Len(db)
  BY <1>1, <1>3, CallSpan DEF Inv
<1>6. \A u \in Thread : Asks(asking[u]', call[u])
  BY <1>1, <1>2, <1>3, <1>5 DEF Inv, Calls, Asks, CacheKnows
<1> QED
  BY <1>1, <1>3, <1>4, <1>6, CallsFrame, RequestsFrame, DecisionsFrame, ReasonsFrame
     DEF Inv, Rest

(* What a call learns was told to it since it began.                       *)
LEMMA LearnsWhatIsTold ==
  ASSUME NEW said, NEW now \in Nat, NEW req, NEW bound, NEW c, c # None,
         Learnt(c, req, bound, said, now), NEW q \in Pending(c), NEW v,
         q[1] = "endpoint" => v \in BOOLEAN,
         Told(said, bound, c.since, now, q, v)
  PROVE  Learnt(IF q[1] = "endpoint" THEN [c EXCEPT !.endpoint = v]
                                     ELSE [c EXCEPT !.grants = v],
                req, bound, said, now)
<1>1. CASE c.endpoint = None
  <2> DEFINE e == [c EXCEPT !.endpoint = v]
  <2>1. q = <<"endpoint", c.roles, c.key>>
    BY <1>1 DEF Pending
  <2>2. /\ e.kind = c.kind /\ e.key = c.key /\ e.since = c.since
        /\ e.roles = c.roles /\ e.endpoint = v /\ e.grants = c.grants
        /\ e = [kind |-> e.kind, key |-> e.key, since |-> e.since, roles |-> e.roles,
                endpoint |-> e.endpoint, grants |-> e.grants]
    BY DEF Learnt, CallRecord
  <2> HIDE DEF e
  <2>3. CallRecord(e)
    BY <2>1, <2>2 DEF Learnt, CallRecord
  <2>4. Learnt(e, req, bound, said, now)
    BY <2>1, <2>2, <2>3 DEF Learnt
  <2> QED
    BY <2>1, <2>4 DEF e
<1>2. CASE c.endpoint # None
  <2> DEFINE e == [c EXCEPT !.grants = v]
  <2>1. q = <<"object", c.roles, c.key>>
    BY <1>2 DEF Pending
  <2>2. /\ e.kind = c.kind /\ e.key = c.key /\ e.since = c.since
        /\ e.roles = c.roles /\ e.endpoint = c.endpoint /\ e.grants = v
        /\ e = [kind |-> e.kind, key |-> e.key, since |-> e.since, roles |-> e.roles,
                endpoint |-> e.endpoint, grants |-> e.grants]
    BY DEF Learnt, CallRecord
  <2> HIDE DEF e
  <2>3. CallRecord(e)
    BY <2>2 DEF Learnt, CallRecord
  <2>4. Learnt(e, req, bound, said, now)
    BY <2>1, <2>2, <2>3 DEF Learnt
  <2> QED
    BY <2>1, <2>4 DEF e
<1> QED
  BY <1>1, <1>2

LEMMA EndpointAnswers ==
  ASSUME NEW c, NEW d, NEW q, q[1] = "endpoint"
  PROVE  StoreAnswer(c, d, q) \in BOOLEAN
  BY DEF StoreAnswer, HasEndpointGrant

LEMMA LearnKeeps ==
  ASSUME Inv, CacheKnows', HeardKnows', NEW t \in Thread, call[t] # None,
         NEW q \in Pending(call[t]), NEW v, q[1] = "endpoint" => v \in BOOLEAN,
         Learn(t, q, v), Told(heard', current[t], call[t].since, Len(db), q, v),
         heard \subseteq heard', asking' = [asking EXCEPT ![t] = None],
         UNCHANGED <<db, current, outer, born, account, request, served, decided>>
  PROVE  Rest'
<1>1. CacheKnows /\ HeardKnows /\ Requests /\ Calls /\ Decisions /\ Reasons
  BY CacheTells DEF Inv
<1>2. Len(db)' = Len(db) /\ Len(db) \in Nat /\ account' \in Accounts
  BY <1>1 DEF CacheKnows, Requests
<1>3. \A r \in heard : r.at \in Nat
  BY <1>1 DEF HeardKnows
<1>4. ASSUME NEW u \in Thread
      PROVE  Learnt(call[u], request[u], current[u], heard', Len(db))
  <2>1. request[u] # None => request[u].since \in Nat
    BY <1>1, <1>2 DEF Requests, Serving
  <2>2. Learnt(call[u], request[u], current[u], heard, Len(db))
    BY <1>1 DEF Calls
  <2> QED
    BY <1>2, <1>3, <2>1, <2>2, LearntStays
<1> DEFINE told == IF q[1] = "endpoint" THEN [call[t] EXCEPT !.endpoint = v]
                                        ELSE [call[t] EXCEPT !.grants = v]
<1>5. Learnt(told, request[t], current[t], heard', Len(db))
  BY <1>2, <1>4, LearnsWhatIsTold
<1>6. call' = [call EXCEPT ![t] = told]
  BY DEF Learn
<1> HIDE DEF told
<1>7. call' = [u \in Thread |-> call'[u]] /\ call'[t] = told
      /\ \A u \in Thread : u # t => call'[u] = call[u]
  BY <1>1, <1>6 DEF Calls
<1>8. \A u \in Thread : Learnt(call'[u], request[u], current[u], heard', Len(db))
  BY <1>4, <1>5, <1>7
<1>9. \A u \in Thread : Asks(asking'[u], call'[u])
  <2>1. asking'[t] = None /\ \A u \in Thread : u # t => asking'[u] = asking[u]
    BY <1>1 DEF CacheKnows
  <2> QED
    BY <1>1, <1>7, <2>1 DEF Calls, Asks
<1>10. Calls'
  BY <1>2, <1>7, <1>8, <1>9 DEF Calls
<1> QED
  BY <1>1, <1>2, <1>10, RequestsFrame, DecisionsFrame, ReasonsFrame DEF Rest

(* The store answers a call.                                               *)
LEMMA StoreAnswersKeeps ==
  ASSUME Inv, CacheKnows', HeardKnows', NEW t \in Thread, StoreAnswers(t)
  PROVE  Rest'
<1>1. CacheKnows /\ Calls
  BY CacheTells DEF Inv
<1> DEFINE q == asking[t].question
           v == StoreAnswer(db[asking[t].since], db[Len(db)], q)
           r == [scope |-> current[t], question |-> q, value |-> v,
                 since |-> asking[t].since, at |-> Len(db)]
<1>2. /\ call[t] # None /\ asking[t] # None /\ Learn(t, q, v)
      /\ heard' = heard \cup {r} /\ asking' = [asking EXCEPT ![t] = None]
      /\ UNCHANGED <<db, current, outer, born, account, request, served, decided>>
  BY DEF StoreAnswers, Cache!Answered, Cache!Hear, Cache!Now
<1>3. q \in Pending(call[t]) /\ call[t].since <= asking[t].since
  BY <1>1, <1>2 DEF Calls, Asks
<1>4. asking[t].since <= Len(db) /\ Len(db) <= Len(db)
  BY <1>1, <1>2 DEF CacheKnows
<1>5. /\ r \in heard' /\ r.scope = current[t] /\ r.question = q /\ r.value = v
      /\ r.at = Len(db) /\ r.since = asking[t].since
  BY <1>2
<1>6. q[1] = "endpoint" => v \in BOOLEAN
  BY EndpointAnswers
<1> HIDE DEF q, v, r
<1>7. Told(heard', current[t], call[t].since, Len(db), q, v)
  BY <1>3, <1>4, <1>5 DEF Told
<1> QED
  BY <1>2, <1>3, <1>6, <1>7, LearnKeeps

(* The dict of the scope answers it.                                       *)
LEMMA RememberKeeps ==
  ASSUME Inv, CacheKnows', HeardKnows', NEW t \in Thread, Remember(t)
  PROVE  Rest'
<1>1. CacheKnows
  BY CacheTells DEF Inv
<1>2. PICK q \in Pending(call[t]) :
        Cache!Recall(t, q) /\ Learn(t, q, dict[current[t]][q])
  BY DEF Remember
<1> DEFINE v == dict[current[t]][q]
           r == [scope |-> current[t], question |-> q, value |-> v,
                 since |-> Len(db), at |-> Len(db)]
<1>3. /\ call[t] # None /\ asking[t] = None /\ current[t] # None /\ Learn(t, q, v)
      /\ heard' = heard \cup {r} /\ UNCHANGED asking
      /\ UNCHANGED <<db, current, outer, born, account, request, served, decided>>
  BY <1>2 DEF Remember, Cache!Recall, Cache!Hear, Cache!Remembered
<1>4. asking' = [asking EXCEPT ![t] = None]
  BY <1>1, <1>3 DEF CacheKnows
<1>5. Len(db) <= Len(db)
  BY <1>1 DEF CacheKnows
<1>6. r \in heard' /\ r.scope = current[t] /\ r.question = q /\ r.value = v /\ r.at = Len(db)
  BY <1>3
<1> HIDE DEF v, r
<1>7. Told(heard', current[t], call[t].since, Len(db), q, v)
  BY <1>3, <1>5, <1>6 DEF Told
<1>8. q[1] = "endpoint" => v \in BOOLEAN
  BY <1>3, <1>6, EndpointAnswers DEF HeardKnows
<1> QED
  BY <1>2, <1>3, <1>4, <1>7, <1>8, LearnKeeps

(* The call ends with nothing decided.                                     *)
LEMMA DroppedCall ==
  ASSUME Calls, CacheKnows, NEW t \in Thread, call' = [call EXCEPT ![t] = None],
         asking'[t] = None, \A u \in Thread : u # t => asking'[u] = asking[u],
         UNCHANGED <<db, heard, request, current>>
  PROVE  Calls'
<1>1. call' = [u \in Thread |-> call'[u]] /\ call'[t] = None
      /\ \A u \in Thread : u # t => call'[u] = call[u]
  BY DEF Calls
<1>2. \A u \in Thread : Asks(asking'[u], call'[u])
  BY <1>1 DEF Calls, Asks
<1>3. \A u \in Thread : Learnt(call'[u], request[u], current[u], heard, Len(db))
  BY <1>1 DEF Calls, Learnt
<1> QED
  BY <1>1, <1>2, <1>3 DEF Calls

LEMMA StoreFailsKeeps ==
  ASSUME Inv, CacheKnows', NEW t \in Thread, StoreFails(t)
  PROVE  Rest'
<1>1. CacheKnows /\ HeardKnows /\ Requests /\ Calls /\ Decisions /\ Reasons
  BY CacheTells DEF Inv
<1>2. /\ call' = [call EXCEPT ![t] = None] /\ asking' = [asking EXCEPT ![t] = None]
      /\ UNCHANGED <<db, current, outer, born, heard, account, request, served, decided>>
  BY DEF StoreFails, Cache!Failed
<1>3. asking'[t] = None /\ \A u \in Thread : u # t => asking'[u] = asking[u]
  BY <1>1, <1>2 DEF CacheKnows
<1>4. account' \in Accounts /\ Len(db) <= Len(db)'
  BY <1>1, <1>2 DEF Requests, CacheKnows
<1> QED
  BY <1>1, <1>2, <1>3, <1>4, DroppedCall, RequestsFrame, DecisionsFrame, ReasonsFrame
     DEF Rest

(* The record of a request whose roles are settled and calls counted.      *)
LEMMA CountedCall ==
  ASSUME NEW T, NEW f, f = [u \in T |-> f[u]], NEW t \in T, NEW given,
         NEW n, NEW roles, NEW since, NEW calls,
         f[t] = [id |-> n, roles |-> roles, since |-> since, calls |-> calls]
  PROVE  [f EXCEPT ![t].roles = given, ![t].calls = @ + 1]
           = [f EXCEPT ![t] = [id |-> f[t].id, roles |-> given,
                               since |-> f[t].since, calls |-> f[t].calls + 1]]
<1> DEFINE old == [id |-> n, roles |-> roles, since |-> since, calls |-> calls]
<1>1. [old EXCEPT !.roles = given]
        = [id |-> n, roles |-> given, since |-> since, calls |-> calls]
  OBVIOUS
<1>2. [[id |-> n, roles |-> given, since |-> since, calls |-> calls] EXCEPT !.calls = @ + 1]
        = [id |-> n, roles |-> given, since |-> since, calls |-> calls + 1]
  OBVIOUS
<1> DEFINE g == [f EXCEPT ![t].roles = given]
<1>3. g = [f EXCEPT ![t] = [id |-> n, roles |-> given, since |-> since, calls |-> calls]]
  BY <1>1
<1>4. /\ g = [u \in T |-> g[u]] /\ \A u \in T : u # t => g[u] = f[u]
      /\ g[t] = [id |-> n, roles |-> given, since |-> since, calls |-> calls]
  BY <1>3
<1>5. [f EXCEPT ![t].roles = given, ![t].calls = @ + 1]
        = [g EXCEPT ![t].calls = @ + 1]
  OBVIOUS
<1> HIDE DEF g
<1>6. [g EXCEPT ![t].calls = @ + 1]
        = [g EXCEPT ![t] = [id |-> n, roles |-> given, since |-> since, calls |-> calls + 1]]
  BY <1>2, <1>4
<1> QED
  BY <1>4, <1>5, <1>6

(* A call begins; the roles of the request are settled by then.            *)
LEMMA CallKeeps ==
  ASSUME Inv, CacheKnows', NEW t \in Thread, NEW kind \in {"endpoint", "scope"},
         NEW key \in Key, Call(t, kind, key)
  PROVE  Rest'
<1>1. CacheKnows /\ HeardKnows /\ Requests /\ Calls /\ Decisions /\ Reasons
  BY CacheTells DEF Inv
<1> USE PolicyCallsAssumption
<1> DEFINE old == request[t]
           new == [id |-> old.id, roles |-> RolesFor(old),
                   since |-> old.since, calls |-> old.calls + 1]
           c == [kind |-> kind, key |-> key, since |-> Len(db),
                 roles |-> RolesFor(old), endpoint |-> None, grants |-> None]
<1>2. /\ old # None /\ call[t] = None /\ call' = [call EXCEPT ![t] = c]
      /\ UNCHANGED <<db, current, outer, born, asking, heard, account, served, decided>>
  BY DEF Call, cacheVars
<1>3. /\ old \in [id : 1..served, roles : Accounts \cup {None}, since : 1..Len(db), calls : Nat]
      /\ current[t] # None => born[current[t]] = old.since
  BY <1>1, <1>2 DEF Requests, Serving
<1>4. RolesFor(old) \in Accounts /\ (old.roles # None => RolesFor(old) = old.roles)
  BY <1>1, <1>3 DEF RolesFor, Requests
<1>5. request' = [request EXCEPT ![t] = new]
  <2>1. request' = [request EXCEPT ![t].roles = RolesFor(request[t]), ![t].calls = @ + 1]
    BY DEF Call
  <2>2. request = [u \in Thread |-> request[u]]
    BY <1>1 DEF Requests
  <2>3. PICK n \in 1..served, roles \in Accounts \cup {None}, since \in 1..Len(db),
             calls \in Nat :
          request[t] = [id |-> n, roles |-> roles, since |-> since, calls |-> calls]
    BY <1>3
  <2>4. \A given : [request EXCEPT ![t].roles = given, ![t].calls = @ + 1]
                     = [request EXCEPT ![t] =
                          [id |-> request[t].id, roles |-> given,
                           since |-> request[t].since, calls |-> request[t].calls + 1]]
    BY <2>2, <2>3, CountedCall
  <2> QED
    BY <2>1, <2>4
<1>6. Len(db) \in Nat /\ Len(db) > 0 /\ served \in Nat /\ account' \in Accounts
  BY <1>1, <1>2 DEF CacheKnows, Requests
<1>7. /\ new \in [id : 1..served, roles : Accounts \cup {None}, since : 1..Len(db), calls : Nat]
      /\ new # None /\ new.id = old.id /\ new.roles = RolesFor(old) /\ new.since = old.since
  BY <1>3, <1>4, <1>6
<1>8. /\ c.roles = new.roles /\ c.since = Len(db) /\ c.endpoint = None
      /\ c.grants = None /\ CallRecord(c) /\ Len(db) \in new.since..Len(db)
  BY <1>3, <1>4, <1>6, <1>7 DEF CallRecord
<1> HIDE DEF new, c, old
<1>9. /\ request' = [u \in Thread |-> request'[u]] /\ request'[t] = new
      /\ \A u \in Thread : u # t => request'[u] = request[u]
      /\ call' = [u \in Thread |-> call'[u]] /\ call'[t] = c
      /\ \A u \in Thread : u # t => call'[u] = call[u]
  BY <1>1, <1>2, <1>5 DEF Requests, Calls
<1>10. \A u \in Thread : (request'[u] = None <=> request[u] = None)
                          /\ (request[u] # None => request'[u].id = request[u].id)
  BY <1>2, <1>7, <1>9 DEF old
<1>11. Requests'
  <2>1. \A u \in Thread : Serving(request[u], current[u], Len(db), served)'
    <3>1. ASSUME NEW u \in Thread, u # t
          PROVE  Serving(request[u], current[u], Len(db), served)'
      BY <1>1, <1>2, <1>9, <3>1 DEF Requests, Serving
    <3>2. Serving(request[t], current[t], Len(db), served)'
      BY <1>2, <1>3, <1>7, <1>9 DEF Serving
    <3> QED
      BY <3>1, <3>2
  <2>2. /\ request' = [u \in Thread |-> request'[u]] /\ \A s \in Scope : outer'[s] = None
        /\ \A u \in Thread : request'[u] = None => current'[u] = None
        /\ \A u, w \in Thread : (request'[u] # None /\ request'[w] # None
                                  /\ request'[u].id = request'[w].id) => u = w
    BY <1>1, <1>2, <1>9, <1>10 DEF Requests
  <2> QED
    BY <1>2, <1>6, <2>1, <2>2 DEF Requests
<1>12. Calls'
  <2>1. \A u \in Thread : Asks(asking'[u], call'[u])
    BY <1>1, <1>2, <1>9 DEF Calls, Asks
  <2>2. Learnt(c, new, current[t], heard, Len(db))
    BY <1>7, <1>8 DEF Learnt
  <2>3. \A u \in Thread : Learnt(call'[u], request'[u], current[u], heard, Len(db))
    BY <1>1, <1>9, <2>2 DEF Calls
  <2> QED
    BY <1>2, <1>9, <2>1, <2>3 DEF Calls
<1>13. Decisions'
  <2>1. \A d \in decided : d.request = new.id => d.roles = new.roles
    BY <1>1, <1>2, <1>4, <1>7 DEF Decisions, Decided, old
  <2>2. \A d \in decided, u \in Thread : request'[u] # None =>
          /\ d.request = request'[u].id => d.roles = request'[u].roles
          /\ (d.unit # None /\ d.unit = current[u]) => d.request = request'[u].id
    BY <1>1, <1>9, <1>10, <2>1 DEF Decisions
  <2>3. \A d \in decided : Decided(d, served)'
    BY <1>1, <1>2 DEF Decisions, Decided
  <2> QED
    BY <1>1, <1>2, <2>2, <2>3 DEF Decisions
<1> QED
  BY <1>1, <1>2, <1>11, <1>12, <1>13, ReasonsFrame DEF Rest

(* The call returns what it learnt amounts to.                             *)
LEMMA ReturnKeeps ==
  ASSUME Inv, CacheKnows', NEW t \in Thread, Return(t)
  PROVE  Rest'
<1>1. CacheKnows /\ HeardKnows /\ Requests /\ Calls /\ Decisions /\ Reasons
  BY CacheTells DEF Inv
<1> USE PolicyCallsAssumption
<1> DEFINE c == call[t]
           user == [super |-> FALSE, roles |-> c.roles]
           granted == c.endpoint = TRUE
           scope == IF c.kind = "scope"
                    THEN ResolveScope(Reg, user, c.key, granted,
                                      IF c.grants = None THEN <<>> ELSE c.grants)
                    ELSE IF CheckEndpoint(user, granted) THEN All ELSE Deny
           d == [request |-> request[t].id, unit |-> current[t], kind |-> c.kind,
                 key |-> c.key, roles |-> c.roles, scope |-> scope,
                 since |-> IF current[t] = None THEN c.since ELSE request[t].since,
                 at |-> Len(db)]
<1>2. /\ c # None /\ asking[t] = None /\ Pending(c) = {}
      /\ decided' = decided \cup {d} /\ call' = [call EXCEPT ![t] = None]
      /\ UNCHANGED <<db, current, outer, born, heard, asking, account, request, served>>
  BY DEF Return, Decide, cacheVars
<1>3. /\ request[t] # None
      /\ request[t].since \in Nat \ {0} /\ request[t].since <= Len(db)
      /\ c.since \in Nat /\ c.since <= Len(db) /\ Len(db) \in Nat
  BY <1>1, <1>2, CallSpan DEF CacheKnows
<1>4. Learnt(c, request[t], current[t], heard, Len(db))
  BY <1>1 DEF Calls
<1>5. /\ d.request = request[t].id /\ d.unit = current[t] /\ d.kind = c.kind /\ d.key = c.key
      /\ d.roles = c.roles /\ d.scope = scope /\ d.at = Len(db)
      /\ d.since = IF current[t] = None THEN c.since ELSE request[t].since
  OBVIOUS
<1>6. /\ c.roles = request[t].roles /\ c.roles \in Accounts /\ request[t].id \in 1..served
      /\ current[t] # None => current[t] \in Scope /\ born[current[t]] > 0
                               /\ born[current[t]] = request[t].since
  BY <1>1, <1>2, <1>3, <1>4 DEF Learnt, CallRecord, Requests, Serving, CacheKnows
<1>7. d.kind = "scope" => Justified(d, heard)
  <2> SUFFICES ASSUME c.kind = "scope" PROVE Justified(d, heard)
    BY <1>5
  <2>1. \A q, v : Told(heard, current[t], c.since, Len(db), q, v)
                    => Told(heard, d.unit, d.since, d.at, q, v)
    BY <1>5 DEF Told
  <2>2. d.scope = ResolveScope(Reg, user, c.key, granted,
                               IF c.grants = None THEN <<>> ELSE c.grants)
    BY <1>5
  <2>3. CASE c.roles = {}
    <3>1. d.scope = Resolved(d, FALSE, <<>>)
      BY <1>5, <2>2, <2>3 DEF Resolved, ResolveScope, CheckEndpoint
    <3> QED
      BY <1>5, <2>3, <3>1 DEF Justified
  <2>4. CASE c.roles # {} /\ c.endpoint = FALSE
    <3>1. d.scope = Resolved(d, FALSE, <<>>)
      BY <1>5, <2>2, <2>4 DEF Resolved, ResolveScope, CheckEndpoint
    <3>2. c.endpoint # None => Told(heard, d.unit, d.since, d.at,
                                    <<"endpoint", d.roles, d.key>>, c.endpoint)
      BY <1>2, <1>4, <1>5, <2>1 DEF Learnt
    <3>3. c.endpoint # None
      BY <1>2, <2>4 DEF Pending
    <3> QED
      BY <2>4, <3>1, <3>2, <3>3 DEF Justified
  <2>5. CASE c.roles # {} /\ c.endpoint = TRUE
    <3>1. c.endpoint # None /\ c.grants # None
      BY <1>2, <2>5 DEF Pending
    <3>2. /\ Told(heard, d.unit, d.since, d.at, <<"endpoint", d.roles, d.key>>, TRUE)
          /\ Told(heard, d.unit, d.since, d.at, <<"object", d.roles, d.key>>, c.grants)
      BY <1>2, <1>4, <1>5, <2>1, <2>5, <3>1 DEF Learnt
    <3>3. d.scope = Resolved(d, TRUE, c.grants)
      BY <1>5, <2>2, <2>5, <3>1 DEF Resolved
    <3> HIDE DEF d, c
    <3>4. PICK r \in heard : r.question = <<"object", d.roles, d.key>> /\ r.value = c.grants
      BY <3>2 DEF Told
    <3> QED
      BY <3>2, <3>3, <3>4 DEF Justified
  <2>6. c.roles # {} => c.endpoint \in BOOLEAN
    BY <1>2, <1>4 DEF Learnt, CallRecord, Pending
  <2> QED
    BY <2>3, <2>4, <2>5, <2>6
<1>8. Decided(d, served)
  BY <1>1, <1>3, <1>5, <1>6 DEF Decided
<1> HIDE DEF d, c, scope
<1>9. Reasons'
  <2>1. \A e \in ScopeDecisions : Justified(e, heard)
    BY <1>1 DEF Reasons
  <2> QED
    BY <1>2, <1>7, <2>1 DEF Reasons, ScopeDecisions
<1>10. Decisions'
  <2>1. \A e \in decided' : Decided(e, served)'
    BY <1>1, <1>2, <1>8 DEF Decisions, Decided
  <2>2. \A u \in Thread : request[u] # None =>
          /\ d.request = request[u].id => d.roles = request[u].roles
          /\ (d.unit # None /\ d.unit = current[u]) => d.request = request[u].id
    BY <1>1, <1>3, <1>5, <1>6 DEF Requests, CacheKnows
  <2>3. \A e \in decided : e.request = d.request => e.roles = d.roles
    BY <1>1, <1>3, <1>5, <1>6 DEF Decisions
  <2>4. \A e \in decided : (e.unit # None /\ e.unit = d.unit) => e.request = d.request
    BY <1>1, <1>3, <1>5 DEF Decisions
  <2> QED
    BY <1>1, <1>2, <2>1, <2>2, <2>3, <2>4 DEF Decisions
<1>11. Calls'
  BY <1>1, <1>2, DroppedCall
<1>12. Requests'
  BY <1>1, <1>2, RequestsFrame DEF Requests, CacheKnows
<1> QED
  BY <1>9, <1>10, <1>11, <1>12 DEF Rest

(* A request arrives, in a scope of its own or in none.                    *)
LEMMA ArriveKeeps ==
  ASSUME Inv, CacheKnows', NEW t \in Thread, Arrive(t)
  PROVE  Rest'
<1>1. CacheKnows /\ HeardKnows /\ Requests /\ Calls /\ Decisions /\ Reasons
  BY CacheTells DEF Inv
<1> USE PolicyCallsAssumption
<1> DEFINE new == [id |-> served + 1, roles |-> None, since |-> Len(db), calls |-> 0]
<1>2. /\ request[t] = None /\ request' = [request EXCEPT ![t] = new] /\ served' = served + 1
      /\ UNCHANGED <<db, asking, heard, account, call, decided>>
  BY DEF Arrive, Cache!Open, cacheVars
<1>3. /\ current[t] = None /\ served \in Nat /\ Len(db) \in Nat /\ Len(db) > 0
      /\ account' \in Accounts
  BY <1>1, <1>2 DEF Requests, CacheKnows
<1>4. /\ new \in [id : 1..(served + 1), roles : Accounts \cup {None},
                  since : 1..Len(db), calls : Nat]
      /\ new # None /\ new.id = served + 1 /\ new.roles = None /\ new.since = Len(db)
  BY <1>3
<1> HIDE DEF new
<1>5. /\ request' = [u \in Thread |-> request'[u]] /\ request'[t] = new
      /\ \A u \in Thread : u # t => request'[u] = request[u]
  BY <1>1, <1>2 DEF Requests
(* The scope is new: born a while ago, it would not be chosen.             *)
<1>6. /\ \A u \in Thread : u # t => current'[u] = current[u]
      /\ current'[t] # None => current'[t] \in Scope /\ born[current'[t]] = 0
                                /\ born'[current'[t]] = Len(db)
      /\ \A s \in Scope : born[s] > 0 => born'[s] = born[s]
      /\ \A s \in Scope : outer'[s] = None
  <2>1. CASE UNCHANGED cacheVars
    BY <1>1, <1>3, <2>1 DEF cacheVars, Requests
  <2>2. CASE Cache!Open(t)
    <3>1. PICK s \in Scope :
            /\ born[s] = 0
            /\ current' = [current EXCEPT ![t] = s]
            /\ outer' = [outer EXCEPT ![s] = current[t]]
            /\ born' = [born EXCEPT ![s] = Len(db)]
      BY <2>2 DEF Cache!Open
    <3>2. current'[t] = s /\ \A u \in Thread : u # t => current'[u] = current[u]
      BY <1>1, <3>1 DEF CacheKnows
    <3>3. born'[s] = Len(db) /\ \A x \in Scope : x # s => born'[x] = born[x]
      BY <1>1, <3>1 DEF CacheKnows
    <3>4. \A x \in Scope : outer'[x] = None
      BY <1>1, <1>3, <3>1 DEF Requests, CacheKnows
    <3> QED
      BY <1>3, <3>1, <3>2, <3>3, <3>4
  <2> QED
    BY <2>1, <2>2 DEF Arrive
<1>7. \A u \in Thread : current[u] # None => current[u] \in Scope /\ born[current[u]] > 0
  BY <1>1 DEF CacheKnows
<1>8. Requests'
  <2>1. \A u \in Thread : Serving(request[u], current[u], Len(db), served)'
    <3>1. ASSUME NEW u \in Thread, u # t
          PROVE  Serving(request[u], current[u], Len(db), served)'
      BY <1>1, <1>2, <1>3, <1>5, <1>6, <1>7, <3>1 DEF Requests, Serving
    <3>2. Serving(request[t], current[t], Len(db), served)'
      BY <1>2, <1>4, <1>5, <1>6 DEF Serving
    <3> QED
      BY <3>1, <3>2
  <2>2. \A u \in Thread : request[u] # None => request[u].id \in 1..served
    BY <1>1 DEF Requests, Serving
  <2>3. \A u, w \in Thread : (request'[u] # None /\ request'[w] # None
                               /\ request'[u].id = request'[w].id) => u = w
    BY <1>1, <1>3, <1>4, <1>5, <2>2 DEF Requests
  <2>4. \A u \in Thread : request'[u] = None => current'[u] = None
    BY <1>1, <1>4, <1>5, <1>6 DEF Requests
  <2> QED
    BY <1>2, <1>3, <1>5, <1>6, <2>1, <2>3, <2>4 DEF Requests
<1>9. call[t] = None
  BY <1>1, <1>2 DEF Calls, Learnt
<1>10. Calls'
  <2>1. \A u \in Thread : Learnt(call[u], request'[u], current'[u], heard, Len(db))
    BY <1>1, <1>5, <1>6, <1>9 DEF Calls, Learnt
  <2> QED
    BY <1>1, <1>2, <2>1 DEF Calls
<1>11. Decisions'
  <2>1. \A d \in decided : Decided(d, served)'
    BY <1>1, <1>2, <1>3, <1>6 DEF Decisions, Decided
  <2>2. \A d \in decided : d.request # new.id /\ (d.unit # None => d.unit # current'[t])
    BY <1>1, <1>3, <1>4, <1>6 DEF Decisions, Decided
  <2>3. \A d \in decided, u \in Thread : request'[u] # None =>
          /\ d.request = request'[u].id => d.roles = request'[u].roles
          /\ (d.unit # None /\ d.unit = current'[u]) => d.request = request'[u].id
    BY <1>1, <1>5, <1>6, <2>2 DEF Decisions
  <2> QED
    BY <1>1, <1>2, <2>1, <2>3 DEF Decisions
<1>12. Reasons'
  BY <1>1, <1>2, ReasonsFrame
<1> QED
  BY <1>8, <1>10, <1>11, <1>12 DEF Rest

(* The response is returned; the scope, if there was one, is closed.       *)
LEMMA LeaveKeeps ==
  ASSUME Inv, CacheKnows', NEW t \in Thread, Leave(t)
  PROVE  Rest'
<1>1. CacheKnows /\ HeardKnows /\ Requests /\ Calls /\ Decisions /\ Reasons
  BY CacheTells DEF Inv
<1>2. /\ request[t] # None /\ call[t] = None /\ request' = [request EXCEPT ![t] = None]
      /\ UNCHANGED <<db, asking, born, heard, account, served, call, decided>>
  BY DEF Leave, Cache!Close, cacheVars
<1>3. /\ current'[t] = None /\ \A u \in Thread : u # t => current'[u] = current[u]
      /\ \A s \in Scope : outer'[s] = None
  <2>1. CASE current[t] = None /\ UNCHANGED cacheVars
    BY <1>1, <2>1 DEF cacheVars, Requests
  <2>2. CASE Cache!Close(t)
    <3>1. /\ current[t] # None
          /\ current' = [current EXCEPT ![t] = outer[current[t]]]
          /\ outer' = [outer EXCEPT ![current[t]] = None]
      BY <2>2 DEF Cache!Close
    <3> QED
      BY <1>1, <3>1 DEF CacheKnows, Requests
  <2> QED
    BY <2>1, <2>2 DEF Leave
<1>4. /\ request' = [u \in Thread |-> request'[u]] /\ request'[t] = None
      /\ \A u \in Thread : u # t => request'[u] = request[u]
  BY <1>1, <1>2 DEF Requests
<1>5. Requests'
  <2>1. \A u \in Thread : Serving(request[u], current[u], Len(db), served)'
    BY <1>1, <1>2, <1>3, <1>4 DEF Requests, Serving
  <2>2. \A u \in Thread : request'[u] = None => current'[u] = None
    BY <1>1, <1>3, <1>4 DEF Requests
  <2>3. \A u, w \in Thread : (request'[u] # None /\ request'[w] # None
                               /\ request'[u].id = request'[w].id) => u = w
    BY <1>1, <1>4 DEF Requests
  <2> QED
    BY <1>1, <1>2, <1>3, <1>4, <2>1, <2>2, <2>3 DEF Requests
<1>6. Calls'
  <2>1. \A u \in Thread : Learnt(call[u], request'[u], current'[u], heard, Len(db))
    BY <1>1, <1>2, <1>3, <1>4 DEF Calls, Learnt
  <2> QED
    BY <1>1, <1>2, <2>1 DEF Calls
<1>7. Decisions'
  BY <1>1, <1>2, <1>3, <1>4 DEF Decisions, Decided
<1>8. Reasons'
  BY <1>1, <1>2, ReasonsFrame
<1> QED
  BY <1>5, <1>6, <1>7, <1>8 DEF Rest

-----------------------------------------------------------------------------
LEMMA NextInv == Inv /\ [Next]_vars => Inv'
<1> SUFFICES ASSUME Inv, [Next]_vars PROVE Inv'
  OBVIOUS
<1>1. CacheInv'
  BY CacheSteps DEF Inv
<1>2. CacheKnows' /\ HeardKnows'
  BY <1>1, CacheTells, PTL
<1>3. Rest'
  <2>1. CASE Edit \/ Reassign \/ UNCHANGED vars
    BY <1>2, <2>1, OutsideKeeps
  <2>2. ASSUME NEW t \in Thread, Arrive(t) PROVE Rest'
    BY <1>2, <2>2, ArriveKeeps
  <2>3. ASSUME NEW t \in Thread, Leave(t) PROVE Rest'
    BY <1>2, <2>3, LeaveKeeps
  <2>4. ASSUME NEW t \in Thread, NEW kind \in {"endpoint", "scope"}, NEW key \in Key,
               Call(t, kind, key)
        PROVE  Rest'
    BY <1>2, <2>4, CallKeeps
  <2>5. ASSUME NEW t \in Thread, AskStore(t) PROVE Rest'
    BY <1>2, <2>5, AskStoreKeeps
  <2>6. ASSUME NEW t \in Thread, StoreAnswers(t) PROVE Rest'
    BY <1>2, <2>6, StoreAnswersKeeps
  <2>7. ASSUME NEW t \in Thread, Remember(t) PROVE Rest'
    BY <1>2, <2>7, RememberKeeps
  <2>8. ASSUME NEW t \in Thread, StoreFails(t) PROVE Rest'
    BY <1>2, <2>8, StoreFailsKeeps
  <2>9. ASSUME NEW t \in Thread, Return(t) PROVE Rest'
    BY <1>2, <2>9, ReturnKeeps
  <2> QED
    BY <2>1, <2>2, <2>3, <2>4, <2>5, <2>6, <2>7, <2>8, <2>9 DEF Next
<1> QED
  BY <1>1, <1>3 DEF Inv, Rest

(* PolicyCalls (resolver.py, cache.py): the cache keeps its invariant      *)
(* under the calls of the policy, and every decision rests on answers of   *)
(* its own scope or, without one, of its own call.                         *)
THEOREM Invariance == Spec => []Inv
  BY InitInv, NextInv, PTL DEF Spec

(* resolver.py:102-112: "the acting user's roles, resolved once per user   *)
(* object".                                                                *)
THEOREM OneIdentity == Spec => []OneIdentityPerRequest
<1>1. Inv => OneIdentityPerRequest
  BY DEF Inv, Decisions, OneIdentityPerRequest
<1> QED
  BY <1>1, Invariance, PTL

(* drf.py:128-130: "the list and the detail cannot disagree".  A scope     *)
(* belongs to one request, whose roles are settled; so two resolutions of  *)
(* one key ask the same questions, and each has one answer in the scope.   *)
THEOREM ListAndDetail == Spec => []ListAndDetailAgree
<1>1. ASSUME Inv, NEW d \in ScopeDecisions, NEW e \in ScopeDecisions,
             d.unit # None, d.unit = e.unit, d.key = e.key
      PROVE  d.scope = e.scope
  <2>1. HeardKnows /\ Decisions /\ Reasons
    BY <1>1, CacheTells DEF Inv
  <2>2. d.roles = e.roles
    BY <1>1, <2>1 DEF Decisions, ScopeDecisions
  <2>3. \A endpoint, grants : Resolved(d, endpoint, grants) = Resolved(e, endpoint, grants)
    BY <1>1, <2>2 DEF Resolved
  <2>4. Justified(d, heard) /\ Justified(e, heard)
    BY <2>1 DEF Reasons
  <2>5. \A since, at, late, later, q, v, w :
          (Told(heard, d.unit, since, at, q, v) /\ Told(heard, e.unit, late, later, q, w))
            => v = w /\ q \in Question
    BY <1>1, <2>1 DEF Told, HeardKnows
  <2> DEFINE Refused(x) == \/ x.roles = {}
                           \/ Told(heard, x.unit, x.since, x.at,
                                   <<"endpoint", x.roles, x.key>>, FALSE)
             Reached(x) == Told(heard, x.unit, x.since, x.at,
                                <<"endpoint", x.roles, x.key>>, TRUE)
  <2>6. ~(Refused(d) /\ Reached(e)) /\ ~(Refused(e) /\ Reached(d))
    <3>1. \A x : x.roles = {} => <<"endpoint", x.roles, x.key>> \notin Question
      BY DEF Question
    <3>2. \A x : Reached(x) => <<"endpoint", x.roles, x.key>> \in Question
      BY <2>1 DEF Told, HeardKnows
    <3> DEFINE q == <<"endpoint", d.roles, d.key>>
    <3>3. q = <<"endpoint", e.roles, e.key>>
      BY <1>1, <2>2
    <3>4. d.roles # {} \/ (~Reached(d) /\ ~Reached(e))
      BY <2>2, <3>1, <3>2, Zenon
    <3>5. \A v, w : (Told(heard, d.unit, d.since, d.at, q, v)
                      /\ Told(heard, e.unit, e.since, e.at, q, w)) => v = w
      BY <2>5
    <3>6. /\ ~(/\ Told(heard, d.unit, d.since, d.at, q, FALSE)
               /\ Told(heard, e.unit, e.since, e.at, q, TRUE))
          /\ ~(/\ Told(heard, d.unit, d.since, d.at, q, TRUE)
               /\ Told(heard, e.unit, e.since, e.at, q, FALSE))
      BY <3>5, Zenon
    <3> QED
      BY <2>2, <3>3, <3>4, <3>5, <3>6, Zenon
  <2>7. CASE Refused(d) /\ Refused(e)
    <3>1. ~Reached(d) /\ ~Reached(e)
      BY <2>6, <2>7
    <3>2. d.scope = Resolved(d, FALSE, <<>>) /\ e.scope = Resolved(e, FALSE, <<>>)
      BY <2>4, <3>1 DEF Justified
    <3> QED
      BY <2>3, <3>2
  <2>8. CASE Reached(d) /\ Reached(e)
    <3>1. ~Refused(d) /\ ~Refused(e)
      BY <2>6, <2>8
    <3>2. PICK r \in heard :
            /\ r.question = <<"object", d.roles, d.key>>
            /\ Told(heard, d.unit, d.since, d.at, r.question, r.value)
            /\ d.scope = Resolved(d, TRUE, r.value)
      BY <2>4, <3>1 DEF Justified
    <3>3. PICK x \in heard :
            /\ x.question = <<"object", e.roles, e.key>>
            /\ Told(heard, e.unit, e.since, e.at, x.question, x.value)
            /\ e.scope = Resolved(e, TRUE, x.value)
      BY <2>4, <3>1 DEF Justified
    <3>4. r.value = x.value
      BY <1>1, <2>2, <2>5, <3>2, <3>3
    <3> QED
      BY <2>3, <3>2, <3>3, <3>4
  <2>9. (Refused(d) \/ Reached(d)) /\ (Refused(e) \/ Reached(e))
    BY <2>4 DEF Justified
  <2> QED
    BY <2>6, <2>7, <2>8, <2>9
<1>2. Inv => ListAndDetailAgree
  BY <1>1 DEF ListAndDetailAgree
<1> QED
  BY <1>2, Invariance, PTL

(* What was told was so at some moment of the span of the decision.        *)
LEMMA ToldWasSo ==
  ASSUME Inv, NEW d \in ScopeDecisions, NEW q, NEW v,
         Told(heard, d.unit, d.since, d.at, q, v)
  PROVE  \E i, j \in d.since..d.at : v = StoreAnswer(db[i], db[j], q)
<1>1. HeardKnows /\ Decided(d, served)
  BY CacheTells DEF Inv, Decisions, ScopeDecisions
<1>2. PICK r \in heard :
        /\ r.scope = d.unit /\ r.question = q /\ r.value = v /\ r.at <= d.at
        /\ d.unit = None => d.since <= r.since /\ r.since <= r.at
  BY DEF Told
<1>3. r.since \in Nat /\ r.at \in Nat
  BY <1>1 DEF HeardKnows
<1>4. CASE d.unit # None
  <2>1. PICK i \in born[r.scope]..r.at, j \in born[r.scope]..r.at :
          r.value = StoreAnswer(db[i], db[j], r.question)
    BY <1>1, <1>2, <1>4 DEF HeardKnows
  <2>2. born[r.scope] = d.since
    BY <1>1, <1>2, <1>4 DEF Decided
  <2>3. i \in d.since..d.at /\ j \in d.since..d.at
    BY <1>1, <1>2, <1>3, <2>2 DEF Decided
  <2> QED
    BY <1>2, <2>1, <2>3
<1>5. CASE d.unit = None
  <2>1. r.value = StoreAnswer(db[r.since], db[r.at], r.question)
    BY <1>1, <1>2, <1>5 DEF HeardKnows
  <2>2. r.since \in d.since..d.at /\ r.at \in d.since..d.at
    BY <1>1, <1>2, <1>3, <1>5 DEF Decided
  <2> QED
    BY <1>2, <2>1, <2>2
<1> QED
  BY <1>4, <1>5

LEMMA NoRowsUnlessGranted ==
  ASSUME NEW d
  PROVE  /\ RowsIn(Resolved(d, FALSE, <<>>)) = {}
         /\ RowsIn(Resolved(d, TRUE, <<>>)) = {}
<1>1. ASSUME NEW endpoint \in BOOLEAN
      PROVE  Resolved(d, endpoint, <<>>) \in {UnknownKey, Deny}
  BY DEF Resolved, ResolveScope
<1>2. RowsIn(UnknownKey) = {} /\ RowsIn(Deny) = {}
  BY DEF RowsIn, UnknownKey, Deny
<1> QED
  BY <1>1, <1>2

(* resolver.py:187-197, cache.py:75-77: rows are only shown under an       *)
(* endpoint and under a rule that were granted at some moment since the    *)
(* scope, or the call, began.                                              *)
THEOREM RowsGranted == Spec => []RowsWereGranted
<1>1. ASSUME Inv, NEW d \in ScopeDecisions, RowsIn(d.scope) # {}
      PROVE  /\ \E i \in d.since..d.at : HasEndpointGrant(db[i], d.roles, d.key)
             /\ \E i \in d.since..d.at : RulesFor(db[i], d.roles, d.key) # <<>>
  <2>1. Justified(d, heard)
    BY <1>1 DEF Inv, Reasons
  <2>2. d.scope # Resolved(d, FALSE, <<>>)
    BY <1>1, NoRowsUnlessGranted
  <2>3. Told(heard, d.unit, d.since, d.at, <<"endpoint", d.roles, d.key>>, TRUE)
    BY <2>1, <2>2 DEF Justified
  <2>4. PICK r \in heard :
          /\ r.question = <<"object", d.roles, d.key>>
          /\ Told(heard, d.unit, d.since, d.at, r.question, r.value)
          /\ d.scope = Resolved(d, TRUE, r.value)
    BY <2>1, <2>2 DEF Justified
  <2>5. r.value # <<>>
    BY <1>1, <2>4, NoRowsUnlessGranted
  <2>6. PICK i \in d.since..d.at, j \in d.since..d.at :
          TRUE = StoreAnswer(db[i], db[j], <<"endpoint", d.roles, d.key>>)
    <3>1. \A q, v : Told(heard, d.unit, d.since, d.at, q, v) =>
            \E i, j \in d.since..d.at : v = StoreAnswer(db[i], db[j], q)
      BY <1>1, ToldWasSo
    <3> QED
      BY <2>3, <3>1, Zenon
  <2>7. HasEndpointGrant(db[i], d.roles, d.key)
    BY <2>6 DEF StoreAnswer
  <2>8. PICK m \in d.since..d.at, n \in d.since..d.at :
          r.value = StoreAnswer(db[m], db[n], <<"object", d.roles, d.key>>)
    BY <1>1, <2>4, ToldWasSo
  <2>9. r.value = WithConditions(db[n], RulesFor(db[m], d.roles, d.key))
    BY <2>8 DEF StoreAnswer
  <2>10. \A c : WithConditions(c, <<>>) = <<>>
    BY DEF WithConditions
  <2>11. RulesFor(db[m], d.roles, d.key) # <<>>
    BY <2>5, <2>9, <2>10
  <2> QED
    BY <2>7, <2>11
<1>2. Inv => RowsWereGranted
  BY <1>1 DEF RowsWereGranted
<1> QED
  BY <1>2, Invariance, PTL
=============================================================================
