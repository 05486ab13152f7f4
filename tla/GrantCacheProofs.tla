-------------------------- MODULE GrantCacheProofs --------------------------
(***************************************************************************)
(* Proofs about GrantCache for any threads, questions, configurations and  *)
(* scopes.  The inductive invariant Inv adds to the checked properties     *)
(* what relates the dicts, the tokens and the answers:                     *)
(*   - only opened scopes are bound, saved in a token, filled or cited;    *)
(*   - a scope is held once: by one thread or by one unspent token, so no  *)
(*     other thread fills a dict while a call of produce() runs;           *)
(*   - a dict holds exactly the answers given in its scope, each of them   *)
(*     read from a configuration no older than the scope.                  *)
(***************************************************************************)
EXTENDS GrantCache, TLAPS

Allocated ==
  /\ \A t \in Thread : current[t] # None => born[current[t]] > 0
  /\ \A s \in Scope : outer[s] # None => born[s] > 0 /\ born[outer[s]] > 0
  /\ \A s \in Scope : born[s] <= Len(db)
  /\ \A s \in Scope : born[s] = 0 => dict[s] = Empty
  /\ \A r \in heard : r.since <= Len(db) /\ r.at <= Len(db)
  /\ \A r \in heard : r.scope # None => born[r.scope] > 0

HeldOnce ==
  /\ PrivateScope
  /\ \A x, y \in Scope : (outer[x] # None /\ outer[x] = outer[y]) => x = y
  /\ \A t \in Thread, x \in Scope : current[t] # None => current[t] # outer[x]

(* A call of produce() runs for a key its scope still lacks, and began in  *)
(* that scope.                                                             *)
CallsInProgress ==
  \A t \in Thread :
    asking[t] # None =>
      /\ 0 < asking[t].since /\ asking[t].since <= Len(db)
      /\ ~Remembered(t, asking[t].question)
      /\ current[t] # None => born[current[t]] <= asking[t].since

(* A call's value, read from configurations i and j of the span lo..hi.    *)
ReadWithin(lo, hi, v, q) ==
  \E i, j \in lo..hi : 0 < i /\ i <= j /\ v = Answer(db[i], db[j], q)

RememberedFromThisScope ==
  \A s \in Scope, q \in Question :
    dict[s][q] # Absent => ReadWithin(born[s], Len(db), dict[s][q], q)

HeardIsRemembered ==
  \A r \in heard : r.scope # None => dict[r.scope][r.question] = r.value

RememberedWasHeard ==
  \A s \in Scope, q \in Question :
    dict[s][q] # Absent =>
      \E r \in heard : r.scope = s /\ r.question = q /\ r.value = dict[s][q]

Inv ==
  /\ TypeOK
  /\ Allocated
  /\ HeldOnce
  /\ CallerUntouched
  /\ CallsInProgress
  /\ RememberedFromThisScope
  /\ HeardIsRemembered
  /\ RememberedWasHeard
  /\ AnswersFromThisScope
  /\ CurrentOutsideScopes

-----------------------------------------------------------------------------
(* The current configuration is one of the committed ones.                 *)
LEMMA NowIsConfig ==
  ASSUME TypeOK
  PROVE  Now \in Config /\ Len(db) \in Nat /\ Len(db) > 0
  BY DEF TypeOK, Now

(* The store's answers are values, so never Absent.                        *)
LEMMA AnswerIsValue ==
  ASSUME TypeOK, NEW i \in 1..Len(db), NEW j \in 1..Len(db), NEW q \in Question
  PROVE  Answer(db[i], db[j], q) \in Value \ {Absent}
  BY ConstantsAssumption DEF TypeOK

LEMMA InitInv == Init => Inv
<1> SUFFICES ASSUME Init PROVE Inv
  OBVIOUS
<1> USE ConstantsAssumption
<1>1. TypeOK
  <2>1. PICK c \in Config : db = <<c>>
    BY DEF Init
  <2>2. db \in Seq(Config) /\ db # <<>>
    BY <2>1
  <2>3. Empty \in [Question -> Value \cup {Absent}]
    BY DEF Empty
  <2> QED
    BY <2>2, <2>3 DEF Init, TypeOK
<1>2. Allocated
  BY <1>1 DEF Init, Allocated, TypeOK
<1>3. HeldOnce /\ CallerUntouched /\ CallsInProgress
  BY DEF Init, HeldOnce, PrivateScope, CallerUntouched, CallsInProgress
<1>4. RememberedFromThisScope /\ RememberedWasHeard
  BY DEF Init, RememberedFromThisScope, RememberedWasHeard, Empty
<1>5. HeardIsRemembered /\ AnswersFromThisScope /\ CurrentOutsideScopes
  BY DEF Init, HeardIsRemembered, AnswersFromThisScope, CurrentOutsideScopes
<1> QED
  BY <1>1, <1>2, <1>3, <1>4, <1>5 DEF Inv

-----------------------------------------------------------------------------
(* Opening a scope binds a dict nobody holds.                              *)
LEMMA OpenInv ==
  ASSUME Inv, NEW t \in Thread, Open(t)
  PROVE  Inv'
<1> USE ConstantsAssumption DEF Inv
<1>1. PICK s \in Scope :
        /\ born[s] = 0
        /\ current' = [current EXCEPT ![t] = s]
        /\ outer' = [outer EXCEPT ![s] = current[t]]
        /\ dict' = [dict EXCEPT ![s] = Empty]
        /\ born' = [born EXCEPT ![s] = Len(db)]
        /\ held' = [held EXCEPT ![s] = IF current[t] = None THEN Empty
                                                           ELSE dict[current[t]]]
        /\ UNCHANGED <<db, asking, heard>>
        /\ asking[t] = None
  BY DEF Open
<1>2. Len(db) \in Nat /\ Len(db) > 0
  BY NowIsConfig
<1>3. dict' = dict
  BY <1>1 DEF TypeOK, Allocated
<1>4. TypeOK'
  BY <1>1, <1>2 DEF TypeOK, Empty
<1>5. Allocated'
  BY <1>1, <1>2, <1>3 DEF TypeOK, Allocated
<1>6. HeldOnce'
  BY <1>1 DEF TypeOK, Allocated, HeldOnce, PrivateScope
<1>7. CallerUntouched'
  BY <1>1, <1>3 DEF TypeOK, Allocated, CallerUntouched
<1>8. RememberedFromThisScope' /\ RememberedWasHeard'
  BY <1>1, <1>3 DEF TypeOK, Allocated, RememberedFromThisScope, ReadWithin,
                    RememberedWasHeard, Empty
<1>9. HeardIsRemembered' /\ AnswersFromThisScope' /\ CurrentOutsideScopes'
  BY <1>1, <1>3 DEF TypeOK, Allocated, HeardIsRemembered, AnswersFromThisScope,
                    CurrentOutsideScopes, Reply
<1>10. CallsInProgress'
  BY <1>1, <1>3 DEF TypeOK, Allocated, CallsInProgress, Remembered
<1> QED
  BY <1>4, <1>5, <1>6, <1>7, <1>8, <1>9, <1>10

(* Closing one hands the saved binding back from its token to the thread.  *)
LEMMA CloseInv ==
  ASSUME Inv, NEW t \in Thread, Close(t)
  PROVE  Inv'
<1> USE ConstantsAssumption DEF Inv, Close
<1>1. current[t] \in Scope
  BY DEF TypeOK
<1>2. TypeOK'
  BY <1>1 DEF TypeOK
<1>3. Allocated'
  BY <1>1 DEF TypeOK, Allocated
<1>4. HeldOnce'
  BY <1>1 DEF TypeOK, HeldOnce, PrivateScope
<1>5. CallerUntouched'
  BY <1>1 DEF TypeOK, CallerUntouched
<1>6. RememberedFromThisScope' /\ RememberedWasHeard' /\ HeardIsRemembered'
  BY DEF RememberedFromThisScope, ReadWithin, RememberedWasHeard,
         HeardIsRemembered
<1>7. AnswersFromThisScope' /\ CurrentOutsideScopes'
  BY DEF AnswersFromThisScope, CurrentOutsideScopes
<1>8. CallsInProgress'
  BY <1>1 DEF TypeOK, CallsInProgress, Remembered
<1> QED
  BY <1>2, <1>3, <1>4, <1>5, <1>6, <1>7, <1>8

(* A call begins only for a key the dict lacks.                            *)
LEMMA AskInv ==
  ASSUME Inv, NEW t \in Thread, NEW q \in Question, Ask(t, q)
  PROVE  Inv'
<1> USE ConstantsAssumption DEF Inv, Ask
<1>1. Len(db) \in Nat /\ Len(db) > 0
  BY NowIsConfig
<1>2. TypeOK'
  BY <1>1 DEF TypeOK
<1>3. CallsInProgress'
  <2>1. current[t] # None => born[current[t]] <= Len(db)
    BY DEF TypeOK, Allocated
  <2> QED
    BY <1>1, <2>1 DEF TypeOK, CallsInProgress, Remembered
<1>4. Allocated' /\ HeldOnce' /\ CallerUntouched'
  BY DEF Allocated, HeldOnce, PrivateScope, CallerUntouched
<1>5. RememberedFromThisScope' /\ RememberedWasHeard' /\ HeardIsRemembered'
  BY DEF RememberedFromThisScope, ReadWithin, RememberedWasHeard,
         HeardIsRemembered
<1>6. AnswersFromThisScope' /\ CurrentOutsideScopes'
  BY DEF AnswersFromThisScope, CurrentOutsideScopes
<1> QED
  BY <1>2, <1>3, <1>4, <1>5, <1>6

(* A call that raises leaves everything as if it had not been made.        *)
LEMMA FailedInv ==
  ASSUME Inv, NEW t \in Thread, Failed(t)
  PROVE  Inv'
<1> USE ConstantsAssumption DEF Inv, Failed
<1>1. TypeOK'
  BY DEF TypeOK
<1>2. CallsInProgress'
  BY DEF TypeOK, CallsInProgress, Remembered
<1>3. Allocated' /\ HeldOnce' /\ CallerUntouched'
  BY DEF Allocated, HeldOnce, PrivateScope, CallerUntouched
<1>4. RememberedFromThisScope' /\ RememberedWasHeard' /\ HeardIsRemembered'
  BY DEF RememberedFromThisScope, ReadWithin, RememberedWasHeard,
         HeardIsRemembered
<1>5. AnswersFromThisScope' /\ CurrentOutsideScopes'
  BY DEF AnswersFromThisScope, CurrentOutsideScopes
<1> QED
  BY <1>1, <1>2, <1>3, <1>4, <1>5

(* A finished call settles the answer of its scope and of no other.        *)
LEMMA AnsweredInv ==
  ASSUME Inv, NEW t \in Thread, Answered(t)
  PROVE  Inv'
<1> DEFINE s == current[t]
           q == asking[t].question
           since == asking[t].since
           v == Answer(db[since], db[Len(db)], q)
           r0 == [scope |-> s, question |-> q, value |-> v,
                  since |-> since, at |-> Len(db)]
<1> USE ConstantsAssumption DEF Inv
<1>1. /\ asking[t] # None
      /\ dict' = IF s = None THEN dict ELSE [dict EXCEPT ![s][q] = v]
      /\ heard' = heard \cup {r0}
      /\ asking' = [asking EXCEPT ![t] = None]
      /\ UNCHANGED <<db, current, outer, born, held>>
  BY DEF Answered, Hear, Now
<1>2. /\ Len(db) \in Nat /\ Len(db) > 0
      /\ since \in 1..Len(db)
      /\ q \in Question
      /\ s \in Scope \cup {None}
      /\ s # None => s \in Scope /\ dict[s][q] = Absent /\ born[s] \in 1..since
  BY <1>1, NowIsConfig DEF TypeOK, CallsInProgress, Remembered, Allocated
<1>3. v \in Value /\ v # Absent
  BY <1>2, AnswerIsValue
<1>4. \A x \in Scope, p \in Question :
        dict'[x][p] = IF x = s /\ p = q THEN v ELSE dict[x][p]
  BY <1>1, <1>2 DEF TypeOK
<1>5. \A x \in Scope : x # s => dict'[x] = dict[x]
  BY <1>1, <1>2 DEF TypeOK
<1>6. r0.scope = s /\ r0.question = q /\ r0.value = v /\ r0.since = since
        /\ r0.at = Len(db)
  OBVIOUS
<1>7. TypeOK'
  <2>1. r0 \in Reply
    BY <1>2, <1>3 DEF Reply
  <2>2. dict' \in [Scope -> [Question -> Value \cup {Absent}]]
    BY <1>1, <1>2, <1>3 DEF TypeOK
  <2> HIDE DEF r0
  <2> QED
    BY <1>1, <2>1, <2>2 DEF TypeOK
<1> HIDE DEF v, r0
<1>8. Allocated'
  <2>1. \A x \in Scope : born[x] = 0 => dict'[x] = Empty
    BY <1>2, <1>5 DEF Allocated
  <2>2. \A r \in heard' : /\ r.since <= Len(db) /\ r.at <= Len(db)
                          /\ r.scope # None => born[r.scope] > 0
    BY <1>1, <1>2, <1>6 DEF Allocated
  <2> QED
    BY <1>1, <2>1, <2>2 DEF Allocated
<1>9. HeldOnce'
  BY <1>1 DEF HeldOnce, PrivateScope
<1>10. CallerUntouched'
  <2>1. \A x \in Scope : outer[x] # None => outer[x] # s /\ outer[x] \in Scope
    BY DEF HeldOnce, TypeOK
  <2> QED
    BY <1>1, <1>5, <2>1 DEF CallerUntouched
<1>11. CallsInProgress'
  <2> SUFFICES ASSUME NEW u \in Thread, (asking[u] # None)'
               PROVE  (/\ 0 < asking[u].since /\ asking[u].since <= Len(db)
                       /\ ~Remembered(u, asking[u].question)
                       /\ current[u] # None => born[current[u]] <= asking[u].since)'
    BY DEF CallsInProgress
  <2>1. u # t /\ asking'[u] = asking[u]
    BY <1>1 DEF TypeOK
  <2>2. current[u] # None => current[u] # s /\ current[u] \in Scope
    BY <2>1 DEF HeldOnce, PrivateScope, TypeOK
  <2>3. ~Remembered(u, asking[u].question)'
    BY <1>1, <1>5, <2>1, <2>2 DEF CallsInProgress, Remembered
  <2> QED
    BY <1>1, <2>1, <2>3 DEF CallsInProgress
<1>12. RememberedFromThisScope'
  <2> SUFFICES ASSUME NEW x \in Scope, NEW p \in Question, dict'[x][p] # Absent
               PROVE  ReadWithin(born[x], Len(db), dict'[x][p], p)
    BY <1>1 DEF RememberedFromThisScope, ReadWithin
  <2>1. CASE x = s /\ p = q
    <3>1. since \in born[s]..Len(db) /\ Len(db) \in born[s]..Len(db) /\ 0 < since
      BY <1>2, <2>1 DEF TypeOK
    <3>2. v = Answer(db[since], db[Len(db)], q) /\ since <= Len(db)
      BY <1>2 DEF v
    <3> QED
      BY <1>4, <2>1, <3>1, <3>2 DEF ReadWithin
  <2>2. CASE ~(x = s /\ p = q)
    BY <1>4, <2>2 DEF RememberedFromThisScope
  <2> QED
    BY <2>1, <2>2
<1>13. RememberedWasHeard'
  <2> SUFFICES ASSUME NEW x \in Scope, NEW p \in Question, dict'[x][p] # Absent
               PROVE  \E r \in heard' :
                         r.scope = x /\ r.question = p /\ r.value = dict'[x][p]
    BY DEF RememberedWasHeard
  <2>1. CASE x = s /\ p = q
    BY <1>1, <1>4, <1>6, <2>1
  <2>2. CASE ~(x = s /\ p = q)
    BY <1>1, <1>4, <2>2 DEF RememberedWasHeard
  <2> QED
    BY <2>1, <2>2
<1>14. HeardIsRemembered'
  <2>1. \A r \in heard : r.scope # None =>
          r.scope \in Scope /\ r.question \in Question /\ r.value # Absent
    BY DEF TypeOK, Reply
  <2>2. \A r \in heard : r.scope # None =>
          dict'[r.scope][r.question] = r.value
    BY <1>2, <1>4, <2>1 DEF HeardIsRemembered
  <2>3. s # None => dict'[s][q] = v
    BY <1>2, <1>4
  <2> QED
    BY <1>1, <1>6, <2>2, <2>3 DEF HeardIsRemembered
<1>15. AnswersFromThisScope'
  <2>1. s # None =>
          /\ since \in born[s]..Len(db) /\ Len(db) \in born[s]..Len(db)
          /\ 0 < since /\ since <= Len(db) /\ v = Answer(db[since], db[Len(db)], q)
    BY <1>2 DEF v, TypeOK
  <2> QED
    BY <1>1, <1>6, <2>1 DEF AnswersFromThisScope
<1>16. CurrentOutsideScopes'
  BY <1>1, <1>6 DEF CurrentOutsideScopes, v
<1> QED
  BY <1>7, <1>8, <1>9, <1>10, <1>11, <1>12, <1>13, <1>14, <1>15, <1>16

(* A later asking repeats what the first one settled.                      *)
LEMMA RecallInv ==
  ASSUME Inv, NEW t \in Thread, NEW q \in Question, Recall(t, q)
  PROVE  Inv'
<1> DEFINE s == current[t]
           v == dict[s][q]
           r0 == [scope |-> s, question |-> q, value |-> v,
                  since |-> Len(db), at |-> Len(db)]
<1> USE ConstantsAssumption DEF Inv
<1>1. /\ s \in Scope /\ s # None
      /\ v \in Value
      /\ heard' = heard \cup {r0}
      /\ UNCHANGED <<db, current, outer, dict, asking, born, held>>
  BY DEF Recall, Remembered, Hear, TypeOK
<1>2. Len(db) \in Nat /\ Len(db) > 0
  BY NowIsConfig
<1>3. TypeOK'
  BY <1>1, <1>2 DEF TypeOK, Reply
<1>4. Allocated'
  BY <1>1, <1>2 DEF TypeOK, Allocated
<1>5. HeldOnce' /\ CallerUntouched' /\ RememberedFromThisScope'
  BY <1>1 DEF HeldOnce, PrivateScope, CallerUntouched, RememberedFromThisScope,
              ReadWithin
<1>6. RememberedWasHeard' /\ HeardIsRemembered' /\ CallsInProgress'
  BY <1>1 DEF RememberedWasHeard, HeardIsRemembered, CallsInProgress, Remembered
<1>7. AnswersFromThisScope' /\ CurrentOutsideScopes'
  <2>1. ReadWithin(born[s], Len(db), v, q)
    BY <1>1 DEF RememberedFromThisScope, TypeOK
  <2>2. r0.scope = s /\ r0.question = q /\ r0.value = v /\ r0.at = Len(db)
    OBVIOUS
  <2> HIDE DEF r0, v
  <2>3. AnswersFromThisScope'
    BY <1>1, <2>1, <2>2 DEF AnswersFromThisScope, ReadWithin
  <2>4. CurrentOutsideScopes'
    BY <1>1, <2>2 DEF CurrentOutsideScopes
  <2> QED
    BY <2>3, <2>4
<1> QED
  BY <1>3, <1>4, <1>5, <1>6, <1>7

(* A commit adds a configuration and disturbs no answer given before it.   *)
LEMMA CommitInv ==
  ASSUME Inv, Commit
  PROVE  Inv'
<1> USE ConstantsAssumption DEF Inv
<1>1. PICK c \in Config : db' = Append(db, c)
  BY DEF Commit
<1>2. UNCHANGED <<current, outer, dict, asking, born, held, heard>>
  BY DEF Commit
<1>3. /\ db' \in Seq(Config) \ {<<>>}
      /\ Len(db) \in Nat
      /\ Len(db') = Len(db) + 1
      /\ \A i \in 1..Len(db) : db'[i] = db[i]
  BY <1>1 DEF TypeOK
<1>4. TypeOK'
  BY <1>2, <1>3 DEF TypeOK
<1>5. Allocated'
  BY <1>2, <1>3 DEF Allocated, TypeOK, Reply
<1>6. HeldOnce' /\ CallerUntouched'
  BY <1>2 DEF HeldOnce, PrivateScope, CallerUntouched
<1>7. RememberedFromThisScope'
  BY <1>2, <1>3 DEF RememberedFromThisScope, ReadWithin, TypeOK
<1>8. RememberedWasHeard' /\ HeardIsRemembered'
  BY <1>2 DEF RememberedWasHeard, HeardIsRemembered
<1>9. AnswersFromThisScope'
  BY <1>2, <1>3 DEF AnswersFromThisScope, Allocated, TypeOK, Reply
<1>10. CurrentOutsideScopes'
  BY <1>2, <1>3 DEF CurrentOutsideScopes, Allocated, TypeOK, Reply
<1>11. CallsInProgress'
  BY <1>2, <1>3 DEF CallsInProgress, Remembered, TypeOK
<1> QED
  BY <1>4, <1>5, <1>6, <1>7, <1>8, <1>9, <1>10, <1>11

LEMMA NextInv == Inv /\ [Next]_vars => Inv'
<1> SUFFICES ASSUME Inv, [Next]_vars PROVE Inv'
  OBVIOUS
<1>1. CASE Commit
  BY <1>1, CommitInv
<1>2. CASE \E t \in Thread : Open(t) \/ Close(t) \/ Answered(t) \/ Failed(t)
  BY <1>2, OpenInv, CloseInv, AnsweredInv, FailedInv
<1>3. CASE \E t \in Thread, q \in Question : Ask(t, q) \/ Recall(t, q)
  BY <1>3, AskInv, RecallInv
<1>4. CASE UNCHANGED vars
  BY <1>4 DEF vars, Inv, TypeOK, Allocated, HeldOnce, PrivateScope,
              CallerUntouched, CallsInProgress, Remembered,
              RememberedFromThisScope, ReadWithin, HeardIsRemembered,
              RememberedWasHeard, AnswersFromThisScope, CurrentOutsideScopes
<1> QED
  BY <1>1, <1>2, <1>3, <1>4 DEF Next

(* Inv holds throughout every behaviour of the cache (cache.py:30-60).     *)
THEOREM Invariance == Spec => []Inv
  BY InitInv, NextInv, PTL DEF Spec

(* Within one scope a question has one answer (cache.py:58-60): both       *)
(* answers are what the scope's dict remembers.                            *)
THEOREM OneAnswer == Spec => []OneAnswerPerScope
<1>1. Inv => OneAnswerPerScope
  BY DEF Inv, HeardIsRemembered, OneAnswerPerScope
<1> QED
  BY <1>1, Invariance, PTL

(* An answer given inside a scope is no older than the scope, so an edit   *)
(* is seen by the next request (cache.py:75-77).                           *)
THEOREM NoOlderThanScope == Spec => []AnswersFromThisScope
<1>1. Inv => AnswersFromThisScope
  BY DEF Inv
<1> QED
  BY <1>1, Invariance, PTL

(* Nothing is cached outside a scope (cache.py:15-18).                     *)
THEOREM NothingCachedOutside == Spec => []CurrentOutsideScopes
<1>1. Inv => CurrentOutsideScopes
  BY DEF Inv
<1> QED
  BY <1>1, Invariance, PTL

(* A nested unit of work leaves its caller's dict alone (cache.py:43-44).  *)
THEOREM CallerNotPoisoned == Spec => []CallerUntouched
<1>1. Inv => CallerUntouched
  BY DEF Inv
<1> QED
  BY <1>1, Invariance, PTL

(* No two threads are ever bound to one dict (cache.py:27-29).             *)
THEOREM ScopesArePrivate == Spec => []PrivateScope
<1>1. Inv => PrivateScope
  BY DEF Inv, HeldOnce
<1> QED
  BY <1>1, Invariance, PTL

-----------------------------------------------------------------------------
(* A step of the cache is a step of the promise, or changes nothing the    *)
(* promise speaks of.                                                      *)
LEMMA StepRefines == Inv /\ [Next]_vars => [Promise!Next]_<<db, born, heard>>
<1> SUFFICES ASSUME Inv, [Next]_vars
             PROVE  Promise!Next \/ UNCHANGED <<db, born, heard>>
  OBVIOUS
<1> USE ConstantsAssumption
<1>1. CASE Commit
  BY <1>1 DEF Commit, Promise!Next, Promise!Commit, Now, Promise!Now
<1>2. ASSUME NEW t \in Thread, Open(t)
      PROVE  Promise!Next
  BY <1>2 DEF Open, Promise!Next, Promise!Begin
<1>3. ASSUME NEW t \in Thread, Close(t)
      PROVE  UNCHANGED <<db, born, heard>>
  BY <1>3 DEF Close
<1>4. ASSUME NEW t \in Thread, Answered(t)
      PROVE  Promise!Next
  <2> DEFINE s == current[t]
             q == asking[t].question
             i == asking[t].since
  <2>1. /\ q \in Question /\ s \in Scope \cup {None}
        /\ i \in 1..Len(db)
        /\ s # None => /\ s \in Scope /\ dict[s][q] = Absent
                       /\ born[s] \in Nat /\ 0 < born[s] /\ born[s] <= i
    BY <1>4 DEF Answered, Inv, TypeOK, Allocated, CallsInProgress, Remembered
  <2>2. Promise!Settled(s, q) = {}
    <3>1. ASSUME NEW r \in heard, s # None, r.scope = s, r.question = q
          PROVE  FALSE
      BY <2>1, <3>1 DEF Inv, TypeOK, Reply, HeardIsRemembered
    <3> QED
      BY <3>1 DEF Promise!Settled
  <2>3. i \in (IF s = None THEN 1 ELSE born[s])..Len(db)
    BY <2>1
  <2>4. Promise!AskStore(s, q)
    BY <1>4, <2>1, <2>2, <2>3
       DEF Answered, Hear, Promise!AskStore, Now, Promise!Now
  <2> QED
    BY <2>1, <2>4 DEF Promise!Next
<1>5. ASSUME NEW t \in Thread, NEW q \in Question, Recall(t, q)
      PROVE  Promise!Next
  <2> DEFINE s == current[t]
  <2>1. s \in Scope /\ s # None /\ born[s] > 0 /\ dict[s][q] # Absent
    BY <1>5 DEF Recall, Remembered, Inv, TypeOK, Allocated
  <2>2. dict[s][q] \in Promise!Settled(s, q)
    BY <2>1 DEF Inv, RememberedWasHeard, Promise!Settled
  <2>3. Promise!AskSettled(s, q)
    BY <1>5, <2>2 DEF Recall, Hear, Promise!AskSettled
  <2> QED
    BY <2>1, <2>3 DEF Promise!Next
<1>6. ASSUME NEW t \in Thread,
             Failed(t) \/ \E q \in Question : Ask(t, q)
      PROVE  UNCHANGED <<db, born, heard>>
  BY <1>6 DEF Failed, Ask
<1>7. CASE UNCHANGED vars
  BY <1>7 DEF vars
<1> QED
  BY <1>1, <1>2, <1>3, <1>4, <1>5, <1>6, <1>7 DEF Next

(* Every behaviour of the dicts and bindings is a behaviour of the promise *)
(* (cache.py:1-19).                                                        *)
THEOREM Refinement == Spec => KeepsPromise
<1>1. Init => Promise!Init
  BY DEF Init, Promise!Init
<1> QED
  BY <1>1, StepRefines, Invariance, PTL DEF Spec, KeepsPromise, Promise!Spec

(* Types are kept (cache.py:32-106).                                       *)
THEOREM TypesHold == Spec => []TypeOK
<1>1. Inv => TypeOK
  BY DEF Inv
<1> QED
  BY <1>1, Invariance, PTL
=============================================================================
