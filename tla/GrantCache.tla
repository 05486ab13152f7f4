----------------------------- MODULE GrantCache -----------------------------
(***************************************************************************)
(* permkit/cache.py.  The ContextVar _SCOPE holds, for each thread of      *)
(* execution, either nothing or the dict of the unit of work that thread   *)
(* is serving.  Dicts are heap objects here, named by members of Scope, so *)
(* that two bindings could share one if the code let them.  Every store    *)
(* question asked by the policy goes through `cached`, while other         *)
(* processes (the admin, permkit_apply) commit new configurations.  A      *)
(* store method may issue two statements, and a commit may fall between.   *)
(***************************************************************************)
EXTENDS Naturals, Sequences

CONSTANTS
  Thread,          \* threads of execution, each with its own ContextVar value
  Question,        \* cache keys: (tier, roles, key)
  Value,           \* answers of the store
  Config,          \* contents of the composition tables
  Answer(_, _, _), \* Answer(c, d, q): what the store returns for q when its
                   \* first statement sees c and its last one sees d
  Scope,           \* names of the dicts grant_cache() creates
  None,            \* no scope is open (the ContextVar's default); no call runs
  Absent,          \* the key is not in the dict
  MaxCommits       \* bound: commits the run explores

ASSUME ConstantsAssumption ==
  /\ None \notin Scope
  /\ None \notin [question : Question, since : Nat]
  /\ Absent \notin Value
  /\ MaxCommits \in Nat
  /\ \A c, d \in Config, q \in Question : Answer(c, d, q) \in Value

VARIABLES
  db,       \* every configuration committed so far; the last one is current
  current,  \* current[t]: value of _SCOPE in thread t
  outer,    \* outer[s]: the value the token of scope s will restore
  dict,     \* dict[s][q]: what the dict of scope s remembers
  asking,   \* asking[t]: the call of produce() thread t is in
  born,     \* history: Len(db) when scope s was opened, 0 before that
  held,     \* history: the surrounding dict's contents when s was opened
  heard     \* history: every answer given, with its scope and its span

vars == <<db, current, outer, dict, asking, born, held, heard>>

Empty == [q \in Question |-> Absent]

Now == db[Len(db)]

Reply == [scope : Scope \cup {None}, question : Question, value : Value,
          since : Nat \ {0}, at : Nat \ {0}]

(* ContextVars start at None, so no thread has a scope. *)
Init ==
  /\ db \in {<<c>> : c \in Config}
  /\ current = [t \in Thread |-> None]
  /\ outer = [s \in Scope |-> None]
  /\ dict = [s \in Scope |-> Empty]
  /\ asking = [t \in Thread |-> None]
  /\ born = [s \in Scope |-> 0]
  /\ held = [s \in Scope |-> Empty]
  /\ heard = {}

-----------------------------------------------------------------------------
(* Plausible slips, here and below, for the checks that each property      *)
(* notices one; Next does not refer to them.  The inner scope starts from  *)
(* a copy of the surrounding dict; a dict comes from a pool.               *)
OpenCopyingCaller(t) ==
  \E s \in Scope :
    /\ asking[t] = None
    /\ born[s] = 0
    /\ current' = [current EXCEPT ![t] = s]
    /\ outer' = [outer EXCEPT ![s] = current[t]]
    /\ dict' = [dict EXCEPT ![s] = IF current[t] = None THEN Empty
                                                        ELSE dict[current[t]]]
    /\ born' = [born EXCEPT ![s] = Len(db)]
    /\ held' = [held EXCEPT ![s] = IF current[t] = None THEN Empty
                                                        ELSE dict[current[t]]]
    /\ UNCHANGED <<db, asking, heard>>

OpenFromPool(t) ==
  \E s \in Scope :
    /\ asking[t] = None
    /\ current' = [current EXCEPT ![t] = s]
    /\ outer' = [outer EXCEPT ![s] = current[t]]
    /\ dict' = [dict EXCEPT ![s] = Empty]
    /\ born' = [born EXCEPT ![s] = Len(db)]
    /\ held' = [held EXCEPT ![s] = IF current[t] = None THEN Empty
                                                        ELSE dict[current[t]]]
    /\ UNCHANGED <<db, asking, heard>>

(* grant_cache(), on the way in: a fresh dict becomes the thread's binding *)
(* and the token keeps the binding it replaced.                            *)
Open(t) ==
  \E s \in Scope :
    /\ asking[t] = None
    /\ born[s] = 0
    /\ current' = [current EXCEPT ![t] = s]
    /\ outer' = [outer EXCEPT ![s] = current[t]]
    /\ dict' = [dict EXCEPT ![s] = Empty]
    /\ born' = [born EXCEPT ![s] = Len(db)]
    /\ held' = [held EXCEPT ![s] = IF current[t] = None THEN Empty
                                                        ELSE dict[current[t]]]
    /\ UNCHANGED <<db, asking, heard>>

(* grant_cache(), on the way out, whether the body returned or raised: the *)
(* token puts back what the scope replaced, and is spent.                  *)
Close(t) ==
  /\ asking[t] = None
  /\ current[t] # None
  /\ current' = [current EXCEPT ![t] = outer[current[t]]]
  /\ outer' = [outer EXCEPT ![current[t]] = None]
  /\ UNCHANGED <<db, dict, asking, born, held, heard>>

Remembered(t, q) == current[t] # None /\ dict[current[t]][q] # Absent

Hear(s, q, v, since) ==
  heard' = heard \cup {[scope |-> s, question |-> q, value |-> v,
                        since |-> since, at |-> Len(db)]}

(* Slip: the store is asked although the dict has the answer.              *)
AskRegardless(t, q) ==
  /\ asking[t] = None
  /\ asking' = [asking EXCEPT ![t] = [question |-> q, since |-> Len(db)]]
  /\ UNCHANGED <<db, current, outer, dict, born, held, heard>>

(* cached(key, produce) with no scope open or the key not in its dict:     *)
(* produce() runs its first statement.                                     *)
Ask(t, q) ==
  /\ asking[t] = None
  /\ ~Remembered(t, q)
  /\ asking' = [asking EXCEPT ![t] = [question |-> q, since |-> Len(db)]]
  /\ UNCHANGED <<db, current, outer, dict, born, held, heard>>

(* Slips: the dict is read before it is filled; an inner scope writes      *)
(* through to the dict it will give back.                                  *)
AnsweredWithOld(t) ==
  LET q == asking[t].question
      v == Answer(db[asking[t].since], Now, q)
      s == current[t]
  IN /\ asking[t] # None
     /\ dict' = IF s = None THEN dict ELSE [dict EXCEPT ![s][q] = v]
     /\ Hear(s, q, IF s = None THEN v ELSE dict[s][q], asking[t].since)
     /\ asking' = [asking EXCEPT ![t] = None]
     /\ UNCHANGED <<db, current, outer, born, held>>

AnsweredThrough(t) ==
  LET q == asking[t].question
      v == Answer(db[asking[t].since], Now, q)
      s == current[t]
  IN /\ asking[t] # None
     /\ dict' = [x \in Scope |-> IF s # None /\ x \in {s, outer[s]}
                                 THEN [dict[x] EXCEPT ![q] = v] ELSE dict[x]]
     /\ Hear(s, q, v, asking[t].since)
     /\ asking' = [asking EXCEPT ![t] = None]
     /\ UNCHANGED <<db, current, outer, born, held>>

(* produce() runs its last statement; the answer is remembered if a scope  *)
(* is open.                                                                *)
Answered(t) ==
  LET q == asking[t].question
      v == Answer(db[asking[t].since], Now, q)
      s == current[t]
  IN /\ asking[t] # None
     /\ dict' = IF s = None THEN dict ELSE [dict EXCEPT ![s][q] = v]
     /\ Hear(s, q, v, asking[t].since)
     /\ asking' = [asking EXCEPT ![t] = None]
     /\ UNCHANGED <<db, current, outer, born, held>>

(* produce() raises: nothing is remembered and no answer is given.         *)
Failed(t) ==
  /\ asking[t] # None
  /\ asking' = [asking EXCEPT ![t] = None]
  /\ UNCHANGED <<db, current, outer, dict, born, held, heard>>

(* Slips: the store is asked again; an answer once given outside every     *)
(* scope is kept for good (a default dict that nothing ever clears).       *)
RecallAskingAgain(t, q) ==
  /\ asking[t] = None
  /\ Remembered(t, q)
  /\ dict' = [dict EXCEPT ![current[t]][q] = Answer(Now, Now, q)]
  /\ Hear(current[t], q, Answer(Now, Now, q), Len(db))
  /\ UNCHANGED <<db, current, outer, asking, born, held>>

RecallFromDefault(t, q) ==
  /\ asking[t] = None
  /\ \E r \in heard : r.scope = current[t] /\ r.question = q
  /\ Hear(current[t], q,
          (CHOOSE r \in heard : r.scope = current[t] /\ r.question = q).value,
          Len(db))
  /\ UNCHANGED <<db, current, outer, dict, asking, born, held>>

(* cached(key, produce), key in the dict: the store is not asked.          *)
Recall(t, q) ==
  /\ asking[t] = None
  /\ Remembered(t, q)
  /\ Hear(current[t], q, dict[current[t]][q], Len(db))
  /\ UNCHANGED <<db, current, outer, dict, asking, born, held>>

(* Another process commits an edit of the composition tables.              *)
Commit ==
  /\ Len(db) <= MaxCommits
  /\ \E c \in Config \ {Now} : db' = Append(db, c)
  /\ UNCHANGED <<current, outer, dict, asking, born, held, heard>>

Next ==
  \/ Commit
  \/ \E t \in Thread :
       \/ Open(t)
       \/ Close(t)
       \/ \E q \in Question : Ask(t, q) \/ Recall(t, q)
       \/ Answered(t)
       \/ Failed(t)

Spec == Init /\ [][Next]_vars

-----------------------------------------------------------------------------
TypeOK ==
  /\ db \in Seq(Config) \ {<<>>}
  /\ current \in [Thread -> Scope \cup {None}]
  /\ outer \in [Scope -> Scope \cup {None}]
  /\ dict \in [Scope -> [Question -> Value \cup {Absent}]]
  /\ asking \in [Thread -> [question : Question, since : Nat] \cup {None}]
  /\ born \in [Scope -> Nat]
  /\ held \in [Scope -> [Question -> Value \cup {Absent}]]
  /\ heard \subseteq Reply

(* "So asking once is free correctness": within one scope a question has   *)
(* one answer, whatever is committed between two askings (cache.py:3-6,    *)
(* 53-60).                                                                 *)
OneAnswerPerScope ==
  \A r1, r2 \in heard :
    (r1.scope = r2.scope /\ r1.scope # None /\ r1.question = r2.question)
      => r1.value = r2.value

(* "A permission edited in the admin is visible to the next request": both *)
(* statements behind an answer given inside a scope ran between the        *)
(* opening of that scope and the answer (cache.py:75-77).                  *)
AnswersFromThisScope ==
  \A r \in heard :
    r.scope # None =>
      \E i, j \in born[r.scope]..r.at :
        0 < i /\ i <= j /\ r.value = Answer(db[i], db[j], r.question)

(* "Nothing is cached outside a scope": both statements behind an answer   *)
(* given outside ran during that very call, although the same thread has   *)
(* served scopes before (cache.py:15-18).                                  *)
CurrentOutsideScopes ==
  \A r \in heard :
    r.scope = None => r.value = Answer(db[r.since], db[r.at], r.question)

(* "A nested unit of work cannot poison its caller": while an inner scope  *)
(* is open the dict it will give back is the one it found (cache.py:43-44).*)
CallerUntouched ==
  \A s \in Scope : outer[s] # None => dict[outer[s]] = held[s]

(* No two threads are bound to one dict: scopes are private to the unit of *)
(* work that opened them, although worker threads are reused               *)
(* (cache.py:27-29).                                                       *)
PrivateScope ==
  \A t, u \in Thread :
    (current[t] # None /\ current[t] = current[u]) => t = u

-----------------------------------------------------------------------------
(* The promise this mechanism keeps, stated without dicts and bindings.    *)
Promise == INSTANCE GrantPromise

(* cache.py:1-19: every behaviour of the cache is one of the promise.      *)
KeepsPromise == Promise!Spec
=============================================================================
