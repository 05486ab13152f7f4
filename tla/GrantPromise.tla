---------------------------- MODULE GrantPromise ----------------------------
(***************************************************************************)
(* What permkit/cache.py promises to the code that asks for grants, with   *)
(* no word about dicts or ContextVars: inside a unit of work the first     *)
(* asking of a question settles its answer, and outside every unit of work *)
(* the answer is always the store's.                                       *)
(***************************************************************************)
EXTENDS Naturals, Sequences

CONSTANTS Question, Config, Answer(_, _, _), Scope, None, MaxCommits

VARIABLES
  db,     \* every configuration committed so far
  born,   \* when each unit of work began, 0 before that
  heard   \* every answer given

Now == db[Len(db)]

Init ==
  /\ db \in {<<c>> : c \in Config}
  /\ born = [s \in Scope |-> 0]
  /\ heard = {}

Commit ==
  /\ Len(db) <= MaxCommits
  /\ \E c \in Config \ {Now} : db' = Append(db, c)
  /\ UNCHANGED <<born, heard>>

Begin(s) ==
  /\ born[s] = 0
  /\ born' = [born EXCEPT ![s] = Len(db)]
  /\ UNCHANGED <<db, heard>>

(* The answers unit of work s has already been given for q.                *)
Settled(s, q) ==
  {r.value : r \in {x \in heard : s # None /\ x.scope = s /\ x.question = q}}

(* An answer is the settled one, or what the store says over a span that   *)
(* lies within the unit of work.                                           *)
AskSettled(s, q) ==
  /\ \E v \in Settled(s, q) :
       heard' = heard \cup {[scope |-> s, question |-> q, value |-> v,
                            since |-> Len(db), at |-> Len(db)]}
  /\ UNCHANGED <<db, born>>

AskStore(s, q) ==
  /\ Settled(s, q) = {}
  /\ s # None => born[s] > 0
  /\ \E i \in (IF s = None THEN 1 ELSE born[s])..Len(db) :
       heard' = heard \cup {[scope |-> s, question |-> q,
                            value |-> Answer(db[i], Now, q),
                            since |-> i, at |-> Len(db)]}
  /\ UNCHANGED <<db, born>>

Next ==
  \/ Commit
  \/ \E s \in Scope : Begin(s)
  \/ \E s \in Scope \cup {None}, q \in Question :
       AskSettled(s, q) \/ AskStore(s, q)

Spec == Init /\ [][Next]_<<db, born, heard>>
=============================================================================
