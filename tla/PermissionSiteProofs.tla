------------------------ MODULE PermissionSiteProofs ------------------------
(***************************************************************************)
(* Proofs about PermissionSite for any keys, actors and calls, however     *)
(* deep they nest.  That _PENDING is the running selector's dict is not    *)
(* inductive alone: when a call is left, the token must hold the dict of   *)
(* the call below it.  Nested says so of every level of the stack, and     *)
(* Declared and FlagIsHonest tie the dicts to the history.                 *)
(***************************************************************************)
EXTENDS PermissionSite, TLAPS

(* The tokens are linked like the stack, in which no call occurs twice.    *)
Nested ==
  /\ \A i \in 1..Len(stack) : site[stack[i]] # NoSite
  /\ \A i, j \in 1..Len(stack) : stack[i] = stack[j] => i = j
  /\ \A i \in 1..Len(stack) :
       saved[stack[i]] = IF i = 1 THEN None ELSE stack[i - 1]

(* A call that was made has a declaration; history is about such calls.    *)
Declared ==
  /\ \A f \in Frame :
       site[f] # NoSite => site[f].key \in Key /\ site[f].actor \in Actor
  /\ \A m \in made : site[m.frame] # NoSite

(* The flag of a call is set by its own body only.                         *)
FlagIsHonest ==
  \A f \in Frame : site[f].applied => \E m \in made : m.frame = f

Inv ==
  /\ TypeOK
  /\ Nested
  /\ PendingIsRunning
  /\ Declared
  /\ FlagIsHonest
  /\ OwnDeclarationApplied
  /\ ReturnedSitesApplied

-----------------------------------------------------------------------------
LEMMA InitInv == Init => Inv
<1> SUFFICES ASSUME Init PROVE Inv
  OBVIOUS
<1>1. TypeOK
  <2>1. NoSite \in [key : Key \cup {None}, actor : Actor \cup {None},
                    applied : BOOLEAN]
    BY DEF NoSite
  <2>2. stack \in Seq(Frame)
    BY DEF Init
  <2> QED
    BY <2>1, <2>2 DEF Init, TypeOK
<1>2. Nested /\ PendingIsRunning
  BY DEF Init, Nested, PendingIsRunning, Running, Innermost
<1>3. Declared /\ OwnDeclarationApplied /\ ReturnedSitesApplied
  BY DEF Init, Declared, OwnDeclarationApplied, ReturnedSitesApplied
<1>4. FlagIsHonest
  BY DEF Init, FlagIsHonest, NoSite
<1> QED
  BY <1>1, <1>2, <1>3, <1>4 DEF Inv

(* The running call is one that was made, with a token for its caller.     *)
LEMMA RunningIsDeclared ==
  ASSUME Inv, stack # <<>>
  PROVE  /\ Len(stack) \in Nat /\ Len(stack) > 0
         /\ Running = stack[Len(stack)]
         /\ Running \in Frame /\ pending = Running
         /\ site[Running].key \in Key /\ site[Running].actor \in Actor
         /\ site[Running] # NoSite
<1>1. Len(stack) \in Nat /\ Len(stack) > 0
  BY DEF Inv, TypeOK
<1>2. Running = stack[Len(stack)] /\ Running \in Frame /\ pending = Running
  BY <1>1 DEF Inv, TypeOK, Running, Innermost, PendingIsRunning
<1>3. site[Running] # NoSite
  BY <1>1, <1>2 DEF Inv, Nested
<1> QED
  BY <1>1, <1>2, <1>3 DEF Inv, Declared

(* _PENDING is empty exactly when nothing runs.                            *)
LEMMA PendingMeansRunning ==
  ASSUME Inv
  PROVE  pending # None <=> stack # <<>>
  BY SiteAssumption DEF Inv, TypeOK, PendingIsRunning, Running, Innermost

-----------------------------------------------------------------------------
(* Entering a selector pushes a fresh call whose token holds the caller.   *)
LEMMA CallSiteInv ==
  ASSUME Inv, NEW f \in Frame, NEW k \in Key, NEW a \in Actor, CallSite(f, k, a)
  PROVE  Inv'
<1> DEFINE n == Len(stack)
<1>1. n \in Nat /\ stack \in Seq(Frame)
  BY DEF Inv, TypeOK
<1>2. /\ stack' \in Seq(Frame) /\ stack' # <<>>
      /\ Len(stack') = n + 1
      /\ stack'[n + 1] = f
      /\ \A i \in 1..n : stack'[i] = stack[i] /\ stack[i] \in Frame
  BY <1>1 DEF CallSite
<1>3. \A i \in 1..n : stack[i] # f
  BY DEF Inv, Nested, CallSite
<1>4. site'[f] = [key |-> k, actor |-> a, applied |-> FALSE] /\ site'[f] # NoSite
  BY SiteAssumption DEF Inv, TypeOK, CallSite, NoSite
<1>5. \A g \in Frame \ {f} : site'[g] = site[g] /\ saved'[g] = saved[g]
  BY DEF Inv, TypeOK, CallSite
<1>6. TypeOK'
  BY <1>2 DEF Inv, TypeOK, CallSite
<1>7. Nested'
  <2>1. saved'[f] = IF n = 0 THEN None ELSE stack[n]
    BY <1>1 DEF Inv, TypeOK, CallSite, PendingIsRunning, Running, Innermost
  <2>2. \A i \in 1..Len(stack') : site'[stack'[i]] # NoSite
    BY <1>1, <1>2, <1>3, <1>4, <1>5 DEF Inv, Nested
  <2>3. \A i, j \in 1..Len(stack') : stack'[i] = stack'[j] => i = j
    BY <1>1, <1>2, <1>3 DEF Inv, Nested
  <2>4. ASSUME NEW i \in 1..Len(stack')
        PROVE  saved'[stack'[i]] = IF i = 1 THEN None ELSE stack'[i - 1]
    <3>1. CASE i = n + 1
      BY <1>1, <1>2, <2>1, <3>1
    <3>2. CASE i \in 1..n
      <4>1. saved'[stack'[i]] = saved[stack[i]]
        BY <1>2, <1>3, <1>5, <3>2
      <4>2. i # 1 => stack'[i - 1] = stack[i - 1]
        BY <1>1, <1>2, <3>2
      <4> QED
        BY <3>2, <4>1, <4>2 DEF Inv, Nested
    <3> QED
      BY <1>1, <1>2, <3>1, <3>2
  <2> QED
    BY <2>2, <2>3, <2>4 DEF Nested
<1>8. PendingIsRunning'
  BY <1>2 DEF PendingIsRunning, Running, Innermost, CallSite
<1>9. Declared' /\ OwnDeclarationApplied'
  <2>1. \A m \in made : m.frame \in Frame \ {f}
    BY DEF Inv, TypeOK, Declared, CallSite
  <2> QED
    BY <1>4, <1>5, <2>1 DEF Inv, Declared, OwnDeclarationApplied, CallSite
<1>10. FlagIsHonest' /\ ReturnedSitesApplied'
  BY <1>4, <1>5 DEF Inv, FlagIsHonest, ReturnedSitesApplied, CallSite
<1> QED
  BY <1>6, <1>7, <1>8, <1>9, <1>10 DEF Inv

(* Applying touches the dict and the history of the running call alone.    *)
LEMMA ApplyInv ==
  ASSUME Inv, NEW given \in Actor \cup {None}, NEW ok \in BOOLEAN, Apply(given, ok)
  PROVE  Inv'
<1> DEFINE r == Running
           actor == IF given = None THEN site[r].actor ELSE given
           new == [frame |-> r, key |-> site[r].key, given |-> given,
                   actor |-> actor, ok |-> ok]
<1>1. stack # <<>>
  BY PendingMeansRunning DEF Apply
<1>2. /\ r \in Frame /\ pending = r /\ site[r] # NoSite
      /\ site[r].key \in Key /\ site[r].actor \in Actor
  BY <1>1, RunningIsDeclared
<1>3. actor \in Actor
  BY <1>2
<1>4. site' = [site EXCEPT ![r].applied = TRUE]
  BY <1>2 DEF Apply
<1>5. made' = made \cup {new}
  BY <1>2 DEF Apply
<1>6. UNCHANGED <<stack, pending, saved, returned>> /\ raising' = ~ok
  BY DEF Apply
<1> HIDE DEF r, actor
<1>7. \A f \in Frame : /\ site'[f].key = site[f].key
                       /\ site'[f].actor = site[f].actor
                       /\ f # r => site'[f] = site[f]
  BY <1>2, <1>4 DEF Inv, TypeOK
<1>8. \A f \in Frame : site[f] # NoSite => site'[f] # NoSite
  <2>1. site'[r] # NoSite
    BY <1>2, <1>7, SiteAssumption DEF NoSite
  <2> QED
    BY <1>7, <2>1
<1>9. new \in [frame : Frame, key : Key, given : Actor \cup {None},
               actor : Actor, ok : BOOLEAN]
  BY <1>2, <1>3
<1>10. TypeOK'
  <2>1. site' \in [Frame -> [key : Key \cup {None}, actor : Actor \cup {None},
                             applied : BOOLEAN]]
    BY <1>2, <1>4 DEF Inv, TypeOK
  <2>2. made' \subseteq [frame : Frame, key : Key, given : Actor \cup {None},
                         actor : Actor, ok : BOOLEAN]
    BY <1>5, <1>9 DEF Inv, TypeOK
  <2> QED
    BY <1>6, <2>1, <2>2 DEF Inv, TypeOK
<1>11. Nested'
  <2>1. \A i \in 1..Len(stack) : stack[i] \in Frame
    BY DEF Inv, TypeOK
  <2> QED
    BY <1>6, <1>8, <2>1 DEF Inv, Nested
<1>12. PendingIsRunning'
  BY <1>6 DEF Inv, PendingIsRunning, Running, Innermost
<1>13. \A m \in made : m.frame \in Frame
  BY DEF Inv, TypeOK
<1>14. Declared'
  <2>1. ASSUME NEW f \in Frame, site'[f] # NoSite
        PROVE  site'[f].key \in Key /\ site'[f].actor \in Actor
    <3>1. site[f] # NoSite
      BY <1>2, <1>7, <2>1
    <3> QED
      BY <1>7, <3>1 DEF Inv, Declared
  <2>2. \A m \in made' : site'[m.frame] # NoSite
    BY <1>2, <1>5, <1>8, <1>13 DEF Inv, Declared
  <2> QED
    BY <2>1, <2>2 DEF Declared
<1>15. OwnDeclarationApplied'
  <2>1. \A m \in made : /\ m.key = site'[m.frame].key
                        /\ m.given = None => m.actor = site'[m.frame].actor
    BY <1>7, <1>13 DEF Inv, OwnDeclarationApplied
  <2>2. new.key = site'[new.frame].key
    BY <1>2, <1>7
  <2>3. new.given = None => new.actor = site'[new.frame].actor
    BY <1>2, <1>7 DEF actor
  <2> QED
    BY <1>5, <2>1, <2>2, <2>3 DEF OwnDeclarationApplied
<1>16. FlagIsHonest'
  <2>1. new \in made' /\ new.frame = r
    BY <1>5
  <2>2. ASSUME NEW f \in Frame, f # r, site'[f].applied
        PROVE  \E m \in made' : m.frame = f
    <3>1. \E m \in made : m.frame = f
      BY <1>7, <2>2 DEF Inv, FlagIsHonest
    <3> QED
      BY <1>5, <3>1
  <2> QED
    BY <2>1, <2>2 DEF FlagIsHonest
<1>17. ReturnedSitesApplied'
  BY <1>5, <1>6 DEF Inv, ReturnedSitesApplied
<1> QED
  BY <1>10, <1>11, <1>12, <1>14, <1>15, <1>16, <1>17 DEF Inv

-----------------------------------------------------------------------------
(* What is left of a sequence without its last element.                    *)
LEMMA FrontProperties ==
  ASSUME NEW S, NEW s \in Seq(S), NEW n \in Nat, Len(s) = n + 1
  PROVE  /\ SubSeq(s, 1, n) \in Seq(S)
         /\ Len(SubSeq(s, 1, n)) = n
         /\ \A i \in 1..n : SubSeq(s, 1, n)[i] = s[i] /\ s[i] \in S
  OBVIOUS

(* Leaving a call pops it, and its token holds the call below.             *)
LEMMA UnwindInv ==
  ASSUME Inv, stack # <<>>, Unwind, UNCHANGED <<saved, site, made>>
  PROVE  /\ stack' \in Seq(Frame) /\ pending' \in Frame \cup {None}
         /\ Nested' /\ PendingIsRunning'
<1>1. PICK n \in Nat : Len(stack) = n + 1
  <2>1. Len(stack) - 1 \in Nat /\ Len(stack) = (Len(stack) - 1) + 1
    BY RunningIsDeclared
  <2> QED
    BY <2>1
<1>2. stack \in Seq(Frame) /\ Running = stack[n + 1]
  BY <1>1, RunningIsDeclared DEF Inv, TypeOK
<1>3. stack' = SubSeq(stack, 1, n)
  BY <1>1, n + 1 - 1 = n DEF Unwind
<1>4. /\ stack' \in Seq(Frame)
      /\ Len(stack') = n
      /\ \A i \in 1..n : stack'[i] = stack[i] /\ stack[i] \in Frame
  BY <1>1, <1>2, <1>3, FrontProperties
<1>5. pending' = IF n = 0 THEN None ELSE stack'[n]
  <2>1. saved[stack[n + 1]] = IF n + 1 = 1 THEN None ELSE stack[n + 1 - 1]
    BY <1>1 DEF Inv, Nested
  <2>2. n + 1 - 1 = n /\ (n # 0 => n \in 1..n) /\ (n + 1 = 1 <=> n = 0)
    OBVIOUS
  <2>3. n # 0 => stack[n] = stack'[n]
    BY <1>4, <2>2
  <2>4. saved[stack[n + 1]] = IF n = 0 THEN None ELSE stack[n]
    BY <2>1, <2>2
  <2> QED
    BY <1>2, <2>3, <2>4 DEF Unwind
<1>6. pending' \in Frame \cup {None}
  BY <1>4, <1>5
<1>7. PendingIsRunning'
  <2>1. stack' = <<>> <=> n = 0
    BY <1>4
  <2> QED
    BY <1>4, <1>5, <2>1 DEF PendingIsRunning, Running, Innermost
<1>8. Nested'
  <2>1. \A i \in 1..Len(stack') : site'[stack'[i]] # NoSite
    BY <1>1, <1>4 DEF Inv, Nested
  <2>2. \A i, j \in 1..Len(stack') : stack'[i] = stack'[j] => i = j
    BY <1>1, <1>4 DEF Inv, Nested
  <2>3. ASSUME NEW i \in 1..Len(stack')
        PROVE  saved'[stack'[i]] = IF i = 1 THEN None ELSE stack'[i - 1]
    <3>1. i \in 1..Len(stack) /\ stack'[i] = stack[i]
      BY <1>1, <1>4
    <3>2. i # 1 => stack'[i - 1] = stack[i - 1]
      BY <1>4
    <3> QED
      BY <3>1, <3>2 DEF Inv, Nested
  <2> QED
    BY <2>1, <2>2, <2>3 DEF Nested
<1> QED
  BY <1>4, <1>6, <1>7, <1>8

LEMMA ReturnInv ==
  ASSUME Inv, Return
  PROVE  Inv'
<1>1. /\ stack' \in Seq(Frame) /\ pending' \in Frame \cup {None}
      /\ Nested' /\ PendingIsRunning'
  BY UnwindInv DEF Return
<1>2. Running \in Frame /\ pending = Running
  BY RunningIsDeclared DEF Return
<1>3. TypeOK'
  BY <1>1, <1>2 DEF Inv, TypeOK, Return
<1>4. Declared' /\ FlagIsHonest' /\ OwnDeclarationApplied'
  BY DEF Inv, Declared, FlagIsHonest, OwnDeclarationApplied, Return
<1>5. ReturnedSitesApplied'
  BY <1>2 DEF Inv, FlagIsHonest, ReturnedSitesApplied, Return
<1> QED
  BY <1>1, <1>3, <1>4, <1>5 DEF Inv

LEMMA LeaveInv ==
  ASSUME Inv, Leave
  PROVE  Inv'
<1>1. /\ stack' \in Seq(Frame) /\ pending' \in Frame \cup {None}
      /\ Nested' /\ PendingIsRunning'
  BY UnwindInv DEF Leave
<1>2. TypeOK'
  BY <1>1 DEF Inv, TypeOK, Leave
<1>3. /\ Declared' /\ FlagIsHonest'
      /\ OwnDeclarationApplied' /\ ReturnedSitesApplied'
  BY DEF Inv, Declared, FlagIsHonest, OwnDeclarationApplied,
         ReturnedSitesApplied, Leave
<1> QED
  BY <1>1, <1>2, <1>3 DEF Inv

(* Raising and catching move the exception only.                           *)
LEMMA ExceptionInv ==
  ASSUME Inv, raising' \in BOOLEAN,
         UNCHANGED <<stack, pending, saved, site, made, returned>>
  PROVE  Inv'
  BY DEF Inv, TypeOK, Nested, PendingIsRunning, Declared, FlagIsHonest,
         OwnDeclarationApplied, ReturnedSitesApplied, Running, Innermost

LEMMA StepInv == Inv /\ [Next]_vars => Inv'
<1> SUFFICES ASSUME Inv, [Next]_vars PROVE Inv'
  OBVIOUS
<1>1. CASE \E f \in Frame, k \in Key, a \in Actor : CallSite(f, k, a)
  BY <1>1, CallSiteInv
<1>2. CASE Raise
  BY <1>2, ExceptionInv DEF Raise
<1>3. CASE \E given \in Actor \cup {None}, ok \in BOOLEAN : Apply(given, ok)
  BY <1>3, ApplyInv
<1>4. CASE Return
  BY <1>4, ReturnInv
<1>5. CASE ReturnUnapplied
  BY <1>5, LeaveInv DEF ReturnUnapplied
<1>6. CASE Propagate
  BY <1>6, LeaveInv DEF Propagate
<1>7. CASE Catch
  BY <1>7, ExceptionInv DEF Catch
<1>8. CASE UNCHANGED vars
  <2>1. raising' \in BOOLEAN
    BY <1>8 DEF Inv, TypeOK, vars
  <2> QED
    BY <1>8, <2>1, ExceptionInv DEF vars
<1> QED
  BY <1>1, <1>2, <1>3, <1>4, <1>5, <1>6, <1>7, <1>8 DEF Next

(* Every reachable state satisfies the invariant (declare.py:125-209).     *)
THEOREM Invariance == Spec => []Inv
  BY InitInv, StepInv, PTL DEF Spec

(* _PENDING is the dict of the selector that is running, at any depth and  *)
(* after any exceptions (declare.py:165-184).                              *)
THEOREM PendingFollowsTheCalls == Spec => []PendingIsRunning
<1>1. Inv => PendingIsRunning
  BY DEF Inv
<1> QED
  BY <1>1, Invariance, PTL

(* A body is filtered by its own declaration (declare.py:193-209).         *)
THEOREM OwnDeclaration == Spec => []OwnDeclarationApplied
<1>1. Inv => OwnDeclarationApplied
  BY DEF Inv
<1> QED
  BY <1>1, Invariance, PTL

(* A selector that returns has called apply_permissions in its own body    *)
(* (declare.py:144-145, 174).                                              *)
THEOREM NoReturnWithoutApplying == Spec => []ReturnedSitesApplied
<1>1. Inv => ReturnedSitesApplied
  BY DEF Inv
<1> QED
  BY <1>1, Invariance, PTL

(* Types are kept (declare.py:125-209).                                     *)
THEOREM TypesHold == Spec => []TypeOK
<1>1. Inv => TypeOK
  BY DEF Inv
<1> QED
  BY <1>1, Invariance, PTL
=============================================================================
