------------------------------ MODULE Rollout -------------------------------
(***************************************************************************)
(* permkit_sync runs that overlap: every container of a rolling deploy     *)
(* runs the command, so runs of one release, or of the old and the new     *)
(* one, are in their transactions at the same time (catalogue/sync.py).    *)
(* Each run reconciles the tables in turn: it reads a whole table, diffs   *)
(* it in Python and then writes the rows it found wanting, to what may no  *)
(* longer be the table it read.  The database is at READ COMMITTED: a run  *)
(* sees its own writes and what others committed, a row that was written   *)
(* is locked until the end of the transaction, and the second insert of    *)
(* one natural key is an IntegrityError.  The writes to one table are one  *)
(* step; two runs that lock each other's rows within a table are aborted   *)
(* by the database, as any run may be.                                     *)
(***************************************************************************)
EXTENDS Catalogue, SequencesExt

CONSTANTS
  Run,          \* processes that run the command
  Releases,     \* registries the code may have
  None,
  MaxDeploys,   \* bound: releases after the first
  MaxAborts     \* bound: runs that crash or lose a deadlock

ASSUME RolloutAssumption ==
  /\ MaxDeploys \in Nat /\ MaxAborts \in Nat
  /\ None \notin Releases

VARIABLES
  code,         \* the release being deployed
  cat,          \* the catalogue, as committed
  release,      \* release[r]: the registry r publishes, or None
  todo,         \* todo[r]: the tables r has not written yet, in order
  seen,         \* seen[r]: the table r is working on as r read it, or None
  written,      \* written[r]: the rows r has written and not committed
  published,    \* the release committed last, or None
  overtaken,    \* history: a run of another release committed since r began
  deploys, aborts

run == <<release, todo, seen, written, overtaken>>
vars == <<code, cat, run, published, deploys, aborts>>

Nothing == [t \in Tables |-> <<>>]

Order == <<"objects", "endpoints", "filters", "groups", "points">>

Init ==
  /\ code \in Releases
  /\ cat = EmptyCatalogue
  /\ release = [r \in Run |-> None]
  /\ todo = [r \in Run |-> <<>>]
  /\ seen = [r \in Run |-> None]
  /\ written = [r \in Run |-> Nothing]
  /\ published = None
  /\ overtaken = [r \in Run |-> FALSE]
  /\ deploys = 0
  /\ aborts = 0

Active == {r \in Run : release[r] # None}

Deploy ==
  /\ deploys < MaxDeploys
  /\ \E c \in Releases \ {code} : code' = c
  /\ deploys' = deploys + 1
  /\ UNCHANGED <<cat, run, published, aborts>>

(* Slip: the tables are taken in an order of the release's own.            *)
StartInAnyOrder(r) ==
  /\ r \notin Active
  /\ release' = [release EXCEPT ![r] = code]
  /\ \E order \in {Order, Reverse(Order)} : todo' = [todo EXCEPT ![r] = order]
  /\ overtaken' = [overtaken EXCEPT ![r] = FALSE]
  /\ UNCHANGED <<code, cat, seen, written, published, deploys, aborts>>

(* A process of the current release loads its declarations and begins.     *)
Start(r) ==
  /\ r \notin Active
  /\ release' = [release EXCEPT ![r] = code]
  /\ todo' = [todo EXCEPT ![r] = Order]
  /\ overtaken' = [overtaken EXCEPT ![r] = FALSE]
  /\ UNCHANGED <<code, cat, seen, written, published, deploys, aborts>>

(* existing = {... for r in model.objects.all()}                           *)
Read(r) ==
  /\ r \in Active
  /\ todo[r] # <<>>
  /\ seen[r] = None
  /\ seen' = [seen EXCEPT ![r] = cat[Head(todo[r])]]
  /\ UNCHANGED <<code, cat, release, todo, written, overtaken, published, deploys, aborts>>

-----------------------------------------------------------------------------
(* The columns of a row that differ from what the run read are set; the    *)
(* others keep what they hold now.                                         *)
Patched(t, now, read, want) ==
  IF t = "filters"
  THEN [c \in DOMAIN want |-> IF read[c] # want[c] THEN want[c] ELSE now[c]]
  ELSE IF read # want THEN want ELSE now

Wanted(r, t) == Desired(release[r])[t]

(* Declared before and declared no more, as far as the run has seen.       *)
Stale(r, t) == {i \in DOMAIN seen[r] \ DOMAIN Wanted(r, t) : seen[r][i].live}

Touched(r, t) == DOMAIN Wanted(r, t) \cup Stale(r, t)

(* Slip: a row that is there is not revived.                               *)
RowsWithoutReviving(r, t) ==
  [i \in Touched(r, t) |->
     IF i \in Stale(r, t) THEN [cat[t][i] EXCEPT !.live = FALSE]
     ELSE IF i \notin DOMAIN seen[r] THEN [live |-> TRUE, data |-> Wanted(r, t)[i]]
     ELSE [live |-> cat[t][i].live,
           data |-> Patched(t, cat[t][i].data, seen[r][i].data, Wanted(r, t)[i])]]

Rows(r, t) ==
  [i \in Touched(r, t) |->
     IF i \in Stale(r, t) THEN [cat[t][i] EXCEPT !.live = FALSE]
     ELSE IF i \notin DOMAIN seen[r] THEN [live |-> TRUE, data |-> Wanted(r, t)[i]]
     ELSE [live |-> TRUE,
           data |-> Patched(t, cat[t][i].data, seen[r][i].data, Wanted(r, t)[i])]]

Locked(r, t) == UNION {DOMAIN written[s][t] : s \in Run \ {r}}

(* The rows to write are free, or are waited for.                          *)
Ready(r, t) ==
  /\ r \in Active /\ seen[r] # None
  /\ t = Head(todo[r])
  /\ Touched(r, t) \cap Locked(r, t) = {}

(* Rows the run means to insert that were inserted since it read.          *)
Taken(r, t) == (DOMAIN Wanted(r, t) \ DOMAIN seen[r]) \cap DOMAIN cat[t]

Write(r) ==
  \E t \in Tables :
    /\ Ready(r, t)
    /\ Taken(r, t) = {}
    /\ written' = [written EXCEPT ![r][t] = Rows(r, t)]
    /\ todo' = [todo EXCEPT ![r] = Tail(@)]
    /\ seen' = [seen EXCEPT ![r] = None]
    /\ UNCHANGED <<code, cat, release, overtaken, published, deploys, aborts>>

(* The transaction ends, one way or the other.                             *)
End(r) ==
  /\ release' = [release EXCEPT ![r] = None]
  /\ todo' = [todo EXCEPT ![r] = <<>>]
  /\ seen' = [seen EXCEPT ![r] = None]
  /\ written' = [written EXCEPT ![r] = Nothing]

Conflict(r) ==
  /\ \E t \in Tables : Ready(r, t) /\ Taken(r, t) # {}
  /\ End(r)
  /\ UNCHANGED <<code, cat, overtaken, published, deploys, aborts>>

(* A crash, a lost deadlock, or the rollback that ends --check.            *)
Abort(r) ==
  /\ r \in Active
  /\ aborts < MaxAborts
  /\ aborts' = aborts + 1
  /\ End(r)
  /\ UNCHANGED <<code, cat, overtaken, published, deploys>>

Commit(r) ==
  /\ r \in Active
  /\ todo[r] = <<>>
  /\ cat' = [t \in Tables |->
               [i \in DOMAIN cat[t] \cup DOMAIN written[r][t] |->
                  IF i \in DOMAIN written[r][t] THEN written[r][t][i] ELSE cat[t][i]]]
  /\ published' = release[r]
  /\ overtaken' = [s \in Run |-> overtaken[s] \/ release[s] \notin {None, release[r]}]
  /\ End(r)
  /\ UNCHANGED <<code, deploys, aborts>>

Work(r) == Read(r) \/ Write(r) \/ Conflict(r) \/ Commit(r)

Next ==
  \/ Deploy
  \/ \E r \in Run : Start(r) \/ Work(r) \/ Abort(r)

(* A run that began goes on, and a deploy whose run failed runs again      *)
(* until its release is published.                                         *)
Fairness ==
  /\ \A r \in Run : WF_vars(Work(r))
  /\ WF_vars(published # code /\ \E r \in Run : Start(r))

Spec == Init /\ [][Next]_vars /\ Fairness

-----------------------------------------------------------------------------
(* A run that is not overtaken by another release leaves the catalogue in  *)
(* step with its own, whatever runs of the same release commit beside it,  *)
(* whatever others write and roll back, and whatever the tables held       *)
(* before, although it writes to tables that have changed since it read    *)
(* them (sync.py:147-183).                                                 *)
CommitMirrors ==
  [][\A r \in Run : (Commit(r) /\ ~overtaken[r]) => InStep(cat', release[r])]_vars

(* Runs that wait for each other's rows, collide and start again do not    *)
(* keep a deploy from being published, unless a later one replaces it      *)
(* (docs/COMMANDS.md:13-20).                                               *)
DeployIsPublished ==
  \A c \in Releases : (code = c) ~> (published = c \/ code # c)
=============================================================================
