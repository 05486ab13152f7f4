-------------------------- MODULE DeploymentProofs --------------------------
(***************************************************************************)
(* Proofs about Deployment for any releases, files and administrators:     *)
(* what permkit_sync leaves in the catalogue and what its exit status is   *)
(* worth, and what a file leaves in the composition tables.                *)
(*                                                                         *)
(* The catalogue only changes by runs that commit, and a run reconciles    *)
(* each table against everything its release declares, whatever was        *)
(* there.  So its invariant needs no more than that rows are rows and that *)
(* the last run that committed left the catalogue in step with its         *)
(* release; its two action properties follow from what one run computes.   *)
(*                                                                         *)
(* The composition tables change under it by administrators and by files.  *)
(* Their invariant (CompositionInv) is that the ids of rules are unique,   *)
(* that no rule has a filter twice, and that every row refers to entries   *)
(* of the catalogue, whose rows retire but are never deleted.  Over such   *)
(* tables a file that is not refused leaves exactly what it lists          *)
(* (Stands); the properties of files are read off it.                      *)
(***************************************************************************)
EXTENDS Deployment, DecisionProofs

IsRow(row) ==
  /\ row = [live |-> row.live, data |-> row.data]
  /\ row.live \in BOOLEAN

IsTable(table) == \A i \in DOMAIN table : IsRow(table[i])

CatalogueInv ==
  /\ \A t \in Tables : IsTable(cat[t])
  /\ CatalogueMirrorsCode

-----------------------------------------------------------------------------
(* One table.                                                              *)
LEMMA UpsertKeepsRows ==
  ASSUME NEW table, NEW desired, IsTable(table)
  PROVE  IsTable(Upsert(table, desired))
  BY DEF IsTable, IsRow, Upsert

LEMMA UpsertReconciles ==
  ASSUME NEW table, NEW desired, IsTable(table)
  PROVE  /\ \A i \in DOMAIN Upsert(table, desired) :
              Upsert(table, desired)[i].live <=> i \in DOMAIN desired
         /\ \A i \in DOMAIN desired :
              /\ i \in DOMAIN Upsert(table, desired)
              /\ Upsert(table, desired)[i].data = desired[i]
  BY DEF IsTable, IsRow, Upsert

LEMMA NothingToDo ==
  ASSUME NEW table, NEW desired, IsTable(table),
         {i \in DOMAIN table : table[i].live} = DOMAIN desired,
         \A i \in DOMAIN desired : table[i].data = desired[i],
         NEW kind \in DOMAIN Changes(table, desired)
  PROVE  Changes(table, desired)[kind] = {}
<1>1. \A i \in DOMAIN desired : i \in DOMAIN table /\ table[i].live
  OBVIOUS
<1>2. \A i \in DOMAIN table \ DOMAIN desired : ~table[i].live
  OBVIOUS
<1>3. kind \in {"created", "revived", "updated", "retired"}
  BY DEF Changes
<1>4. CASE kind = "created"
  BY <1>1, <1>4 DEF Changes
<1>5. CASE kind = "revived"
  BY <1>1, <1>5 DEF Changes
<1>6. CASE kind = "updated"
  BY <1>1, <1>6 DEF Changes
<1>7. CASE kind = "retired"
  BY <1>2, <1>7 DEF Changes
<1> QED
  BY <1>3, <1>4, <1>5, <1>6, <1>7

-----------------------------------------------------------------------------
(* The catalogue: a run leaves it in step with its release whatever it     *)
(* held before, and a run that finds it in step reports nothing.           *)
LEMMA PublishingReconciles ==
  ASSUME NEW c, NEW release, \A t \in Tables : IsTable(c[t])
  PROVE  /\ \A t \in Tables : IsTable(Published(c, release)[t])
         /\ InStep(Published(c, release), release)
<1> DEFINE new == Published(c, release)
<1>1. \A t \in Tables : new[t] = Upsert(c[t], Desired(release)[t])
  BY DEF Published
<1>2. \A t \in Tables : IsTable(new[t])
  BY <1>1, UpsertKeepsRows
<1>3. ASSUME NEW t \in Tables
      PROVE  /\ Live(new, t) = DOMAIN Desired(release)[t]
             /\ \A i \in Live(new, t) : new[t][i].data = Desired(release)[t][i]
  <2> DEFINE desired == Desired(release)[t]
  <2>1. /\ \A i \in DOMAIN new[t] : new[t][i].live <=> i \in DOMAIN desired
        /\ \A i \in DOMAIN desired : i \in DOMAIN new[t] /\ new[t][i].data = desired[i]
    BY <1>1, UpsertReconciles
  <2> HIDE DEF new, desired
  <2>2. Live(new, t) = DOMAIN desired
    BY <2>1 DEF Live
  <2> QED
    BY <2>1, <2>2 DEF desired
<1> HIDE DEF new
<1>4. InStep(new, release)
  BY <1>3 DEF InStep
<1> QED
  BY <1>2, <1>4 DEF new

LEMMA InStepMeansNoOp ==
  ASSUME NEW c, NEW release, \A t \in Tables : IsTable(c[t]), InStep(c, release)
  PROVE  ~SomethingChanged(Reported(c, release))
<1> SUFFICES ASSUME NEW t \in Tables, NEW kind \in DOMAIN Reported(c, release)[t]
             PROVE  Reported(c, release)[t][kind] = {}
  BY DEF SomethingChanged
<1>1. Reported(c, release)[t] = Changes(c[t], Desired(release)[t])
  BY DEF Reported
<1>2. /\ {i \in DOMAIN c[t] : c[t][i].live} = DOMAIN Desired(release)[t]
      /\ \A i \in DOMAIN Desired(release)[t] : c[t][i].data = Desired(release)[t][i]
  BY DEF InStep, Live
<1> QED
  BY <1>1, <1>2, NothingToDo

-----------------------------------------------------------------------------
LEMMA InitInv == Init => CatalogueInv
<1> SUFFICES ASSUME Init PROVE CatalogueInv
  OBVIOUS
<1>1. \A t \in Tables : cat[t] = <<>>
  BY DEF Init, EmptyCatalogue
<1>2. \A t \in Tables : IsTable(cat[t])
  BY <1>1 DEF IsTable
<1> QED
  BY <1>2 DEF Init, CatalogueInv, CatalogueMirrorsCode

LEMMA SyncInv ==
  ASSUME CatalogueInv, NEW commit \in BOOLEAN, EndSync(commit)
  PROVE  CatalogueInv'
<1>1. CASE commit
  <2>1. cat' = Published(cat, sync.release) /\ published' = sync.release
    BY <1>1 DEF EndSync, Written
  <2> QED
    BY <2>1, PublishingReconciles DEF CatalogueInv, CatalogueMirrorsCode
<1>2. CASE ~commit
  <2>1. cat' = cat /\ published' = published
    BY <1>2 DEF EndSync
  <2> QED
    BY <2>1 DEF CatalogueInv, CatalogueMirrorsCode
<1> QED
  BY <1>1, <1>2

(* The tables hold rows and mirror the release that committed last, and    *)
(* only runs that commit write them.                                       *)
THEOREM Invariance == Spec => []CatalogueInv
<1>1. CatalogueInv /\ [Next]_vars => CatalogueInv'
  <2> SUFFICES ASSUME CatalogueInv, [Next]_vars
               PROVE  CatalogueInv'
    OBVIOUS
  <2>1. ASSUME NEW commit \in BOOLEAN, EndSync(commit)
        PROVE  CatalogueInv'
    BY <2>1, SyncInv
  <2>2. CASE UNCHANGED <<cat, published>>
    BY <2>2 DEF CatalogueInv, CatalogueMirrorsCode
  <2>3. \/ \E commit \in BOOLEAN : EndSync(commit)
        \/ UNCHANGED <<cat, published>>
    BY DEF Next, vars, Release, StartSync, Ask, AskEndpoints, AskRules, AskConditions,
           AskFields, AbortSync, AddPermission, Compose, Bind,
           SavePermission, AddRule, ChangeConditions, ApplyFile
  <2> QED
    BY <2>1, <2>2, <2>3
<1> QED
  BY <1>1, InitInv, PTL DEF Spec

(* Through any sequence of releases that drop, move and bring back         *)
(* declarations, what the last committed run left live is exactly what its *)
(* release declares, as it declares it (sync.py:130-183).                  *)
THEOREM CatalogueMirrors == Spec => []CatalogueMirrorsCode
<1>1. CatalogueInv => CatalogueMirrorsCode
  BY DEF CatalogueInv
<1> QED
  BY <1>1, Invariance, PTL

(* What is in service, and what a run publishes, is a release.             *)
ReleaseInv ==
  /\ code \in Releases
  /\ sync # None => sync.release \in Releases

LEMMA ReleasesOnly == Spec => []ReleaseInv
<1>1. Init => ReleaseInv
  BY DEF Init, ReleaseInv
<1>2. ReleaseInv /\ [Next]_vars => ReleaseInv'
  <2> SUFFICES ASSUME ReleaseInv, [Next]_vars
               PROVE  ReleaseInv'
    OBVIOUS
  <2>1. CASE Release \/ AbortSync \/ \E commit \in BOOLEAN : EndSync(commit)
    BY <2>1 DEF ReleaseInv, Release, AbortSync, EndSync
  <2>2. CASE StartSync
    BY <2>2 DEF ReleaseInv, StartSync, Validating
  <2>3. ASSUME NEW n, NEW errors, NEW rules, NEW conditions, Ask(n, errors, rules, conditions)
        PROVE  ReleaseInv'
    BY <2>3 DEF ReleaseInv, Ask, Validating
  <2>4. CASE UNCHANGED <<code, sync>>
    BY <2>4 DEF ReleaseInv
  <2>5. \/ Release \/ AbortSync \/ \E commit \in BOOLEAN : EndSync(commit)
        \/ StartSync \/ AskEndpoints \/ AskRules \/ AskConditions \/ AskFields
        \/ UNCHANGED <<code, sync>>
    BY DEF Next, vars, AddPermission, Compose, Bind, SavePermission, AddRule,
           ChangeConditions, ApplyFile
  <2> QED
    BY <2>1, <2>2, <2>3, <2>4, <2>5 DEF AskEndpoints, AskRules, AskConditions, AskFields
<1> QED
  BY <1>1, <1>2, PTL DEF Spec

(* A second run of one release finds nothing to create, update, revive or  *)
(* retire, whatever happened since the first (sync.py:499-501).            *)
THEOREM SecondSync == Spec => SecondSyncIsNoOp
<1> DEFINE NoOp == \A commit \in BOOLEAN :
                     (EndSync(commit) /\ published = sync.release)
                       => ~SomethingChanged(Reported(cat, sync.release))
<1>1. CatalogueInv /\ ReleaseInv => NoOp
  <2> SUFFICES ASSUME CatalogueInv, ReleaseInv, NEW commit \in BOOLEAN, EndSync(commit),
                      published = sync.release
               PROVE  ~SomethingChanged(Reported(cat, sync.release))
    OBVIOUS
  <2>1. InStep(cat, sync.release)
    BY DeploymentAssumption DEF EndSync, ReleaseInv, CatalogueInv, CatalogueMirrorsCode
  <2> QED
    BY <2>1, InStepMeansNoOp DEF CatalogueInv
<1>2. [][NoOp]_vars => SecondSyncIsNoOp
  BY PTL DEF SecondSyncIsNoOp
<1> QED
  BY <1>1, <1>2, Invariance, ReleasesOnly, PTL

-----------------------------------------------------------------------------
(* A query that finds no error: the keys of the rules it returns are        *)
(* known, and their conditions use filters that are live and about the     *)
(* object the key names.                                                   *)
LEMMA NoRuleErrors ==
  ASSUME NEW release, NEW new, NEW c, RuleErrors(release, new, c) = {}, NEW r \in c.rules
  PROVE  r.key \in KnownKeys(release)
<1> DEFINE dead == {y \in c.rules : y.key[1] \notin Live(new, "objects")}
           unknown == {y \in c.rules \ dead : y.key \notin KnownKeys(release)}
<1>1. dead = {}
  <2>1. {Problem("stale-object", y) : y \in dead} = {}
    BY DEF RuleErrors
  <2> QED
    BY <2>1
<1>2. unknown = {}
  <2>1. {Problem("stale-key", y) : y \in unknown} = {}
    BY DEF RuleErrors
  <2> QED
    BY <2>1
<1> QED
  BY <1>1, <1>2

LEMMA NoConditionErrors ==
  ASSUME NEW new, NEW c, ConditionErrors(new, c) = {}, NEW r \in c.rules,
         NEW x \in c.conditions, x.rule = r.id
  PROVE  /\ x.filter \in Live(new, "filters")
         /\ new.filters[x.filter].data.object = r.key[1]
<1>1. StaleFilters(new, c) = {}
  <2>1. {Problem("stale-filter", y) : y \in StaleFilters(new, c)} = {}
    BY DEF ConditionErrors
  <2> QED
    BY <2>1
<1>2. MisfiledFilters(new, c) = {}
  <2>1. {Problem("misfiled-filter", y) : y \in MisfiledFilters(new, c)} = {}
    BY DEF ConditionErrors
  <2> QED
    BY <2>1
<1> QED
  <2>1. x.filter \in Live(new, "filters")
    BY <1>1 DEF StaleFilters
  <2> QED
    BY <1>2, <2>1 DEF MisfiledFilters, Live

(* A live filter is one the release declares, for the object it declares.  *)
LEMMA LiveFilters ==
  ASSUME NEW release, NEW new, InStep(new, release), NEW f \in Live(new, "filters")
  PROVE  /\ f \in DOMAIN release.filters
         /\ new.filters[f].data.object = release.filters[f].object
<1>1. /\ Live(new, "filters") = DOMAIN Desired(release)["filters"]
      /\ \A i \in Live(new, "filters") :
           new["filters"][i].data = Desired(release)["filters"][i]
  BY DEF InStep, Tables
<1>2. Desired(release)["filters"] =
        [g \in Attached(release) |-> [object |-> release.filters[g].object,
                                      params |-> DOMAIN release.filters[g].q]]
  BY DEF Desired
<1>3. f \in Attached(release)
  BY <1>1, <1>2
<1>4. new["filters"][f].data = Desired(release)["filters"][f]
  BY <1>1
<1>5. Desired(release)["filters"][f].object = release.filters[f].object
  BY <1>2, <1>3
<1> QED
  BY <1>3, <1>4, <1>5 DEF Attached

(* What a run has read and found no error in is as its own catalogue, the  *)
(* one it has yet to commit, wants it: nobody else writes the catalogue.   *)
RunInv ==
  sync # None =>
    /\ \A r \in sync.rules : r.key \in KnownKeys(sync.release)
    /\ \A x, r : <<x, r>> \in sync.conditions =>
         /\ x.filter \in Live(Written, "filters")
         /\ Written.filters[x.filter].data.object = r.key[1]

LEMMA QueryKeepsRunInv ==
  ASSUME RunInv, NEW n, NEW errors, NEW rules, NEW conditions,
         Ask(n, errors, rules, conditions),
         errors = {} => \A r \in rules : r.key \in KnownKeys(sync.release),
         errors = {} => \A x, r : <<x, r>> \in conditions =>
                          /\ x.filter \in Live(Written, "filters")
                          /\ Written.filters[x.filter].data.object = r.key[1]
  PROVE  RunInv'
<1>1. /\ cat' = cat
      /\ sync' = Validating(sync.release, n + 1, sync.clean /\ errors = {}, rules, conditions)
  BY DEF Ask
<1>2. /\ sync'.release = sync.release
      /\ sync'.rules = IF sync.clean /\ errors = {} THEN rules ELSE {}
      /\ sync'.conditions = IF sync.clean /\ errors = {} THEN conditions ELSE {}
  BY <1>1 DEF Validating
<1>3. Written' = Written
  BY <1>1, <1>2 DEF Written
<1>4. CASE errors = {}
  BY <1>2, <1>3, <1>4 DEF RunInv
<1>5. CASE errors # {}
  BY <1>2, <1>5 DEF RunInv
<1> QED
  BY <1>4, <1>5

THEOREM RunsReadWhatTheyWrite == Spec => []RunInv
<1>1. Init => RunInv
  BY DEF Init, RunInv
<1>2. RunInv /\ [Next]_vars => RunInv'
  <2> SUFFICES ASSUME RunInv, [Next]_vars
               PROVE  RunInv'
    OBVIOUS
  <2>1. CASE StartSync
    <3>1. sync'.rules = {} /\ sync'.conditions = {}
      BY <2>1 DEF StartSync, Validating
    <3> QED
      BY <3>1 DEF RunInv
  <2>2. CASE AskEndpoints
    BY <2>2, QueryKeepsRunInv DEF AskEndpoints
  <2>3. CASE AskRules
    <3>1. RuleErrors(sync.release, Written, tables) = {} =>
            \A r \in tables.rules : r.key \in KnownKeys(sync.release)
      BY NoRuleErrors
    <3> QED
      BY <2>3, <3>1, QueryKeepsRunInv DEF AskRules
  <2>4. CASE AskConditions
    <3>1. sync # None
      BY <2>4 DEF AskConditions, Ask
    <3>2. \A r \in sync.rules : r.key \in KnownKeys(sync.release)
      BY <3>1 DEF RunInv
    <3>3. \A x, r : <<x, r>> \in WithRule(tables) =>
            x \in tables.conditions /\ r \in tables.rules /\ x.rule = r.id
      BY DEF WithRule
    <3>4. ConditionErrors(Written, tables) = {} =>
            \A x, r : <<x, r>> \in WithRule(tables) =>
              /\ x.filter \in Live(Written, "filters")
              /\ Written.filters[x.filter].data.object = r.key[1]
      BY <3>3, NoConditionErrors
    <3> QED
      BY <2>4, <3>2, <3>4, QueryKeepsRunInv DEF AskConditions
  <2>5. CASE AskFields
    <3>1. sync # None
      BY <2>5 DEF AskFields, Ask
    <3> QED
      BY <2>5, <3>1, QueryKeepsRunInv DEF AskFields, RunInv
  <2>6. CASE AbortSync \/ \E commit \in BOOLEAN : EndSync(commit)
    BY <2>6 DEF AbortSync, EndSync, RunInv
  <2>7. CASE UNCHANGED <<cat, sync>>
    BY <2>7 DEF RunInv, Written
  <2>8. \/ StartSync \/ AskEndpoints \/ AskRules \/ AskConditions \/ AskFields
        \/ AbortSync \/ \E commit \in BOOLEAN : EndSync(commit)
        \/ UNCHANGED <<cat, sync>>
    BY DEF Next, vars, Release, AddPermission, Compose, Bind,
           SavePermission, AddRule, ChangeConditions, ApplyFile
  <2> QED
    BY <2>1, <2>2, <2>3, <2>4, <2>5, <2>6, <2>7, <2>8
<1> QED
  BY <1>1, <1>2, PTL DEF Spec

(* A rule and a condition as RunInv has them resolve and compile, but for  *)
(* the three reasons the check does not look at.                           *)
LEMMA ReadMeansUsable ==
  ASSUME CatalogueInv, RunInv, sync # None, NEW r \in sync.rules
  PROVE  UsableAsRead(sync.release, r)
<1> DEFINE release == sync.release
<1> SUFFICES ASSUME r.key[1] \in DOMAIN release.objects, ~Renamed(release, r.key)
             PROVE  /\ r.key \in ResolvableKeys(release)
                    /\ \A x \in tables.conditions :
                         <<x, r>> \in sync.conditions =>
                           \/ Usable(View(release), r.key, x)
                           \/ x.filter \in DOMAIN release.filters /\ ~Bindable(release, x)
  BY DEF UsableAsRead
<1>1. r.key \in ResolvableKeys(release)
  BY DEF RunInv, ResolvableKeys
<1>2. View(release).keys[r.key].resource = r.key[1]
  BY <1>1 DEF View, KeySpec, Renamed
<1>3. InStep(Written, release)
  BY PublishingReconciles DEF CatalogueInv, Written
<1>4. ASSUME NEW x, <<x, r>> \in sync.conditions, Bindable(release, x)
      PROVE  Usable(View(release), r.key, x)
  <2>1. /\ x.filter \in Live(Written, "filters")
        /\ Written.filters[x.filter].data.object = r.key[1]
    BY <1>4 DEF RunInv
  <2>2. /\ x.filter \in DOMAIN release.filters
        /\ release.filters[x.filter].object = r.key[1]
    BY <1>3, <2>1, LiveFilters
  <2>3. View(release).filters = release.filters
    BY DEF View
  <2> QED
    BY <1>2, <1>4, <2>2, <2>3 DEF Usable, Bindable
<1>5. ASSUME NEW x, <<x, r>> \in sync.conditions
      PROVE  x.filter \in DOMAIN release.filters
  BY <1>3, <1>5, LiveFilters DEF RunInv
<1> QED
  BY <1>1, <1>4, <1>5

(* Whatever releases, administrators and files did before and during the   *)
(* run, also between its queries: when it exits clean, the rules and       *)
(* conditions that its queries returned are ones a request can use, but    *)
(* for the three reasons validate does not look at (sync.py:318-484).      *)
THEOREM CleanSync == Spec => CleanSyncMeansUsable
<1> DEFINE Usably == \A commit \in BOOLEAN :
      (EndSync(commit) /\ exit' = "clean") =>
         \A r \in tables.rules \cap sync.rules : UsableAsRead(sync.release, r)
<1>1. CatalogueInv /\ RunInv => Usably
  BY ReadMeansUsable DEF EndSync
<1>2. [][Usably]_vars => CleanSyncMeansUsable
  BY PTL DEF CleanSyncMeansUsable
<1> QED
  BY <1>1, <1>2, Invariance, RunsReadWhatTheyWrite, PTL


-----------------------------------------------------------------------------
(* The composition tables: rows are rows, and the constraints hold.        *)
IsRule(r) ==
  /\ r = [id |-> r.id, permission |-> r.permission, key |-> r.key, label |-> r.label]
  /\ r.id \in Nat /\ r.permission \in Nat

IsCondition(x) == x = [rule |-> x.rule, filter |-> x.filter, params |-> x.params]

SoundTables(c) ==
  /\ c = [bindings |-> c.bindings, endpoints |-> c.endpoints, rules |-> c.rules,
          conditions |-> c.conditions, fields |-> c.fields]
  /\ WellFormed(c)
  /\ IsFiniteSet(c.rules)
  /\ \A r \in c.rules : IsRule(r)
  /\ \A x \in c.conditions : IsCondition(x)

(* There are ids for new rules: of the numbers up to the number of rules,  *)
(* old and new, the old ones take no more than there are old rules.        *)
LEMMA FreshIdsAreFree ==
  ASSUME NEW c, IsFiniteSet(c.rules), NEW S, IsFiniteSet(S)
  PROVE  /\ \A x \in S : FreshIds(c, S)[x] \in Nat
         /\ \A x \in S, r \in c.rules : r.id # FreshIds(c, S)[x]
         /\ \A x, y \in S : FreshIds(c, S)[x] = FreshIds(c, S)[y] => x = y
<1> DEFINE C == Cardinality(c.rules)
           K == Cardinality(S)
           used == {r.id : r \in c.rules}
           free == (1..(C + K)) \ used
           numbers == [r \in c.rules |-> r.id]
<1>1. C \in Nat /\ K \in Nat /\ ExistsBijection(1..K, S)
  BY FS_CardinalityType
<1>2. IsFiniteSet(used) /\ Cardinality(used) \in Nat /\ Cardinality(used) <= C
  <2>1. numbers \in Surjection(c.rules, used)
    BY DEF Surjection
  <2> HIDE DEF numbers, used
  <2> QED
    BY <2>1, FS_Surjection, FS_CardinalityType
<1>3. IsFiniteSet(free) /\ Cardinality(free) \in Nat /\ Cardinality(free) >= K
  <2> DEFINE all == 1..(C + K)
  <2>1. IsFiniteSet(all) /\ Cardinality(all) = C + K
    <3>1. C + K \in Int /\ 1 \in Int
      BY <1>1
    <3>2. Cardinality(1..(C + K)) = IF 1 > C + K THEN 0 ELSE (C + K) - 1 + 1
      BY <3>1, FS_Interval
    <3>3. IsFiniteSet(1..(C + K))
      BY <3>1, FS_Interval
    <3> HIDE DEF C, K
    <3> QED
      BY <1>1, <3>2, <3>3
  <2> HIDE DEF all, used, C, K
  <2>2. /\ IsFiniteSet(all \ used)
        /\ Cardinality(all \ used) = Cardinality(all) - Cardinality(all \cap used)
    BY <2>1, FS_Difference
  <2>3. Cardinality(all \cap used) <= Cardinality(used) /\ IsFiniteSet(all \cap used)
    BY <1>2, FS_Intersection
  <2>4. Cardinality(all \cap used) \in Nat /\ Cardinality(all \ used) \in Nat
    BY <2>2, <2>3, FS_CardinalityType
  <2>5. \A n, i, k \in Nat, j \in Nat : j = (n + k) - i /\ i <= n => j >= k
    OBVIOUS
  <2>6. Cardinality(all \cap used) <= C
    BY <1>1, <1>2, <2>3, <2>4
  <2>7. Cardinality(all \ used) = (C + K) - Cardinality(all \cap used)
    BY <2>1, <2>2
  <2>8. Cardinality(all \ used) >= K
    BY <1>1, <2>4, <2>5, <2>6, <2>7
  <2>9. IsFiniteSet(all \ used) /\ Cardinality(all \ used) \in Nat
    BY <2>2, <2>4
  <2> QED
    BY <2>8, <2>9 DEF all
<1> HIDE DEF used, C, K
<1>4. PICK h \in Bijection(1..K, S) : TRUE
  BY <1>1 DEF ExistsBijection
<1>5. PICK g \in Bijection(1..Cardinality(free), free) : TRUE
  BY <1>3, FS_CardinalityType DEF ExistsBijection
<1> DEFINE m == Cardinality(free)
           At(x) == CHOOSE k \in 1..K : h[k] = x
           ids == [x \in S |-> g[At(x)]]
<1>6. \A x \in S : At(x) \in 1..K /\ h[At(x)] = x
  BY <1>4 DEF Bijection, Surjection
<1>7. \A k \in 1..K : k \in 1..m
  <2> HIDE DEF free
  <2> QED
    BY <1>1, <1>3
<1>8. /\ \A k \in 1..m : g[k] \in free
      /\ \A k, l \in 1..m : g[k] = g[l] => k = l
  <2> HIDE DEF free
  <2> QED
    BY <1>5 DEF Bijection, Injection, IsInjective
<1> HIDE DEF At, m
<1>9. /\ ids \in [S -> free]
      /\ \A x, y \in S : ids[x] = ids[y] => x = y
  <2>1. \A x \in S : ids[x] \in free
    BY <1>6, <1>7, <1>8
  <2>2. \A x, y \in S : ids[x] = ids[y] => At(x) = At(y)
    BY <1>6, <1>7, <1>8
  <2> QED
    BY <1>6, <2>1, <2>2
<1> HIDE DEF ids
<1>10. ids \in Injection(S, 1..(C + K))
  <2>1. ids \in [S -> 1..(C + K)]
    BY <1>9 DEF free
  <2>2. IsInjective(ids)
    BY <1>9, <2>1 DEF IsInjective
  <2> QED
    BY <2>1, <2>2 DEF Injection
<1>11. \A x \in S, r \in c.rules : r.id # ids[x]
  BY <1>9 DEF free, used
<1>12. \A f \in Injection(S, 1..(C + K)) :
         /\ \A x \in S : f[x] \in 1..(C + K)
         /\ \A x, y \in S : f[x] = f[y] => x = y
  BY DEF Injection, IsInjective
<1>13. FreshIds(c, S) = CHOOSE f \in Injection(S, 1..(C + K)) :
                          \A x \in S, r \in c.rules : r.id # f[x]
  BY DEF FreshIds, C, K
<1>14. /\ FreshIds(c, S) \in Injection(S, 1..(C + K))
       /\ \A x \in S, r \in c.rules : r.id # FreshIds(c, S)[x]
  BY <1>10, <1>11, <1>13
<1>15. \A i \in 1..(C + K) : i \in Nat
  BY <1>1
<1> QED
  BY <1>12, <1>14, <1>15

-----------------------------------------------------------------------------
(* What the checks of a file come to: finitely many rules, told apart by   *)
(* their key and label, and at most one row for each.                      *)
Acceptable(c, specs) ==
  /\ IsFiniteSet(Entries(specs))
  /\ \A e \in Entries(specs) : e[1] \in Nat
  /\ \A e, f \in Entries(specs) :
       /\ e[1] = f[1]
       /\ EntryRule(specs, e).key = EntryRule(specs, f).key
       /\ EntryRule(specs, e).label = EntryRule(specs, f).label
       => e = f
  /\ \A e \in Entries(specs) :
       \A r, s \in SameRule(c, e[1], EntryRule(specs, e)) : r = s

LEMMA IdsAreOwn ==
  ASSUME NEW c, SoundTables(c), NEW specs, Acceptable(c, specs)
  PROVE  /\ \A e \in Entries(specs), r \in c.rules :
              RuleIds(c, specs)[e] = r.id <=> r \in SameRule(c, e[1], EntryRule(specs, e))
         /\ \A e, f \in Entries(specs) :
              RuleIds(c, specs)[e] = RuleIds(c, specs)[f] => e = f
         /\ \A e \in Entries(specs) : RuleIds(c, specs)[e] \in Nat
<1> DEFINE Rows(e) == SameRule(c, e[1], EntryRule(specs, e))
           missing == {e \in Entries(specs) : Rows(e) = {}}
           created == FreshIds(c, missing)
           ids == RuleIds(c, specs)
<1>1. \A e \in Entries(specs) :
        ids[e] = IF Rows(e) = {} THEN created[e] ELSE (CHOOSE r \in Rows(e) : TRUE).id
  BY DEF RuleIds
<1>2. /\ \A e \in missing : created[e] \in Nat
      /\ \A e \in missing, r \in c.rules : r.id # created[e]
      /\ \A e, f \in missing : created[e] = created[f] => e = f
  <2>1. IsFiniteSet(missing) /\ IsFiniteSet(c.rules)
    BY FS_Subset DEF Acceptable, SoundTables
  <2> HIDE DEF missing
  <2> QED
    BY <2>1, FreshIdsAreFree
<1> HIDE DEF created, ids
<1>3. \A e \in Entries(specs) : \A r \in Rows(e) : r \in c.rules
  BY DEF SameRule
<1>4. \A r, s \in c.rules : r.id = s.id => r = s
  BY DEF SoundTables, WellFormed
<1>5. \A e \in Entries(specs) : \A r, s \in Rows(e) : r = s
  BY DEF Acceptable
<1>6. \A e, f \in Entries(specs) : \A r \in Rows(e) : r \in Rows(f) => e = f
  BY DEF Acceptable, SameRule
<1> HIDE DEF Rows
<1>7. \A e \in missing : ids[e] = created[e]
  BY <1>1
<1>8. \A e \in Entries(specs) \ missing : \E r \in Rows(e) : ids[e] = r.id
  BY <1>1
<1>9. ASSUME NEW e \in Entries(specs), NEW r \in c.rules
      PROVE  ids[e] = r.id <=> r \in Rows(e)
  <2>1. CASE e \in missing
    BY <2>1, <1>2, <1>7
  <2>2. CASE e \notin missing
    BY <2>2, <1>3, <1>4, <1>5, <1>8
  <2> QED
    BY <2>1, <2>2
<1>10. ASSUME NEW e \in Entries(specs), NEW f \in Entries(specs), ids[e] = ids[f]
       PROVE  e = f
  <2>1. CASE e \in missing /\ f \in missing
    BY <2>1, <1>2, <1>7, <1>10
  <2>2. CASE e \notin missing
    <3>1. PICK r \in Rows(e) : ids[e] = r.id
      BY <2>2, <1>8
    <3> QED
      BY <3>1, <1>3, <1>6, <1>9, <1>10
  <2>3. CASE f \notin missing
    <3>1. PICK r \in Rows(f) : ids[f] = r.id
      BY <2>3, <1>8
    <3> QED
      BY <3>1, <1>3, <1>6, <1>9, <1>10
  <2> QED
    BY <2>1, <2>2, <2>3
<1>11. \A e \in Entries(specs) : ids[e] \in Nat
  BY <1>2, <1>3, <1>7, <1>8 DEF SoundTables, IsRule
<1> QED
  BY <1>9, <1>10, <1>11 DEF Rows, ids

-----------------------------------------------------------------------------
(* The rules a permission holds are those of a list, each with its         *)
(* conditions.                                                             *)
Conditions(c, r) ==
  {<<x.filter, x.params>> : x \in {y \in c.conditions : y.rule = r.id}}

Listed(conditions) == {<<f, conditions[f]>> : f \in DOMAIN conditions}

HoldsRules(c, p, rules) ==
  /\ \A r \in {s \in c.rules : s.permission = p} :
       \E i \in DOMAIN rules : r \in SameRule(c, p, rules[i])
  /\ \A i \in DOMAIN rules : \E r \in {s \in c.rules : s.permission = p} :
       SameRule(c, p, rules[i]) = {r} /\ Conditions(c, r) = Listed(StoredEach(rules[i].conditions))

(* Everything about the permissions outside P is in d as it is in c.       *)
OthersAsIn(c, d, P) ==
  /\ {r \in d.rules : r.permission \notin P} = {r \in c.rules : r.permission \notin P}
  /\ \A r \in c.rules : r.permission \notin P =>
       {x \in d.conditions : x.rule = r.id} = {x \in c.conditions : x.rule = r.id}

(* Writing the rules of a file.                                            *)
LEMMA RulesAreWritten ==
  ASSUME NEW c, SoundTables(c), NEW specs, Acceptable(c, specs)
  PROVE  LET d == WithRules(c, specs)
         IN /\ SoundTables(d)
            /\ d.bindings = c.bindings /\ d.endpoints = c.endpoints /\ d.fields = c.fields
            /\ \A p \in DOMAIN specs : HoldsRules(d, p, specs[p].rules)
            /\ OthersAsIn(c, d, DOMAIN specs)
            /\ \A x \in d.conditions :
                 \/ x \in c.conditions
                 \/ \E e \in Entries(specs) : x.filter \in DOMAIN EntryRule(specs, e).conditions
            /\ \A r \in d.rules :
                 \/ r \in c.rules
                 \/ \E e \in Entries(specs) : r.key = EntryRule(specs, e).key
<1> DEFINE d == WithRules(c, specs)
           ids == RuleIds(c, specs)
           alone == {r \in c.rules : r.permission \notin DOMAIN specs}
           RowOf(e) == [id |-> ids[e], permission |-> e[1], key |-> EntryRule(specs, e).key,
                        label |-> EntryRule(specs, e).label]
           Said(e) == StoredEach(EntryRule(specs, e).conditions)
           Of(e) == {[rule |-> ids[e], filter |-> f, params |-> Said(e)[f]] :
                       f \in DOMAIN Said(e)}
           rows == {RowOf(e) : e \in Entries(specs)}
           kept == {x \in c.conditions : \E r \in alone : r.id = x.rule}
<1>1. /\ d = [c EXCEPT !.rules = alone \cup rows,
                       !.conditions = kept \cup UNION {Of(e) : e \in Entries(specs)}]
  BY DEF WithRules, RulesBeside
<1>2. /\ c = [bindings |-> c.bindings, endpoints |-> c.endpoints, rules |-> c.rules,
              conditions |-> c.conditions, fields |-> c.fields]
      /\ WellFormed(c) /\ IsFiniteSet(c.rules)
      /\ \A r \in c.rules : IsRule(r)
      /\ \A x \in c.conditions : IsCondition(x)
  BY DEF SoundTables
<1> HIDE DEF Of, RowOf, alone, rows, kept, d
<1>3. /\ d.rules = alone \cup rows
      /\ d.conditions = kept \cup UNION {Of(e) : e \in Entries(specs)}
      /\ d.bindings = c.bindings /\ d.endpoints = c.endpoints /\ d.fields = c.fields
      /\ d = [bindings |-> d.bindings, endpoints |-> d.endpoints, rules |-> d.rules,
              conditions |-> d.conditions, fields |-> d.fields]
  BY <1>1, <1>2
<1> DEFINE added == UNION {Of(e) : e \in Entries(specs)}
<1>a. /\ \A x : x \in added <=> \E e \in Entries(specs) : x \in Of(e)
      /\ \A r : r \in rows <=> \E e \in Entries(specs) : r = RowOf(e)
  BY DEF rows
<1>b. d.conditions = kept \cup added
  BY <1>3
<1>c. /\ \A r : r \in alone <=> (r \in c.rules /\ r.permission \notin DOMAIN specs)
      /\ \A r : r \in d.rules <=> (r \in alone \/ r \in rows)
  BY <1>3 DEF alone
<1> HIDE DEF added
<1>4. /\ \A e \in Entries(specs), r \in c.rules :
           ids[e] = r.id <=> r \in SameRule(c, e[1], EntryRule(specs, e))
      /\ \A e, f \in Entries(specs) : ids[e] = ids[f] => e = f
      /\ \A e \in Entries(specs) : ids[e] \in Nat /\ e[1] \in Nat
  BY IdsAreOwn DEF Acceptable
<1> HIDE DEF ids
<1>5. \A e \in Entries(specs) :
        /\ e[1] \in DOMAIN specs /\ e[2] \in DOMAIN specs[e[1]].rules
        /\ e = <<e[1], e[2]>>
        /\ RowOf(e).id = ids[e] /\ RowOf(e).permission = e[1]
        /\ RowOf(e).key = EntryRule(specs, e).key
        /\ RowOf(e).label = EntryRule(specs, e).label
        /\ IsRule(RowOf(e))
  BY <1>4 DEF Entries, RowOf, IsRule
<1>6. \A e \in Entries(specs), r \in alone : ids[e] # r.id
  BY <1>4, <1>5 DEF alone, SameRule
<1>7. \A r, s \in d.rules : r.id = s.id => r = s
  <2>1. \A r, s \in alone : r.id = s.id => r = s
    BY <1>2 DEF alone, WellFormed
  <2>2. \A r, s \in rows : r.id = s.id => r = s
    BY <1>4, <1>5 DEF rows
  <2>3. \A r \in alone, s \in rows : r.id # s.id
    BY <1>5, <1>6 DEF rows
  <2> QED
    BY <1>3, <2>1, <2>2, <2>3
<1>8. /\ \A x \in kept : x \in c.conditions /\ \E r \in alone : r.id = x.rule
      /\ \A e \in Entries(specs) : \A x \in Of(e) :
           /\ x.rule = ids[e] /\ x.filter \in DOMAIN Said(e)
           /\ x.params = Said(e)[x.filter] /\ IsCondition(x)
  BY DEF kept, Of, IsCondition
<1>9. /\ \A r \in alone : {x \in d.conditions : x.rule = r.id} = {x \in c.conditions : x.rule = r.id}
      /\ \A e \in Entries(specs) : {x \in d.conditions : x.rule = ids[e]} = Of(e)
  <2>1. ASSUME NEW r \in alone
        PROVE  {x \in d.conditions : x.rule = r.id} = {x \in c.conditions : x.rule = r.id}
    <3>1. \A x \in c.conditions : x.rule = r.id => x \in kept
      BY DEF kept
    <3> QED
      BY <3>1, <1>a, <1>b, <1>6, <1>8
  <2>2. ASSUME NEW e \in Entries(specs)
        PROVE  {x \in d.conditions : x.rule = ids[e]} = Of(e)
    BY <1>a, <1>b, <1>4, <1>6, <1>8
  <2> QED
    BY <2>1, <2>2
<1>10. SoundTables(d)
  <2>1. \A x \in d.conditions : \E r \in d.rules : r.id = x.rule
    <3>1. \A x \in kept : \E r \in alone : r.id = x.rule
      BY <1>8
    <3>2. \A e \in Entries(specs) : RowOf(e) \in rows /\ RowOf(e).id = ids[e]
      BY <1>5 DEF rows
    <3> QED
      BY <1>a, <1>b, <1>3, <1>8, <3>1, <3>2
  <2>2. \A x, y \in d.conditions : (x.rule = y.rule /\ x.filter = y.filter) => x = y
    <3> SUFFICES ASSUME NEW x \in d.conditions, NEW y \in d.conditions,
                        x.rule = y.rule, x.filter = y.filter
                 PROVE  x = y
      OBVIOUS
    <3>1. CASE x \in kept
      <4>1. PICK r \in alone : r.id = x.rule
        BY <3>1, <1>8
      <4>2. x \in c.conditions /\ y \in c.conditions
        BY <4>1, <1>9
      <4> QED
        BY <4>2, <1>2 DEF WellFormed
    <3>2. CASE x \notin kept
      <4>1. PICK e \in Entries(specs) : x \in Of(e)
        BY <3>2, <1>a, <1>b
      <4>2. y \in Of(e)
        BY <4>1, <1>8, <1>9
      <4>3. x.params = y.params /\ IsCondition(x) /\ IsCondition(y)
        BY <4>1, <4>2, <1>8
      <4> QED
        BY <4>3 DEF IsCondition
    <3> QED
      BY <3>1, <3>2
  <2>3. WellFormed(d)
    BY <1>2, <1>3, <1>7, <2>1, <2>2 DEF WellFormed
  <2>4. IsFiniteSet(d.rules)
    <3>1. IsFiniteSet(alone)
      BY <1>2, FS_Subset DEF alone
    <3>2. IsFiniteSet(rows)
      <4> DEFINE writes == [e \in Entries(specs) |-> RowOf(e)]
      <4>1. writes \in Surjection(Entries(specs), rows)
        BY DEF Surjection, rows
      <4> HIDE DEF writes
      <4> QED
        BY <4>1, FS_Surjection DEF Acceptable
    <3>3. IsFiniteSet(alone \cup rows)
      BY <3>1, <3>2, FS_Union
    <3> QED
      BY <1>3, <3>3
  <2>5. \A r \in d.rules : IsRule(r)
    BY <1>a, <1>c, <1>2, <1>5
  <2>6. \A x \in d.conditions : IsCondition(x)
    BY <1>a, <1>b, <1>2, <1>8
  <2> QED
    BY <1>3, <2>3, <2>4, <2>5, <2>6 DEF SoundTables
<1>11. ASSUME NEW p \in DOMAIN specs
       PROVE  HoldsRules(d, p, specs[p].rules)
  <2>1. \A r \in d.rules : r.permission = p => r \in rows
    BY <1>3 DEF alone
  <2>2. \A i \in DOMAIN specs[p].rules :
          /\ <<p, i>> \in Entries(specs)
          /\ EntryRule(specs, <<p, i>>) = specs[p].rules[i]
    BY DEF Entries, EntryRule
  <2>3. ASSUME NEW r \in d.rules, r.permission = p
        PROVE  \E i \in DOMAIN specs[p].rules : r \in SameRule(d, p, specs[p].rules[i])
    <3>1. PICK e \in Entries(specs) : r = RowOf(e)
      BY <2>1, <2>3 DEF rows
    <3>2. e[1] = p /\ e[2] \in DOMAIN specs[p].rules
      BY <3>1, <2>3, <1>5
    <3>3. EntryRule(specs, e) = specs[p].rules[e[2]]
      BY <3>2 DEF EntryRule
    <3> QED
      BY <3>1, <3>2, <3>3, <1>5 DEF SameRule
  <2>4. ASSUME NEW i \in DOMAIN specs[p].rules
        PROVE  \E r \in {s \in d.rules : s.permission = p} :
                 /\ SameRule(d, p, specs[p].rules[i]) = {r}
                 /\ Conditions(d, r) = Listed(StoredEach(specs[p].rules[i].conditions))
    <3> DEFINE e == <<p, i>>
    <3>1. e \in Entries(specs) /\ EntryRule(specs, e) = specs[p].rules[i] /\ e[1] = p
      BY <2>2
    <3> HIDE DEF e
    <3>2. RowOf(e) \in d.rules /\ RowOf(e).permission = p
      BY <3>1, <1>3, <1>5 DEF rows
    <3>3. ASSUME NEW s \in SameRule(d, p, specs[p].rules[i])
          PROVE  s = RowOf(e)
      <4>1. s \in d.rules /\ s.permission = p
        BY <3>3 DEF SameRule
      <4>2. PICK f \in Entries(specs) : s = RowOf(f)
        BY <4>1, <2>1 DEF rows
      <4>3. e = f
        BY <3>1, <3>3, <4>1, <4>2, <1>5 DEF SameRule, Acceptable
      <4> QED
        BY <4>2, <4>3
    <3>4. RowOf(e) \in SameRule(d, p, specs[p].rules[i])
      BY <3>1, <3>2, <1>5 DEF SameRule
    <3>5. {x \in d.conditions : x.rule = RowOf(e).id} = Of(e)
      BY <3>1, <1>5, <1>9
    <3>6. Conditions(d, RowOf(e)) = {<<x.filter, x.params>> : x \in Of(e)}
      BY <3>5 DEF Conditions
    <3>7. {<<x.filter, x.params>> : x \in Of(e)} = Listed(StoredEach(specs[p].rules[i].conditions))
      <4>1. Of(e) = {[rule |-> ids[e], filter |-> f, params |-> Said(e)[f]] :
                       f \in DOMAIN Said(e)}
        BY DEF Of
      <4>2. Said(e) = StoredEach(specs[p].rules[i].conditions)
        BY <3>1
      <4> HIDE DEF Said
      <4>3. ASSUME NEW y
            PROVE  y \in {<<x.filter, x.params>> : x \in Of(e)}
                     <=> \E f \in DOMAIN Said(e) : y = <<f, Said(e)[f]>>
        <5>1. \A f \in DOMAIN Said(e) :
                \E x \in Of(e) : x.filter = f /\ x.params = Said(e)[f]
          <6> SUFFICES ASSUME NEW f \in DOMAIN Said(e)
                       PROVE  \E x \in Of(e) : x.filter = f /\ x.params = Said(e)[f]
            OBVIOUS
          <6> DEFINE x == [rule |-> ids[e], filter |-> f, params |-> Said(e)[f]]
          <6>1. x \in Of(e)
            BY <4>1
          <6>2. x.filter = f /\ x.params = Said(e)[f]
            OBVIOUS
          <6> QED
            BY <6>1, <6>2
        <5>2. \A x \in Of(e) : x.filter \in DOMAIN Said(e) /\ x.params = Said(e)[x.filter]
          BY <4>1
        <5> QED
          BY <5>1, <5>2
      <4>4. {<<x.filter, x.params>> : x \in Of(e)} = Listed(Said(e))
        BY <4>3 DEF Listed
      <4> QED
        BY <4>2, <4>4
    <3> QED
      BY <3>2, <3>3, <3>4, <3>6, <3>7
  <2> QED
    BY <2>3, <2>4 DEF HoldsRules
<1>12. OthersAsIn(c, d, DOMAIN specs)
  <2>1. {r \in d.rules : r.permission \notin DOMAIN specs} = alone
    <3>1. \A r \in rows : r.permission \in DOMAIN specs
      BY <1>a, <1>5
    <3> QED
      BY <3>1, <1>c
  <2> QED
    BY <2>1, <1>9 DEF OthersAsIn, alone
<1>13. /\ \A x \in d.conditions :
            \/ x \in c.conditions
            \/ \E e \in Entries(specs) : x.filter \in DOMAIN EntryRule(specs, e).conditions
       /\ \A r \in d.rules :
            \/ r \in c.rules
            \/ \E e \in Entries(specs) : r.key = EntryRule(specs, e).key
  <2>1. \A r \in rows : \E e \in Entries(specs) : r.key = EntryRule(specs, e).key
    BY <1>a, <1>5
  <2>2. \A x \in added : \E e \in Entries(specs) :
          x.filter \in DOMAIN EntryRule(specs, e).conditions
    BY <1>a, <1>8 DEF StoredEach
  <2> QED
    BY <2>1, <2>2, <1>b, <1>c, <1>8
<1> QED
  BY <1>3, <1>10, <1>11, <1>12, <1>13 DEF d

(* Tables that hold what a file says are not changed by writing its rules. *)
LEMMA RulesStay ==
  ASSUME NEW d, SoundTables(d), NEW specs,
         \A p \in DOMAIN specs : HoldsRules(d, p, specs[p].rules)
  PROVE  WithRules(d, specs) = d
<1> DEFINE ids == RuleIds(d, specs)
           alone == {r \in d.rules : r.permission \notin DOMAIN specs}
           RowOf(e) == [id |-> ids[e], permission |-> e[1], key |-> EntryRule(specs, e).key,
                        label |-> EntryRule(specs, e).label]
           Said(e) == StoredEach(EntryRule(specs, e).conditions)
           Of(e) == {[rule |-> ids[e], filter |-> f, params |-> Said(e)[f]] : f \in DOMAIN Said(e)}
           rows == {RowOf(e) : e \in Entries(specs)}
           kept == {x \in d.conditions : \E r \in alone : r.id = x.rule}
           added == UNION {Of(e) : e \in Entries(specs)}
<1>1. WithRules(d, specs) = [d EXCEPT !.rules = alone \cup rows,
                                      !.conditions = kept \cup added]
  BY DEF WithRules, RulesBeside
<1>2. /\ d = [bindings |-> d.bindings, endpoints |-> d.endpoints, rules |-> d.rules,
              conditions |-> d.conditions, fields |-> d.fields]
      /\ WellFormed(d)
      /\ \A r \in d.rules : IsRule(r)
      /\ \A x \in d.conditions : IsCondition(x)
  BY DEF SoundTables
<1>3. \A e \in Entries(specs) :
        e[1] \in DOMAIN specs /\ e[2] \in DOMAIN specs[e[1]].rules
  BY DEF Entries
<1>4. \A p \in DOMAIN specs : \A i \in DOMAIN specs[p].rules :
        /\ <<p, i>> \in Entries(specs)
        /\ EntryRule(specs, <<p, i>>) = specs[p].rules[i]
        /\ <<p, i>>[1] = p
  BY DEF Entries, EntryRule
<1>5. \A e \in Entries(specs) : \E r \in d.rules :
        /\ SameRule(d, e[1], EntryRule(specs, e)) = {r}
        /\ Conditions(d, r) = Listed(Said(e))
  BY <1>3 DEF HoldsRules, EntryRule
<1>6. \A r \in d.rules : r.permission \in DOMAIN specs =>
        \E e \in Entries(specs) : r \in SameRule(d, e[1], EntryRule(specs, e))
  <2> SUFFICES ASSUME NEW r \in d.rules, r.permission \in DOMAIN specs
               PROVE  \E e \in Entries(specs) : r \in SameRule(d, e[1], EntryRule(specs, e))
    OBVIOUS
  <2>1. PICK i \in DOMAIN specs[r.permission].rules :
          r \in SameRule(d, r.permission, specs[r.permission].rules[i])
    BY DEF HoldsRules
  <2> QED
    BY <2>1, <1>4
<1>7. \A e \in Entries(specs) : \A r :
        SameRule(d, e[1], EntryRule(specs, e)) = {r} => ids[e] = r.id
  <2>1. \A e \in Entries(specs) :
          ids[e] = LET Rows == SameRule(d, e[1], EntryRule(specs, e))
                   IN IF Rows = {}
                      THEN FreshIds(d, {f \in Entries(specs) :
                                          SameRule(d, f[1], EntryRule(specs, f)) = {}})[e]
                      ELSE (CHOOSE r \in Rows : TRUE).id
    BY DEF RuleIds
  <2> HIDE DEF ids
  <2> SUFFICES ASSUME NEW e \in Entries(specs), NEW r,
                      SameRule(d, e[1], EntryRule(specs, e)) = {r}
               PROVE  ids[e] = r.id
    OBVIOUS
  <2>2. (CHOOSE s \in {r} : TRUE) = r
    OBVIOUS
  <2> QED
    BY <2>1, <2>2
<1> HIDE DEF ids
<1>8. \A e \in Entries(specs) : \E r \in d.rules :
        /\ SameRule(d, e[1], EntryRule(specs, e)) = {r}
        /\ Conditions(d, r) = Listed(Said(e))
        /\ ids[e] = r.id /\ RowOf(e) = r
  <2> SUFFICES ASSUME NEW e \in Entries(specs)
               PROVE  \E r \in d.rules :
                        /\ SameRule(d, e[1], EntryRule(specs, e)) = {r}
                        /\ Conditions(d, r) = Listed(Said(e))
                        /\ ids[e] = r.id /\ RowOf(e) = r
    OBVIOUS
  <2>1. PICK r \in d.rules : /\ SameRule(d, e[1], EntryRule(specs, e)) = {r}
                             /\ Conditions(d, r) = Listed(Said(e))
    BY <1>5
  <2>2. r.permission = e[1] /\ r.key = EntryRule(specs, e).key
        /\ r.label = EntryRule(specs, e).label
    BY <2>1 DEF SameRule
  <2>3. ids[e] = r.id
    BY <2>1, <1>7
  <2>4. RowOf(e) = r
    BY <2>2, <2>3, <1>2 DEF IsRule
  <2> QED
    BY <2>1, <2>3, <2>4
<1>9. /\ \A r : r \in rows <=> \E e \in Entries(specs) : r = RowOf(e)
      /\ \A x : x \in added <=> \E e \in Entries(specs) : x \in Of(e)
  OBVIOUS
<1> HIDE DEF rows, RowOf, added
<1>10. alone \cup rows = d.rules
  <2>1. \A r \in rows : r \in d.rules
    BY <1>8, <1>9
  <2>2. ASSUME NEW r \in d.rules, r.permission \in DOMAIN specs
        PROVE  r \in rows
    <3>1. PICK e \in Entries(specs) : r \in SameRule(d, e[1], EntryRule(specs, e))
      BY <2>2, <1>6
    <3>2. PICK s \in d.rules :
            SameRule(d, e[1], EntryRule(specs, e)) = {s} /\ RowOf(e) = s
      BY <1>8
    <3>3. r = s
      BY <3>1, <3>2
    <3> QED
      BY <3>2, <3>3, <1>9
  <2> QED
    BY <2>1, <2>2
<1>11. \A e \in Entries(specs) : \A r \in d.rules :
         ids[e] = r.id /\ Conditions(d, r) = Listed(Said(e))
           => Of(e) = {x \in d.conditions : x.rule = r.id}
  <2> SUFFICES ASSUME NEW e \in Entries(specs), NEW r \in d.rules,
                      ids[e] = r.id, Conditions(d, r) = Listed(Said(e))
               PROVE  Of(e) = {x \in d.conditions : x.rule = r.id}
    OBVIOUS
  <2> HIDE DEF Said
  <2>1. ASSUME NEW x \in d.conditions, x.rule = r.id
        PROVE  x \in Of(e)
    <3>1. <<x.filter, x.params>> \in Listed(Said(e))
      BY <2>1 DEF Conditions
    <3>2. x.filter \in DOMAIN Said(e) /\ x.params = Said(e)[x.filter]
      BY <3>1 DEF Listed
    <3>3. x = [rule |-> ids[e], filter |-> x.filter, params |-> Said(e)[x.filter]]
      BY <2>1, <3>2, <1>2 DEF IsCondition
    <3> QED
      BY <3>2, <3>3
  <2>2. ASSUME NEW f \in DOMAIN Said(e)
        PROVE  LET x == [rule |-> ids[e], filter |-> f, params |-> Said(e)[f]]
               IN x \in d.conditions /\ x.rule = r.id
    <3>1. <<f, Said(e)[f]>> \in Conditions(d, r)
      BY DEF Listed
    <3>2. PICK y \in d.conditions : y.rule = r.id /\ <<y.filter, y.params>> = <<f, Said(e)[f]>>
      BY <3>1 DEF Conditions
    <3>3. y = [rule |-> ids[e], filter |-> f, params |-> Said(e)[f]]
      BY <3>2, <1>2 DEF IsCondition
    <3> QED
      BY <3>2, <3>3
  <2> QED
    BY <2>1, <2>2
<1> HIDE DEF Of
<1>12. kept \cup added = d.conditions
  <2>1. \A x \in added : x \in d.conditions
    BY <1>8, <1>9, <1>11
  <2>2. ASSUME NEW x \in d.conditions
        PROVE  x \in kept \/ x \in added
    <3>1. PICK r \in d.rules : r.id = x.rule
      BY <1>2 DEF WellFormed
    <3>2. CASE r.permission \notin DOMAIN specs
      BY <3>1, <3>2
    <3>3. CASE r.permission \in DOMAIN specs
      <4>1. PICK e \in Entries(specs) : r \in SameRule(d, e[1], EntryRule(specs, e))
        BY <3>3, <1>6
      <4>2. Conditions(d, r) = Listed(Said(e)) /\ ids[e] = r.id
        BY <4>1, <1>8
      <4>3. x \in Of(e)
        BY <3>1, <4>2, <1>11
      <4> QED
        BY <4>3, <1>9
    <3> QED
      BY <3>2, <3>3
  <2> QED
    BY <2>1, <2>2
<1> HIDE DEF kept, alone
<1> QED
  BY <1>1, <1>2, <1>10, <1>12

-----------------------------------------------------------------------------
(* Lists: a place is the last of its kind or a later one is.               *)
LEMMA NatMaximum ==
  ASSUME NEW n \in Nat, NEW S \in SUBSET (1..n), S # {}
  PROVE  \E i \in S : \A j \in S : j <= i
<1> DEFINE bounds == {b \in Nat : \A j \in S : j <= b}
<1>1. n \in bounds
  OBVIOUS
<1>2. PICK b \in bounds : \A x \in bounds : b <= x
  <2>1. bounds \in SUBSET Nat /\ bounds # {}
    BY <1>1
  <2> HIDE DEF bounds
  <2> QED
    BY <2>1, NatMinimum
<1>3. ASSUME b \notin S
      PROVE  FALSE
  <2>1. PICK j \in S : TRUE
    OBVIOUS
  <2>2. b - 1 \in Nat /\ \A x \in S : x <= b - 1
    BY <1>2, <1>3, <2>1
  <2>3. b - 1 \in bounds
    BY <2>2
  <2> QED
    BY <1>2, <2>3
<1> QED
  BY <1>2, <1>3

LEMMA LastEntry ==
  ASSUME NEW fields, IsList(fields), NEW i \in DOMAIN fields
  PROVE  \E j \in DOMAIN fields :
           /\ SameEntry(fields[j], fields[i])
           /\ \A k \in DOMAIN fields : k > j => ~SameEntry(fields[k], fields[j])
<1> DEFINE same == {j \in DOMAIN fields : SameEntry(fields[j], fields[i])}
<1>1. i \in same /\ same \in SUBSET (1..Len(fields)) /\ Len(fields) \in Nat
  BY DEF SameEntry, IsList
<1>2. PICK j \in same : \A k \in same : k <= j
  <2> HIDE DEF same
  <2> QED
    BY <1>1, NatMaximum
<1>3. ASSUME NEW k \in DOMAIN fields, k > j
      PROVE  ~SameEntry(fields[k], fields[j])
  <2>1. k \in Nat /\ j \in Nat
    BY <1>1, <1>2 DEF IsList
  <2>2. k \notin same
    BY <1>2, <1>3, <2>1
  <2> QED
    BY <2>2, <1>2 DEF SameEntry
<1> QED
  BY <1>2, <1>3

LEMMA EntryOfRow ==
  ASSUME NEW p, NEW a, NEW b
  PROVE  /\ Row4(p, a).permission = p /\ Row4(p, a).group = a.group
         /\ Row4(p, a).values = Stored(a.values)
         /\ (Row4(p, a).group = Row4(p, b).group /\ Row4(p, a).key = Row4(p, b).key)
              <=> SameEntry(a, b)
         /\ SameEntry(a, b) /\ a.values = b.values => Row4(p, a) = Row4(p, b)
<1>1. Row4(p, a).key = <<a.group[1], a.verb>> /\ Row4(p, b).key = <<b.group[1], b.verb>>
  BY DEF Row4
<1>2. Row4(p, a).group = a.group /\ Row4(p, b).group = b.group
  BY DEF Row4
<1> QED
  BY <1>1, <1>2 DEF SameEntry, Row4

(* The rows of a list of field grants: one for each group and verb.        *)
LEMMA FieldRowsAre ==
  ASSUME NEW p, NEW fields, IsList(fields)
  PROVE  /\ \A g \in FieldRows(p, fields) :
              g.permission = p /\ \E i \in DOMAIN fields : g = Row4(p, fields[i])
         /\ \A g, h \in FieldRows(p, fields) :
              g.group = h.group /\ g.key = h.key => g = h
         /\ \A i \in DOMAIN fields : \E g \in FieldRows(p, fields) :
              g.group = fields[i].group /\ g.key = Row4(p, fields[i]).key
<1> DEFINE Final(i) == \A k \in DOMAIN fields : k > i => ~SameEntry(fields[k], fields[i])
<1>1. FieldRows(p, fields) = {Row4(p, fields[i]) : i \in {j \in DOMAIN fields : Final(j)}}
  BY DEF FieldRows
<1>2. \A g : g \in FieldRows(p, fields) <=>
        \E i \in DOMAIN fields : Final(i) /\ g = Row4(p, fields[i])
  BY <1>1
<1>3. \A i \in DOMAIN fields : i \in Nat
  BY DEF IsList
<1>4. ASSUME NEW g \in FieldRows(p, fields), NEW h \in FieldRows(p, fields),
             g.group = h.group, g.key = h.key
      PROVE  g = h
  <2>1. PICK i \in DOMAIN fields : Final(i) /\ g = Row4(p, fields[i])
    BY <1>2
  <2>2. PICK j \in DOMAIN fields : Final(j) /\ h = Row4(p, fields[j])
    BY <1>2
  <2>3. SameEntry(fields[i], fields[j]) /\ SameEntry(fields[j], fields[i])
    BY <1>4, <2>1, <2>2, EntryOfRow
  <2>4. ~(i > j) /\ ~(j > i)
    BY <2>1, <2>2, <2>3
  <2>5. i = j
    BY <2>4, <1>3
  <2> QED
    BY <2>1, <2>2, <2>5
<1>5. ASSUME NEW i \in DOMAIN fields
      PROVE  \E g \in FieldRows(p, fields) :
               g.group = fields[i].group /\ g.key = Row4(p, fields[i]).key
  <2>1. PICK j \in DOMAIN fields : SameEntry(fields[j], fields[i]) /\ Final(j)
    BY LastEntry
  <2>2. Row4(p, fields[j]) \in FieldRows(p, fields)
    BY <2>1, <1>2
  <2> QED
    BY <2>1, <2>2, EntryOfRow
<1> QED
  BY <1>2, <1>4, <1>5, EntryOfRow

-----------------------------------------------------------------------------
(* What the tables hold of the permissions of a file, table by table.      *)
HoldsEndpoints(c, p, keys) == {e \in c.endpoints : e[1] = p} = {p} \X keys

HoldsFields(c, p, fields) == {g \in c.fields : g.permission = p} = FieldRows(p, fields)

Stands(c, specs) ==
  \A p \in DOMAIN specs :
    /\ HoldsEndpoints(c, p, specs[p].endpoints)
    /\ HoldsRules(c, p, specs[p].rules)
    /\ HoldsFields(c, p, specs[p].fields)

Lists(specs) == \A p \in DOMAIN specs : IsList(specs[p].rules) /\ IsList(specs[p].fields)

LEMMA EndpointsAreWritten ==
  ASSUME NEW c, SoundTables(c), NEW specs
  PROVE  LET d == WithEndpoints(c, specs)
         IN /\ SoundTables(d)
            /\ d = [c EXCEPT !.endpoints = d.endpoints]
            /\ \A p \in DOMAIN specs : HoldsEndpoints(d, p, specs[p].endpoints)
            /\ {e \in d.endpoints : e[1] \notin DOMAIN specs}
                 = {e \in c.endpoints : e[1] \notin DOMAIN specs}
            /\ \A e \in d.endpoints :
                 e \in c.endpoints \/ \E p \in DOMAIN specs : e[2] \in specs[p].endpoints
<1> DEFINE d == WithEndpoints(c, specs)
           others == {e \in c.endpoints : e[1] \notin DOMAIN specs}
           written == UNION {{p} \X specs[p].endpoints : p \in DOMAIN specs}
<1>1. d = [c EXCEPT !.endpoints = others \cup written]
  BY DEF WithEndpoints
<1>2. \A e : e \in written <=> \E p \in DOMAIN specs : e \in {p} \X specs[p].endpoints
  OBVIOUS
<1> HIDE DEF d, written
<1>3. /\ d.endpoints = others \cup written
      /\ d.bindings = c.bindings /\ d.rules = c.rules
      /\ d.conditions = c.conditions /\ d.fields = c.fields
      /\ d = [bindings |-> d.bindings, endpoints |-> d.endpoints, rules |-> d.rules,
              conditions |-> d.conditions, fields |-> d.fields]
      /\ d = [c EXCEPT !.endpoints = d.endpoints]
  BY <1>1 DEF SoundTables
<1>4. SoundTables(d)
  BY <1>3 DEF SoundTables, WellFormed
<1>5. ASSUME NEW p \in DOMAIN specs
      PROVE  HoldsEndpoints(d, p, specs[p].endpoints)
  <2>1. \A e : e \in written /\ e[1] = p <=> e \in {p} \X specs[p].endpoints
    BY <1>2
  <2> QED
    BY <2>1, <1>3 DEF HoldsEndpoints
<1>6. \A e \in written : \E p \in DOMAIN specs : e[1] = p /\ e[2] \in specs[p].endpoints
  BY <1>2
<1>7. {e \in d.endpoints : e[1] \notin DOMAIN specs} = others
  BY <1>3, <1>6
<1>8. \A e \in d.endpoints :
        e \in c.endpoints \/ \E p \in DOMAIN specs : e[2] \in specs[p].endpoints
  BY <1>3, <1>6
<1> QED
  BY <1>3, <1>4, <1>5, <1>7, <1>8 DEF d

LEMMA FieldsAreWritten ==
  ASSUME NEW c, SoundTables(c), NEW specs, Lists(specs)
  PROVE  LET d == WithFields(c, specs)
         IN /\ SoundTables(d)
            /\ d = [c EXCEPT !.fields = d.fields]
            /\ \A p \in DOMAIN specs : HoldsFields(d, p, specs[p].fields)
            /\ {g \in d.fields : g.permission \notin DOMAIN specs}
                 = {g \in c.fields : g.permission \notin DOMAIN specs}
            /\ \A g \in d.fields :
                 \/ g \in c.fields
                 \/ \E p \in DOMAIN specs : \E i \in DOMAIN specs[p].fields :
                      g.group = specs[p].fields[i].group
<1> DEFINE d == WithFields(c, specs)
           others == {g \in c.fields : g.permission \notin DOMAIN specs}
           written == UNION {FieldRows(p, specs[p].fields) : p \in DOMAIN specs}
<1>1. d = [c EXCEPT !.fields = others \cup written]
  BY DEF WithFields
<1>2. \A g : g \in written <=> \E p \in DOMAIN specs : g \in FieldRows(p, specs[p].fields)
  OBVIOUS
<1> HIDE DEF d, written
<1>3. /\ d.fields = others \cup written
      /\ d.bindings = c.bindings /\ d.rules = c.rules
      /\ d.conditions = c.conditions /\ d.endpoints = c.endpoints
      /\ d = [bindings |-> d.bindings, endpoints |-> d.endpoints, rules |-> d.rules,
              conditions |-> d.conditions, fields |-> d.fields]
      /\ d = [c EXCEPT !.fields = d.fields]
  BY <1>1 DEF SoundTables
<1>4. \A p \in DOMAIN specs :
        /\ \A g \in FieldRows(p, specs[p].fields) :
             g.permission = p /\ \E i \in DOMAIN specs[p].fields : g = Row4(p, specs[p].fields[i])
        /\ \A g, h \in FieldRows(p, specs[p].fields) :
             g.group = h.group /\ g.key = h.key => g = h
  BY FieldRowsAre DEF Lists
<1>5. \A g, h \in d.fields :
        (g.permission = h.permission /\ g.group = h.group /\ g.key = h.key) => g = h
  <2>1. \A g, h \in others :
          (g.permission = h.permission /\ g.group = h.group /\ g.key = h.key) => g = h
    BY DEF SoundTables, WellFormed
  <2>2. \A g \in written : g.permission \in DOMAIN specs
                           /\ g \in FieldRows(g.permission, specs[g.permission].fields)
    BY <1>2, <1>4
  <2> QED
    BY <2>1, <2>2, <1>3, <1>4
<1>6. SoundTables(d)
  BY <1>3, <1>5 DEF SoundTables, WellFormed
<1>7. ASSUME NEW p \in DOMAIN specs
      PROVE  HoldsFields(d, p, specs[p].fields)
  <2>1. \A g : g \in written /\ g.permission = p <=> g \in FieldRows(p, specs[p].fields)
    BY <1>2, <1>4
  <2> QED
    BY <2>1, <1>3 DEF HoldsFields
<1>8. \A g \in written : \E p \in DOMAIN specs : \E i \in DOMAIN specs[p].fields :
        g.permission = p /\ g.group = specs[p].fields[i].group
  <2> SUFFICES ASSUME NEW g \in written
               PROVE  \E p \in DOMAIN specs : \E i \in DOMAIN specs[p].fields :
                        g.permission = p /\ g.group = specs[p].fields[i].group
    OBVIOUS
  <2>1. PICK p \in DOMAIN specs : g \in FieldRows(p, specs[p].fields)
    BY <1>2
  <2>2. PICK i \in DOMAIN specs[p].fields : g = Row4(p, specs[p].fields[i])
    BY <2>1, <1>4
  <2> QED
    BY <2>1, <2>2, <1>4, EntryOfRow
<1>9. {g \in d.fields : g.permission \notin DOMAIN specs} = others
  BY <1>3, <1>8
<1> QED
  BY <1>3, <1>6, <1>7, <1>8, <1>9 DEF d

(* Tables that hold what a file says are not changed by writing it.        *)
LEMMA WritingAgain ==
  ASSUME NEW d, SoundTables(d), NEW specs, Stands(d, specs)
  PROVE  WithEndpoints(d, specs) = d /\ WithRules(d, specs) = d /\ WithFields(d, specs) = d
<1>1. d = [bindings |-> d.bindings, endpoints |-> d.endpoints, rules |-> d.rules,
           conditions |-> d.conditions, fields |-> d.fields]
  BY DEF SoundTables
<1>2. WithRules(d, specs) = d
  BY RulesStay DEF Stands
<1>3. WithEndpoints(d, specs) = d
  <2> DEFINE others == {e \in d.endpoints : e[1] \notin DOMAIN specs}
             written == UNION {{p} \X specs[p].endpoints : p \in DOMAIN specs}
  <2>1. WithEndpoints(d, specs) = [d EXCEPT !.endpoints = others \cup written]
    BY DEF WithEndpoints
  <2>2. \A e : e \in written <=> \E p \in DOMAIN specs : e \in {p} \X specs[p].endpoints
    OBVIOUS
  <2>3. \A p \in DOMAIN specs : {p} \X specs[p].endpoints = {e \in d.endpoints : e[1] = p}
    BY DEF Stands, HoldsEndpoints
  <2> HIDE DEF written
  <2>4. others \cup written = d.endpoints
    BY <2>2, <2>3
  <2> HIDE DEF others
  <2> QED
    BY <1>1, <2>1, <2>4
<1>4. WithFields(d, specs) = d
  <2> DEFINE others == {g \in d.fields : g.permission \notin DOMAIN specs}
             written == UNION {FieldRows(p, specs[p].fields) : p \in DOMAIN specs}
  <2>1. WithFields(d, specs) = [d EXCEPT !.fields = others \cup written]
    BY DEF WithFields
  <2>2. \A g : g \in written <=> \E p \in DOMAIN specs : g \in FieldRows(p, specs[p].fields)
    OBVIOUS
  <2>3. \A p \in DOMAIN specs : FieldRows(p, specs[p].fields) = {g \in d.fields : g.permission = p}
    BY DEF Stands, HoldsFields
  <2> HIDE DEF written
  <2>4. others \cup written = d.fields
    BY <2>2, <2>3
  <2> HIDE DEF others
  <2> QED
    BY <1>1, <2>1, <2>4
<1> QED
  BY <1>2, <1>3, <1>4

-----------------------------------------------------------------------------
(* A file as a whole.                                                      *)
LEMMA OnlyItsTables ==
  ASSUME NEW c, NEW d, c.rules = d.rules
  PROVE  /\ \A p, rule : SameRule(c, p, rule) = SameRule(d, p, rule)
         /\ \A specs : Acceptable(c, specs) <=> Acceptable(d, specs)
         /\ c.conditions = d.conditions =>
              /\ \A p, rules : HoldsRules(c, p, rules) <=> HoldsRules(d, p, rules)
              /\ \A b, P : OthersAsIn(b, c, P) <=> OthersAsIn(b, d, P)
              /\ \A b, P : OthersAsIn(c, b, P) <=> OthersAsIn(d, b, P)
<1>1. \A p, rule : SameRule(c, p, rule) = SameRule(d, p, rule)
  BY DEF SameRule
<1>2. \A specs : Acceptable(c, specs) <=> Acceptable(d, specs)
  BY <1>1 DEF Acceptable
<1>3. ASSUME c.conditions = d.conditions
      PROVE  /\ \A p, rules : HoldsRules(c, p, rules) <=> HoldsRules(d, p, rules)
             /\ \A b, P : OthersAsIn(b, c, P) <=> OthersAsIn(b, d, P)
             /\ \A b, P : OthersAsIn(c, b, P) <=> OthersAsIn(d, b, P)
  <2>1. \A r : Conditions(c, r) = Conditions(d, r)
    BY <1>3 DEF Conditions
  <2>2. \A p, rules : HoldsRules(c, p, rules) <=> HoldsRules(d, p, rules)
    BY <1>1, <2>1 DEF HoldsRules
  <2> QED
    BY <1>3, <2>2 DEF OthersAsIn
<1> QED
  BY <1>1, <1>2, <1>3

(* What applying an acceptable file leaves in the tables.                  *)
LEMMA WhatAFileLeaves ==
  ASSUME NEW c, SoundTables(c), NEW file,
         Acceptable(c, file.permissions), Lists(file.permissions)
  PROVE  LET d == Applied(c, file)
             specs == file.permissions
         IN /\ SoundTables(d)
            /\ Stands(d, specs)
            /\ OthersAsIn(c, d, DOMAIN specs)
            /\ {e \in d.endpoints : e[1] \notin DOMAIN specs}
                 = {e \in c.endpoints : e[1] \notin DOMAIN specs}
            /\ {g \in d.fields : g.permission \notin DOMAIN specs}
                 = {g \in c.fields : g.permission \notin DOMAIN specs}
            /\ d.bindings = c.bindings \cup
                              UNION {{r} \X file.roles[r] : r \in DOMAIN file.roles}
            /\ \A e \in d.endpoints :
                 e \in c.endpoints \/ \E p \in DOMAIN specs : e[2] \in specs[p].endpoints
            /\ \A r \in d.rules :
                 \/ r \in c.rules
                 \/ \E e \in Entries(specs) : r.key = EntryRule(specs, e).key
            /\ \A x \in d.conditions :
                 \/ x \in c.conditions
                 \/ \E e \in Entries(specs) : x.filter \in DOMAIN EntryRule(specs, e).conditions
            /\ \A g \in d.fields :
                 \/ g \in c.fields
                 \/ \E p \in DOMAIN specs : \E i \in DOMAIN specs[p].fields :
                      g.group = specs[p].fields[i].group
<1> DEFINE specs == file.permissions
           c1 == WithEndpoints(c, specs)
           c2 == WithRules(c1, specs)
           c3 == WithFields(c2, specs)
           bound == c.bindings \cup UNION {{r} \X file.roles[r] : r \in DOMAIN file.roles}
           d == Applied(c, file)
<1>1. /\ SoundTables(c1) /\ c1 = [c EXCEPT !.endpoints = c1.endpoints]
      /\ \A p \in DOMAIN specs : HoldsEndpoints(c1, p, specs[p].endpoints)
      /\ {e \in c1.endpoints : e[1] \notin DOMAIN specs}
           = {e \in c.endpoints : e[1] \notin DOMAIN specs}
      /\ \A e \in c1.endpoints :
           e \in c.endpoints \/ \E p \in DOMAIN specs : e[2] \in specs[p].endpoints
  <2> HIDE DEF specs
  <2> QED
    BY EndpointsAreWritten
<1>2. d = [c3 EXCEPT !.bindings = c3.bindings \cup
                        UNION {{r} \X file.roles[r] : r \in DOMAIN file.roles}]
  BY DEF Applied, WithRoles
<1> HIDE DEF c1, d
<1>3. /\ c1.bindings = c.bindings /\ c1.rules = c.rules
      /\ c1.conditions = c.conditions /\ c1.fields = c.fields
  <2>1. c = [bindings |-> c.bindings, endpoints |-> c.endpoints, rules |-> c.rules,
             conditions |-> c.conditions, fields |-> c.fields]
    BY DEF SoundTables
  <2> QED
    BY <1>1, <2>1
<1>4. Acceptable(c1, specs)
  BY <1>3, OnlyItsTables
<1>5. /\ SoundTables(c2)
      /\ c2.bindings = c1.bindings /\ c2.endpoints = c1.endpoints /\ c2.fields = c1.fields
      /\ \A p \in DOMAIN specs : HoldsRules(c2, p, specs[p].rules)
      /\ OthersAsIn(c1, c2, DOMAIN specs)
      /\ \A x \in c2.conditions :
           \/ x \in c1.conditions
           \/ \E e \in Entries(specs) : x.filter \in DOMAIN EntryRule(specs, e).conditions
      /\ \A r \in c2.rules :
           \/ r \in c1.rules
           \/ \E e \in Entries(specs) : r.key = EntryRule(specs, e).key
  <2> HIDE DEF specs
  <2> QED
    BY <1>1, <1>4, RulesAreWritten
<1> HIDE DEF c2
<1>7. /\ SoundTables(c3)
      /\ c3 = [c2 EXCEPT !.fields = c3.fields]
      /\ \A p \in DOMAIN specs : HoldsFields(c3, p, specs[p].fields)
      /\ {g \in c3.fields : g.permission \notin DOMAIN specs}
           = {g \in c2.fields : g.permission \notin DOMAIN specs}
      /\ \A g \in c3.fields :
           \/ g \in c2.fields
           \/ \E p \in DOMAIN specs : \E i \in DOMAIN specs[p].fields :
                g.group = specs[p].fields[i].group
  <2> HIDE DEF specs
  <2> QED
    BY <1>5, FieldsAreWritten DEF specs
<1> HIDE DEF c3
<1>8. /\ c3.bindings = c2.bindings /\ c3.endpoints = c2.endpoints
      /\ c3.rules = c2.rules /\ c3.conditions = c2.conditions
  <2>1. c2 = [bindings |-> c2.bindings, endpoints |-> c2.endpoints, rules |-> c2.rules,
              conditions |-> c2.conditions, fields |-> c2.fields]
    BY <1>5 DEF SoundTables
  <2> QED
    BY <1>7, <2>1
<1>9. /\ d.endpoints = c1.endpoints /\ d.rules = c2.rules /\ d.conditions = c2.conditions
      /\ d.fields = c3.fields /\ d.bindings = bound
      /\ d = [bindings |-> d.bindings, endpoints |-> d.endpoints, rules |-> d.rules,
              conditions |-> d.conditions, fields |-> d.fields]
  <2>1. c3 = [bindings |-> c3.bindings, endpoints |-> c3.endpoints, rules |-> c3.rules,
              conditions |-> c3.conditions, fields |-> c3.fields]
    BY <1>7 DEF SoundTables
  <2> QED
    BY <1>2, <1>3, <1>5, <1>8, <2>1
<1> HIDE DEF bound
<1>10. SoundTables(d)
  <2>1. d.rules = c3.rules /\ d.conditions = c3.conditions /\ d.fields = c3.fields
    BY <1>8, <1>9
  <2>2. WellFormed(d)
    BY <1>7, <2>1 DEF SoundTables, WellFormed
  <2> QED
    BY <1>7, <1>9, <2>1, <2>2 DEF SoundTables
<1>11. Stands(d, specs)
  <2>1. \A p \in DOMAIN specs : HoldsEndpoints(d, p, specs[p].endpoints)
    BY <1>1, <1>9 DEF HoldsEndpoints
  <2>2. \A p \in DOMAIN specs : HoldsRules(d, p, specs[p].rules)
    BY <1>5, <1>9, OnlyItsTables
  <2>3. \A p \in DOMAIN specs : HoldsFields(d, p, specs[p].fields)
    BY <1>7, <1>9 DEF HoldsFields
  <2> QED
    BY <2>1, <2>2, <2>3 DEF Stands
<1>12. OthersAsIn(c, d, DOMAIN specs)
  BY <1>3, <1>5, <1>9 DEF OthersAsIn
<1> HIDE DEF specs
<1> QED
  BY <1>1, <1>3, <1>5, <1>7, <1>9, <1>10, <1>11, <1>12 DEF d, specs, bound

(* What the checks of the whole file mean.                                 *)
LEMMA AcceptedIsAcceptable ==
  ASSUME NEW rel, NEW catalogue, NEW c, NEW existing, NEW file \in Files,
         ~Refused(rel, catalogue, c, existing, file)
  PROVE  /\ Acceptable(c, file.permissions)
         /\ Lists(file.permissions)
         /\ \A p \in DOMAIN file.permissions :
              /\ file.permissions[p].endpoints \subseteq Live(catalogue, "endpoints")
              /\ \A i \in DOMAIN file.permissions[p].fields :
                   file.permissions[p].fields[i].group \in Live(catalogue, "groups")
              /\ \A i \in DOMAIN file.permissions[p].rules :
                   ~RuleRefused(rel, catalogue, c, p, file.permissions[p].rules[i])
<1> DEFINE specs == file.permissions
           Of(p) == {p} \X DOMAIN specs[p].rules
           all == {Of(p) : p \in DOMAIN specs}
<1>1. \A p \in DOMAIN specs : ~BodyRefused(rel, catalogue, c, p, specs[p])
  BY DEF Refused
<1>2. Lists(specs) /\ IsFiniteSet(DOMAIN specs)
  BY FilesAssumption DEF Lists
<1>3. IsFiniteSet(Entries(specs))
  <2>1. \A p \in DOMAIN specs : IsFiniteSet(Of(p))
    <3> SUFFICES ASSUME NEW p \in DOMAIN specs PROVE IsFiniteSet(Of(p))
      OBVIOUS
    <3>1. DOMAIN specs[p].rules = 1..Len(specs[p].rules) /\ Len(specs[p].rules) \in Nat
      BY <1>2 DEF Lists, IsList
    <3>2. IsFiniteSet(DOMAIN specs[p].rules)
      BY <3>1, FS_Interval
    <3>3. IsFiniteSet({p})
      BY FS_Singleton
    <3> HIDE DEF specs
    <3> QED
      BY <3>2, <3>3, FS_Product
  <2>2. IsFiniteSet(all)
    <3> DEFINE f == [p \in DOMAIN specs |-> Of(p)]
    <3>1. f \in Surjection(DOMAIN specs, all)
      BY DEF Surjection
    <3> HIDE DEF f, all, specs
    <3> QED
      BY <3>1, <1>2, FS_Surjection
  <2>3. Entries(specs) = UNION all
    BY DEF Entries
  <2>4. \A S \in all : IsFiniteSet(S)
    BY <2>1
  <2> HIDE DEF all
  <2> QED
    BY <2>2, <2>3, <2>4, FS_UNION
<1>4. \A e \in Entries(specs) :
        /\ e[1] \in DOMAIN specs /\ e[2] \in DOMAIN specs[e[1]].rules
        /\ e = <<e[1], e[2]>> /\ EntryRule(specs, e) = specs[e[1]].rules[e[2]]
  BY DEF Entries, EntryRule
<1>5. \A p \in DOMAIN specs : \A i \in DOMAIN specs[p].rules :
        ~RuleRefused(rel, catalogue, c, p, specs[p].rules[i])
  BY <1>1 DEF BodyRefused
<1>6. \A e \in Entries(specs) : \A r, s \in SameRule(c, e[1], EntryRule(specs, e)) : r = s
  <2>1. \A e \in Entries(specs) : ~RuleRefused(rel, catalogue, c, e[1], EntryRule(specs, e))
    <3> HIDE DEF specs
    <3> QED
      BY <1>4, <1>5
  <2>2. \A p, rule : ~RuleRefused(rel, catalogue, c, p, rule) =>
          \A r, s \in SameRule(c, p, rule) : r = s
    BY DEF RuleRefused
  <2> QED
    BY <2>1, <2>2
<1>7. ASSUME NEW e \in Entries(specs), NEW f \in Entries(specs), e[1] = f[1],
             EntryRule(specs, e).key = EntryRule(specs, f).key,
             EntryRule(specs, e).label = EntryRule(specs, f).label
      PROVE  e = f
  <2>1. e[2] = f[2]
    BY <1>1, <1>4, <1>7 DEF BodyRefused
  <2> QED
    BY <2>1, <1>4, <1>7
<1>8. Acceptable(c, specs)
  BY <1>3, <1>4, <1>6, <1>7, PermissionAssumption DEF Acceptable
<1> QED
  BY <1>1, <1>2, <1>5, <1>8 DEF BodyRefused

-----------------------------------------------------------------------------
(* What a run on tables that hold the file already reports: a change where *)
(* the file gives a group two different sets of values for one verb, and   *)
(* no other.                                                               *)
LEMMA OwnRowsOnly ==
  ASSUME NEW d, NEW p, NEW fields, IsList(fields), HoldsFields(d, p, fields),
         NEW i \in DOMAIN fields
  PROVE  LET rows == {g \in d.fields : g.permission = p /\ g.group = fields[i].group
                                         /\ g.key = Row4(p, fields[i]).key}
         IN /\ rows # {}
            /\ \A g \in rows : \E j \in DOMAIN fields :
                 SameEntry(fields[j], fields[i]) /\ g = Row4(p, fields[j])
<1> DEFINE rows == {g \in d.fields : g.permission = p /\ g.group = fields[i].group
                                       /\ g.key = Row4(p, fields[i]).key}
<1>1. \A g : g \in rows <=> /\ g \in FieldRows(p, fields) /\ g.group = fields[i].group
                            /\ g.key = Row4(p, fields[i]).key
  <2>1. \A g : g \in FieldRows(p, fields) <=> g \in d.fields /\ g.permission = p
    BY DEF HoldsFields
  <2> QED
    BY <2>1
<1> HIDE DEF rows
<1>2. rows # {}
  BY <1>1, FieldRowsAre
<1>3. ASSUME NEW g \in rows
      PROVE  \E j \in DOMAIN fields : SameEntry(fields[j], fields[i]) /\ g = Row4(p, fields[j])
  <2>1. PICK j \in DOMAIN fields : g = Row4(p, fields[j])
    BY <1>1, FieldRowsAre
  <2>2. g.group = Row4(p, fields[i]).group /\ g.key = Row4(p, fields[i]).key
    BY <1>1, EntryOfRow
  <2> QED
    BY <2>1, <2>2, EntryOfRow
<1> QED
  BY <1>2, <1>3 DEF rows

(* What JSON gives back it gives back again.                               *)
LEMMA StoredTwice ==
  ASSUME NEW v
  PROVE  Stored(Stored(v)) = Stored(v)
<1>1. CASE v \in DOMAIN Json
  BY <1>1, JsonAssumption DEF Stored
<1>2. CASE v \notin DOMAIN Json
  BY <1>2 DEF Stored
<1> QED
  BY <1>1, <1>2

LEMMA MetWhatIsWritten ==
  ASSUME NEW d, NEW p, NEW fields, IsList(fields), HoldsFields(d, p, fields)
  PROVE  (\A i \in DOMAIN fields : MetValues(d, p, fields, i) = {fields[i].values})
           <=> /\ ~Wavers(fields)
               /\ \A i \in DOMAIN fields : Stored(fields[i].values) = fields[i].values
<1> DEFINE Earlier(i) == {j \in 1..(i - 1) : SameEntry(fields[j], fields[i])}
           Latest(i) == CHOOSE j \in Earlier(i) : \A k \in Earlier(i) : k <= j
           Rows(i) == {g \in d.fields : /\ g.permission = p /\ g.group = fields[i].group
                                        /\ g.key = Row4(p, fields[i]).key}
           Said(i) == fields[i].values
           Of(i) == {g.values : g \in Rows(i)}
<1>1. \A i \in DOMAIN fields :
        MetValues(d, p, fields, i) =
          IF Earlier(i) # {} THEN {Stored(Said(Latest(i)))} ELSE Of(i)
  <2>1. \A i \in DOMAIN fields :
          MetValues(d, p, fields, i) =
            IF Earlier(i) # {} THEN {Row4(p, fields[Latest(i)]).values} ELSE Of(i)
    BY DEF MetValues
  <2> QED
    BY <2>1, EntryOfRow
<1>2. DOMAIN fields = 1..Len(fields) /\ Len(fields) \in Nat
  BY DEF IsList
<1>3. ASSUME NEW i \in DOMAIN fields, Earlier(i) # {}
      PROVE  /\ Latest(i) \in DOMAIN fields /\ Latest(i) < i
             /\ SameEntry(fields[Latest(i)], fields[i])
             /\ \A k \in Earlier(i) : k <= Latest(i)
  <2> DEFINE S == Earlier(i)
  <2>1. i - 1 \in Nat /\ S \in SUBSET (1..(i - 1)) /\ S # {}
    BY <1>2, <1>3
  <2> HIDE DEF S
  <2>2. \E j \in S : \A k \in S : k <= j
    BY <2>1, NatMaximum
  <2> USE DEF S
  <2>3. Latest(i) \in S /\ \A k \in S : k <= Latest(i)
    BY <2>2
  <2> HIDE DEF Latest
  <2> QED
    BY <2>3, <1>2
<1>4. ASSUME NEW i \in DOMAIN fields
      PROVE  /\ Of(i) # {}
             /\ \A v \in Of(i) : \E j \in DOMAIN fields :
                  SameEntry(fields[j], fields[i]) /\ v = Stored(Said(j))
  <2>1. /\ Rows(i) # {}
        /\ \A g \in Rows(i) : \E j \in DOMAIN fields :
             SameEntry(fields[j], fields[i]) /\ g = Row4(p, fields[j])
    BY OwnRowsOnly
  <2> HIDE DEF Rows
  <2> QED
    BY <2>1, EntryOfRow
<1> HIDE DEF Latest, Rows, Of, Said
<1>5. ASSUME ~Wavers(fields), \A i \in DOMAIN fields : Stored(Said(i)) = Said(i),
             NEW i \in DOMAIN fields
      PROVE  MetValues(d, p, fields, i) = {Said(i)}
  <2>1. \A j \in DOMAIN fields : SameEntry(fields[j], fields[i]) => Stored(Said(j)) = Said(i)
    BY <1>5 DEF Wavers, Said
  <2>2. CASE Earlier(i) # {}
    BY <2>1, <2>2, <1>1, <1>3
  <2>3. CASE Earlier(i) = {}
    <3>1. Of(i) = {Said(i)}
      BY <2>1, <1>4
    <3> QED
      BY <2>3, <3>1, <1>1
  <2> QED
    BY <2>2, <2>3
<1>6. ASSUME \A i \in DOMAIN fields : MetValues(d, p, fields, i) = {Said(i)}
      PROVE  ~Wavers(fields) /\ \A i \in DOMAIN fields : Stored(Said(i)) = Said(i)
  <2>0. ASSUME NEW i \in DOMAIN fields
        PROVE  Stored(Said(i)) = Said(i)
    <3>1. \E v : Said(i) = Stored(v)
      <4>1. CASE Earlier(i) # {}
        <5>1. {Said(i)} = {Stored(Said(Latest(i)))}
          BY <4>1, <1>1, <1>6
        <5> QED
          BY <5>1
      <4>2. CASE Earlier(i) = {}
        <5>1. Said(i) \in Of(i)
          BY <4>2, <1>1, <1>6
        <5> QED
          BY <5>1, <1>4
      <4> QED
        BY <4>1, <4>2
    <3> QED
      BY <3>1, StoredTwice
  <2> SUFFICES ASSUME Wavers(fields) PROVE FALSE
    BY <2>0
  <2> DEFINE bad == {j \in DOMAIN fields : \E i \in DOMAIN fields :
                       i < j /\ SameEntry(fields[i], fields[j]) /\ Said(i) # Said(j)}
  <2>1. bad # {} /\ bad \in SUBSET Nat
    <3>1. PICK i, j \in DOMAIN fields : SameEntry(fields[i], fields[j]) /\ Said(i) # Said(j)
      BY DEF Wavers, Said
    <3>2. SameEntry(fields[j], fields[i])
      BY <3>1 DEF SameEntry
    <3>3. i < j \/ j < i
      BY <3>1, <1>2
    <3>4. i \in bad \/ j \in bad
      BY <3>1, <3>2, <3>3
    <3> QED
      BY <3>4, <1>2
  <2>2. PICK j \in bad : \A k \in bad : j <= k
    <3> HIDE DEF bad
    <3> QED
      BY <2>1, NatMinimum
  <2>3. PICK i \in DOMAIN fields :
          i < j /\ SameEntry(fields[i], fields[j]) /\ Said(i) # Said(j)
    BY <2>2
  <2>4. i \in Earlier(j) /\ j \in DOMAIN fields
    BY <2>2, <2>3, <1>2
  <2> DEFINE k == Latest(j)
  <2>5. /\ k \in DOMAIN fields /\ k < j /\ i <= k
        /\ SameEntry(fields[k], fields[j])
    BY <2>4, <1>3
  <2>6. Said(k) = Said(j)
    <3>1. {Stored(Said(k))} = {Said(j)}
      BY <2>4, <1>1, <1>6
    <3>2. Stored(Said(k)) = Said(j)
      BY <3>1
    <3> QED
      BY <3>2, <2>5, <2>0
  <2> HIDE DEF k
  <2>7. i < k
    BY <2>3, <2>5, <2>6, <1>2
  <2>8. SameEntry(fields[i], fields[k]) /\ Said(i) # Said(k)
    BY <2>3, <2>5, <2>6 DEF SameEntry
  <2>9. k \in bad
    BY <2>5, <2>7, <2>8
  <2> QED
    BY <2>2, <2>5, <2>9, <1>2
<1> QED
  BY <1>5, <1>6 DEF Said

(* The params a rule entry meets in tables that hold the file.             *)
LEMMA ParamsMet ==
  ASSUME NEW d, NEW p, NEW rules, HoldsRules(d, p, rules),
         NEW i \in DOMAIN rules, NEW f \in DOMAIN rules[i].conditions
  PROVE  MetParams(d, p, rules[i], f) = {Stored(rules[i].conditions[f])}
<1> DEFINE said == rules[i].conditions
<1>1. PICK r : /\ SameRule(d, p, rules[i]) = {r}
               /\ Conditions(d, r) = Listed(StoredEach(said))
  BY DEF HoldsRules
<1>2. DOMAIN StoredEach(said) = DOMAIN said /\ StoredEach(said)[f] = Stored(said[f])
  BY DEF StoredEach
<1> HIDE DEF said
<1>3. ASSUME NEW x \in d.conditions, x.filter = f, x.rule = r.id
      PROVE  x.params = Stored(said[f])
  <2>1. <<x.filter, x.params>> \in Listed(StoredEach(said))
    BY <1>1, <1>3 DEF Conditions
  <2> QED
    BY <2>1, <1>2, <1>3 DEF Listed
<1>4. \E x \in d.conditions : x.filter = f /\ x.rule = r.id
  <2>1. <<f, Stored(said[f])>> \in Conditions(d, r)
    BY <1>1, <1>2 DEF Listed, said
  <2> QED
    BY <2>1 DEF Conditions
<1>5. MetParams(d, p, rules[i], f) =
        {x.params : x \in {y \in d.conditions : y.filter = f /\ r.id = y.rule}}
  BY <1>1 DEF MetParams
<1> QED
  BY <1>3, <1>4, <1>5 DEF said

LEMMA SecondRun ==
  ASSUME NEW d, SoundTables(d), NEW file, NEW existing,
         Stands(d, file.permissions), Lists(file.permissions),
         DOMAIN file.permissions \subseteq existing,
         UNION {{r} \X file.roles[r] : r \in DOMAIN file.roles} \subseteq d.bindings
  PROVE  /\ Applied(d, file) = d
         /\ SaysChanged(d, existing, file) <=> NeverSettles(file)
<1> DEFINE specs == file.permissions
<1>1. WithRoles(d, file.roles) = d
  <2> DEFINE told == UNION {{r} \X file.roles[r] : r \in DOMAIN file.roles}
  <2>1. WithRoles(d, file.roles) = [d EXCEPT !.bindings = d.bindings \cup told]
    BY DEF WithRoles
  <2> HIDE DEF told
  <2>2. d.bindings \cup told = d.bindings
    BY DEF told
  <2> QED
    BY <2>1, <2>2 DEF SoundTables
<1>2. Applied(d, file) = d
  BY <1>1, WritingAgain DEF Applied
<1>3. ASSUME NEW p \in DOMAIN specs
      PROVE  Touched(d, p, specs[p]) <=> Wavers(specs[p].fields) \/ Garbled(specs[p])
  <2> DEFINE one == Single(p, specs[p])
  <2>1. DOMAIN one = {p} /\ one[p] = specs[p]
    BY DEF Single
  <2> HIDE DEF one
  <2>2. Stands(d, one)
    BY <2>1 DEF Stands
  <2>3. WithEndpoints(d, one) = d /\ WithRules(d, one) = d /\ WithFields(d, one) = d
    BY <2>2, WritingAgain
  <2> DEFINE fields == specs[p].fields
             rules == specs[p].rules
  <2>4. Touched(d, p, specs[p]) <=>
          \/ \E i \in DOMAIN rules : \E f \in DOMAIN rules[i].conditions :
               MetParams(d, p, rules[i], f) # {rules[i].conditions[f]}
          \/ ~(\A i \in DOMAIN fields : MetValues(d, p, fields, i) = {fields[i].values})
    BY <2>3 DEF Touched, one
  <2>5. IsList(fields) /\ HoldsFields(d, p, fields) /\ HoldsRules(d, p, rules)
    BY DEF Lists, Stands
  <2>6. \A i \in DOMAIN rules : \A f \in DOMAIN rules[i].conditions :
          MetParams(d, p, rules[i], f) = {rules[i].conditions[f]}
            <=> Stored(rules[i].conditions[f]) = rules[i].conditions[f]
    <3> HIDE DEF rules
    <3> QED
      BY <2>5, ParamsMet
  <2>7. (\A i \in DOMAIN fields : MetValues(d, p, fields, i) = {fields[i].values})
          <=> /\ ~Wavers(fields)
              /\ \A i \in DOMAIN fields : Stored(fields[i].values) = fields[i].values
    <3> HIDE DEF fields
    <3> QED
      BY <2>5, MetWhatIsWritten
  <2> HIDE DEF specs
  <2> QED
    BY <2>4, <2>6, <2>7 DEF Garbled
<1>4. SaysChanged(d, existing, file) <=> \E p \in DOMAIN specs : Touched(d, p, specs[p])
  BY <1>1 DEF SaysChanged
<1> HIDE DEF specs
<1> QED
  BY <1>2, <1>3, <1>4 DEF specs, NeverSettles

-----------------------------------------------------------------------------
(* The invariant of the compositions: their rows are rows, the constraints *)
(* of the tables hold, and what they point at is in the catalogue.         *)
PointsInto(c, k) ==
  /\ \A r \in c.rules : r.key[1] \in DOMAIN k.objects
  /\ \A x \in c.conditions : x.filter \in DOMAIN k.filters
  /\ \A e \in c.endpoints : e[2] \in DOMAIN k.endpoints
  /\ \A g \in c.fields : g.group \in DOMAIN k.groups

FiltersHaveObjects(k) ==
  \A f \in DOMAIN k.filters : k.filters[f].data.object \in DOMAIN k.objects

CompositionInv ==
  /\ SoundTables(tables)
  /\ PointsInto(tables, cat)
  /\ FiltersHaveObjects(cat)

LEMMA InvMeansTypeOK == CompositionInv => TypeOK
  BY DEF CompositionInv, SoundTables, PointsInto, FiltersHaveObjects, TypeOK

(* A run drops no row of the catalogue, and the object of a filter it      *)
(* declares is one it declares.                                            *)
LEMMA PublishingKeepsWhatIsThere ==
  ASSUME NEW k, NEW release, \A t \in Tables : IsTable(k[t]), FiltersHaveObjects(k)
  PROVE  /\ FiltersHaveObjects(Published(k, release))
         /\ \A c : PointsInto(c, k) => PointsInto(c, Published(k, release))
<1> DEFINE new == Published(k, release)
           desired == Desired(release)
<1>1. \A t \in Tables : new[t] = Upsert(k[t], desired[t])
  BY DEF Published
<1>2. \A table, wanted : /\ DOMAIN Upsert(table, wanted) = DOMAIN table \cup DOMAIN wanted
                         /\ \A i \in DOMAIN wanted : Upsert(table, wanted)[i].data = wanted[i]
  BY DEF Upsert
<1>3. \A t \in Tables : DOMAIN new[t] = DOMAIN k[t] \cup DOMAIN desired[t]
  BY <1>1, <1>2
<1>4. ASSUME NEW f \in DOMAIN new.filters
      PROVE  new.filters[f].data.object \in DOMAIN new.objects
  <2>1. /\ DOMAIN new["objects"] = DOMAIN k["objects"] \cup DOMAIN desired["objects"]
        /\ DOMAIN new["filters"] = DOMAIN k["filters"] \cup DOMAIN desired["filters"]
        /\ new["filters"] = Upsert(k["filters"], desired["filters"])
    BY <1>1, <1>3 DEF Tables
  <2>2. CASE f \in DOMAIN desired["filters"]
    <3>1. new["filters"][f].data = desired["filters"][f]
      BY <1>2, <2>1, <2>2
    <3>2. desired["filters"] =
            [g \in Attached(release) |-> [object |-> release.filters[g].object,
                                          params |-> DOMAIN release.filters[g].q]]
      BY DEF Desired
    <3>3. DOMAIN desired["objects"] = ObjectKeys(release)
      BY DEF Desired
    <3>4. f \in Attached(release)
      BY <2>2, <3>2
    <3>5. desired["filters"][f].object = release.filters[f].object
      BY <3>2, <3>4
    <3>6. release.filters[f].object \in ObjectKeys(release)
      BY <3>4 DEF Attached, ObjectKeys
    <3> HIDE DEF new, desired
    <3> QED
      BY <2>1, <3>1, <3>3, <3>5, <3>6
  <2>3. CASE f \notin DOMAIN desired["filters"]
    <3>1. f \in DOMAIN k["filters"] /\ IsRow(k["filters"][f])
      BY <2>1, <2>3 DEF Tables, IsTable
    <3>2. new["filters"][f] = [k["filters"][f] EXCEPT !.live = FALSE]
      BY <2>1, <2>3, <3>1 DEF Upsert
    <3>3. new["filters"][f].data = k["filters"][f].data
      BY <3>1, <3>2 DEF IsRow
    <3>4. k["filters"][f].data.object \in DOMAIN k["objects"]
      BY <3>1 DEF FiltersHaveObjects
    <3> HIDE DEF new, desired
    <3> QED
      BY <2>1, <3>3, <3>4
  <2> QED
    BY <2>2, <2>3
<1>5. /\ DOMAIN k.objects \subseteq DOMAIN new.objects
      /\ DOMAIN k.filters \subseteq DOMAIN new.filters
      /\ DOMAIN k.endpoints \subseteq DOMAIN new.endpoints
      /\ DOMAIN k.groups \subseteq DOMAIN new.groups
  BY <1>3 DEF Tables
<1> HIDE DEF new
<1>6. \A c : PointsInto(c, k) => PointsInto(c, new)
  BY <1>5 DEF PointsInto
<1> QED
  BY <1>4, <1>6 DEF FiltersHaveObjects, new

LEMMA LiveIsThere ==
  ASSUME NEW k, NEW t, NEW i \in Live(k, t)
  PROVE  i \in DOMAIN k[t]
  BY DEF Live

LEMMA InitCompositions == Init => CompositionInv
<1> SUFFICES ASSUME Init PROVE CompositionInv
  OBVIOUS
<1>1. tables = NoTables /\ cat = EmptyCatalogue
  BY DEF Init
<1>2. SoundTables(tables)
  BY <1>1, FS_EmptySet DEF NoTables, SoundTables, WellFormed
<1>3. PointsInto(tables, cat)
  BY <1>1 DEF NoTables, PointsInto
<1>4. DOMAIN cat["filters"] = {}
  BY <1>1 DEF EmptyCatalogue, Tables
<1> QED
  BY <1>2, <1>3, <1>4 DEF CompositionInv, FiltersHaveObjects

-----------------------------------------------------------------------------
(* What administrators do.                                                 *)
LEMMA BindKeeps ==
  ASSUME CompositionInv, NEW r, NEW p, Bind(r, p)
  PROVE  CompositionInv'
<1>1. tables' = [tables EXCEPT !.bindings = @ \cup {<<r, p>>}] /\ cat' = cat
  BY DEF Bind, Compose
<1>2. /\ tables'.endpoints = tables.endpoints /\ tables'.rules = tables.rules
      /\ tables'.conditions = tables.conditions /\ tables'.fields = tables.fields
      /\ tables' = [bindings |-> tables'.bindings, endpoints |-> tables'.endpoints,
                    rules |-> tables'.rules, conditions |-> tables'.conditions,
                    fields |-> tables'.fields]
  BY <1>1 DEF CompositionInv, SoundTables
<1>3. SoundTables(tables')
  BY <1>2 DEF CompositionInv, SoundTables, WellFormed
<1>4. PointsInto(tables', cat')
  BY <1>1, <1>2 DEF CompositionInv, PointsInto
<1> QED
  BY <1>1, <1>3, <1>4 DEF CompositionInv

LEMMA SavePermissionKeeps ==
  ASSUME CompositionInv, NEW p, NEW verbs, NEW keys,
         NEW fields \in SUBSET FieldChoices(p, verbs), SavePermission(p, keys, fields)
  PROVE  CompositionInv'
<1> DEFINE others == {g \in tables.fields : g.permission # p}
           ends == {e \in tables.endpoints : e[1] # p} \cup ({p} \X keys)
<1>1. /\ tables' = [tables EXCEPT !.endpoints = ends, !.fields = others \cup fields]
      /\ cat' = cat /\ keys \subseteq Live(cat, "endpoints")
      /\ \A g \in fields : g.group \in Live(cat, "groups")
  BY DEF SavePermission, Compose
<1> HIDE DEF ends
<1>2. /\ tables'.endpoints = ends /\ tables'.rules = tables.rules
      /\ tables'.conditions = tables.conditions /\ tables'.fields = others \cup fields
      /\ tables' = [bindings |-> tables'.bindings, endpoints |-> tables'.endpoints,
                    rules |-> tables'.rules, conditions |-> tables'.conditions,
                    fields |-> tables'.fields]
  BY <1>1 DEF CompositionInv, SoundTables
<1>3. \A g \in fields :
        /\ g.permission = p
        /\ \/ g \in tables.fields
           \/ /\ g.values = <<>>
              /\ g = [permission |-> g.permission, group |-> g.group, key |-> g.key,
                      values |-> g.values]
              /\ \A h \in tables.fields : (h.permission = p /\ h.group = g.group) => h.key # g.key
  BY DEF FieldChoices
<1>4. \A x, y \in tables'.fields :
        (x.permission = y.permission /\ x.group = y.group /\ x.key = y.key) => x = y
  <2>1. \A x, y \in tables.fields :
          (x.permission = y.permission /\ x.group = y.group /\ x.key = y.key) => x = y
    BY DEF CompositionInv, SoundTables, WellFormed
  <2>2. \A x, y \in fields : (x.group = y.group /\ x.key = y.key) => x = y
    BY <1>3, <2>1
  <2> QED
    BY <1>2, <1>3, <2>1, <2>2
<1>5. SoundTables(tables')
  BY <1>2, <1>4 DEF CompositionInv, SoundTables, WellFormed
<1>6. PointsInto(tables', cat')
  <2>1. \A e \in ends : e \in tables.endpoints \/ e[2] \in keys
    BY DEF ends
  <2>2. \A e \in tables'.endpoints : e[2] \in DOMAIN cat.endpoints
    BY <1>1, <1>2, <2>1, LiveIsThere DEF CompositionInv, PointsInto
  <2>3. \A g \in tables'.fields : g.group \in DOMAIN cat.groups
    BY <1>1, <1>2, LiveIsThere DEF CompositionInv, PointsInto
  <2> QED
    BY <1>1, <1>2, <2>2, <2>3 DEF CompositionInv, PointsInto
<1> QED
  BY <1>1, <1>5, <1>6 DEF CompositionInv

LEMMA AddRuleKeeps ==
  ASSUME CompositionInv, NEW p \in Permission, NEW k, NEW label,
         NEW conds \in ConditionSets, NEW known, AddRule(p, k, label, conds, known)
  PROVE  CompositionInv'
<1> DEFINE id == FreshId(tables)
           rule == [id |-> id, permission |-> p, key |-> k, label |-> label]
           added == {[rule |-> id, filter |-> x.filter, params |-> x.params] : x \in conds}
<1>1. /\ tables' = [tables EXCEPT !.rules = @ \cup {rule}, !.conditions = @ \cup added]
      /\ cat' = cat /\ k[1] \in Live(cat, "objects")
      /\ \A x \in conds : x.filter \in Live(cat, "filters")
  BY DEF AddRule, Compose
<1>2. id \in Nat /\ \A r \in tables.rules : r.id # id
  <2>1. IsFiniteSet(tables.rules) /\ IsFiniteSet({0})
    BY FS_Singleton DEF CompositionInv, SoundTables
  <2> QED
    BY <2>1, FreshIdsAreFree DEF FreshId
<1> HIDE DEF id
<1>3. /\ rule.id = id /\ rule.key = k /\ IsRule(rule)
      /\ \A x \in added : /\ x.rule = id /\ IsCondition(x)
                          /\ \E y \in conds : x.filter = y.filter /\ x.params = y.params
      /\ \A x, y \in added : x = y
  <2>1. \A x, y \in conds : x = y
    BY DEF ConditionSets
  <2> QED
    BY <2>1, <1>2, PermissionAssumption DEF IsRule, IsCondition
<1> HIDE DEF rule, added
<1>4. /\ tables'.endpoints = tables.endpoints /\ tables'.rules = tables.rules \cup {rule}
      /\ tables'.conditions = tables.conditions \cup added /\ tables'.fields = tables.fields
      /\ tables' = [bindings |-> tables'.bindings, endpoints |-> tables'.endpoints,
                    rules |-> tables'.rules, conditions |-> tables'.conditions,
                    fields |-> tables'.fields]
  BY <1>1 DEF CompositionInv, SoundTables
<1>5. SoundTables(tables')
  <2>1. IsFiniteSet(tables'.rules)
    BY <1>4, FS_AddElement DEF CompositionInv, SoundTables
  <2>2. \A r, s \in tables'.rules : r.id = s.id => r = s
    BY <1>2, <1>3, <1>4 DEF CompositionInv, SoundTables, WellFormed
  <2>3. \A x \in tables'.conditions : \E r \in tables'.rules : r.id = x.rule
    BY <1>3, <1>4 DEF CompositionInv, SoundTables, WellFormed
  <2>4. \A x, y \in tables'.conditions : (x.rule = y.rule /\ x.filter = y.filter) => x = y
    <3>1. \A x \in tables.conditions : x.rule # id
      BY <1>2 DEF CompositionInv, SoundTables, WellFormed
    <3> QED
      BY <3>1, <1>3, <1>4 DEF CompositionInv, SoundTables, WellFormed
  <2>5. WellFormed(tables')
    BY <1>4, <2>2, <2>3, <2>4 DEF CompositionInv, SoundTables, WellFormed
  <2> QED
    BY <1>3, <1>4, <2>1, <2>5 DEF CompositionInv, SoundTables
<1>6. PointsInto(tables', cat')
  <2>1. k[1] \in DOMAIN cat.objects /\ \A x \in added : x.filter \in DOMAIN cat.filters
    BY <1>1, <1>3, LiveIsThere
  <2> QED
    BY <1>1, <1>3, <1>4, <2>1 DEF CompositionInv, PointsInto
<1> QED
  BY <1>1, <1>5, <1>6 DEF CompositionInv

LEMMA DeleteRuleKeeps ==
  ASSUME CompositionInv, NEW r, Compose(DeleteRule(tables, r.id))
  PROVE  CompositionInv'
<1> DEFINE rules == {s \in tables.rules : s.id # r.id}
           conditions == {x \in tables.conditions : x.rule # r.id}
<1>1. tables' = [tables EXCEPT !.rules = rules, !.conditions = conditions] /\ cat' = cat
  BY DEF Compose, DeleteRule
<1> HIDE DEF rules, conditions
<1>2. /\ tables'.endpoints = tables.endpoints /\ tables'.rules = rules
      /\ tables'.conditions = conditions /\ tables'.fields = tables.fields
      /\ tables' = [bindings |-> tables'.bindings, endpoints |-> tables'.endpoints,
                    rules |-> tables'.rules, conditions |-> tables'.conditions,
                    fields |-> tables'.fields]
  BY <1>1 DEF CompositionInv, SoundTables
<1>3. /\ \A s : s \in rules <=> s \in tables.rules /\ s.id # r.id
      /\ \A x : x \in conditions <=> x \in tables.conditions /\ x.rule # r.id
  BY DEF rules, conditions
<1>4. IsFiniteSet(rules)
  BY FS_Subset DEF rules, CompositionInv, SoundTables
<1>5. SoundTables(tables')
  <2>1. WellFormed(tables')
    BY <1>2, <1>3 DEF CompositionInv, SoundTables, WellFormed
  <2> QED
    BY <1>2, <1>3, <1>4, <2>1 DEF CompositionInv, SoundTables
<1>6. PointsInto(tables', cat')
  BY <1>1, <1>2, <1>3 DEF CompositionInv, PointsInto
<1> QED
  BY <1>1, <1>5, <1>6 DEF CompositionInv

LEMMA ChangeConditionsKeeps ==
  ASSUME CompositionInv, NEW r \in tables.rules, NEW conds \in ConditionSets, NEW known,
         ChangeConditions(r, conds, known)
  PROVE  CompositionInv'
<1> DEFINE kept == {x \in tables.conditions : x.rule # r.id}
           added == {[rule |-> r.id, filter |-> x.filter, params |-> x.params] : x \in conds}
<1>1. /\ tables' = [tables EXCEPT !.conditions = kept \cup added]
      /\ cat' = cat
      /\ \A x \in conds : x.filter \in Live(cat, "filters")
  BY DEF ChangeConditions, Compose
<1>2. /\ \A x \in added : /\ x.rule = r.id /\ IsCondition(x)
                          /\ \E y \in conds : x.filter = y.filter /\ x.params = y.params
      /\ \A x, y \in added : x = y
      /\ \A x \in kept : x \in tables.conditions /\ x.rule # r.id
  <2>1. \A x, y \in conds : x = y
    BY DEF ConditionSets
  <2> QED
    BY <2>1 DEF IsCondition
<1> HIDE DEF kept, added
<1>3. /\ tables'.endpoints = tables.endpoints /\ tables'.rules = tables.rules
      /\ tables'.conditions = kept \cup added /\ tables'.fields = tables.fields
      /\ tables' = [bindings |-> tables'.bindings, endpoints |-> tables'.endpoints,
                    rules |-> tables'.rules, conditions |-> tables'.conditions,
                    fields |-> tables'.fields]
  BY <1>1 DEF CompositionInv, SoundTables
<1>4. SoundTables(tables')
  <2>1. WellFormed(tables')
    BY <1>2, <1>3 DEF CompositionInv, SoundTables, WellFormed
  <2> QED
    BY <1>2, <1>3, <2>1 DEF CompositionInv, SoundTables
<1>5. PointsInto(tables', cat')
  <2>1. \A x \in added : x.filter \in DOMAIN cat.filters
    BY <1>1, <1>2, LiveIsThere
  <2> QED
    BY <1>1, <1>2, <1>3, <2>1 DEF CompositionInv, PointsInto
<1> QED
  BY <1>1, <1>4, <1>5 DEF CompositionInv

-----------------------------------------------------------------------------
(* What permkit_apply does.                                                *)
LEMMA FileApplied ==
  ASSUME CompositionInv, NEW file \in Files, NEW known, ApplyFile(file, known)
  PROVE  LET specs == file.permissions
         IN /\ SoundTables(tables')
            /\ Stands(tables', specs)
            /\ OthersAsIn(tables, tables', DOMAIN specs)
            /\ {e \in tables'.endpoints : e[1] \notin DOMAIN specs}
                 = {e \in tables.endpoints : e[1] \notin DOMAIN specs}
            /\ {g \in tables'.fields : g.permission \notin DOMAIN specs}
                 = {g \in tables.fields : g.permission \notin DOMAIN specs}
            /\ tables'.bindings = tables.bindings \cup
                                    UNION {{r} \X file.roles[r] : r \in DOMAIN file.roles}
            /\ \A e \in tables'.endpoints :
                 e \in tables.endpoints \/ \E p \in DOMAIN specs : e[2] \in specs[p].endpoints
            /\ \A r \in tables'.rules :
                 \/ r \in tables.rules
                 \/ \E e \in Entries(specs) : r.key = EntryRule(specs, e).key
            /\ \A x \in tables'.conditions :
                 \/ x \in tables.conditions
                 \/ \E e \in Entries(specs) : x.filter \in DOMAIN EntryRule(specs, e).conditions
            /\ \A g \in tables'.fields :
                 \/ g \in tables.fields
                 \/ \E p \in DOMAIN specs : \E i \in DOMAIN specs[p].fields :
                      g.group = specs[p].fields[i].group
<1>1. ~Refused(Imported(known), cat, tables, permissions, file) /\ tables' = Applied(tables, file)
  BY DEF ApplyFile
<1>2. Acceptable(tables, file.permissions) /\ Lists(file.permissions) /\ SoundTables(tables)
  BY <1>1, AcceptedIsAcceptable DEF CompositionInv
<1> QED
  BY <1>1, <1>2, WhatAFileLeaves

LEMMA ApplyFileKeeps ==
  ASSUME CompositionInv, NEW file \in Files, NEW known, ApplyFile(file, known)
  PROVE  CompositionInv'
<1> DEFINE specs == file.permissions
<1>1. /\ ~Refused(Imported(known), cat, tables, permissions, file)
      /\ cat' = cat
  BY DEF ApplyFile
<1>2. \A p \in DOMAIN specs :
        /\ specs[p].endpoints \subseteq Live(cat, "endpoints")
        /\ \A i \in DOMAIN specs[p].fields : specs[p].fields[i].group \in Live(cat, "groups")
        /\ \A i \in DOMAIN specs[p].rules :
             ~RuleRefused(Imported(known), cat, tables, p, specs[p].rules[i])
  BY <1>1, AcceptedIsAcceptable
<1>3. \A e \in Entries(specs) :
        /\ EntryRule(specs, e).key[1] \in Live(cat, "objects")
        /\ \A f \in DOMAIN EntryRule(specs, e).conditions : f \in Live(cat, "filters")
  <2>1. \A e \in Entries(specs) : e[1] \in DOMAIN specs /\ e[2] \in DOMAIN specs[e[1]].rules
    BY DEF Entries
  <2>2. \A p, rule : ~RuleRefused(Imported(known), cat, tables, p, rule) =>
          /\ rule.key[1] \in Live(cat, "objects")
          /\ \A f \in DOMAIN rule.conditions : f \in Live(cat, "filters")
    BY DEF RuleRefused
  <2> HIDE DEF specs
  <2> QED
    BY <2>1, <2>2, <1>2 DEF EntryRule
<1> HIDE DEF specs
<1>4. /\ SoundTables(tables')
      /\ \A e \in tables'.endpoints :
           e \in tables.endpoints \/ \E p \in DOMAIN specs : e[2] \in specs[p].endpoints
      /\ \A r \in tables'.rules :
           \/ r \in tables.rules
           \/ \E e \in Entries(specs) : r.key = EntryRule(specs, e).key
      /\ \A x \in tables'.conditions :
           \/ x \in tables.conditions
           \/ \E e \in Entries(specs) : x.filter \in DOMAIN EntryRule(specs, e).conditions
      /\ \A g \in tables'.fields :
           \/ g \in tables.fields
           \/ \E p \in DOMAIN specs : \E i \in DOMAIN specs[p].fields :
                g.group = specs[p].fields[i].group
  BY FileApplied DEF specs
<1>5. /\ \A i \in Live(cat, "objects") : i \in DOMAIN cat.objects
      /\ \A i \in Live(cat, "filters") : i \in DOMAIN cat.filters
      /\ \A i \in Live(cat, "endpoints") : i \in DOMAIN cat.endpoints
      /\ \A i \in Live(cat, "groups") : i \in DOMAIN cat.groups
  BY LiveIsThere
<1>6. /\ \A r \in tables'.rules : r.key[1] \in DOMAIN cat.objects
      /\ \A x \in tables'.conditions : x.filter \in DOMAIN cat.filters
    BY <1>3, <1>4, <1>5 DEF CompositionInv, PointsInto
<1>7. /\ \A e \in tables'.endpoints : e[2] \in DOMAIN cat.endpoints
      /\ \A g \in tables'.fields : g.group \in DOMAIN cat.groups
    BY <1>2, <1>4, <1>5 DEF CompositionInv, PointsInto
<1> QED
  BY <1>1, <1>4, <1>6, <1>7 DEF CompositionInv, PointsInto

-----------------------------------------------------------------------------
(* Through releases, runs of permkit_sync, edits and files, the tables     *)
(* keep their constraints and point at rows of the catalogue.              *)
THEOREM CompositionsStaySound == Spec => []CompositionInv
<1>1. CatalogueInv /\ CompositionInv /\ [Next]_vars => CompositionInv'
  <2> SUFFICES ASSUME CatalogueInv, CompositionInv, [Next]_vars
               PROVE  CompositionInv'
    OBVIOUS
  <2>1. CASE UNCHANGED <<cat, tables>>
    BY <2>1 DEF CompositionInv
  <2>2. ASSUME NEW commit \in BOOLEAN, EndSync(commit)
        PROVE  CompositionInv'
    <3>1. tables' = tables /\ cat' \in {cat, Published(cat, sync.release)}
      BY <2>2 DEF EndSync, Written
    <3>2. CASE cat' = cat
      BY <3>1, <3>2 DEF CompositionInv
    <3>3. CASE cat' = Published(cat, sync.release)
      BY <3>1, <3>3, PublishingKeepsWhatIsThere DEF CompositionInv, CatalogueInv
    <3> QED
      BY <3>1, <3>2, <3>3
  <2>3. ASSUME NEW p, NEW r, Bind(r, p)
        PROVE  CompositionInv'
    BY <2>3, BindKeeps
  <2>4. ASSUME NEW p, NEW keys, NEW fields \in SUBSET FieldChoices(p, {k[2] : k \in Key}),
               SavePermission(p, keys, fields)
        PROVE  CompositionInv'
    BY <2>4, SavePermissionKeeps
  <2>5. ASSUME NEW p \in Permission, NEW k, NEW label, NEW conds \in ConditionSets,
               NEW known, AddRule(p, k, label, conds, known)
        PROVE  CompositionInv'
    BY <2>5, AddRuleKeeps
  <2>6. ASSUME NEW r, Compose(DeleteRule(tables, r.id))
        PROVE  CompositionInv'
    BY <2>6, DeleteRuleKeeps
  <2>7. ASSUME NEW r \in tables.rules, NEW conds \in ConditionSets, NEW known,
               ChangeConditions(r, conds, known)
        PROVE  CompositionInv'
    BY <2>7, ChangeConditionsKeeps
  <2>8. ASSUME NEW file \in Files, NEW known, ApplyFile(file, known)
        PROVE  CompositionInv'
    BY <2>8, ApplyFileKeeps
  <2>9. CASE \/ Release \/ StartSync \/ AskEndpoints \/ AskRules \/ AskConditions
             \/ AskFields \/ AbortSync \/ \E p \in Permission : AddPermission(p)
    BY <2>9, <2>1 DEF Release, StartSync, Ask, AskEndpoints, AskRules, AskConditions,
       AskFields, AbortSync, AddPermission
  <2>10. CASE UNCHANGED vars
    BY <2>10, <2>1 DEF vars
  <2> QED
    BY <2>2, <2>3, <2>4, <2>5, <2>6, <2>7, <2>8, <2>9, <2>10 DEF Next
<1> QED
  BY <1>1, InitCompositions, Invariance, PTL DEF Spec

(* Beside the constraints of the composition tables: whatever the code     *)
(* drops, the rows a composition points at stay in the catalogue           *)
(* (catalogue/models.py:13-19).                                            *)
THEOREM TypesOK == Spec => []TypeOK
  BY InvMeansTypeOK, CompositionsStaySound, PTL

(* However far the tables and the release in service have drifted apart, a *)
(* row is shown because of a rule that is held and whose conditions are    *)
(* all conditions of that release, each of which admits the row            *)
(* (resolver.py:187-233, registry.py:213-247).                             *)
THEOREM DriftClosed == Spec => []DriftFailsClosed
<1>1. CompositionInv => DriftFailsClosed
  <2> SUFFICES ASSUME CompositionInv, NEW ps \in SUBSET permissions, NEW k \in Key,
                      NEW row \in Shown(ps, k)
               PROVE  \E r \in tables.rules :
                        /\ r.permission \in ps /\ r.key = k
                        /\ \A x \in tables.conditions : x.rule = r.id =>
                             /\ Usable(View(code), k, x)
                             /\ row \in Matching(code.filters[x.filter].q[x.params])
    BY DEF DriftFailsClosed
  <2> DEFINE c == [tables EXCEPT !.bindings = {None} \X ps]
             grants == ObjectGrants(c, {None}, k)
  <2>1. /\ c.bindings = {None} \X ps
        /\ c.rules = tables.rules /\ c.conditions = tables.conditions
    BY DEF CompositionInv, SoundTables
  <2>2. Orderly(c.rules)
    BY <2>1 DEF Orderly, CompositionInv, SoundTables, WellFormed, IsRule
  <2> HIDE DEF c
  <2>3. HeldBy(c, {None}) = ps
    <3>1. \A p \in ps : <<None, p>> \in {x \in c.bindings : x[1] \in {None}}
      BY <2>1
    <3>2. \A b \in c.bindings : b[2] \in ps
      BY <2>1
    <3>3. \A p \in ps : p \in HeldBy(c, {None})
      <4> SUFFICES ASSUME NEW p \in ps PROVE p \in HeldBy(c, {None})
        OBVIOUS
      <4>1. <<None, p>>[2] = p
        OBVIOUS
      <4> QED
        BY <3>1, <4>1 DEF HeldBy
    <3>4. \A p \in HeldBy(c, {None}) : p \in ps
      BY <3>2 DEF HeldBy
    <3> QED
      BY <3>3, <3>4
  <2>4. /\ DOMAIN grants \subseteq Nat
        /\ DOMAIN grants = {} <=> grants = <<>>
        /\ \A i \in DOMAIN grants : \E r \in Held(c, {None}, k) :
             grants[i].conditions = ConditionsOf(c, r)
    BY <2>2, ObjectGrantsFind
  <2> HIDE DEF grants
  <2>5. grants # <<>> /\ row \in RowsIn(CompileGrants(View(code), k, grants))
    BY DEF Shown, ResolveScope, RowsIn, UnknownKey, Deny, c, grants
  <2>6. PICK i \in DOMAIN grants : Admitted(View(code), k, grants[i].conditions, row)
    BY <2>4, <2>5, CompiledIsAdmitted
  <2>7. PICK r \in Held(c, {None}, k) : grants[i].conditions = ConditionsOf(c, r)
    BY <2>4
  <2>8. r \in tables.rules /\ r.permission \in ps /\ r.key = k
    BY <2>1, <2>3 DEF Held
  <2>9. ASSUME NEW x \in tables.conditions, x.rule = r.id
        PROVE  /\ Usable(View(code), k, x)
               /\ row \in Matching(code.filters[x.filter].q[x.params])
    <3> DEFINE y == [filter |-> x.filter, params |-> x.params]
    <3>1. y \in grants[i].conditions
      BY <2>1, <2>7, <2>9 DEF ConditionsOf
    <3>2. Usable(View(code), k, y) /\ row \in Matching(Matched(View(code), y))
      BY <2>6, <3>1 DEF Admitted
    <3> QED
      BY <3>2 DEF Usable, Matched, View
  <2> QED
    BY <2>8, <2>9
<1> QED
  BY <1>1, CompositionsStaySound, PTL

(* The tables that a file determines, and what a reader of the file expects *)
(* of each permission, are the same: row for row what it lists, params and  *)
(* values included.                                                        *)
LEMMA StandsMeansHolds ==
  ASSUME NEW d, NEW specs, Stands(d, specs), NEW p \in DOMAIN specs
  PROVE  Holds(d, p, specs[p])
<1> DEFINE rules == specs[p].rules
<1>1. /\ HoldsEndpoints(d, p, specs[p].endpoints) /\ HoldsRules(d, p, rules)
      /\ HoldsFields(d, p, specs[p].fields)
  BY DEF Stands
<1>2. \A i \in DOMAIN rules :
        Listed(StoredEach(rules[i].conditions)) =
          {<<f, Stored(rules[i].conditions[f])>> : f \in DOMAIN rules[i].conditions}
  BY DEF Listed, StoredEach
<1> QED
  BY <1>1, <1>2 DEF Holds, HoldsEndpoints, HoldsRules, HoldsFields, Conditions

(* "A permission named in the spec is fully managed": after a run it holds *)
(* the endpoints, rules, conditions and field grants of the file, with its *)
(* params and allowed values, and no others, whatever it held before       *)
(* (spec.py:32-35).                                                        *)
THEOREM FileIsTruth == Spec => FileIsTheTruth
<1> DEFINE Truth == \A file \in Files, known \in Imports : ApplyFile(file, known) =>
                      \A p \in DOMAIN file.permissions : Holds(tables', p, file.permissions[p])
<1>1. CompositionInv => Truth
  <2> SUFFICES ASSUME CompositionInv, NEW file \in Files, NEW known \in Imports,
                      ApplyFile(file, known), NEW p \in DOMAIN file.permissions
               PROVE  Holds(tables', p, file.permissions[p])
    OBVIOUS
  <2>1. Stands(tables', file.permissions)
    BY FileApplied
  <2> QED
    BY <2>1, StandsMeansHolds
<1>2. [][Truth]_vars => FileIsTheTruth
  BY PTL DEF FileIsTheTruth
<1> QED
  BY <1>1, <1>2, CompositionsStaySound, PTL

(* "Role bindings are only ever added", and "permissions the spec does not *)
(* name are never touched" (spec.py:36-40).                                *)
THEOREM FileOnlyAdds == Spec => FileRevokesNothing
<1> DEFINE Keeps == \A file \in Files, known \in Imports : ApplyFile(file, known) =>
                      /\ tables.bindings \subseteq tables'.bindings
                      /\ \A p \in permissions \ DOMAIN file.permissions :
                           OwnedBy(tables', p) = OwnedBy(tables, p)
<1>1. CompositionInv => Keeps
  <2> SUFFICES ASSUME CompositionInv, NEW file \in Files, NEW known \in Imports,
                      ApplyFile(file, known)
               PROVE  /\ tables.bindings \subseteq tables'.bindings
                      /\ \A p \in permissions \ DOMAIN file.permissions :
                           OwnedBy(tables', p) = OwnedBy(tables, p)
    OBVIOUS
  <2> DEFINE P == DOMAIN file.permissions
  <2>1. /\ OthersAsIn(tables, tables', P)
        /\ {e \in tables'.endpoints : e[1] \notin P} = {e \in tables.endpoints : e[1] \notin P}
        /\ {g \in tables'.fields : g.permission \notin P}
             = {g \in tables.fields : g.permission \notin P}
        /\ tables.bindings \subseteq tables'.bindings
    BY FileApplied
  <2> HIDE DEF P
  <2>2. ASSUME NEW p, p \notin P
        PROVE  OwnedBy(tables', p) = OwnedBy(tables, p)
    <3>1. \A r : r \in tables'.rules /\ r.permission = p <=> r \in tables.rules /\ r.permission = p
      BY <2>1, <2>2 DEF OthersAsIn
    <3>2. \A r \in tables.rules : r.permission = p =>
            \A x : x \in tables'.conditions /\ x.rule = r.id
                     <=> x \in tables.conditions /\ x.rule = r.id
      BY <2>1, <2>2 DEF OthersAsIn
    <3>3. {x \in tables'.conditions : \E r \in tables'.rules : r.id = x.rule /\ r.permission = p}
            = {x \in tables.conditions : \E r \in tables.rules : r.id = x.rule /\ r.permission = p}
      BY <3>1, <3>2
    <3>4. {r \in tables'.rules : r.permission = p} = {r \in tables.rules : r.permission = p}
      BY <3>1
    <3>5. {e \in tables'.endpoints : e[1] = p} = {e \in tables.endpoints : e[1] = p}
      BY <2>1, <2>2
    <3>6. {g \in tables'.fields : g.permission = p} = {g \in tables.fields : g.permission = p}
      BY <2>1, <2>2
    <3> QED
      BY <3>3, <3>4, <3>5, <3>6 DEF OwnedBy
  <2> QED
    BY <2>1, <2>2 DEF P
<1>2. [][Keeps]_vars => FileRevokesNothing
  BY PTL DEF FileRevokesNothing
<1> QED
  BY <1>1, <1>2, CompositionsStaySound, PTL

(* Right after a run the same file is not refused and changes nothing, and *)
(* reports a change exactly if it grants one group twice for one verb with *)
(* different values, or holds data that JSON changes (permkit_apply.py:6,  *)
(* spec.py:200, 236-245, 254-314).                                         *)
THEOREM ApplyingAgain == Spec => ApplyingAgainIsNoOp
<1> DEFINE NoOp == \A file \in Files, known \in Imports : ApplyFile(file, known) =>
                     /\ ~Refused(Imported(known), cat, tables', permissions', file)
                     /\ Applied(tables', file) = tables'
                     /\ SaysChanged(tables', permissions', file) <=> NeverSettles(file)
<1>1. CompositionInv => NoOp
  <2> SUFFICES ASSUME CompositionInv, NEW file \in Files, NEW known \in Imports,
                      ApplyFile(file, known)
               PROVE  /\ ~Refused(Imported(known), cat, tables', permissions', file)
                      /\ Applied(tables', file) = tables'
                      /\ SaysChanged(tables', permissions', file) <=> NeverSettles(file)
    OBVIOUS
  <2> DEFINE specs == file.permissions
  <2>1. /\ ~Refused(Imported(known), cat, tables, permissions, file)
        /\ permissions' = permissions \cup DOMAIN specs
    BY DEF ApplyFile
  <2>2. /\ SoundTables(tables') /\ Stands(tables', specs)
        /\ UNION {{r} \X file.roles[r] : r \in DOMAIN file.roles} \subseteq tables'.bindings
    BY FileApplied
  <2>3. Lists(specs)
    BY FilesAssumption DEF Lists
  <2>4. ASSUME NEW p \in DOMAIN specs
        PROVE  ~BodyRefused(Imported(known), cat, tables', p, specs[p])
    <3>1. ~BodyRefused(Imported(known), cat, tables, p, specs[p])
      BY <2>1 DEF Refused
    <3>2. ASSUME NEW i \in DOMAIN specs[p].rules
          PROVE  ~RuleRefused(Imported(known), cat, tables', p, specs[p].rules[i])
      <4>1. ~RuleRefused(Imported(known), cat, tables, p, specs[p].rules[i])
        BY <3>1 DEF BodyRefused
      <4>2. \A r, s \in SameRule(tables', p, specs[p].rules[i]) : r = s
        BY <2>2 DEF Stands, HoldsRules
      <4> HIDE DEF specs
      <4> QED
        BY <4>1, <4>2 DEF RuleRefused
    <3> HIDE DEF specs
    <3> QED
      BY <3>1, <3>2 DEF BodyRefused
  <2>5. ~Refused(Imported(known), cat, tables', permissions', file)
    BY <2>1, <2>4 DEF Refused
  <2>6. DOMAIN specs \subseteq permissions'
    BY <2>1
  <2> HIDE DEF specs
  <2> QED
    BY <2>2, <2>3, <2>5, <2>6, SecondRun DEF specs
<1>2. [][NoOp]_vars => ApplyingAgainIsNoOp
  BY PTL DEF ApplyingAgainIsNoOp
<1> QED
  BY <1>1, <1>2, CompositionsStaySound, PTL

(* A file that is accepted, against a catalogue in step with the code,     *)
(* composes conditions the code can use on every key that resolves, except *)
(* those whose params were not looked at: the process had not imported the *)
(* filter, or JSON changed them after they were bound (spec.py:173-203).   *)
THEOREM AppliedResolve == Spec => AppliedRulesResolve
<1> DEFINE Resolve == \A file \in Files, known \in Imports :
             (ApplyFile(file, known) /\ published = code) =>
             \A x \in tables'.conditions, r \in tables'.rules :
               (x.rule = r.id /\ r.permission \in DOMAIN file.permissions
                  /\ r.key \in ResolvableKeys(code) /\ ~Renamed(code, r.key)
                  /\ x.filter \in known /\ ~ChangedByJson(file.permissions[r.permission], r, x))
                 => Usable(View(code), r.key, x)
<1>1. CatalogueInv /\ CompositionInv /\ ReleaseInv => Resolve
  <2> SUFFICES ASSUME CatalogueInv, CompositionInv, ReleaseInv,
                      NEW file \in Files, NEW known \in Imports,
                      ApplyFile(file, known), published = code,
                      NEW x \in tables'.conditions, NEW r \in tables'.rules,
                      x.rule = r.id, r.permission \in DOMAIN file.permissions,
                      r.key \in ResolvableKeys(code), ~Renamed(code, r.key),
                      x.filter \in known, ~ChangedByJson(file.permissions[r.permission], r, x)
               PROVE  Usable(View(code), r.key, x)
    OBVIOUS
  <2> DEFINE p == r.permission
             rules == file.permissions[p].rules
  <2>1. HoldsRules(tables', p, rules)
    BY FileApplied DEF Stands
  <2>2. PICK i \in DOMAIN rules : r \in SameRule(tables', p, rules[i])
    <3> HIDE DEF rules
    <3> QED
      BY <2>1 DEF HoldsRules
  <2> DEFINE rule == rules[i]
  <2>3. Conditions(tables', r) = Listed(StoredEach(rule.conditions))
    <3>1. PICK s : /\ SameRule(tables', p, rule) = {s}
                   /\ Conditions(tables', s) = Listed(StoredEach(rule.conditions))
      BY <2>1 DEF HoldsRules
    <3> HIDE DEF rule
    <3>2. r = s
      BY <2>2, <3>1 DEF rule
    <3> QED
      BY <3>1, <3>2
  <2>4. ~RuleRefused(Imported(known), cat, tables, p, rule)
    BY AcceptedIsAcceptable DEF ApplyFile
  <2>5. rule.key = r.key /\ rule.label = r.label
    BY <2>2 DEF SameRule
  <2>6. x.filter \in DOMAIN rule.conditions /\ x.params = rule.conditions[x.filter]
    <3> DEFINE said == rule.conditions
    <3>1. /\ x.filter \in DOMAIN said /\ Stored(said[x.filter]) # said[x.filter]
            => ChangedByJson(file.permissions[p], r, x)
      BY <2>5 DEF ChangedByJson
    <3> HIDE DEF rule, rules
    <3>2. <<x.filter, x.params>> \in Conditions(tables', r)
      BY DEF Conditions
    <3>3. x.filter \in DOMAIN said /\ x.params = Stored(said[x.filter])
      BY <3>2, <2>3 DEF Listed, StoredEach
    <3> QED
      BY <3>1, <3>3
  <2> HIDE DEF rule, rules
  <2>7. Imported(known).filters = Restrict(code.filters, known)
    BY ReleasesAssumption DEF Imported, ReleaseInv
  <2>8. /\ x.filter \in DOMAIN Imported(known).filters
        /\ Imported(known).filters[x.filter] = code.filters[x.filter]
    BY <2>7 DEF Restrict
  <2>9. /\ x.filter \in Live(cat, "filters")
        /\ cat.filters[x.filter].data.object = r.key[1]
        /\ x.params \in DOMAIN code.filters[x.filter].q
    BY <2>4, <2>5, <2>6, <2>8 DEF RuleRefused
  <2>10. InStep(cat, code)
    <3>1. published # None
      BY DeploymentAssumption DEF ReleaseInv
    <3> QED
      BY <3>1 DEF CatalogueInv, CatalogueMirrorsCode
  <2>11. x.filter \in DOMAIN code.filters /\ code.filters[x.filter].object = r.key[1]
    BY <2>9, <2>10, LiveFilters
  <2>12. View(code).keys[r.key].resource = r.key[1] /\ View(code).filters = code.filters
    BY DEF View, KeySpec, Renamed
  <2> QED
    BY <2>9, <2>11, <2>12 DEF Usable
<1>2. [][Resolve]_vars => AppliedRulesResolve
  BY PTL DEF AppliedRulesResolve
<1> QED
  BY <1>1, <1>2, Invariance, CompositionsStaySound, ReleasesOnly, PTL
=============================================================================
