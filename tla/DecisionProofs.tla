--------------------------- MODULE DecisionProofs ---------------------------
(***************************************************************************)
(* Lemmas about the decisions of the resolver (Resolver) on the answers of *)
(* the store (GrantTables): the rules that are found are the rules that    *)
(* are held; a resolution that does not raise shows the rows some rule     *)
(* that is held admits, and no others.  The proofs about modules in which  *)
(* requests are decided start from here.                                   *)
(***************************************************************************)
EXTENDS Resolver, GrantTables, FiniteSetTheorems, WellFoundedInduction, TLAPS

(* Rules that can be put in order.                                         *)
Orderly(rules) ==
  /\ IsFiniteSet(rules)
  /\ \A r \in rules : r.permission \in Nat /\ r.id \in Nat
  /\ \A r, s \in rules : r.id = s.id => r = s

Held(c, roles, key) ==
  {r \in c.rules : r.permission \in HeldBy(c, roles) /\ r.key = key}

LEMMA OrderlySubset ==
  ASSUME NEW rules, Orderly(rules), NEW some \in SUBSET rules
  PROVE  Orderly(some)
  BY FS_Subset DEF Orderly

-----------------------------------------------------------------------------
(* The position a rule gets: one more than the number of rules before it.  *)
Ahead(rules, r) == {s \in rules : Before(s, r)}

LEMMA BeforeIsAnOrder ==
  ASSUME NEW rules, Orderly(rules)
  PROVE  /\ \A r \in rules : ~Before(r, r)
         /\ \A r, s, t \in rules : Before(r, s) /\ Before(s, t) => Before(r, t)
         /\ \A r, s \in rules : r # s => Before(r, s) \/ Before(s, r)
  BY DEF Orderly, Before

LEMMA Positions ==
  ASSUME NEW rules, Orderly(rules)
  PROVE  /\ \A r \in rules : Cardinality(Ahead(rules, r)) + 1 \in 1..Cardinality(rules)
         /\ \A r, s \in rules :
              Before(r, s) => Cardinality(Ahead(rules, r)) < Cardinality(Ahead(rules, s))
<1>1. IsFiniteSet(rules) /\ Cardinality(rules) \in Nat
  BY FS_CardinalityType DEF Orderly
<1>2. ASSUME NEW r \in rules
      PROVE  /\ IsFiniteSet(Ahead(rules, r)) /\ Cardinality(Ahead(rules, r)) \in Nat
             /\ Cardinality(Ahead(rules, r)) + 1 \in 1..Cardinality(rules)
  <2>1. IsFiniteSet(Ahead(rules, r)) /\ Cardinality(Ahead(rules, r)) \in Nat
    BY <1>1, FS_Subset, FS_CardinalityType DEF Ahead
  <2>2. Ahead(rules, r) \in SUBSET rules /\ Ahead(rules, r) # rules
    BY BeforeIsAnOrder DEF Ahead
  <2>3. /\ Cardinality(Ahead(rules, r)) <= Cardinality(rules)
        /\ Cardinality(Ahead(rules, r)) # Cardinality(rules)
    BY <1>1, <2>2, FS_Subset
  <2> QED
    BY <1>1, <2>1, <2>3
<1>3. ASSUME NEW r \in rules, NEW s \in rules, Before(r, s)
      PROVE  Cardinality(Ahead(rules, r)) < Cardinality(Ahead(rules, s))
  <2>1. Ahead(rules, r) \in SUBSET Ahead(rules, s)
    BY <1>3, BeforeIsAnOrder DEF Ahead
  <2>2. r \in Ahead(rules, s) /\ r \notin Ahead(rules, r)
    BY <1>3, BeforeIsAnOrder DEF Ahead
  <2>3. /\ Cardinality(Ahead(rules, r)) <= Cardinality(Ahead(rules, s))
        /\ Cardinality(Ahead(rules, r)) # Cardinality(Ahead(rules, s))
    BY <1>2, <2>1, <2>2, FS_Subset
  <2> QED
    BY <1>2, <2>3
<1> QED
  BY <1>2, <1>3

Sorted(s) == \A i, j \in DOMAIN s : i < j => Before(s[i], s[j])

(* Rules can be put in order.                                              *)
LEMMA SortedExists ==
  ASSUME NEW rules, Orderly(rules)
  PROVE  \E s \in [1..Cardinality(rules) -> rules] : Sorted(s)
<1> DEFINE n == Cardinality(rules)
           place == [r \in rules |-> Cardinality(Ahead(rules, r)) + 1]
<1>1. n \in Nat /\ IsFiniteSet(1..n) /\ Cardinality(1..n) = n
  BY FS_CardinalityType, FS_Interval DEF Orderly
<1>2. \A r \in rules : Cardinality(Ahead(rules, r)) \in Nat
  BY FS_Subset, FS_CardinalityType DEF Orderly, Ahead
<1>3. place \in [rules -> 1..n]
  BY Positions
<1>4. \A r, s \in rules : Before(r, s) => place[r] < place[s]
  BY <1>2, Positions
<1> HIDE DEF place, n
<1>5. place \in Injection(rules, 1..n)
  <2>1. \A r, s \in rules : place[r] = place[s] => r = s
    BY <1>1, <1>3, <1>4, BeforeIsAnOrder
  <2> QED
    BY <1>3, <2>1 DEF Injection, IsInjective
<1>6. \A i \in 1..n : \E r \in rules : place[r] = i
  <2>1. place \in Surjection(rules, 1..n)
    BY <1>1, <1>5, FS_Injection DEF n
  <2> QED
    BY <2>1 DEF Surjection
<1> DEFINE s == [i \in 1..n |-> CHOOSE r \in rules : place[r] = i]
<1>7. \A i \in 1..n : s[i] \in rules /\ place[s[i]] = i
  BY <1>6
<1>8. s \in [1..n -> rules] /\ DOMAIN s = 1..n
  BY <1>7
<1> HIDE DEF s
<1>9. ASSUME NEW i \in 1..n, NEW j \in 1..n, i < j
      PROVE  Before(s[i], s[j])
  <2>1. s[i] # s[j]
    BY <1>1, <1>7, <1>9
  <2>2. ~Before(s[j], s[i])
    BY <1>1, <1>4, <1>7, <1>9
  <2> QED
    BY <1>7, <2>1, <2>2, BeforeIsAnOrder
<1> QED
  BY <1>8, <1>9 DEF Sorted, n

(* object_grants finds the rules that are held, each of them, no others.   *)
LEMMA RulesForFinds ==
  ASSUME NEW c, NEW roles, NEW key, Orderly(c.rules)
  PROVE  LET s == RulesFor(c, roles, key)
         IN /\ DOMAIN s \subseteq Nat /\ s \in Seq(Held(c, roles, key))
            /\ \A r \in Held(c, roles, key) : \E i \in DOMAIN s : s[i] = r
<1> DEFINE mine == Held(c, roles, key)
           n == Cardinality(mine)
           s == RulesFor(c, roles, key)
<1>1. Orderly(mine)
  BY OrderlySubset DEF Held
<1>2. s = CHOOSE x \in [1..n -> mine] : Sorted(x)
  BY DEF RulesFor, Held, Sorted
<1> HIDE DEF mine, s
<1>3. s \in [1..n -> mine] /\ Sorted(s)
  BY <1>1, <1>2, SortedExists
<1>4. n \in Nat /\ IsFiniteSet(1..n) /\ Cardinality(1..n) = n /\ IsFiniteSet(mine)
  BY <1>1, FS_CardinalityType, FS_Interval DEF Orderly
<1>5. s \in Injection(1..n, mine)
  <2>1. ASSUME NEW i \in 1..n, NEW j \in 1..n, i < j
        PROVE  s[i] # s[j]
    BY <1>1, <1>3, <2>1, BeforeIsAnOrder DEF Sorted
  <2>2. ASSUME NEW i \in 1..n, NEW j \in 1..n, s[i] = s[j]
        PROVE  i = j
    <3>1. ~(i < j) /\ ~(j < i)
      BY <2>1, <2>2
    <3> QED
      BY <1>4, <3>1
  <2> QED
    BY <1>3, <2>2 DEF Injection, IsInjective
<1>6. s \in Surjection(1..n, mine)
  BY <1>4, <1>5, FS_Injection
<1>7. \A r \in mine : \E i \in DOMAIN s : s[i] = r
  BY <1>3, <1>6 DEF Surjection
<1>8. DOMAIN s \subseteq Nat /\ s \in Seq(mine)
  BY <1>3, <1>4
<1> QED
  BY <1>7, <1>8 DEF mine, s

-----------------------------------------------------------------------------
(* Filters that never return Q(): Django drops it from a union, so that a  *)
(* rule for every row can count for nothing (resolver.py:233).             *)
PlainFilters(reg) ==
  \A f \in DOMAIN reg.filters : \A p \in DOMAIN reg.filters[f].q :
    reg.filters[f].q[p] \in SUBSET Row

Matched(reg, cond) == reg.filters[cond.filter].q[cond.params]

(* Every condition can be used and matches the row.                        *)
AdmitsRow(reg, key, conditions, row) ==
  \A x \in conditions : Usable(reg, key, x) /\ row \in Matched(reg, x)

LEMMA AndOfPlain ==
  ASSUME NEW qs \in SUBSET SUBSET Row, qs # {}
  PROVE  AndQ(qs) = {r \in Row : \A q \in qs : r \in q}
  BY ResolverAssumption DEF AndQ

LEMMA OrOfPlain ==
  ASSUME NEW qs \in SUBSET SUBSET Row, qs # {}
  PROVE  OrQ(qs) = UNION qs /\ OrQ(qs) # Neutral
<1>1. qs \ {Neutral} = qs
  BY ResolverAssumption
<1>2. OrQ(qs) = UNION qs
  BY <1>1 DEF OrQ
<1>3. UNION qs \in SUBSET Row
  OBVIOUS
<1> QED
  BY <1>2, <1>3, ResolverAssumption

LEMMA GrantMatches ==
  ASSUME NEW reg, PlainFilters(reg), NEW key, NEW grant, grant.conditions # {},
         \A x \in grant.conditions : Usable(reg, key, x)
  PROVE  /\ GrantQ(reg, grant) \in SUBSET Row
         /\ \A row \in Row : row \in GrantQ(reg, grant)
                             <=> AdmitsRow(reg, key, grant.conditions, row)
<1> DEFINE qs == {reg.filters[x.filter].q[x.params] : x \in grant.conditions}
<1>1. qs \in SUBSET SUBSET Row /\ qs # {}
  BY DEF PlainFilters, Usable
<1>2. GrantQ(reg, grant) = {r \in Row : \A q \in qs : r \in q}
  BY <1>1, AndOfPlain DEF GrantQ
<1> QED
  BY <1>2 DEF AdmitsRow, Matched

(* What CompileGrants looks at.                                            *)
Stuck(reg, key, grant) == \E x \in grant.conditions : ~Usable(reg, key, x)

Stops(reg, key, grants) ==
  {i \in DOMAIN grants : Unconditional(grants[i]) \/ Stuck(reg, key, grants[i])}

LEMMA NatMinimum ==
  ASSUME NEW some \in SUBSET Nat, some # {}
  PROVE  \E i \in some : \A j \in some : i <= j
<1>1. PICK i \in some : \A j \in some : <<j, i>> \notin OpToRel(<, Nat)
  BY NatLessThanWellFounded, WFMin
<1>2. \A j \in some : ~(j < i)
  BY <1>1 DEF OpToRel
<1> QED
  BY <1>2

LEMMA CompileCases ==
  ASSUME NEW reg, NEW key, NEW grants, DOMAIN grants \subseteq Nat
  PROVE  \/ /\ Stops(reg, key, grants) = {}
            /\ CompileGrants(reg, key, grants)
                 = Filtered(OrQ({GrantQ(reg, grants[i]) : i \in DOMAIN grants}))
         \/ \E i \in Stops(reg, key, grants) :
              /\ \A j \in Stops(reg, key, grants) : i <= j
              /\ CompileGrants(reg, key, grants)
                   = IF Unconditional(grants[i]) THEN All ELSE Misconfigured
<1> DEFINE stops == Stops(reg, key, grants)
           first == CHOOSE i \in stops : \A j \in stops : i <= j
<1>1. CompileGrants(reg, key, grants) =
        IF stops = {}
        THEN Filtered(OrQ({GrantQ(reg, grants[i]) : i \in DOMAIN grants}))
        ELSE IF Unconditional(grants[first]) THEN All ELSE Misconfigured
  BY DEF CompileGrants, Stops, Stuck
<1>2. stops \subseteq Nat
  BY DEF Stops
<1>3. CASE stops # {}
  <2>1. \E i \in stops : \A j \in stops : i <= j
    BY <1>2, <1>3, NatMinimum
  <2> QED
    BY <1>1, <1>3, <2>1
<1> QED
  BY <1>1, <1>3

(* A resolution shows a row only if some grant admits it, and shows every  *)
(* row some grant admits unless it raises.                                 *)
LEMMA CompiledIsJustified ==
  ASSUME NEW reg, PlainFilters(reg), NEW key, NEW grants,
         DOMAIN grants \subseteq Nat, DOMAIN grants # {},
         NEW row \in RowsIn(CompileGrants(reg, key, grants))
  PROVE  /\ row \in Row
         /\ \E i \in DOMAIN grants : AdmitsRow(reg, key, grants[i].conditions, row)
<1> DEFINE qs == {GrantQ(reg, grants[i]) : i \in DOMAIN grants}
<1>1. CASE Stops(reg, key, grants) = {}
  <2>1. CompileGrants(reg, key, grants) = Filtered(OrQ(qs))
    BY <1>1, CompileCases
  <2>2. \A i \in DOMAIN grants :
          /\ grants[i].conditions # {}
          /\ \A x \in grants[i].conditions : Usable(reg, key, x)
    BY <1>1 DEF Stops, Unconditional, Stuck
  <2>3. \A i \in DOMAIN grants :
          /\ GrantQ(reg, grants[i]) \in SUBSET Row
          /\ \A r \in Row : r \in GrantQ(reg, grants[i])
                            <=> AdmitsRow(reg, key, grants[i].conditions, r)
    BY <2>2, GrantMatches
  <2>4. qs \in SUBSET SUBSET Row /\ qs # {}
    BY <2>3
  <2>5. row \in UNION qs
    BY <2>1, <2>4, OrOfPlain DEF RowsIn, Filtered, Matching
  <2>6. PICK i \in DOMAIN grants : row \in GrantQ(reg, grants[i])
    BY <2>5
  <2> QED
    BY <2>3, <2>6
<1>2. ASSUME NEW i \in Stops(reg, key, grants), CompileGrants(reg, key, grants)
                 = IF Unconditional(grants[i]) THEN All ELSE Misconfigured
      PROVE  /\ row \in Row
             /\ \E j \in DOMAIN grants : AdmitsRow(reg, key, grants[j].conditions, row)
  <2>1. Unconditional(grants[i]) /\ row \in Row
    BY <1>2 DEF RowsIn, All, Misconfigured
  <2>2. i \in DOMAIN grants /\ AdmitsRow(reg, key, grants[i].conditions, row)
    BY <2>1 DEF Stops, Unconditional, AdmitsRow
  <2> QED
    BY <2>1, <2>2
<1> QED
  BY <1>1, <1>2, CompileCases

(* The same of filters that may return Q().                                *)
Admitted(reg, key, conditions, row) ==
  \A x \in conditions : Usable(reg, key, x) /\ row \in Matching(Matched(reg, x))

LEMMA AndAdmits ==
  ASSUME NEW qs, NEW row \in Matching(AndQ(qs))
  PROVE  row \in Row /\ \A q \in qs : row \in Matching(q)
<1>1. CASE qs \ {Neutral} = {}
  <2>1. row \in Row
    BY <1>1 DEF AndQ, Matching
  <2> QED
    BY <1>1, <2>1 DEF Matching
<1>2. CASE qs \ {Neutral} # {}
  <2>1. AndQ(qs) = {r \in Row : \A q \in qs \ {Neutral} : r \in q}
    BY <1>2 DEF AndQ
  <2>2. AndQ(qs) # Neutral
    BY <2>1, ResolverAssumption
  <2>3. row \in Row /\ \A q \in qs \ {Neutral} : row \in q
    BY <2>1, <2>2 DEF Matching
  <2> QED
    BY <2>3 DEF Matching
<1> QED
  BY <1>1, <1>2

LEMMA OrAdmits ==
  ASSUME NEW qs, qs # {}, NEW row \in Matching(OrQ(qs)), OrQ(qs) # Neutral \/ qs = {Neutral}
  PROVE  \E q \in qs : row \in Matching(q)
<1>1. CASE qs \ {Neutral} = {}
  BY <1>1 DEF OrQ
<1>2. CASE qs \ {Neutral} # {}
  <2>1. OrQ(qs) = UNION (qs \ {Neutral}) /\ OrQ(qs) # Neutral
    BY <1>2 DEF OrQ
  <2>2. PICK q \in qs \ {Neutral} : row \in q
    BY <2>1 DEF Matching
  <2> QED
    BY <2>2 DEF Matching
<1> QED
  BY <1>1, <1>2

LEMMA CompiledIsAdmitted ==
  ASSUME NEW reg, NEW key, NEW grants,
         DOMAIN grants \subseteq Nat, DOMAIN grants # {},
         NEW row \in RowsIn(CompileGrants(reg, key, grants))
  PROVE  \E i \in DOMAIN grants : Admitted(reg, key, grants[i].conditions, row)
<1> DEFINE qs == {GrantQ(reg, grants[i]) : i \in DOMAIN grants}
<1>1. CASE Stops(reg, key, grants) = {}
  <2>1. CompileGrants(reg, key, grants) = Filtered(OrQ(qs))
    BY <1>1, CompileCases
  <2>2. row \in Matching(OrQ(qs)) /\ qs # {}
    BY <2>1 DEF RowsIn, Filtered
  <2>3. \A q \in qs : q = Neutral \/ q \in SUBSET Row
    BY DEF GrantQ, AndQ
  <2>4. OrQ(qs) # Neutral \/ qs = {Neutral}
    <3>1. CASE qs \ {Neutral} = {}
      BY <2>2, <3>1
    <3>2. CASE qs \ {Neutral} # {}
      <4>1. OrQ(qs) = UNION (qs \ {Neutral})
        BY <3>2 DEF OrQ
      <4>2. UNION (qs \ {Neutral}) \in SUBSET Row
        BY <2>3
      <4> QED
        BY <4>1, <4>2, ResolverAssumption
    <3> QED
      BY <3>1, <3>2
  <2> HIDE DEF qs
  <2>5. PICK q \in qs : row \in Matching(q)
    BY <2>2, <2>4, OrAdmits
  <2>6. PICK i \in DOMAIN grants : row \in Matching(GrantQ(reg, grants[i]))
    BY <2>5 DEF qs
  <2>7. \A x \in grants[i].conditions : Usable(reg, key, x)
    BY <1>1 DEF Stops, Stuck
  <2>8. \A x \in grants[i].conditions : row \in Matching(reg.filters[x.filter].q[x.params])
    BY <2>6, AndAdmits DEF GrantQ
  <2> QED
    BY <2>7, <2>8 DEF Admitted, Matched
<1>2. ASSUME NEW i \in Stops(reg, key, grants), CompileGrants(reg, key, grants)
                 = IF Unconditional(grants[i]) THEN All ELSE Misconfigured
      PROVE  \E j \in DOMAIN grants : Admitted(reg, key, grants[j].conditions, row)
  <2>1. Unconditional(grants[i])
    BY <1>2 DEF RowsIn, Misconfigured
  <2>2. i \in DOMAIN grants /\ Admitted(reg, key, grants[i].conditions, row)
    BY <2>1 DEF Stops, Unconditional, Admitted
  <2> QED
    BY <2>2
<1> QED
  BY <1>1, <1>2, CompileCases

LEMMA CompiledIsComplete ==
  ASSUME NEW reg, PlainFilters(reg), NEW key, NEW grants,
         DOMAIN grants \subseteq Nat,
         ~Raises(CompileGrants(reg, key, grants)),
         NEW row \in Row, NEW i \in DOMAIN grants,
         AdmitsRow(reg, key, grants[i].conditions, row)
  PROVE  row \in RowsIn(CompileGrants(reg, key, grants))
<1> DEFINE qs == {GrantQ(reg, grants[j]) : j \in DOMAIN grants}
<1>1. CASE Stops(reg, key, grants) = {}
  <2>1. CompileGrants(reg, key, grants) = Filtered(OrQ(qs))
    BY <1>1, CompileCases
  <2>2. \A j \in DOMAIN grants :
          /\ grants[j].conditions # {}
          /\ \A x \in grants[j].conditions : Usable(reg, key, x)
    BY <1>1 DEF Stops, Unconditional, Stuck
  <2>3. \A j \in DOMAIN grants :
          /\ GrantQ(reg, grants[j]) \in SUBSET Row
          /\ \A r \in Row : r \in GrantQ(reg, grants[j])
                            <=> AdmitsRow(reg, key, grants[j].conditions, r)
    BY <2>2, GrantMatches
  <2>4. qs \in SUBSET SUBSET Row /\ qs # {}
    BY <2>3
  <2>5. row \in UNION qs
    BY <2>3
  <2> QED
    BY <2>1, <2>4, <2>5, OrOfPlain DEF RowsIn, Filtered, Matching
<1>2. ASSUME NEW j \in Stops(reg, key, grants), CompileGrants(reg, key, grants)
                 = IF Unconditional(grants[j]) THEN All ELSE Misconfigured
      PROVE  row \in RowsIn(CompileGrants(reg, key, grants))
  <2>1. CompileGrants(reg, key, grants) = All
    BY <1>2 DEF Raises, Misconfigured
  <2> QED
    BY <2>1 DEF RowsIn, All
<1> QED
  BY <1>1, <1>2, CompileCases

(* Conditions taken away from a sequence of grants that compiles leave one *)
(* that compiles: an exception needs a condition.                          *)
LEMMA FewerConditionsCompile ==
  ASSUME NEW reg, NEW key, NEW grants, NEW stripped,
         DOMAIN grants \subseteq Nat, DOMAIN stripped = DOMAIN grants,
         \A i \in DOMAIN grants : stripped[i].conditions \subseteq grants[i].conditions,
         ~Raises(CompileGrants(reg, key, grants))
  PROVE  ~Raises(CompileGrants(reg, key, stripped))
<1>1. ASSUME NEW i \in Stops(reg, key, stripped), ~Unconditional(stripped[i]),
             \A j \in Stops(reg, key, stripped) : i <= j
      PROVE  FALSE
  <2>1. i \in Stops(reg, key, grants) /\ ~Unconditional(grants[i])
    BY <1>1 DEF Stops, Stuck, Unconditional
  <2>2. PICK k \in Stops(reg, key, grants) :
          /\ \A j \in Stops(reg, key, grants) : k <= j
          /\ CompileGrants(reg, key, grants)
               = IF Unconditional(grants[k]) THEN All ELSE Misconfigured
    BY <2>1, CompileCases
  <2>3. Unconditional(grants[k])
    BY <2>2 DEF Raises, Misconfigured
  <2>4. k \in Stops(reg, key, stripped) /\ k \in Nat /\ i \in Nat
    BY <2>3 DEF Stops, Unconditional
  <2>5. k <= i /\ i <= k
    BY <1>1, <2>1, <2>2, <2>4
  <2>6. k = i
    BY <2>4, <2>5
  <2> QED
    BY <2>1, <2>3, <2>6
<1>2. CompileGrants(reg, key, stripped)
        # Misconfigured
  <2>1. All # Misconfigured /\ \A q : Filtered(q) # Misconfigured
    BY DEF All, Misconfigured, Filtered
  <2> QED
    BY <1>1, <2>1, CompileCases
<1>3. \/ CompileGrants(reg, key, stripped) \in {All, Misconfigured}
      \/ \E q : CompileGrants(reg, key, stripped) = Filtered(q)
  BY CompileCases
<1> QED
  BY <1>2, <1>3 DEF Raises, All, Filtered

-----------------------------------------------------------------------------
ConditionsOf(c, rule) ==
  {[filter |-> x.filter, params |-> x.params] :
     x \in {y \in c.conditions : y.rule = rule.id}}

(* object_grants: the rules that are held, with their conditions.          *)
LEMMA ObjectGrantsFind ==
  ASSUME NEW c, NEW roles, NEW key, Orderly(c.rules)
  PROVE  LET grants == ObjectGrants(c, roles, key)
         IN /\ DOMAIN grants \subseteq Nat
            /\ DOMAIN grants = {} <=> grants = <<>>
            /\ \A i \in DOMAIN grants : \E r \in Held(c, roles, key) :
                 grants[i].conditions = ConditionsOf(c, r)
            /\ \A r \in Held(c, roles, key) : \E i \in DOMAIN grants :
                 grants[i].conditions = ConditionsOf(c, r)
<1> DEFINE s == RulesFor(c, roles, key)
           grants == ObjectGrants(c, roles, key)
           mine == Held(c, roles, key)
<1>1. /\ DOMAIN s \subseteq Nat /\ s \in Seq(mine)
      /\ \A r \in mine : \E i \in DOMAIN s : s[i] = r
  BY RulesForFinds
<1>2. /\ grants = [i \in DOMAIN s |-> [name |-> s[i].id, conditions |-> ConditionsOf(c, s[i])]]
  BY DEF ObjectGrants, WithConditions, ConditionsOf
<1> HIDE DEF s, grants, mine
<1>3. DOMAIN grants = {} <=> grants = <<>>
  BY <1>1, <1>2
<1>4. \A i \in DOMAIN grants : s[i] \in mine /\ grants[i].conditions = ConditionsOf(c, s[i])
  BY <1>1, <1>2
<1> QED
  BY <1>1, <1>2, <1>3, <1>4 DEF s, grants, mine
=============================================================================
