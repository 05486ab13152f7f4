--------------------------- MODULE RolloutProofs ----------------------------
(***************************************************************************)
(* Proofs about Rollout for any runs, releases, deploys and aborts: a run  *)
(* that no other release overtook leaves the catalogue in step with its    *)
(* own.                                                                    *)
(*                                                                         *)
(* A run writes what it computed from a table it read earlier, so the      *)
(* inductive invariant Inv relates four things: what the run read (seen),  *)
(* what it wrote (written), what is committed (cat) and what it wants.     *)
(*   - A row is written by one open transaction at most (Exclusive).       *)
(*   - Whatever else has happened, a run brings to life what its release   *)
(*     declares and nothing else, and a column it writes is the one it     *)
(*     wants or the one that is committed (Honest).                        *)
(*   - While no other release has committed, a column that was right when  *)
(*     it was read is right still, and a row that is live was live when it *)
(*     was read, unless it is wanted (Fresh); once the table is written,   *)
(*     every row it wants is there as it wants it, and every other row is  *)
(*     dead (Settled).                                                     *)
(***************************************************************************)
EXTENDS Rollout, TLAPS

(* Rows have two parts; a row of a filter has two columns besides `live`,  *)
(* a row of another table counts as one.                                   *)
Columns(t) == IF t = "filters" THEN {"object", "params"} ELSE {"data"}

Column(t, data, c) == IF t = "filters" THEN data[c] ELSE data

IsData(t, data) ==
  t = "filters" => data = [object |-> data.object, params |-> data.params]

IsRow(t, row) ==
  /\ row = [live |-> row.live, data |-> row.data]
  /\ row.live \in BOOLEAN
  /\ IsData(t, row.data)

IsTable(t, table) == \A i \in DOMAIN table : IsRow(t, table[i])

(* A table `now`, as committed, with the rows a run has written.           *)
Overlay(now, mine) ==
  [i \in DOMAIN now \cup DOMAIN mine |-> IF i \in DOMAIN mine THEN mine[i] ELSE now[i]]

(* Rows `mine` written to it by a run that wants the rows `want`.          *)
Mixed(t, data, now, want) ==
  \A c \in Columns(t) :
    Column(t, data, c) = Column(t, want, c) \/ Column(t, data, c) = Column(t, now, c)

Honest(t, mine, now, want) ==
  /\ DOMAIN want \subseteq DOMAIN mine
  /\ IsTable(t, mine)
  /\ \A i \in DOMAIN mine : mine[i].live <=> i \in DOMAIN want
  /\ \A i \in DOMAIN want :
       IF i \in DOMAIN now THEN Mixed(t, mine[i].data, now[i].data, want[i])
                           ELSE mine[i].data = want[i]

(* What the run read of the table before that.                             *)
Kept(t, read, now, want) ==
  \A c \in Columns(t) :
    Column(t, read, c) = Column(t, want, c) => Column(t, now, c) = Column(t, want, c)

Fresh(t, read, now, want) ==
  /\ \A i \in DOMAIN read \cap DOMAIN want :
       Kept(t, read[i].data, now[i].data, want[i])
  /\ \A i \in DOMAIN now \ DOMAIN want :
       now[i].live => i \in DOMAIN read /\ read[i].live

Settled(mine, now, want) ==
  /\ \A i \in DOMAIN want : mine[i].data = want[i]
  /\ \A i \in DOMAIN now \ DOMAIN mine : ~now[i].live

-----------------------------------------------------------------------------
(* The tables a run has yet to write, and those it has written.            *)
Left(r) == {todo[r][k] : k \in DOMAIN todo[r]}

Done(r) == Tables \ Left(r)

Reading == {r \in Active : seen[r] # None}

TypeInv ==
  /\ code \in Releases
  /\ cat = [t \in Tables |-> cat[t]]
  /\ \A t \in Tables : IsTable(t, cat[t])
  /\ todo \in [Run -> Seq(Tables)]
  /\ \A r \in Run : \A j, k \in DOMAIN todo[r] : j # k => todo[r][j] # todo[r][k]
  /\ release = [r \in Run |-> release[r]]
  /\ seen = [r \in Run |-> seen[r]]
  /\ overtaken \in [Run -> BOOLEAN]
  /\ written = [r \in Run |-> [t \in Tables |-> written[r][t]]]

(* An idle run holds nothing.                                              *)
Idle ==
  \A r \in Run \ Active :
    seen[r] = None /\ \A t \in Tables : DOMAIN written[r][t] = {}

Exclusive ==
  \A r, s \in Run : \A t \in Tables :
    r # s => DOMAIN written[r][t] \cap DOMAIN written[s][t] = {}

(* The current table of a run that is reading is the first of those left.  *)
ReadsAreFresh ==
  \A r \in Reading :
    /\ todo[r] # <<>>
    /\ \A t \in Tables : t = Head(todo[r]) =>
         /\ IsTable(t, seen[r])
         /\ DOMAIN seen[r] \subseteq DOMAIN cat[t]
         /\ ~overtaken[r] => Fresh(t, seen[r], cat[t], Wanted(r, t))

WritesAreHonest ==
  \A r \in Active : \A t \in Done(r) :
    Honest(t, written[r][t], cat[t], Wanted(r, t))

WritesSettle ==
  \A r \in Active : \A t \in Done(r) :
    ~overtaken[r] => Settled(written[r][t], cat[t], Wanted(r, t))

Inv ==
  TypeInv /\ Idle /\ Exclusive /\ ReadsAreFresh /\ WritesAreHonest /\ WritesSettle

-----------------------------------------------------------------------------
(* What a commit of the rows `theirs` does to a table.                     *)
LEMMA CommitKeepsTypes ==
  ASSUME NEW t, NEW now, NEW theirs, IsTable(t, now), IsTable(t, theirs)
  PROVE  IsTable(t, Overlay(now, theirs))
  BY DEF IsTable, Overlay

LEMMA CommitKeepsHonest ==
  ASSUME NEW t, NEW now, NEW mine, NEW theirs, NEW want,
         Honest(t, mine, now, want), DOMAIN mine \cap DOMAIN theirs = {}
  PROVE  Honest(t, mine, Overlay(now, theirs), want)
  BY DEF Honest, Overlay

LEMMA CommitKeepsFresh ==
  ASSUME NEW t, NEW now, NEW read, NEW theirs, NEW want,
         DOMAIN read \subseteq DOMAIN now,
         Honest(t, theirs, now, want), Fresh(t, read, now, want)
  PROVE  Fresh(t, read, Overlay(now, theirs), want)
<1>1. ASSUME NEW i \in DOMAIN read \cap DOMAIN want
      PROVE  Kept(t, read[i].data, Overlay(now, theirs)[i].data, want[i])
  <2>1. Kept(t, read[i].data, now[i].data, want[i])
    BY DEF Fresh
  <2>2. i \in DOMAIN theirs /\ Mixed(t, theirs[i].data, now[i].data, want[i])
    BY DEF Honest
  <2>3. Overlay(now, theirs)[i] = theirs[i]
    BY <2>2 DEF Overlay
  <2> QED
    BY <2>1, <2>2, <2>3 DEF Kept, Mixed
<1>2. ASSUME NEW i \in DOMAIN Overlay(now, theirs) \ DOMAIN want,
             Overlay(now, theirs)[i].live
      PROVE  i \in DOMAIN read /\ read[i].live
  BY <1>2 DEF Overlay, Honest, Fresh
<1> QED
  BY <1>1, <1>2 DEF Fresh

LEMMA CommitKeepsSettled ==
  ASSUME NEW t, NEW now, NEW mine, NEW theirs, NEW want,
         Honest(t, mine, now, want), Honest(t, theirs, now, want),
         Settled(mine, now, want)
  PROVE  Settled(mine, Overlay(now, theirs), want)
  BY DEF Settled, Honest, Overlay

(* The commit of a settled table leaves it as the run wants it.            *)
LEMMA CommitMirrorsTable ==
  ASSUME NEW t, NEW now, NEW mine, NEW want,
         Honest(t, mine, now, want), Settled(mine, now, want)
  PROVE  /\ DOMAIN want \subseteq DOMAIN Overlay(now, mine)
         /\ \A i \in DOMAIN Overlay(now, mine) :
              Overlay(now, mine)[i].live <=> i \in DOMAIN want
         /\ \A i \in DOMAIN want : Overlay(now, mine)[i].data = want[i]
  BY DEF Settled, Honest, Overlay

-----------------------------------------------------------------------------
(* The rows a run writes to a table `now` that it knows as `read`.         *)
Reconciled(t, now, read, want) ==
  LET stale == {i \in DOMAIN read \ DOMAIN want : read[i].live}
  IN [i \in DOMAIN want \cup stale |->
        IF i \in stale THEN [now[i] EXCEPT !.live = FALSE]
        ELSE IF i \notin DOMAIN read THEN [live |-> TRUE, data |-> want[i]]
        ELSE [live |-> TRUE,
              data |-> Patched(t, now[i].data, read[i].data, want[i])]]

(* A patched row has no column that is neither wanted nor committed, and   *)
(* is the one wanted if no column it found right was changed.              *)
LEMMA PatchedRow ==
  ASSUME NEW t, NEW now, NEW read, NEW want,
         IsData(t, now), IsData(t, read), IsData(t, want)
  PROVE  LET data == Patched(t, now, read, want)
         IN /\ IsData(t, data)
            /\ Mixed(t, data, now, want)
            /\ Kept(t, read, now, want) => data = want
<1>1. CASE t = "filters"
  <2>1. DOMAIN want = {"object", "params"}
    BY <1>1 DEF IsData
  <2>2. Patched(t, now, read, want) =
          [object |-> IF read.object # want.object THEN want.object ELSE now.object,
           params |-> IF read.params # want.params THEN want.params ELSE now.params]
    BY <1>1, <2>1 DEF Patched
  <2> QED
    BY <1>1, <2>2 DEF IsData, Mixed, Kept, Columns, Column
<1>2. CASE t # "filters"
  BY <1>2 DEF Patched, IsData, Mixed, Kept, Columns, Column
<1> QED
  BY <1>1, <1>2

LEMMA WriteIsHonest ==
  ASSUME NEW t, NEW now, NEW read, NEW want,
         IsTable(t, now), IsTable(t, read), DOMAIN read \subseteq DOMAIN now,
         \A i \in DOMAIN want : IsData(t, want[i]),
         (DOMAIN want \ DOMAIN read) \cap DOMAIN now = {}
  PROVE  Honest(t, Reconciled(t, now, read, want), now, want)
<1> DEFINE mine == Reconciled(t, now, read, want)
           stale == {i \in DOMAIN read \ DOMAIN want : read[i].live}
<1>1. DOMAIN mine = DOMAIN want \cup stale
  BY DEF Reconciled
<1>2. ASSUME NEW i \in stale
      PROVE  IsRow(t, mine[i]) /\ ~mine[i].live
  <2>1. mine[i] = [now[i] EXCEPT !.live = FALSE]
    BY DEF Reconciled
  <2>2. mine[i] = [live |-> FALSE, data |-> now[i].data] /\ IsData(t, now[i].data)
    BY <2>1 DEF IsTable, IsRow
  <2> QED
    BY <2>2 DEF IsRow
<1>3. ASSUME NEW i \in DOMAIN want
      PROVE  /\ IsRow(t, mine[i]) /\ mine[i].live
             /\ IF i \in DOMAIN now THEN Mixed(t, mine[i].data, now[i].data, want[i])
                                    ELSE mine[i].data = want[i]
  <2>1. CASE i \in DOMAIN read
    <3>1. mine[i] = [live |-> TRUE,
                     data |-> Patched(t, now[i].data, read[i].data, want[i])]
      BY <2>1 DEF Reconciled
    <3>2. IsData(t, now[i].data) /\ IsData(t, read[i].data)
      BY <2>1 DEF IsTable, IsRow
    <3> HIDE DEF mine
    <3> QED
      BY <2>1, <3>1, <3>2, PatchedRow DEF IsRow
  <2>2. CASE i \notin DOMAIN read
    <3>1. mine[i] = [live |-> TRUE, data |-> want[i]]
      BY <2>2 DEF Reconciled
    <3> QED
      BY <2>2, <3>1 DEF IsRow
  <2> QED
    BY <2>1, <2>2
<1> HIDE DEF mine
<1>4. Honest(t, mine, now, want)
  BY <1>1, <1>2, <1>3 DEF Honest, IsTable
<1> QED
  BY <1>4 DEF mine

LEMMA FreshWriteSettles ==
  ASSUME NEW t, NEW now, NEW read, NEW want,
         IsTable(t, now), IsTable(t, read), DOMAIN read \subseteq DOMAIN now,
         \A i \in DOMAIN want : IsData(t, want[i]),
         Fresh(t, read, now, want)
  PROVE  Settled(Reconciled(t, now, read, want), now, want)
<1> DEFINE mine == Reconciled(t, now, read, want)
           stale == {i \in DOMAIN read \ DOMAIN want : read[i].live}
<1>1. DOMAIN mine = DOMAIN want \cup stale
  BY DEF Reconciled
<1>2. ASSUME NEW i \in DOMAIN want
      PROVE  mine[i].data = want[i]
  <2>1. CASE i \in DOMAIN read
    <3>1. mine[i].data = Patched(t, now[i].data, read[i].data, want[i])
      BY <2>1 DEF Reconciled
    <3>2. IsData(t, now[i].data) /\ IsData(t, read[i].data)
      BY <2>1 DEF IsTable, IsRow
    <3>3. Kept(t, read[i].data, now[i].data, want[i])
      BY <2>1 DEF Fresh
    <3> HIDE DEF mine
    <3> QED
      BY <3>1, <3>2, <3>3, PatchedRow
  <2>2. CASE i \notin DOMAIN read
    BY <2>2 DEF Reconciled
  <2> QED
    BY <2>1, <2>2
<1> HIDE DEF mine
<1>3. Settled(mine, now, want)
  BY <1>1, <1>2 DEF Settled, Fresh
<1> QED
  BY <1>3 DEF mine

-----------------------------------------------------------------------------
LEMMA OrderType ==
  /\ Order \in Seq(Tables)
  /\ \A j, k \in DOMAIN Order : j # k => Order[j] # Order[k]
  /\ Tables = {Order[k] : k \in DOMAIN Order}
  BY DEF Order, Tables

LEMMA InitInv == Init => Inv
<1> SUFFICES ASSUME Init PROVE Inv
  OBVIOUS
<1> USE DEF Init
<1>1. Active = {}
  BY DEF Active
<1>2. TypeInv
  BY DEF TypeInv, EmptyCatalogue, Nothing, IsTable
<1>3. Idle /\ Exclusive
  BY DEF Idle, Exclusive, Nothing
<1>4. WritesAreHonest /\ ReadsAreFresh /\ WritesSettle
  BY <1>1 DEF WritesAreHonest, ReadsAreFresh, Reading, WritesSettle
<1> QED
  BY <1>2, <1>3, <1>4 DEF Inv

(* A new release is deployed: no run notices.                              *)
LEMMA DeployInv ==
  ASSUME Inv, Deploy
  PROVE  Inv'
<1> USE DEF Deploy, run
<1>1. TypeInv'
  BY DEF Inv, TypeInv, IsTable
<1>2. Idle' /\ Exclusive'
  BY DEF Inv, Idle, Exclusive, Active
<1>3. ReadsAreFresh' /\ WritesAreHonest' /\ WritesSettle'
  BY DEF Inv, ReadsAreFresh, WritesAreHonest, WritesSettle, Reading, Active, Done, Left,
         Wanted
<1> QED
  BY <1>1, <1>2, <1>3 DEF Inv

(* A run that begins has read and written nothing.                         *)
LEMMA StartInv ==
  ASSUME Inv, NEW r \in Run, Start(r)
  PROVE  Inv'
<1> USE RolloutAssumption
<1>1. /\ r \notin Active
      /\ UNCHANGED <<code, cat, seen, written>>
      /\ release' = [release EXCEPT ![r] = code]
      /\ todo' = [todo EXCEPT ![r] = Order]
      /\ overtaken' = [overtaken EXCEPT ![r] = FALSE]
  BY DEF Start
<1>2. /\ Active' = Active \cup {r}
      /\ \A s \in Run \ {r} :
           /\ release[s]' = release[s] /\ todo[s]' = todo[s]
           /\ overtaken[s]' = overtaken[s] /\ Done(s)' = Done(s)
           /\ \A t \in Tables : Wanted(s, t)' = Wanted(s, t)
  BY <1>1 DEF Inv, TypeInv, Active, Done, Left, Wanted
<1>3. seen[r]' = None /\ Done(r)' = {}
  BY <1>1, OrderType DEF Inv, TypeInv, Idle, Done, Left
<1>4. TypeInv'
  <2>1. todo' \in [Run -> Seq(Tables)] /\ overtaken' \in [Run -> BOOLEAN]
    BY <1>1, OrderType DEF Inv, TypeInv
  <2>2. \A s \in Run : \A j, k \in DOMAIN todo[s]' :
           j # k => todo[s][j]' # todo[s][k]'
    BY <1>1, OrderType DEF Inv, TypeInv
  <2>3. release' = [s \in Run |-> release[s]']
    BY <1>1 DEF Inv, TypeInv
  <2> QED
    BY <1>1, <2>1, <2>2, <2>3 DEF Inv, TypeInv, IsTable
<1>5. Idle' /\ Exclusive'
  BY <1>1, <1>2 DEF Inv, Idle, Exclusive
<1>6. ReadsAreFresh'
  BY <1>1, <1>2, <1>3 DEF Inv, ReadsAreFresh, Reading, Active
<1>7. WritesAreHonest' /\ WritesSettle'
  BY <1>1, <1>2, <1>3 DEF Inv, WritesAreHonest, WritesSettle, Active, Done
<1> QED
  BY <1>4, <1>5, <1>6, <1>7 DEF Inv

(* A table that was just read is fresh.                                    *)
LEMMA ReadInv ==
  ASSUME Inv, NEW r \in Run, Read(r)
  PROVE  Inv'
<1>1. /\ r \in Active /\ todo[r] # <<>>
      /\ seen' = [seen EXCEPT ![r] = cat[Head(todo[r])]]
      /\ UNCHANGED <<code, cat, release, todo, written, overtaken>>
  BY DEF Read
<1>2. /\ Active' = Active
      /\ \A s : Done(s)' = Done(s)
      /\ \A s, t : Wanted(s, t)' = Wanted(s, t)
  BY <1>1 DEF Active, Done, Left, Wanted
<1>3. TypeInv'
  BY <1>1 DEF Inv, TypeInv, IsTable
<1>4. Idle' /\ Exclusive'
  BY <1>1, <1>2 DEF Inv, Idle, Exclusive
<1>5. ReadsAreFresh'
  <2>1. ASSUME NEW s \in Reading'
        PROVE  todo[s]' # <<>>
    BY <1>1, <1>2 DEF Inv, TypeInv, ReadsAreFresh, Reading
  <2>2. ASSUME NEW s \in Reading', NEW t \in Tables, t = Head(todo[s])'
        PROVE  /\ IsTable(t, seen[s]')
               /\ DOMAIN seen[s]' \subseteq DOMAIN cat[t]'
               /\ ~overtaken[s]' => Fresh(t, seen[s]', cat[t]', Wanted(s, t)')
    <3>1. CASE s = r
      BY <1>1, <2>2, <3>1 DEF Inv, TypeInv, IsTable, Fresh, Kept
    <3>2. CASE s # r
      <4>1. s \in Reading /\ seen[s]' = seen[s]
        BY <1>1, <1>2, <2>2, <3>2 DEF Inv, TypeInv, Reading, Active
      <4> QED
        BY <1>1, <1>2, <2>2, <4>1 DEF Inv, ReadsAreFresh
    <3> QED
      BY <3>1, <3>2
  <2> QED
    BY <2>1, <2>2 DEF ReadsAreFresh
<1>6. WritesAreHonest' /\ WritesSettle'
  BY <1>1, <1>2 DEF Inv, WritesAreHonest, WritesSettle
<1> QED
  BY <1>3, <1>4, <1>5, <1>6 DEF Inv

LEMMA RestOfSequence ==
  ASSUME NEW S, NEW q \in Seq(S), q # <<>>,
         \A j, k \in DOMAIN q : j # k => q[j] # q[k]
  PROVE  {Tail(q)[k] : k \in DOMAIN Tail(q)} = {q[k] : k \in DOMAIN q} \ {Head(q)}
<1>1. /\ DOMAIN q = 1..Len(q) /\ Len(q) \in Nat \ {0} /\ Head(q) = q[1]
      /\ DOMAIN Tail(q) = 1..(Len(q) - 1)
      /\ \A k \in 1..(Len(q) - 1) : Tail(q)[k] = q[k + 1]
  OBVIOUS
<1>2. ASSUME NEW k \in DOMAIN q, k # 1
      PROVE  k - 1 \in DOMAIN Tail(q) /\ Tail(q)[k - 1] = q[k]
  BY <1>1, <1>2
<1>3. ASSUME NEW k \in DOMAIN Tail(q)
      PROVE  k + 1 \in DOMAIN q /\ k + 1 # 1 /\ Tail(q)[k] = q[k + 1]
  BY <1>1
<1> QED
  BY <1>1, <1>2, <1>3

LEMMA WantedData ==
  \A r, t : \A i \in DOMAIN Wanted(r, t) : t \in Tables => IsData(t, Wanted(r, t)[i])
  BY DEF Wanted, Desired, IsData, Tables

(* A run writes to the first table it has left, to rows nobody has locked. *)
LEMMA WriteInv ==
  ASSUME Inv, NEW r \in Run, Write(r)
  PROVE  Inv'
<1>1. PICK t \in Tables :
        /\ r \in Active /\ seen[r] # None
        /\ t = Head(todo[r])
        /\ Touched(r, t) \cap Locked(r, t) = {}
        /\ Taken(r, t) = {}
        /\ written' = [written EXCEPT ![r][t] = Rows(r, t)]
        /\ todo' = [todo EXCEPT ![r] = Tail(@)]
        /\ seen' = [seen EXCEPT ![r] = None]
        /\ UNCHANGED <<code, cat, release, overtaken>>
  BY DEF Write, Ready
<1>2. /\ todo[r] \in Seq(Tables) /\ todo[r] # <<>>
      /\ IsTable(t, seen[r]) /\ IsTable(t, cat[t])
      /\ DOMAIN seen[r] \subseteq DOMAIN cat[t]
      /\ ~overtaken[r] => Fresh(t, seen[r], cat[t], Wanted(r, t))
  BY <1>1 DEF Inv, TypeInv, ReadsAreFresh, Reading
<1>3. Rows(r, t) = Reconciled(t, cat[t], seen[r], Wanted(r, t))
  BY DEF Rows, Reconciled, Touched, Stale
<1>4. DOMAIN Rows(r, t) = Touched(r, t)
  BY DEF Rows
<1>5. Honest(t, Rows(r, t), cat[t], Wanted(r, t))
  BY <1>1, <1>2, <1>3, WantedData, WriteIsHonest DEF Taken
<1>6. ~overtaken[r] => Settled(Rows(r, t), cat[t], Wanted(r, t))
  BY <1>2, <1>3, WantedData, FreshWriteSettles
<1>7. /\ Active' = Active
      /\ \A s, x : Wanted(s, x)' = Wanted(s, x)
      /\ \A s \in Run \ {r} : Done(s)' = Done(s) /\ seen[s]' = seen[s] /\ todo[s]' = todo[s]
      /\ \A s \in Run : \A x \in Tables :
           (s # r \/ x # t) => written[s][x]' = written[s][x]
      /\ written[r][t]' = Rows(r, t)
      /\ seen[r]' = None
  BY <1>1 DEF Inv, TypeInv, Active, Wanted, Done, Left
<1>8. Done(r)' = Done(r) \cup {t}
  <2>1. /\ todo[r]' = Tail(todo[r])
        /\ \A j, k \in DOMAIN todo[r] : j # k => todo[r][j] # todo[r][k]
    BY <1>1 DEF Inv, TypeInv
  <2>2. Left(r)' = Left(r) \ {t}
    BY <1>1, <1>2, <2>1, RestOfSequence DEF Left
  <2> QED
    BY <1>1, <1>2, <2>2 DEF Done, Left
<1>9. TypeInv'
  <2>1. todo' \in [Run -> Seq(Tables)]
    BY <1>1, <1>2 DEF Inv, TypeInv
  <2>2. ASSUME NEW s \in Run, NEW j \in DOMAIN todo[s]', NEW k \in DOMAIN todo[s]', j # k
        PROVE  todo[s][j]' # todo[s][k]'
    <3>1. CASE s = r
      <4>1. todo[s]' = Tail(todo[r])
        BY <1>1, <3>1 DEF Inv, TypeInv
      <4> QED
        BY <1>2, <2>2, <3>1, <4>1 DEF Inv, TypeInv
    <3>2. CASE s # r
      BY <1>7, <2>2, <3>2 DEF Inv, TypeInv
    <3> QED
      BY <3>1, <3>2
  <2>3. written' = [s \in Run |-> [x \in Tables |-> written[s][x]']]
    BY <1>1 DEF Inv, TypeInv
  <2> QED
    BY <1>1, <2>1, <2>2, <2>3 DEF Inv, TypeInv, IsTable
<1>10. Idle'
  BY <1>1, <1>7 DEF Inv, Idle
<1>11. Exclusive'
  <2>1. ASSUME NEW s \in Run \ {r}
        PROVE  DOMAIN Rows(r, t) \cap DOMAIN written[s][t] = {}
    BY <1>1, <1>4 DEF Locked
  <2> QED
    BY <1>7, <2>1 DEF Inv, Exclusive
<1>12. ReadsAreFresh'
  BY <1>1, <1>7 DEF Inv, ReadsAreFresh, Reading, Active
<1>13. WritesAreHonest'
  BY <1>1, <1>5, <1>7, <1>8 DEF Inv, WritesAreHonest, Active, Done
<1>14. WritesSettle'
  BY <1>1, <1>6, <1>7, <1>8 DEF Inv, WritesSettle, Active, Done
<1> QED
  BY <1>9, <1>10, <1>11, <1>12, <1>13, <1>14 DEF Inv

-----------------------------------------------------------------------------
(* The end of a transaction, whatever becomes of its rows.                 *)
LEMMA Ended ==
  ASSUME TypeInv, NEW r \in Run, End(r)
  PROVE  /\ Active' = Active \ {r}
         /\ \A s \in Run \ {r} :
              /\ release[s]' = release[s] /\ todo[s]' = todo[s] /\ seen[s]' = seen[s]
              /\ Done(s)' = Done(s) /\ written[s]' = written[s]
              /\ \A t : Wanted(s, t)' = Wanted(s, t)
         /\ seen[r]' = None
         /\ \A t \in Tables : DOMAIN written[r][t]' = {}
         /\ todo' \in [Run -> Seq(Tables)]
         /\ \A s \in Run : \A j, k \in DOMAIN todo[s]' : j # k => todo[s][j]' # todo[s][k]'
         /\ release' = [s \in Run |-> release[s]']
         /\ seen' = [s \in Run |-> seen[s]']
         /\ written' = [s \in Run |-> [t \in Tables |-> written[s][t]']]
<1> USE DEF TypeInv, End
<1>1. Active' = Active \ {r}
  BY DEF Active
<1>2. \A s \in Run \ {r} :
        /\ release[s]' = release[s] /\ todo[s]' = todo[s] /\ seen[s]' = seen[s]
        /\ Done(s)' = Done(s) /\ written[s]' = written[s]
        /\ \A t : Wanted(s, t)' = Wanted(s, t)
  <2>1. ASSUME NEW s \in Run \ {r}
        PROVE  /\ release[s]' = release[s] /\ todo[s]' = todo[s] /\ seen[s]' = seen[s]
               /\ written[s]' = written[s]
    OBVIOUS
  <2>2. ASSUME NEW s \in Run \ {r}
        PROVE  Done(s)' = Done(s) /\ \A t : Wanted(s, t)' = Wanted(s, t)
    BY <2>1 DEF Done, Left, Wanted
  <2> QED
    BY <2>1, <2>2
<1>3. /\ seen[r]' = None /\ todo[r]' = <<>>
      /\ \A t \in Tables : DOMAIN written[r][t]' = {}
  BY DEF Nothing
<1>4. todo' \in [Run -> Seq(Tables)]
  OBVIOUS
<1>5. \A s \in Run : \A j, k \in DOMAIN todo[s]' : j # k => todo[s][j]' # todo[s][k]'
  BY <1>2, <1>3
<1>6. release' = [s \in Run |-> release[s]'] /\ seen' = [s \in Run |-> seen[s]']
  OBVIOUS
<1>7. written' = [s \in Run |-> [t \in Tables |-> written[s][t]']]
  BY DEF Nothing
<1> QED
  BY <1>1, <1>2, <1>3, <1>4, <1>5, <1>6, <1>7

LEMMA LocksReleased ==
  ASSUME TypeInv, Idle, Exclusive, NEW r \in Run, End(r)
  PROVE  Idle' /\ Exclusive'
<1>1. Idle'
  <2> SUFFICES ASSUME NEW s \in Run \ Active'
               PROVE  seen[s]' = None /\ \A t \in Tables : DOMAIN written[s][t]' = {}
    BY DEF Idle
  <2>1. CASE s = r
    BY <2>1, Ended
  <2>2. CASE s # r
    <3>1. s \in Run \ Active
      BY <2>2, Ended
    <3> QED
      BY <2>2, <3>1, Ended DEF Idle
  <2> QED
    BY <2>1, <2>2
<1>2. ASSUME NEW s \in Run, NEW u \in Run, NEW t \in Tables, s # u
      PROVE  DOMAIN written[s][t]' \cap DOMAIN written[u][t]' = {}
  <2>1. CASE s = r \/ u = r
    BY <2>1, Ended
  <2>2. CASE s # r /\ u # r
    <3>1. written[s][t]' = written[s][t] /\ written[u][t]' = written[u][t]
      BY <2>2, Ended
    <3> QED
      BY <1>2, <3>1 DEF Exclusive
  <2> QED
    BY <2>1, <2>2
<1> QED
  BY <1>1, <1>2 DEF Exclusive

(* A rollback: nobody else notices.                                        *)
LEMMA RollbackInv ==
  ASSUME Inv, NEW r \in Run, End(r), UNCHANGED <<code, cat, overtaken>>
  PROVE  Inv'
<1>1. TypeInv'
  BY Ended DEF Inv, TypeInv, IsTable
<1>2. Idle' /\ Exclusive'
  BY LocksReleased DEF Inv
<1>3. ReadsAreFresh'
  <2>1. ASSUME NEW s \in Reading'
        PROVE  /\ s \in Reading /\ s \in Run \ {r}
               /\ release[s]' = release[s] /\ todo[s]' = todo[s] /\ seen[s]' = seen[s]
    BY <2>1, Ended DEF Inv, Reading, Active
  <2> QED
    BY <2>1 DEF Inv, ReadsAreFresh, Wanted
<1>4. WritesAreHonest' /\ WritesSettle'
  <2>1. ASSUME NEW s \in Active', NEW t \in Done(s)'
        PROVE  /\ s \in Active /\ s \in Run /\ t \in Done(s)
               /\ written[s]' = written[s] /\ Wanted(s, t)' = Wanted(s, t)
    BY <2>1, Ended DEF Inv, Active
  <2> QED
    BY <2>1 DEF Inv, WritesAreHonest, WritesSettle
<1> QED
  BY <1>1, <1>2, <1>3, <1>4 DEF Inv

(* A commit: what the others have read and written keeps its meaning.      *)
LEMMA CommitInv ==
  ASSUME Inv, NEW r \in Run, Commit(r)
  PROVE  Inv'
<1>1. /\ r \in Active /\ todo[r] = <<>>
      /\ End(r)
      /\ \A t \in Tables : cat[t]' = Overlay(cat[t], written[r][t])
      /\ cat' = [t \in Tables |-> cat[t]']
      /\ overtaken' = [s \in Run |-> overtaken[s] \/ release[s] \notin {None, release[r]}]
      /\ code' = code
  BY DEF Commit, Overlay
<1>2. Done(r) = Tables
  BY <1>1 DEF Done, Left
<1>3. \A t \in Tables :
        Honest(t, written[r][t], cat[t], Wanted(r, t)) /\ IsTable(t, written[r][t])
  BY <1>1, <1>2 DEF Inv, WritesAreHonest, Honest
<1>4. TypeInv'
  <2>1. \A t \in Tables : IsTable(t, cat[t]')
    BY <1>1, <1>3, CommitKeepsTypes DEF Inv, TypeInv
  <2> QED
    BY <1>1, <2>1, Ended DEF Inv, TypeInv
<1>5. Idle' /\ Exclusive'
  BY <1>1, LocksReleased DEF Inv
<1>6. ASSUME NEW s \in Active', ~overtaken[s]'
      PROVE  ~overtaken[s] /\ \A t : Wanted(s, t) = Wanted(r, t)
  <2>1. s \in Run /\ release[s] # None /\ s # r
    BY <1>1, <1>6, Ended DEF Inv, Active
  <2>2. release[s] = release[r]
    BY <1>1, <1>6, <2>1
  <2> QED
    BY <1>1, <1>6, <2>1, <2>2 DEF Wanted
<1>7. ReadsAreFresh'
  <2>1. ASSUME NEW s \in Reading'
        PROVE  s \in Reading /\ s # r /\ s \in Run /\ s \in Active' /\ todo[s]' # <<>>
    BY <1>1, <2>1, Ended DEF Inv, ReadsAreFresh, Reading, Active
  <2>2. ASSUME NEW s \in Reading', NEW t \in Tables, t = Head(todo[s])'
        PROVE  /\ IsTable(t, seen[s]')
               /\ DOMAIN seen[s]' \subseteq DOMAIN cat[t]'
               /\ ~overtaken[s]' => Fresh(t, seen[s]', cat[t]', Wanted(s, t)')
    <3>1. /\ seen[s]' = seen[s] /\ Wanted(s, t)' = Wanted(s, t) /\ t = Head(todo[s])
          /\ IsTable(t, seen[s]) /\ DOMAIN seen[s] \subseteq DOMAIN cat[t]
          /\ ~overtaken[s] => Fresh(t, seen[s], cat[t], Wanted(s, t))
      BY <1>1, <2>1, <2>2, Ended DEF Inv, ReadsAreFresh
    <3>2. DOMAIN seen[s] \subseteq DOMAIN cat[t]'
      <4>1. cat[t]' = Overlay(cat[t], written[r][t])
        BY <1>1
      <4> QED
        BY <3>1, <4>1 DEF Overlay
    <3>3. ASSUME ~overtaken[s]'
          PROVE  Fresh(t, seen[s], cat[t]', Wanted(s, t))
      <4>1. ~overtaken[s] /\ Wanted(s, t) = Wanted(r, t)
        BY <1>6, <2>1, <3>3
      <4>2. Honest(t, written[r][t], cat[t], Wanted(s, t))
        BY <1>3, <4>1
      <4>3. cat[t]' = Overlay(cat[t], written[r][t])
        BY <1>1
      <4> QED
        BY <3>1, <4>1, <4>2, <4>3, CommitKeepsFresh
    <3> QED
      BY <3>1, <3>2, <3>3
  <2> QED
    BY <2>1, <2>2 DEF ReadsAreFresh
<1>8. WritesAreHonest'
  <2> SUFFICES ASSUME NEW s \in Active', NEW t \in Done(s)'
               PROVE  Honest(t, written[s][t]', cat[t]', Wanted(s, t)')
    BY DEF WritesAreHonest
  <2>1. /\ s \in Active /\ s # r /\ s \in Run /\ t \in Done(s) /\ t \in Tables
        /\ written[s][t]' = written[s][t] /\ Wanted(s, t)' = Wanted(s, t)
    BY <1>1, Ended DEF Inv, Active, Done
  <2> QED
    BY <1>1, <2>1, CommitKeepsHonest DEF Inv, WritesAreHonest, Exclusive
<1>9. WritesSettle'
  <2> SUFFICES ASSUME NEW s \in Active', NEW t \in Done(s)', ~overtaken[s]'
               PROVE  Settled(written[s][t]', cat[t]', Wanted(s, t)')
    BY DEF WritesSettle
  <2>1. /\ s \in Active /\ s # r /\ s \in Run /\ t \in Done(s) /\ t \in Tables
        /\ written[s][t]' = written[s][t] /\ Wanted(s, t)' = Wanted(s, t)
    BY <1>1, Ended DEF Inv, Active, Done
  <2>2. ~overtaken[s] /\ Wanted(s, t) = Wanted(r, t)
    BY <1>6
  <2> QED
    BY <1>1, <1>3, <2>1, <2>2, CommitKeepsSettled DEF Inv, WritesAreHonest, WritesSettle
<1> QED
  BY <1>4, <1>5, <1>7, <1>8, <1>9 DEF Inv

-----------------------------------------------------------------------------
LEMMA NextInv == Inv /\ [Next]_vars => Inv'
<1> SUFFICES ASSUME Inv, [Next]_vars PROVE Inv'
  OBVIOUS
<1>1. CASE Deploy
  BY <1>1, DeployInv
<1>2. ASSUME NEW r \in Run, Start(r) PROVE Inv'
  BY <1>2, StartInv
<1>3. ASSUME NEW r \in Run, Read(r) PROVE Inv'
  BY <1>3, ReadInv
<1>4. ASSUME NEW r \in Run, Write(r) PROVE Inv'
  BY <1>4, WriteInv
<1>5. ASSUME NEW r \in Run, Conflict(r) \/ Abort(r) PROVE Inv'
  BY <1>5, RollbackInv DEF Conflict, Abort
<1>6. ASSUME NEW r \in Run, Commit(r) PROVE Inv'
  BY <1>6, CommitInv
<1>7. CASE UNCHANGED vars
  BY <1>7 DEF vars, run, Inv, TypeInv, IsTable, Idle, Exclusive, ReadsAreFresh,
              WritesAreHonest, WritesSettle, Reading, Active, Done, Left, Wanted
<1> QED
  BY <1>1, <1>2, <1>3, <1>4, <1>5, <1>6, <1>7 DEF Next, Work

(* What a run reads, writes and commits keeps its meaning, whatever the    *)
(* other runs do in between.                                               *)
THEOREM Invariance == Spec => []Inv
  BY InitInv, NextInv, PTL DEF Spec

(* A run that no other release overtook leaves the catalogue in step with  *)
(* its release (sync.py:147-183).                                          *)
THEOREM CommitsMirror == Spec => CommitMirrors
<1>1. ASSUME Inv, NEW r \in Run, Commit(r), ~overtaken[r]
      PROVE  InStep(cat', release[r])
  <2>1. /\ r \in Active /\ Done(r) = Tables
        /\ \A t \in Tables : cat[t]' = Overlay(cat[t], written[r][t])
    BY <1>1 DEF Commit, Overlay, Done, Left
  <2>2. ASSUME NEW t \in Tables
        PROVE  /\ Live(cat', t) = DOMAIN Wanted(r, t)
               /\ \A i \in Live(cat', t) : cat[t][i].data' = Wanted(r, t)[i]
    <3>1. /\ Honest(t, written[r][t], cat[t], Wanted(r, t))
          /\ Settled(written[r][t], cat[t], Wanted(r, t))
      BY <1>1, <2>1 DEF Inv, WritesAreHonest, WritesSettle
    <3>2. cat[t]' = Overlay(cat[t], written[r][t])
      BY <2>1
    <3>3. /\ DOMAIN Wanted(r, t) \subseteq DOMAIN cat[t]'
          /\ \A i \in DOMAIN cat[t]' : cat[t][i].live' <=> i \in DOMAIN Wanted(r, t)
          /\ \A i \in DOMAIN Wanted(r, t) : cat[t][i].data' = Wanted(r, t)[i]
      BY <3>1, <3>2, CommitMirrorsTable
    <3> QED
      BY <3>3 DEF Live
  <2> QED
    BY <2>2 DEF InStep, Wanted
<1>2. Inv => [\A r \in Run : (Commit(r) /\ ~overtaken[r]) => InStep(cat', release[r])]_vars
  BY <1>1
<1> QED
  BY <1>2, Invariance, PTL DEF CommitMirrors
=============================================================================
