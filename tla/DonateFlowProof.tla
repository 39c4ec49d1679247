--------------------------- MODULE DonateFlowProof ---------------------------
(***************************************************************************)
(* The invariants of DonateFlow, for any organisations, targets, amounts,  *)
(* tips and pledges, and any number of donations: the types, the button    *)
(* that opens the checkout, the rows of the table, what is handed over and *)
(* the saved amount.                                                       *)
(***************************************************************************)
EXTENDS DonateFlow, DataLemmas

SavedBuckets == [once : BOOLEAN, rows : Seq(Row), amount : Nat]
Orders == [once : BOOLEAN, amount : Nat, tips : Nat, items : Seq(Row)]

(* What the button of the table shows. *)
Gate(b) == b.isEnabled = (Sum(b.rows) = b.amount)

(* Each is in the sequence once. *)
Once(s) == \A i, j \in 1 .. Len(s) : s[i] = s[j] => i = j

(* Pledges, each under an id of its own. *)
AreDonates(rows) ==
    /\ \A i \in 1 .. Len(rows) : rows[i].id \in Ids
    /\ \A i, j \in 1 .. Len(rows) : rows[i].id = rows[j].id => i = j

(* A row belongs to a pledge that was loaded exactly when both are of the  *)
(* same organisation, and there is one row for it.                         *)
RowsFit(rows, donates) ==
    /\ Distinct(rows)
    /\ \A k \in 1 .. Len(rows) : \A i \in 1 .. Len(donates) :
          rows[k].id = donates[i].id <=> rows[k].org = donates[i].org

(* A bucket screen b that waits for l; t is what "Donate" was pressed on,  *)
(* saved the saved bucket.  Pledges are loaded for a monthly bucket alone, *)
(* and only when none is saved; the table is empty until then.             *)
BucketOK(b, l, t, saved) ==
    /\ b \in Bucket
    /\ l \in {"nothing", "donates", "organisations"}
    /\ l = "organisations" => t \in Targets /\ t.cause /\ (b.once => b.wanted = t.orgs)
    /\ l = "donates" => ~b.once
    /\ l # "nothing" /\ ~b.once => b.rows = <<>> /\ ~(saved # None /\ saved.once = FALSE)
    /\ b.donates # <<>> => ~b.once
    /\ AreDonates(b.donates)
    /\ b.organizations # None =>
          Once(b.organizations) /\ (b.once => b.organizations = b.wanted)
    /\ b.donates # <<>> /\ Distinct(b.donates) => RowsFit(b.rows, b.donates)

Working == {"bucket", "edit", "tips", "confirm"}

(* Where the donor is. *)
ScreenOK ==
    /\ screen \notin {"root", "success"} => checkouts < MaxCheckouts
    /\ loading # "nothing" => screen = "bucket"
    /\ screen \in Working => Gate(bucket)
    /\ screen = "confirm" => order.once = bucket.once /\ order.items = ItemsToPass(bucket)
    /\ screen = "success" => completeDonation = None

(* Wherever rows are kept, they are of different organisations. *)
AllDistinct ==
    screen # "success" /\ Distinct(Donates) /\ Distinct(activeDonates) =>
        /\ Distinct(bucket.rows) /\ Distinct(bucket.donates)
        /\ completeDonation # None => Distinct(completeDonation.rows)

Inv ==
    /\ TypeOK
    /\ BucketOK(bucket, loading, target, completeDonation)
    /\ ScreenOK
    /\ AllDistinct
    /\ SavedAmountIsKept

-----------------------------------------------------------------------------
(* Rows *)

(* new are the elements of rows at the positions in kept. *)
Keeps(new, rows, kept) ==
    \E at \in [1 .. Len(new) -> kept] :
        /\ \A k \in 1 .. Len(new) : new[k] = rows[at[k]]
        /\ \A j, k \in 1 .. Len(new) : at[j] = at[k] => j = k
        /\ \A i \in kept : \E k \in 1 .. Len(new) : at[k] = i

LEMMA RowsAtProperties ==
    ASSUME NEW S, NEW rows \in Seq(S), NEW kept \in SUBSET (1 .. Len(rows))
    PROVE  RowsAt(rows, kept) \in Seq(S) /\ Keeps(RowsAt(rows, kept), rows, kept)
<1> DEFINE n == Cardinality(kept)
           at == CHOOSE f \in [1 .. Cardinality(kept) -> kept] :
                     \A i, j \in 1 .. Cardinality(kept) : i < j => f[i] < f[j]
           new == RowsAt(rows, kept)
<1>1. Len(rows) \in Nat /\ \A i \in 1 .. Len(rows) : rows[i] \in S
  BY LenProperties
<1>2. IsFiniteSet(kept) /\ n \in Nat /\ \E f : IsOrder(f, kept)
  BY <1>1, OrderExists
<1>3. IsOrder(at, kept)
  BY <1>2 DEF IsOrder
<1>4. new = [k \in 1 .. n |-> rows[at[k]]]
  BY DEF RowsAt
<1> HIDE DEF at, n, new
<1>5. at \in [1 .. n -> kept] /\ \A i, j \in 1 .. n : i < j => at[i] < at[j]
  BY <1>3 DEF IsOrder, n
<1>6. \A i, j \in 1 .. n : at[i] = at[j] => i = j
  <2>1. \A i \in 1 .. n : at[i] \in Nat
    <3>1. \A i \in kept : i \in Nat
      BY <1>1
    <3> QED  BY <1>5, <3>1
  <2>2. \A i, j \in 1 .. n : i = j \/ i < j \/ j < i
    BY <1>2
  <2> QED  BY <1>5, <2>1, <2>2
<1>7. at \in Injection(1 .. n, kept)
  BY <1>5, <1>6 DEF Injection, IsInjective
<1>8. IsFiniteSet(1 .. n) /\ Cardinality(1 .. n) = n
  BY <1>2, FS_Interval
<1>9. \A i \in kept : \E k \in 1 .. n : at[k] = i
  <2>1. at \in Surjection(1 .. n, kept)
    BY <1>2, <1>7, <1>8, FS_Injection DEF n
  <2> QED  BY <2>1 DEF Surjection
<1>10. new \in [1 .. n -> S] /\ \A k \in 1 .. n : new[k] = rows[at[k]]
  BY <1>1, <1>4, <1>5
<1>11. new \in Seq(S) /\ Len(new) = n
  BY <1>2, <1>10, FunctionIsSeq
<1> QED  BY <1>5, <1>6, <1>9, <1>10, <1>11 DEF Keeps, new

(* What is kept of distinct rows is distinct. *)
LEMMA KeptDistinct ==
    ASSUME NEW rows \in Seq(Row), NEW new \in Seq(Row), NEW kept \in SUBSET (1 .. Len(rows)),
           Keeps(new, rows, kept)
    PROVE  /\ Distinct(rows) => Distinct(new)
           /\ (\A i, j \in 1 .. Len(rows) : rows[i].id = rows[j].id => i = j) =>
              (\A i, j \in 1 .. Len(new) : new[i].id = new[j].id => i = j)
<1>1. DOMAIN rows = 1 .. Len(rows) /\ DOMAIN new = 1 .. Len(new)
  BY LenProperties
<1>2. PICK at \in [1 .. Len(new) -> kept] :
        /\ \A k \in 1 .. Len(new) : new[k] = rows[at[k]]
        /\ \A j, k \in 1 .. Len(new) : at[j] = at[k] => j = k
  BY DEF Keeps
<1>3. \A k \in 1 .. Len(new) : at[k] \in 1 .. Len(rows)
  BY <1>2
<1> QED  BY <1>1, <1>2, <1>3 DEF Distinct

LEMMA SumIsNumber ==
    ASSUME NEW rows \in Seq(Row)
    PROVE  Sum(rows) \in Nat
<1> DEFINE n == Len(rows)
           Is(f) == f = [T \in SUBSET (1 .. n) |->
                          IF T = {} THEN 0
                          ELSE f[T \ {Max(T)}] + rows[Max(T)].amount]
           step == [p \in Nat \X (1 .. n) |-> p[1] + rows[p[2]].amount]
           it == CHOOSE f : Is(f)
<1>1. n \in Nat /\ DOMAIN rows = 1 .. n /\ \A k \in 1 .. n : rows[k].amount \in Nat
  <2>1. n \in Nat /\ DOMAIN rows = 1 .. n /\ \A k \in 1 .. n : rows[k] \in Row
    BY LenProperties
  <2> QED  BY <2>1 DEF Row
<1>2. Sum(rows) = it[1 .. n]
  BY <1>1 DEF Sum, FoldLeft, MapThenFoldSet
<1> HIDE DEF n
<1>3. IsStep(step, Nat, n)
  BY <1>1 DEF IsStep
<1>4. \A x \in Nat : \A k \in 1 .. n : step[<<x, k>>] = x + rows[k].amount
  OBVIOUS
<1> HIDE DEF step, it, Is
<1>5. PICK f : IsFold(f, Nat, 0, n, step)
  BY <1>1, <1>3, FoldExists
<1>6. /\ f \in [SUBSET (1 .. n) -> Nat]
      /\ \A T \in SUBSET (1 .. n) :
             f[T] = IF T = {} THEN 0 ELSE step[<<f[T \ {Max(T)}], Max(T)>>]
  BY <1>5 DEF IsFold
<1>7. \A T \in SUBSET (1 .. n) : T # {} => Max(T) \in 1 .. n /\ T \ {Max(T)} \in SUBSET (1 .. n)
  BY <1>1, MaxOfBounded
<1>8. \A T \in SUBSET (1 .. n) :
          f[T] = IF T = {} THEN 0 ELSE f[T \ {Max(T)}] + rows[Max(T)].amount
  BY <1>4, <1>6, <1>7
<1>9. Is(f)
  <2>1. f = [T \in SUBSET (1 .. n) |-> f[T]]
    BY <1>6
  <2> QED  BY <1>8, <2>1 DEF Is
<1>10. Is(it)
  BY <1>9 DEF it
<1>11. \A T \in SUBSET (1 .. n) :
          it[T] = IF T = {} THEN 0 ELSE it[T \ {Max(T)}] + rows[Max(T)].amount
  BY <1>10 DEF Is
<1>12. PICK g : ArePrefixes(g, Nat, 0, n, step, it[1 .. n])
  <2>1. it[{}] = 0
    BY <1>11
  <2>2. \A T \in SUBSET (1 .. n) : T # {} /\ it[T \ {Max(T)}] \in Nat =>
            it[T] = step[<<it[T \ {Max(T)}], Max(T)>>]
    BY <1>4, <1>7, <1>11
  <2>3. 0 \in Nat
    OBVIOUS
  <2> QED  BY <1>1, <1>3, <2>1, <2>2, <2>3, FoldSteps
<1> QED  BY <1>1, <1>2, <1>12 DEF ArePrefixes

(* SelectInSeq finds the first row of an organisation, if there is one. *)
LEMMA FirstOfProperties ==
    ASSUME NEW rows \in Seq(Row), NEW org
    PROVE  LET i == FirstOf(rows, org) IN
           \/ i = 0 /\ \A k \in 1 .. Len(rows) : rows[k].org # org
           \/ i \in 1 .. Len(rows) /\ i > 0 /\ rows[i].org = org
<1> DEFINE I == {k \in 1 .. Len(rows) : rows[k].org = org}
<1>1. FirstOf(rows, org) = IF I # {} THEN Min(I) ELSE 0
  BY DEF FirstOf, SelectInSeq
<1>2. Len(rows) \in Nat
  BY LenProperties
<1>3. I # {} => Min(I) \in I
  <2>1. I \in SUBSET Nat
    BY <1>2
  <2> QED  BY <2>1, MinOfNumbers
<1> QED  BY <1>1, <1>2, <1>3

(* A row is merged into rows: none is lost, none comes twice. *)
LEMMA MergeRowProperties ==
    ASSUME NEW rows \in Seq(Row), NEW r \in Row
    PROVE  /\ MergeRow(rows, r) \in Seq(Row)
           /\ Distinct(rows) => Distinct(MergeRow(rows, r))
           /\ OrgsOf(rows) \subseteq OrgsOf(MergeRow(rows, r))
<1> DEFINE i == FirstOf(rows, r.org)
           new == MergeRow(rows, r)
<1>1. Len(rows) \in Nat /\ DOMAIN rows = 1 .. Len(rows) /\ \A k \in 1 .. Len(rows) : rows[k] \in Row
  BY LenProperties
<1>2. \/ i = 0 /\ \A k \in 1 .. Len(rows) : rows[k].org # r.org
      \/ i \in 1 .. Len(rows) /\ i > 0 /\ rows[i].org = r.org
  BY FirstOfProperties
<1>3. new = IF i > 0 THEN [rows EXCEPT ![i].amount = r.amount] ELSE Append(rows, r)
  BY DEF MergeRow
<1> HIDE DEF i, new
<1>4. CASE i > 0
  <2> DEFINE merged == [rows[i] EXCEPT !.amount = r.amount]
  <2>1. i \in 1 .. Len(rows) /\ rows[i] \in Row
    BY <1>1, <1>2, <1>4
  <2>2. merged \in Row /\ merged.org = rows[i].org
    BY <2>1 DEF Row
  <2>3. new = [rows EXCEPT ![i] = merged]
    BY <1>3, <1>4
  <2> HIDE DEF merged
  <2>4. /\ new \in Seq(Row) /\ Len(new) = Len(rows)
        /\ \A j \in 1 .. Len(rows) : new[j] = IF j = i THEN merged ELSE rows[j]
    BY <2>1, <2>2, <2>3, ExceptSeq
  <2>5. DOMAIN new = 1 .. Len(rows) /\ \A j \in 1 .. Len(rows) : new[j].org = rows[j].org
    BY <2>2, <2>4, LenProperties
  <2> QED  BY <1>1, <2>4, <2>5 DEF Distinct, OrgsOf, new
<1>5. CASE ~(i > 0)
  <2>1. /\ new \in Seq(Row) /\ Len(new) = Len(rows) + 1 /\ new[Len(rows) + 1] = r
        /\ \A j \in 1 .. Len(rows) : new[j] = rows[j]
    BY <1>1, <1>3, <1>5
  <2>2. DOMAIN new = 1 .. Len(rows) + 1
    BY <2>1, LenProperties
  <2>3. \A j \in 1 .. Len(rows) + 1 : j \in 1 .. Len(rows) \/ j = Len(rows) + 1
    BY <1>1
  <2>4. \A k \in 1 .. Len(rows) : k \in 1 .. Len(rows) + 1 /\ rows[k].org # r.org
    BY <1>1, <1>2, <1>5
  <2> QED  BY <1>1, <2>1, <2>2, <2>3, <2>4 DEF Distinct, OrgsOf, new
<1> QED  BY <1>4, <1>5

(* So it is for all rows of a saved bucket, one after the other. *)
LEMMA MergedProperties ==
    ASSUME NEW rows \in Seq(Row), NEW more \in Seq(Row)
    PROVE  LET new == FoldLeft(MergeRow, rows, more) IN
           /\ new \in Seq(Row)
           /\ Distinct(rows) => Distinct(new)
           /\ OrgsOf(rows) \subseteq OrgsOf(new)
<1> DEFINE n == Len(more)
           A == Seq(Row)
           Is(f) == f = [T \in SUBSET (1 .. n) |->
                          IF T = {} THEN rows
                          ELSE MergeRow(f[T \ {Max(T)}], more[Max(T)])]
           step == [p \in A \X (1 .. n) |-> MergeRow(p[1], more[p[2]])]
           it == CHOOSE f : Is(f)
<1>1. n \in Nat /\ DOMAIN more = 1 .. n /\ \A k \in 1 .. n : more[k] \in Row
  BY LenProperties
<1>2. FoldLeft(MergeRow, rows, more) = it[1 .. n]
  BY <1>1 DEF FoldLeft, MapThenFoldSet
<1> HIDE DEF n
<1>3. IsStep(step, A, n)
  BY <1>1, MergeRowProperties DEF IsStep
<1>4. \A x \in A : \A k \in 1 .. n : step[<<x, k>>] = MergeRow(x, more[k])
  OBVIOUS
<1> HIDE DEF step, it, Is, A
<1>0. rows \in A
  BY DEF A
<1>5. PICK f : IsFold(f, A, rows, n, step)
  BY <1>0, <1>1, <1>3, FoldExists
<1>6. /\ f \in [SUBSET (1 .. n) -> A]
      /\ \A T \in SUBSET (1 .. n) :
             f[T] = IF T = {} THEN rows ELSE step[<<f[T \ {Max(T)}], Max(T)>>]
  BY <1>5 DEF IsFold
<1>7. \A T \in SUBSET (1 .. n) : T # {} => Max(T) \in 1 .. n /\ T \ {Max(T)} \in SUBSET (1 .. n)
  BY <1>1, MaxOfBounded
<1>8. \A T \in SUBSET (1 .. n) :
          f[T] = IF T = {} THEN rows ELSE MergeRow(f[T \ {Max(T)}], more[Max(T)])
  BY <1>4, <1>6, <1>7
<1>9. Is(f)
  <2>1. f = [T \in SUBSET (1 .. n) |-> f[T]]
    BY <1>6
  <2> QED  BY <1>8, <2>1 DEF Is
<1>10. Is(it)
  BY <1>9 DEF it
<1>11. \A T \in SUBSET (1 .. n) :
          it[T] = IF T = {} THEN rows ELSE MergeRow(it[T \ {Max(T)}], more[Max(T)])
  BY <1>10 DEF Is
<1>12. PICK g : ArePrefixes(g, A, rows, n, step, it[1 .. n])
  <2>1. it[{}] = rows
    BY <1>11
  <2>2. \A T \in SUBSET (1 .. n) : T # {} /\ it[T \ {Max(T)}] \in A =>
            it[T] = step[<<it[T \ {Max(T)}], Max(T)>>]
    BY <1>4, <1>7, <1>11
  <2> QED  BY <1>0, <1>1, <1>3, <2>1, <2>2, FoldSteps
<1>13. /\ g \in [0 .. n -> A] /\ g[0] = rows /\ g[n] = it[1 .. n]
       /\ \A k \in 1 .. n : g[k] = step[<<g[k - 1], k>>]
  BY <1>12 DEF ArePrefixes
<1> DEFINE Good(new) == /\ Distinct(rows) => Distinct(new)
                        /\ OrgsOf(rows) \subseteq OrgsOf(new)
           S == {k \in Nat : k <= n => Good(g[k])}
<1>14. 0 \in S
  BY <1>13
<1>15. ASSUME NEW k \in S
       PROVE  k + 1 \in S
  <2> SUFFICES ASSUME k + 1 <= n
               PROVE  Good(g[k + 1])
    OBVIOUS
  <2>1. k \in 0 .. n /\ k + 1 \in 1 .. n /\ (k + 1) - 1 = k /\ Good(g[k])
    BY <1>1
  <2>2. g[k] \in Seq(Row) /\ g[k + 1] = MergeRow(g[k], more[k + 1]) /\ more[k + 1] \in Row
    <3>1. g[k] \in A
      BY <1>13, <2>1
    <3> QED  BY <1>1, <1>4, <1>13, <2>1, <3>1 DEF A
  <2> QED  BY <2>1, <2>2, MergeRowProperties
<1>16. n \in S
  <2>1. S \in SUBSET Nat
    OBVIOUS
  <2> HIDE DEF S
  <2> QED  BY <1>1, <1>14, <1>15, <2>1, EveryNumber
<1>17. n <= n /\ n \in 0 .. n
  BY <1>1
<1> QED  BY <1>2, <1>13, <1>16, <1>17 DEF A

(* What a row makes of the collection, whatever its id. *)
LEMMA SaveRowTypes ==
    ASSUME NEW docs \in [Ids -> Pledge], NEW r \in Row
    PROVE  SaveRow(docs, r) \in [Ids -> Pledge]
<1>1. r.org \in Orgs /\ r.id \in Ids \cup {0} /\ r.amount \in Nat
  BY DEF Row
<1>2. ASSUME NEW i, NEW p \in Pledge
      PROVE  [docs EXCEPT ![i] = p] \in [Ids -> Pledge]
  OBVIOUS
<1>3. CASE r.id # 0
  <2>1. r.id \in Ids /\ docs[r.id] \in Pledge
    BY <1>1, <1>3
  <2>2. [org |-> None, amount |-> r.amount] \in Pledge
    BY <1>1 DEF Pledge
  <2> DEFINE other == [docs[r.id] EXCEPT !.amount = r.amount]
  <2>3. other \in Pledge
    BY <1>1, <2>1 DEF Pledge
  <2>4. [docs EXCEPT ![r.id].amount = r.amount] = [docs EXCEPT ![r.id] = other]
    BY <2>1
  <2> HIDE DEF other
  <2> QED  BY <1>2, <1>3, <2>2, <2>3, <2>4 DEF SaveRow
<1>4. CASE r.id = 0
  <2>1. [org |-> r.org, amount |-> r.amount] \in Pledge
    BY <1>1 DEF Pledge
  <2> QED  BY <1>2, <1>4, <2>1 DEF SaveRow
<1> QED  BY <1>3, <1>4

LEMMA SavedTypes ==
    ASSUME NEW docs \in [Ids -> Pledge], NEW more \in Seq(Row)
    PROVE  FoldLeft(SaveRow, docs, more) \in [Ids -> Pledge]
<1> DEFINE n == Len(more)
           A == [Ids -> Pledge]
           Is(f) == f = [T \in SUBSET (1 .. n) |->
                          IF T = {} THEN docs
                          ELSE SaveRow(f[T \ {Max(T)}], more[Max(T)])]
           step == [p \in A \X (1 .. n) |-> SaveRow(p[1], more[p[2]])]
           it == CHOOSE f : Is(f)
<1>1. n \in Nat /\ DOMAIN more = 1 .. n /\ \A k \in 1 .. n : more[k] \in Row
  BY LenProperties
<1>2. FoldLeft(SaveRow, docs, more) = it[1 .. n]
  BY <1>1 DEF FoldLeft, MapThenFoldSet
<1> HIDE DEF n
<1>3. IsStep(step, A, n)
  BY <1>1, SaveRowTypes DEF IsStep
<1>4. \A x \in A : \A k \in 1 .. n : step[<<x, k>>] = SaveRow(x, more[k])
  OBVIOUS
<1> HIDE DEF step, it, Is, A
<1>0. docs \in A
  BY DEF A
<1>5. PICK f : IsFold(f, A, docs, n, step)
  BY <1>0, <1>1, <1>3, FoldExists
<1>6. /\ f \in [SUBSET (1 .. n) -> A]
      /\ \A T \in SUBSET (1 .. n) :
             f[T] = IF T = {} THEN docs ELSE step[<<f[T \ {Max(T)}], Max(T)>>]
  BY <1>5 DEF IsFold
<1>7. \A T \in SUBSET (1 .. n) : T # {} => Max(T) \in 1 .. n /\ T \ {Max(T)} \in SUBSET (1 .. n)
  BY <1>1, MaxOfBounded
<1>8. \A T \in SUBSET (1 .. n) :
          f[T] = IF T = {} THEN docs ELSE SaveRow(f[T \ {Max(T)}], more[Max(T)])
  BY <1>4, <1>6, <1>7
<1>9. Is(f)
  <2>1. f = [T \in SUBSET (1 .. n) |-> f[T]]
    BY <1>6
  <2> QED  BY <1>8, <2>1 DEF Is
<1>10. Is(it)
  BY <1>9 DEF it
<1>11. \A T \in SUBSET (1 .. n) :
          it[T] = IF T = {} THEN docs ELSE SaveRow(it[T \ {Max(T)}], more[Max(T)])
  BY <1>10 DEF Is
<1>12. PICK g : ArePrefixes(g, A, docs, n, step, it[1 .. n])
  <2>1. it[{}] = docs
    BY <1>11
  <2>2. \A T \in SUBSET (1 .. n) : T # {} /\ it[T \ {Max(T)}] \in A =>
            it[T] = step[<<it[T \ {Max(T)}], Max(T)>>]
    BY <1>4, <1>7, <1>11
  <2> QED  BY <1>0, <1>1, <1>3, <2>1, <2>2, FoldSteps
<1>13. g \in [0 .. n -> A] /\ g[n] = it[1 .. n] /\ n \in 0 .. n
  BY <1>1, <1>12 DEF ArePrefixes
<1> QED  BY <1>2, <1>13 DEF A

-----------------------------------------------------------------------------
(* The pledges there are, and what is fetched of them *)

LEMMA DonatesProperties ==
    ASSUME pledges \in [Ids -> Pledge]
    PROVE  Donates \in Seq(Row) /\ AreDonates(Donates)
<1> DEFINE kept == {i \in Ids : pledges[i].org # None /\ pledges[i].amount > 0}
           R == [org : Orgs \cup {None}, id : Ids, amount : Nat]
           all == [i \in Ids |-> [org |-> pledges[i].org, id |-> i, amount |-> pledges[i].amount]]
<1>1. MaxPledges \in Nat /\ Ids = 1 .. MaxPledges
  BY FlowBounds DEF Ids
<1>2. \A i \in Ids : pledges[i].org \in Orgs \cup {None} /\ pledges[i].amount \in Nat
  BY DEF Pledge
<1>3. all \in [Ids -> R]
  BY <1>2
<1>4. all \in Seq(R) /\ Len(all) = MaxPledges
  BY <1>1, <1>3, FunctionIsSeq
<1>5. kept \in SUBSET (1 .. Len(all))
  BY <1>1, <1>4
<1>6. Donates = RowsAt(all, kept)
  BY DEF Donates
<1>7. \A i \in Ids : all[i].id = i /\ all[i].org = pledges[i].org /\ all[i].amount = pledges[i].amount
  OBVIOUS
<1>8. \A i \in kept : i \in Ids /\ pledges[i].org # None
  OBVIOUS
<1> HIDE DEF all, kept, R
<1>9. Donates \in Seq(R) /\ Keeps(Donates, all, kept)
  BY <1>4, <1>5, <1>6, RowsAtProperties
<1>10. PICK at \in [1 .. Len(Donates) -> kept] :
         /\ \A k \in 1 .. Len(Donates) : Donates[k] = all[at[k]]
         /\ \A j, k \in 1 .. Len(Donates) : at[j] = at[k] => j = k
  BY <1>9 DEF Keeps
<1>11. \A k \in 1 .. Len(Donates) :
          at[k] \in Ids /\ Donates[k].id = at[k] /\ Donates[k].org \in Orgs
             /\ Donates[k].amount \in Nat /\ Donates[k] \in R
  <2>1. \A k \in 1 .. Len(Donates) : Donates[k] \in R
    BY <1>9, LenProperties
  <2> QED  BY <1>2, <1>7, <1>8, <1>10, <2>1
<1>12. \A k \in 1 .. Len(Donates) : Donates[k] \in Row
  BY <1>11 DEF R, Row
<1>13. Donates \in Seq(Row)
  <2>1. Len(Donates) \in Nat /\ Donates \in [1 .. Len(Donates) -> R]
    BY <1>9, LenProperties
  <2>2. Donates \in [1 .. Len(Donates) -> Row]
    BY <1>12, <2>1
  <2> QED  BY <2>1, <2>2, FunctionIsSeq
<1> QED  BY <1>10, <1>11, <1>13 DEF AreDonates

LEMMA FetchedProperties ==
    ASSUME pledges \in [Ids -> Pledge], NEW donates \in FetchedDonates
    PROVE  /\ donates \in Seq(Row) /\ AreDonates(donates)
           /\ Distinct(Donates) => Distinct(donates)
<1>1. Donates \in Seq(Row) /\ AreDonates(Donates)
  BY DonatesProperties
<1>2. PICK fetched : donates = RowsAt(Donates, {i \in DOMAIN Donates : Donates[i].org \in fetched})
  BY DEF FetchedDonates
<1> DEFINE kept == {i \in DOMAIN Donates : Donates[i].org \in fetched}
<1>3. kept \in SUBSET (1 .. Len(Donates))
  BY <1>1, LenProperties
<1>4. donates = RowsAt(Donates, kept)
  BY <1>2
<1> HIDE DEF kept
<1>5. donates \in Seq(Row) /\ Keeps(donates, Donates, kept)
  BY <1>1, <1>3, <1>4, RowsAtProperties
<1>6. \A k \in 1 .. Len(donates) : \E i \in 1 .. Len(Donates) : donates[k] = Donates[i]
  BY <1>3, <1>5 DEF Keeps
<1>7. \A k \in 1 .. Len(donates) : donates[k].id \in Ids
  BY <1>1, <1>6 DEF AreDonates
<1> QED  BY <1>1, <1>3, <1>5, <1>7, KeptDistinct DEF AreDonates

-----------------------------------------------------------------------------
(* The table of a bucket screen *)

LEMMA BucketFields ==
    ASSUME NEW b \in Bucket
    PROVE  /\ b.once \in BOOLEAN /\ b.amount \in Nat /\ b.wanted \in Seq(Orgs)
           /\ b.organizations \in Seq(Orgs) \cup {None} /\ b.donates \in Seq(Row)
           /\ b.rows \in Seq(Row) /\ b.caps \in Seq(Nat) /\ b.isEnabled \in BOOLEAN
           /\ b.shouldShowTips \in BOOLEAN
  BY DEF Bucket

(* What a load and a look at the button leave as it is. *)
SameSetup(b, c) ==
    /\ c.once = b.once /\ c.amount = b.amount /\ c.wanted = b.wanted
    /\ c.organizations = b.organizations /\ c.donates = b.donates
    /\ c.shouldShowTips = b.shouldShowTips
SameTable(b, c) == SameSetup(b, c) /\ c.rows = b.rows

LEMMA CapsTypes ==
    ASSUME NEW amount \in Nat, NEW rows \in Seq(Row)
    PROVE  Caps(amount, rows) \in Seq(Nat)
<1> DEFINE left == amount - Sum(rows)
           room == IF left < 0 THEN 0 ELSE left
           caps == [i \in DOMAIN rows |-> room + rows[i].amount]
<1>1. Len(rows) \in Nat /\ DOMAIN rows = 1 .. Len(rows) /\ \A i \in 1 .. Len(rows) : rows[i] \in Row
  BY LenProperties
<1>2. \A i \in 1 .. Len(rows) : rows[i].amount \in Nat
  BY <1>1 DEF Row
<1>3. room \in Nat
  BY SumIsNumber
<1>4. Caps(amount, rows) = caps
  BY DEF Caps
<1> HIDE DEF room
<1>5. caps \in [1 .. Len(rows) -> Nat]
  BY <1>1, <1>2, <1>3
<1> QED  BY <1>1, <1>4, <1>5, FunctionIsSeq

LEMMA Refreshed ==
    ASSUME NEW b \in Bucket
    PROVE  /\ UpdateUI(b) \in Bucket /\ SameTable(b, UpdateUI(b)) /\ Gate(UpdateUI(b))
           /\ Reload(b) \in Bucket /\ SameTable(b, Reload(b))
           /\ Reload(b).isEnabled = b.isEnabled
           /\ Refresh(b) \in Bucket /\ SameTable(b, Refresh(b)) /\ Gate(Refresh(b))
<1>1. ASSUME NEW c \in Bucket
      PROVE  UpdateUI(c) \in Bucket /\ SameTable(c, UpdateUI(c)) /\ Gate(UpdateUI(c))
  <2> DEFINE e == (Sum(c.rows) = c.amount)
  <2>1. UpdateUI(c) = [c EXCEPT !.isEnabled = e] /\ e \in BOOLEAN
    BY DEF UpdateUI
  <2>2. e <=> Sum(c.rows) = c.amount
    OBVIOUS
  <2> HIDE DEF e
  <2>3. /\ UpdateUI(c) \in Bucket /\ SameTable(c, UpdateUI(c))
        /\ UpdateUI(c).isEnabled = e
    BY <2>1 DEF Bucket, SameTable, SameSetup
  <2> QED  BY <2>3 DEF Gate, SameTable, SameSetup, e
<1>2. /\ Reload(b) \in Bucket /\ SameTable(b, Reload(b))
      /\ Reload(b).isEnabled = b.isEnabled
  <2> DEFINE caps == Caps(b.amount, b.rows)
  <2>1. Reload(b) = [b EXCEPT !.caps = caps]
    BY DEF Reload
  <2>2. caps \in Seq(Nat)
    BY BucketFields, CapsTypes
  <2> HIDE DEF caps
  <2> QED  BY <2>1, <2>2 DEF Bucket, SameTable, SameSetup
<1>3. /\ Refresh(b) \in Bucket /\ SameTable(Reload(b), Refresh(b)) /\ Gate(Refresh(b))
  BY <1>1, <1>2 DEF Refresh
<1> QED  BY <1>1, <1>2, <1>3 DEF SameTable, SameSetup

LEMMA TargetRowProperties ==
    ASSUME NEW donates \in Seq(Row), AreDonates(donates), NEW org \in Orgs,
           NEW r, r = TargetRow(donates, org)
    PROVE  /\ r \in Row /\ r.org = org
           /\ \A j \in 1 .. Len(donates) : r.id = donates[j].id => r.org = donates[j].org
           /\ Distinct(donates) =>
                \A j \in 1 .. Len(donates) : r.org = donates[j].org => r.id = donates[j].id
<1> DEFINE i == FirstOf(donates, org)
<1>1. /\ Len(donates) \in Nat /\ DOMAIN donates = 1 .. Len(donates)
      /\ \A k \in 1 .. Len(donates) : donates[k] \in Row /\ donates[k].id > 0
  <2>1. \A k \in Ids : k > 0
    BY FlowBounds DEF Ids
  <2> QED  BY <2>1, LenProperties DEF AreDonates
<1>2. \/ i = 0 /\ \A k \in 1 .. Len(donates) : donates[k].org # org
      \/ i \in 1 .. Len(donates) /\ i > 0 /\ donates[i].org = org
  BY FirstOfProperties
<1>3. r = IF i > 0 THEN donates[i] ELSE [org |-> org, id |-> 0, amount |-> 0]
  BY DEF TargetRow
<1> HIDE DEF i
<1>4. CASE i > 0
  BY <1>1, <1>2, <1>3, <1>4 DEF AreDonates, Distinct
<1>5. CASE ~(i > 0)
  <2>1. r = [org |-> org, id |-> 0, amount |-> 0]
    BY <1>3, <1>5
  <2>2. r \in Row /\ r.org = org /\ r.id = 0
    BY <2>1 DEF Row
  <2> QED  BY <1>1, <1>2, <1>5, <2>2
<1> QED  BY <1>4, <1>5

LEMMA ChosenProperties ==
    ASSUME NEW donates \in Seq(Row), AreDonates(donates), NEW wanted \in Seq(Orgs),
           Once(wanted),
           NEW chosen, chosen = [i \in DOMAIN wanted |-> TargetRow(donates, wanted[i])]
    PROVE  /\ chosen \in Seq(Row) /\ Len(chosen) = Len(wanted)
           /\ \A i \in 1 .. Len(wanted) : chosen[i].org = wanted[i]
           /\ Distinct(chosen)
           /\ Distinct(donates) => RowsFit(chosen, donates)
<1>1. Len(wanted) \in Nat /\ DOMAIN wanted = 1 .. Len(wanted) /\ \A i \in 1 .. Len(wanted) : wanted[i] \in Orgs
  BY LenProperties
<1>2. ASSUME NEW i \in 1 .. Len(wanted)
      PROVE  /\ chosen[i] \in Row /\ chosen[i].org = wanted[i]
             /\ \A j \in 1 .. Len(donates) :
                    chosen[i].id = donates[j].id => chosen[i].org = donates[j].org
             /\ Distinct(donates) =>
                  \A j \in 1 .. Len(donates) :
                      chosen[i].org = donates[j].org => chosen[i].id = donates[j].id
  <2> DEFINE org == wanted[i]
             r == TargetRow(donates, org)
  <2>1. chosen[i] = r /\ org \in Orgs
    BY <1>1
  <2> HIDE DEF org
  <2>2. /\ r \in Row /\ r.org = org
        /\ \A j \in 1 .. Len(donates) : r.id = donates[j].id => r.org = donates[j].org
        /\ Distinct(donates) =>
             \A j \in 1 .. Len(donates) : r.org = donates[j].org => r.id = donates[j].id
    BY <2>1, TargetRowProperties
  <2> HIDE DEF r
  <2> QED  BY <2>1, <2>2 DEF org
<1>3. chosen \in Seq(Row) /\ Len(chosen) = Len(wanted)
  <2>1. chosen \in [1 .. Len(wanted) -> Row]
    BY <1>1, <1>2
  <2> QED  BY <1>1, <2>1, FunctionIsSeq
<1>4. DOMAIN chosen = 1 .. Len(wanted)
  BY <1>1
<1>5. Distinct(chosen)
  BY <1>2, <1>4 DEF Distinct, Once
<1>6. ASSUME Distinct(donates)
      PROVE  RowsFit(chosen, donates)
  <2>1. \A k \in 1 .. Len(wanted) : \A i \in 1 .. Len(donates) :
            chosen[k].id = donates[i].id <=> chosen[k].org = donates[i].org
    BY ONLY <1>2, <1>6
  <2> QED  BY ONLY <1>3, <1>5, <2>1 DEF RowsFit
<1> QED  BY <1>2, <1>3, <1>5, <1>6

(* Behind the rows of the target come the pledges it has none for.         *)
LEMMA OthersAdded ==
    ASSUME NEW donates \in Seq(Row), AreDonates(donates), Distinct(donates),
           NEW chosen \in Seq(Row), RowsFit(chosen, donates),
           NEW kept, kept = {j \in DOMAIN donates :
                                \A i \in DOMAIN chosen : chosen[i].id # donates[j].id}
    PROVE  RowsFit(chosen \o RowsAt(donates, kept), donates)
<1> DEFINE added == RowsAt(donates, kept)
           n == Len(chosen)
           m == Len(added)
           rows == chosen \o added
<1>1. /\ n \in Nat /\ DOMAIN chosen = 1 .. n
      /\ DOMAIN donates = 1 .. Len(donates) /\ Len(donates) \in Nat
  BY LenProperties
<1>2. kept \in SUBSET (1 .. Len(donates))
  BY <1>1
<1>3. added \in Seq(Row) /\ Keeps(added, donates, kept)
  BY <1>2, RowsAtProperties
<1> HIDE DEF added
<1>4. m \in Nat /\ DOMAIN added = 1 .. m
  BY <1>3, LenProperties
<1>5. PICK at \in [1 .. m -> kept] : \A k \in 1 .. m : added[k] = donates[at[k]]
  BY <1>3 DEF Keeps
<1>6. /\ rows \in Seq(Row) /\ Len(rows) = n + m /\ DOMAIN rows = 1 .. n + m
      /\ \A i \in 1 .. n + m : rows[i] = IF i <= n THEN chosen[i] ELSE added[i - n]
  BY <1>1, <1>3, <1>4, ConcatProperties, LenProperties
<1> HIDE DEF rows, n, m
<1>7. Distinct(added)
  BY <1>2, <1>3, KeptDistinct
<1>8. ASSUME NEW k \in 1 .. m
      PROVE  /\ at[k] \in 1 .. Len(donates) /\ added[k] = donates[at[k]]
             /\ \A i \in 1 .. n : chosen[i].id # added[k].id /\ chosen[i].org # added[k].org
  <2>1. at[k] \in kept /\ at[k] \in 1 .. Len(donates) /\ added[k] = donates[at[k]]
    BY <1>2, <1>5
  <2>2. \A i \in 1 .. n : chosen[i].id # donates[at[k]].id
    BY <1>1, <2>1
  <2>3. \A i \in 1 .. n : chosen[i].id = donates[at[k]].id <=> chosen[i].org = donates[at[k]].org
    BY <2>1 DEF RowsFit, n
  <2> QED  BY <2>1, <2>2, <2>3
<1>9. \A i \in 1 .. n + m : \/ i \in 1 .. n /\ rows[i] = chosen[i]
                            \/ i - n \in 1 .. m /\ rows[i] = added[i - n]
  <2> TAKE i \in 1 .. n + m
  <2>1. i <= n => i \in 1 .. n
    BY <1>1, <1>4
  <2>2. ~(i <= n) => i - n \in 1 .. m
    BY <1>1, <1>4
  <2> QED  BY <1>6, <2>1, <2>2
<1>10. ASSUME NEW i \in 1 .. n + m, NEW j \in 1 .. n + m, rows[i].org = rows[j].org
       PROVE  i = j
  <2>1. CASE i \in 1 .. n /\ rows[i] = chosen[i] /\ j \in 1 .. n /\ rows[j] = chosen[j]
    BY <1>1, <1>10, <2>1 DEF RowsFit, Distinct
  <2>2. CASE i \in 1 .. n /\ rows[i] = chosen[i] /\ j - n \in 1 .. m /\ rows[j] = added[j - n]
    BY <1>8, <1>10, <2>2
  <2>3. CASE j \in 1 .. n /\ rows[j] = chosen[j] /\ i - n \in 1 .. m /\ rows[i] = added[i - n]
    BY <1>8, <1>10, <2>3
  <2>4. CASE /\ i - n \in 1 .. m /\ rows[i] = added[i - n]
             /\ j - n \in 1 .. m /\ rows[j] = added[j - n]
    <3>1. i - n = j - n
      BY <1>4, <1>7, <1>10, <2>4 DEF Distinct
    <3>2. i \in Int /\ j \in Int /\ n \in Int
      BY <1>1, <1>4
    <3> QED  BY ONLY <3>1, <3>2
  <2> QED  BY <1>9, <2>1, <2>2, <2>3, <2>4
<1>11. ASSUME NEW k \in 1 .. n + m, NEW i \in 1 .. Len(donates)
       PROVE  rows[k].id = donates[i].id <=> rows[k].org = donates[i].org
  <2>1. CASE k \in 1 .. n /\ rows[k] = chosen[k]
    BY <2>1 DEF RowsFit, n
  <2>2. CASE k - n \in 1 .. m /\ rows[k] = added[k - n]
    <3>1. at[k - n] \in 1 .. Len(donates) /\ rows[k] = donates[at[k - n]]
      BY <1>8, <2>2
    <3> DEFINE j == at[k - n]
    <3>2. donates[j].id = donates[i].id => j = i
      BY <3>1 DEF AreDonates
    <3>3. donates[j].org = donates[i].org => j = i
      BY <1>1, <3>1 DEF Distinct
    <3> HIDE DEF j
    <3>4. rows[k] = donates[j]
      BY <3>1 DEF j
    <3> QED  BY ONLY <3>2, <3>3, <3>4
  <2> QED  BY <1>9, <2>1, <2>2
<1>12. RowsFit(rows, donates)
  <2>1. Distinct(rows)
    BY <1>6, <1>10 DEF Distinct
  <2> QED  BY <1>6, <1>11, <2>1 DEF RowsFit
<1> QED  BY <1>12 DEF rows, added

(* The amounts may change: what the rows are of stays. *)
LEMMA OneRowSet ==
    ASSUME NEW rows \in Seq(Row), NEW i \in 1 .. Len(rows), NEW e \in Row,
           e.org = rows[i].org, e.id = rows[i].id
    PROVE  /\ [rows EXCEPT ![i] = e] \in Seq(Row) /\ Len([rows EXCEPT ![i] = e]) = Len(rows)
           /\ \A j \in 1 .. Len(rows) : /\ [rows EXCEPT ![i] = e][j].org = rows[j].org
                                       /\ [rows EXCEPT ![i] = e][j].id = rows[j].id
<1> DEFINE new == [rows EXCEPT ![i] = e]
<1>1. /\ new \in Seq(Row) /\ Len(new) = Len(rows)
      /\ \A j \in 1 .. Len(rows) : new[j] = IF j = i THEN e ELSE rows[j]
  BY ExceptSeq
<1> QED  BY <1>1

LEMMA SameRows ==
    ASSUME NEW rows \in Seq(Row), NEW new \in Seq(Row), Len(new) = Len(rows),
           \A j \in 1 .. Len(rows) : new[j].org = rows[j].org /\ new[j].id = rows[j].id
    PROVE  /\ Distinct(rows) => Distinct(new)
           /\ OrgsOf(new) = OrgsOf(rows)
           /\ \A donates : RowsFit(rows, donates) => RowsFit(new, donates)
<1>1. DOMAIN rows = 1 .. Len(rows) /\ DOMAIN new = 1 .. Len(rows)
  BY LenProperties
<1>2. Distinct(rows) => Distinct(new)
  BY <1>1 DEF Distinct
<1>3. OrgsOf(new) = OrgsOf(rows)
  BY <1>1 DEF OrgsOf
<1> QED  BY <1>2, <1>3 DEF RowsFit

(* The saved bucket is merged in; without one a single row gets it all.    *)
LEMMA MergeSavedProperties ==
    ASSUME completeDonation \in SavedBuckets \cup {None},
           NEW rows \in Seq(Row), NEW type, NEW amount \in Nat
    PROVE  LET new == MergeSaved(rows, type, amount) IN
           /\ new \in Seq(Row)
           /\ Distinct(rows) => Distinct(new)
           /\ OrgsOf(rows) \subseteq OrgsOf(new)
           /\ \A donates : ~Saved(type) /\ RowsFit(rows, donates) => RowsFit(new, donates)
<1> DEFINE new == MergeSaved(rows, type, amount)
<1>1. CASE Saved(type)
  <2>1. completeDonation.rows \in Seq(Row)
    BY <1>1 DEF Saved, SavedBuckets
  <2>2. new = FoldLeft(MergeRow, rows, completeDonation.rows)
    BY <1>1 DEF MergeSaved
  <2> QED  BY <1>1, <2>1, <2>2, MergedProperties
<1>2. CASE ~Saved(type) /\ Len(rows) = 1
  <2> DEFINE e == [rows[1] EXCEPT !.amount = amount]
  <2>1. new = [rows EXCEPT ![1] = e] /\ 1 \in 1 .. Len(rows)
    BY <1>2 DEF MergeSaved
  <2>2. e \in Row /\ e.org = rows[1].org /\ e.id = rows[1].id
    <3>1. rows[1] \in Row
      BY <2>1, LenProperties
    <3> QED  BY <3>1 DEF Row
  <2> HIDE DEF e, new
  <2>3. /\ new \in Seq(Row) /\ Len(new) = Len(rows)
        /\ \A j \in 1 .. Len(rows) : new[j].org = rows[j].org /\ new[j].id = rows[j].id
    BY <2>1, <2>2, OneRowSet
  <2>4. /\ Distinct(rows) => Distinct(new)
        /\ OrgsOf(new) = OrgsOf(rows)
        /\ \A donates : RowsFit(rows, donates) => RowsFit(new, donates)
    BY <2>3, SameRows
  <2> QED  BY <2>3, <2>4 DEF new
<1>3. CASE ~Saved(type) /\ Len(rows) # 1
  BY <1>3 DEF MergeSaved
<1> QED  BY <1>1, <1>2, <1>3

(* The table is loaded. *)
LEMMA Loaded ==
    ASSUME completeDonation \in SavedBuckets \cup {None},
           NEW b \in Bucket, AreDonates(b.donates),
           b.organizations # None => Once(b.organizations)
    PROVE  LET r == LoadDataCompletionHandler(b) IN
           /\ r \in Bucket /\ SameSetup(b, r) /\ Gate(r)
           /\ Distinct(b.donates) => Distinct(r.rows)
           /\ ~b.once /\ ~Saved(FALSE) /\ Distinct(b.donates) => RowsFit(r.rows, b.donates)
           /\ b.organizations # None =>
                \A i \in 1 .. Len(b.organizations) : b.organizations[i] \in OrgsOf(r.rows)
<1> DEFINE wanted == IF b.organizations = None THEN <<>> ELSE b.organizations
           chosen == [i \in DOMAIN wanted |-> TargetRow(b.donates, wanted[i])]
           kept == {j \in DOMAIN b.donates :
                       \A i \in DOMAIN chosen : chosen[i].id # b.donates[j].id}
           rows == IF b.once THEN chosen ELSE chosen \o RowsAt(b.donates, kept)
           new == MergeSaved(rows, b.once, b.amount)
           c == [b EXCEPT !.rows = new]
           r == LoadDataCompletionHandler(b)
<1>1. r = Refresh(c)
  BY DEF LoadDataCompletionHandler
<1>2. wanted \in Seq(Orgs) /\ Once(wanted)
  <2>1. <<>> \in Seq(Orgs) /\ Once(<<>>)
    BY DEF Once
  <2> QED  BY <2>1, BucketFields
<1>3. b.donates \in Seq(Row) /\ b.once \in BOOLEAN /\ b.amount \in Nat
  BY BucketFields
<1> HIDE DEF wanted, r
<1>4. /\ chosen \in Seq(Row) /\ Len(chosen) = Len(wanted)
      /\ \A i \in 1 .. Len(wanted) : chosen[i].org = wanted[i]
      /\ Distinct(chosen)
      /\ Distinct(b.donates) => RowsFit(chosen, b.donates)
  BY <1>2, <1>3, ChosenProperties
<1> HIDE DEF chosen
<1>5. kept \in SUBSET (1 .. Len(b.donates))
  BY <1>3, LenProperties
<1>6. RowsAt(b.donates, kept) \in Seq(Row)
  BY <1>3, <1>5, RowsAtProperties
<1>7. /\ rows \in Seq(Row) /\ OrgsOf(chosen) \subseteq OrgsOf(rows)
  <2>1. chosen \o RowsAt(b.donates, kept) \in Seq(Row)
    BY <1>4, <1>6, ConcatProperties
  <2>2. OrgsOf(chosen) \subseteq OrgsOf(chosen \o RowsAt(b.donates, kept))
    <3> DEFINE added == RowsAt(b.donates, kept)
               all == chosen \o added
    <3>1. added \in Seq(Row) /\ all \in Seq(Row)
      BY <1>6, <2>1
    <3> HIDE DEF added
    <3>2. \A i \in 1 .. Len(chosen) + Len(added) :
              all[i] = IF i <= Len(chosen) THEN chosen[i] ELSE added[i - Len(chosen)]
      BY <1>4, <3>1, ConcatProperties
    <3>3. /\ Len(chosen) \in Nat /\ Len(added) \in Nat
          /\ Len(all) = Len(chosen) + Len(added)
          /\ DOMAIN chosen = 1 .. Len(chosen) /\ DOMAIN all = 1 .. Len(all)
      BY <1>4, <3>1, ConcatProperties, LenProperties
    <3>4. \A i \in DOMAIN chosen : i \in DOMAIN all /\ all[i] = chosen[i]
      BY <3>2, <3>3
    <3> HIDE DEF all
    <3>5. OrgsOf(chosen) \subseteq OrgsOf(all)
      BY <3>4 DEF OrgsOf
    <3> QED  BY <3>5 DEF all, added
  <2> QED  BY <1>4, <2>1, <2>2
<1>8. ASSUME Distinct(b.donates)
      PROVE  Distinct(rows) /\ (~b.once => RowsFit(rows, b.donates))
  <2>1. RowsFit(chosen \o RowsAt(b.donates, kept), b.donates)
    BY <1>3, <1>4, <1>8, OthersAdded
  <2>2. Distinct(chosen \o RowsAt(b.donates, kept))
    BY <2>1 DEF RowsFit
  <2> QED  BY <1>4, <2>1, <2>2
<1> HIDE DEF kept, rows
<1>9. /\ new \in Seq(Row)
      /\ Distinct(rows) => Distinct(new)
      /\ OrgsOf(rows) \subseteq OrgsOf(new)
      /\ \A donates : ~Saved(b.once) /\ RowsFit(rows, donates) => RowsFit(new, donates)
  BY <1>3, <1>7, MergeSavedProperties
<1> HIDE DEF new
<1>10. c \in Bucket /\ SameSetup(b, c) /\ c.rows = new
  BY <1>9 DEF Bucket, SameSetup
<1> HIDE DEF c
<1>11. r \in Bucket /\ SameTable(c, r) /\ Gate(r)
  BY <1>1, <1>10, Refreshed
<1>12. SameSetup(b, r) /\ r.rows = new
  BY <1>10, <1>11 DEF SameTable, SameSetup
<1>13. ~b.once /\ ~Saved(FALSE) => ~Saved(b.once)
  BY <1>3
<1>14. b.organizations # None =>
          \A i \in 1 .. Len(b.organizations) : b.organizations[i] \in OrgsOf(new)
  <2> SUFFICES ASSUME b.organizations # None, NEW i \in 1 .. Len(b.organizations)
               PROVE  b.organizations[i] \in OrgsOf(new)
    OBVIOUS
  <2>1. wanted = b.organizations
    BY DEF wanted
  <2>2. i \in DOMAIN chosen /\ chosen[i].org = b.organizations[i]
    BY <1>4, <2>1, LenProperties
  <2>3. b.organizations[i] \in OrgsOf(chosen)
    BY <2>2 DEF OrgsOf
  <2> QED  BY <1>7, <1>9, <2>3
<1> QED  BY <1>8, <1>9, <1>11, <1>12, <1>13, <1>14 DEF r

(* What is handed over: the rows, and nothing for the pledges left out.    *)
LEMMA ItemsTypes ==
    ASSUME NEW b \in Bucket
    PROVE  LET gone == RowsAt(b.donates, {i \in DOMAIN b.donates :
                                             b.donates[i].org \notin OrgsOf(b.rows)})
               none == [i \in DOMAIN gone |-> [gone[i] EXCEPT !.amount = 0]]
           IN  /\ gone \in Seq(Row)
               /\ Keeps(gone, b.donates, {i \in 1 .. Len(b.donates) :
                                             b.donates[i].org \notin OrgsOf(b.rows)})
               /\ none \in Seq(Row) /\ Len(none) = Len(gone)
               /\ \A k \in 1 .. Len(gone) : none[k].id = gone[k].id
               /\ ItemsToPass(b) = IF b.once THEN b.rows ELSE b.rows \o none
               /\ ItemsToPass(b) \in Seq(Row)
<1> DEFINE kept == {i \in DOMAIN b.donates : b.donates[i].org \notin OrgsOf(b.rows)}
           gone == RowsAt(b.donates, kept)
           none == [i \in DOMAIN gone |-> [gone[i] EXCEPT !.amount = 0]]
<1>1. b.donates \in Seq(Row) /\ b.rows \in Seq(Row) /\ DOMAIN b.donates = 1 .. Len(b.donates)
  BY BucketFields, LenProperties
<1>2. /\ kept \in SUBSET (1 .. Len(b.donates))
      /\ kept = {i \in 1 .. Len(b.donates) : b.donates[i].org \notin OrgsOf(b.rows)}
  BY <1>1
<1>3. ItemsToPass(b) = IF b.once THEN b.rows ELSE b.rows \o none
  BY DEF ItemsToPass
<1>4. gone \in Seq(Row) /\ Keeps(gone, b.donates, kept)
  BY <1>1, <1>2, RowsAtProperties
<1> HIDE DEF gone
<1>5. Len(gone) \in Nat /\ DOMAIN gone = 1 .. Len(gone) /\ \A k \in 1 .. Len(gone) : gone[k] \in Row
  BY <1>4, LenProperties
<1>6. \A k \in 1 .. Len(gone) : none[k] \in Row /\ none[k].id = gone[k].id
  BY <1>5 DEF Row
<1>7. none \in [1 .. Len(gone) -> Row]
  BY <1>5, <1>6
<1>8. none \in Seq(Row) /\ Len(none) = Len(gone)
  BY <1>5, <1>7, FunctionIsSeq
<1> HIDE DEF none
<1>9. b.rows \o none \in Seq(Row)
  BY <1>1, <1>8, ConcatProperties
<1>10. /\ gone \in Seq(Row)
       /\ Keeps(gone, b.donates, {i \in 1 .. Len(b.donates) :
                                      b.donates[i].org \notin OrgsOf(b.rows)})
       /\ none \in Seq(Row) /\ Len(none) = Len(gone)
       /\ \A k \in 1 .. Len(gone) : none[k].id = gone[k].id
       /\ ItemsToPass(b) = IF b.once THEN b.rows ELSE b.rows \o none
       /\ ItemsToPass(b) \in Seq(Row)
  BY <1>1, <1>2, <1>3, <1>4, <1>6, <1>8, <1>9
<1> QED  BY <1>10 DEF gone, none

LEMMA HandedOnce ==
    ASSUME NEW b \in Bucket, ~b.once, AreDonates(b.donates), Distinct(b.donates),
           RowsFit(b.rows, b.donates), NEW d \in ToSet(b.donates)
    PROVE  LET items == ItemsToPass(b) IN
           Cardinality({k \in DOMAIN items : items[k].id = d.id}) = 1
<1> DEFINE kept == {i \in 1 .. Len(b.donates) : b.donates[i].org \notin OrgsOf(b.rows)}
           items == ItemsToPass(b)
           n == Len(b.rows)
<1>1. /\ b.donates \in Seq(Row) /\ b.rows \in Seq(Row) /\ DOMAIN b.donates = 1 .. Len(b.donates)
      /\ n \in Nat /\ DOMAIN b.rows = 1 .. n
  BY BucketFields, LenProperties
<1>2. PICK i \in 1 .. Len(b.donates) : d = b.donates[i]
  BY <1>1 DEF ToSet
<1>3. PICK gone \in Seq(Row), none \in Seq(Row) :
        /\ Keeps(gone, b.donates, kept) /\ Len(none) = Len(gone)
        /\ \A k \in 1 .. Len(gone) : none[k].id = gone[k].id
        /\ items = b.rows \o none
  BY ItemsTypes
<1> HIDE DEF items
<1> DEFINE m == Len(gone)
<1>4. m \in Nat
  BY <1>3, LenProperties
<1>5. PICK at \in [1 .. m -> kept] :
        /\ \A k \in 1 .. m : gone[k] = b.donates[at[k]]
        /\ \A j, k \in 1 .. m : at[j] = at[k] => j = k
        /\ \A x \in kept : \E k \in 1 .. m : at[k] = x
  BY <1>3 DEF Keeps
<1>6. /\ DOMAIN items = 1 .. n + m
      /\ \A k \in 1 .. n + m : items[k] = IF k <= n THEN b.rows[k] ELSE none[k - n]
  <2> DEFINE all == b.rows \o none
  <2>1. b.rows \in Seq(Row) /\ none \in Seq(Row)
    BY <1>1, <1>3
  <2>2. /\ all \in Seq(Row) /\ Len(all) = n + Len(none)
        /\ \A k \in 1 .. n + Len(none) :
              all[k] = IF k <= n THEN b.rows[k] ELSE none[k - n]
    BY ONLY <2>1, ConcatProperties
  <2>3. items = all /\ Len(none) = m
    BY <1>3
  <2> HIDE DEF all
  <2>4. DOMAIN all = 1 .. Len(all)
    BY <2>2, LenProperties
  <2> QED  BY <2>2, <2>3, <2>4
<1> HIDE DEF items, n, m, kept
<1> DEFINE Has(k) == items[k].id = d.id
<1>7. ASSUME NEW k \in 1 .. n
      PROVE  k \in 1 .. n + m /\ (Has(k) <=> b.rows[k].org = d.org)
  <2>1. k \in 1 .. n + m /\ k <= n
    BY <1>1, <1>4
  <2>2. items[k] = b.rows[k]
    BY <1>6, <2>1
  <2> QED  BY <1>2, <2>1, <2>2 DEF RowsFit, n
<1>8. ASSUME NEW k \in 1 .. m
      PROVE  /\ n + k \in 1 .. n + m /\ (Has(n + k) <=> at[k] = i)
             /\ b.donates[at[k]].org \notin OrgsOf(b.rows)
  <2>1. n + k \in 1 .. n + m /\ ~(n + k <= n) /\ (n + k) - n = k
    BY <1>1, <1>4
  <2>2. items[n + k].id = b.donates[at[k]].id
    <3>1. items[n + k] = none[k]
      BY <1>6, <2>1
    <3>2. none[k].id = gone[k].id /\ gone[k] = b.donates[at[k]]
      BY <1>3, <1>5 DEF m
    <3> QED  BY <3>1, <3>2
  <2>3. at[k] \in 1 .. Len(b.donates) /\ b.donates[at[k]].org \notin OrgsOf(b.rows)
    <3>1. at[k] \in kept
      BY <1>5
    <3> QED  BY <3>1 DEF kept
  <2>4. b.donates[at[k]].id = b.donates[i].id <=> at[k] = i
    BY <2>3 DEF AreDonates
  <2> QED  BY <1>2, <2>1, <2>2, <2>3, <2>4
<1>9. \A k \in 1 .. n + m : k \in 1 .. n \/ \E j \in 1 .. m : k = n + j
  <2> TAKE k \in 1 .. n + m
  <2>1. k <= n => k \in 1 .. n
    BY <1>1, <1>4
  <2>2. ~(k <= n) => k - n \in 1 .. m /\ k = n + (k - n)
    BY <1>1, <1>4
  <2> QED  BY <2>1, <2>2
<1> DEFINE these == {k \in DOMAIN items : items[k].id = d.id}
<1>10. \A k : k \in these <=> k \in 1 .. n + m /\ Has(k)
  BY <1>6
<1> HIDE DEF Has, these
<1>11. CASE \E k \in 1 .. n : b.rows[k].org = d.org
  <2>1. PICK k \in 1 .. n : b.rows[k].org = d.org
    BY <1>11
  <2>2. d.org \in OrgsOf(b.rows)
    BY <1>1, <2>1 DEF OrgsOf
  <2>3. \A j \in 1 .. n : Has(j) => j = k
    <3> SUFFICES ASSUME NEW j \in 1 .. n, Has(j)
                 PROVE  j = k
      OBVIOUS
    <3>1. b.rows[j].org = b.rows[k].org
      BY <1>7, <2>1
    <3> QED  BY <1>1, <3>1 DEF RowsFit, Distinct
  <2>4. \A j \in 1 .. m : ~Has(n + j)
    BY <1>2, <1>8, <2>2
  <2>5. Has(k) /\ k \in 1 .. n + m
    BY <1>7, <2>1
  <2>6. these = {k}
    BY <1>9, <1>10, <2>3, <2>4, <2>5
  <2> QED  BY <2>6, FS_Singleton DEF these, items
<1>12. CASE ~\E k \in 1 .. n : b.rows[k].org = d.org
  <2>1. i \in kept
    BY <1>1, <1>2, <1>12 DEF kept, OrgsOf
  <2>2. PICK k \in 1 .. m : at[k] = i
    BY <1>5, <2>1
  <2>3. Has(n + k) /\ n + k \in 1 .. n + m
    BY <1>8, <2>2
  <2>4. \A j \in 1 .. n : ~Has(j)
    BY <1>7, <1>12
  <2>5. \A j \in 1 .. m : Has(n + j) => j = k
    BY <1>5, <1>8, <2>2
  <2>6. these = {n + k}
    BY <1>9, <1>10, <2>3, <2>4, <2>5
  <2> QED  BY <2>6, FS_Singleton DEF these, items
<1> QED  BY <1>11, <1>12

-----------------------------------------------------------------------------
(* The bucket screen comes up *)

LEMMA TargetProperties ==
    ASSUME NEW t \in Targets
    PROVE  t.cause \in BOOLEAN /\ t.orgs \in Seq(Orgs) /\ Once(t.orgs)
<1>1. t \in Target /\ \A i, j \in DOMAIN t.orgs : t.orgs[i] = t.orgs[j] => i = j
  BY TargetsAssumption
<1>2. t.cause \in BOOLEAN /\ t.orgs \in Seq(Orgs)
  BY <1>1 DEF Target
<1> QED  BY <1>1, <1>2, LenProperties DEF Once

LEMMA NoBucketOK ==
    /\ NoBucket \in Bucket /\ NoBucket.once = FALSE /\ NoBucket.rows = <<>>
    /\ NoBucket.donates = <<>> /\ NoBucket.organizations = None
    /\ \A t, saved : BucketOK(NoBucket, "nothing", t, saved)
<1>1. /\ NoBucket.once = FALSE /\ NoBucket.rows = <<>>
      /\ NoBucket.donates = <<>> /\ NoBucket.organizations = None
  BY DEF NoBucket
<1>2. NoBucket \in Bucket
  <2>1. <<>> \in Seq(Orgs) /\ <<>> \in Seq(Row) /\ <<>> \in Seq(Nat) /\ 0 \in Nat
    OBVIOUS
  <2> QED  BY <2>1 DEF NoBucket, Bucket
<1>3. AreDonates(<<>>)
  BY DEF AreDonates
<1> QED  BY <1>1, <1>2, <1>3 DEF BucketOK

(* The screen before anything is loaded. *)
Opened(type, amount, t, rows) ==
    [NoBucket EXCEPT !.once = type, !.amount = amount,
                     !.wanted = IF t = None THEN <<>> ELSE t.orgs,
                     !.organizations = IF t # None /\ ~t.cause THEN t.orgs ELSE None,
                     !.rows = rows]

LEMMA OpenedOK ==
    ASSUME NEW type \in BOOLEAN, NEW amount \in Nat, NEW t \in Targets \cup {None},
           NEW rows \in Seq(Row)
    PROVE  LET b == Opened(type, amount, t, rows) IN
           /\ b \in Bucket /\ b.once = type /\ b.rows = rows /\ b.donates = <<>>
           /\ b.wanted = IF t = None THEN <<>> ELSE t.orgs
           /\ b.organizations # None => Once(b.organizations) /\ b.organizations = b.wanted
           /\ AreDonates(b.donates) /\ Distinct(b.donates)
<1> DEFINE wanted == IF t = None THEN <<>> ELSE t.orgs
           orgs == IF t # None /\ ~t.cause THEN t.orgs ELSE None
           b == Opened(type, amount, t, rows)
<1>1. wanted \in Seq(Orgs) /\ orgs \in Seq(Orgs) \cup {None}
  <2>1. <<>> \in Seq(Orgs)
    OBVIOUS
  <2> QED  BY <2>1, TargetProperties
<1>2. orgs # None => Once(orgs) /\ orgs = wanted
  BY TargetProperties
<1>3. b = [NoBucket EXCEPT !.once = type, !.amount = amount, !.wanted = wanted,
                           !.organizations = orgs, !.rows = rows]
  BY DEF Opened
<1> HIDE DEF wanted, orgs, b
<1>4. /\ b \in Bucket /\ b.once = type /\ b.rows = rows /\ b.donates = <<>>
      /\ b.wanted = wanted /\ b.organizations = orgs
  BY <1>1, <1>3, NoBucketOK DEF Bucket
<1>5. AreDonates(<<>>) /\ Distinct(<<>>)
  BY DEF AreDonates, Distinct
<1> QED  BY <1>2, <1>4, <1>5 DEF wanted, b

(* The table lists everything the target has. *)
Lists(b) == \A i \in 1 .. Len(b.wanted) : b.wanted[i] \in OrgsOf(b.rows)

LEMMA Shown ==
    ASSUME completeDonation \in SavedBuckets \cup {None}, removed \subseteq Ids,
           NEW type \in BOOLEAN, NEW amount \in Nat, NEW t \in Targets \cup {None},
           NEW impacts, impacts # None => impacts \in Seq(Row), NEW over,
           ShowBucket(type, amount, t, impacts, over)
    PROVE  /\ screen' = "bucket" /\ below' = over
           /\ \A s : t = None \/ s = t => BucketOK(bucket', loading', s, completeDonation)
           /\ Gate(bucket') /\ removed' \subseteq Ids
           /\ bucket'.donates = <<>>
           /\ (impacts # None => Distinct(impacts))
                 /\ (completeDonation # None => Distinct(completeDonation.rows))
              => Distinct(bucket'.rows)
           /\ bucket'.once /\ loading' = "nothing" /\ bucket'.organizations # None =>
                 Lists(bucket')
<1> DEFINE rows == IF ~type /\ impacts # None THEN impacts
                   ELSE IF Saved(type) THEN completeDonation.rows
                   ELSE <<>>
           opened == Opened(type, amount, t, rows)
           asks == t # None /\ t.cause
<1>1. /\ screen' = "bucket" /\ below' = over
      /\ type => /\ bucket' = IF asks THEN Refresh(opened) ELSE LoadDataCompletionHandler(opened)
                 /\ loading' = IF asks THEN "organisations" ELSE "nothing"
      /\ ~type => /\ bucket' = Refresh(opened)
                  /\ loading' = IF impacts # None \/ Saved(FALSE) THEN "nothing" ELSE "donates"
      /\ removed' = IF impacts = None /\ Saved(type) THEN removed ELSE {}
  BY DEF ShowBucket, Opened
<1>2. rows \in Seq(Row)
  <2>1. Saved(type) => completeDonation.rows \in Seq(Row)
    BY DEF Saved, SavedBuckets
  <2> QED  BY <2>1
<1>3. (impacts # None => Distinct(impacts))
         /\ (completeDonation # None => Distinct(completeDonation.rows)) => Distinct(rows)
  BY DEF Distinct, Saved
<1>4. ~type /\ ~(impacts # None \/ Saved(FALSE)) => rows = <<>>
  OBVIOUS
<1> HIDE DEF rows
<1>5. /\ opened \in Bucket /\ opened.once = type /\ opened.rows = rows /\ opened.donates = <<>>
      /\ opened.wanted = IF t = None THEN <<>> ELSE t.orgs
      /\ opened.organizations # None =>
            Once(opened.organizations) /\ opened.organizations = opened.wanted
      /\ AreDonates(opened.donates) /\ Distinct(opened.donates)
  BY <1>2, OpenedOK
<1> HIDE DEF opened
<1>6. removed' \subseteq Ids
  BY <1>1
<1>7. CASE type /\ ~asks
  <2>1. bucket' = LoadDataCompletionHandler(opened) /\ loading' = "nothing"
    BY <1>1, <1>7
  <2>2. /\ bucket' \in Bucket /\ SameSetup(opened, bucket') /\ Gate(bucket')
        /\ Distinct(bucket'.rows)
        /\ opened.organizations # None =>
             \A i \in 1 .. Len(opened.organizations) :
                 opened.organizations[i] \in OrgsOf(bucket'.rows)
    BY <1>5, <2>1, Loaded
  <2>3. /\ bucket'.once = type /\ bucket'.donates = <<>>
        /\ bucket'.wanted = opened.wanted /\ bucket'.organizations = opened.organizations
    BY <1>5, <2>2 DEF SameSetup
  <2>4. \A s : BucketOK(bucket', loading', s, completeDonation)
    BY <1>5, <2>1, <2>2, <2>3 DEF BucketOK
  <2>5. bucket'.organizations # None => Lists(bucket')
    BY <1>5, <2>2, <2>3 DEF Lists
  <2> QED  BY <1>1, <1>6, <2>2, <2>3, <2>4, <2>5
<1>8. CASE ~type \/ asks
  <2>1. bucket' = Refresh(opened)
    BY <1>1, <1>8
  <2>2. bucket' \in Bucket /\ SameTable(opened, bucket') /\ Gate(bucket')
    BY <1>5, <2>1, Refreshed
  <2>3. /\ bucket'.once = type /\ bucket'.donates = <<>> /\ bucket'.rows = rows
        /\ bucket'.wanted = opened.wanted /\ bucket'.organizations = opened.organizations
    BY <1>5, <2>2 DEF SameTable, SameSetup
  <2>4. CASE type
    <3>1. loading' = "organisations" /\ asks /\ t \in Targets /\ bucket'.wanted = t.orgs
      BY <1>1, <1>5, <1>8, <2>3, <2>4
    <3>2. \A s : s = t => BucketOK(bucket', loading', s, completeDonation)
      BY <1>5, <2>2, <2>3, <2>4, <3>1 DEF BucketOK
    <3> QED  BY <1>1, <1>3, <1>6, <2>2, <2>3, <3>1, <3>2
  <2>5. CASE ~type
    <3>1. /\ loading' \in {"nothing", "donates"}
          /\ loading' # "nothing" => rows = <<>> /\ ~Saved(FALSE)
      BY <1>1, <1>4, <2>5
    <3>2. \A s : BucketOK(bucket', loading', s, completeDonation)
      BY <1>5, <2>2, <2>3, <2>5, <3>1 DEF BucketOK, Saved
    <3> QED  BY <1>1, <1>3, <1>6, <2>2, <2>3, <2>5, <3>2
  <2> QED  BY <2>4, <2>5
<1> QED  BY <1>7, <1>8

-----------------------------------------------------------------------------
(* Steps *)

(* What OnceListsTarget says of a step. *)
OnceStep ==
    bucket'.once /\ bucket' # bucket /\ loading' = "nothing"
          /\ (loading = "organisations" \/ bucket = NoBucket)
          /\ bucket'.organizations # None
       => ToSet(bucket'.wanted) \subseteq OrgsOf(bucket'.rows)

LEMMA ListsAll ==
    ASSUME NEW b \in Bucket, Lists(b)
    PROVE  ToSet(b.wanted) \subseteq OrgsOf(b.rows)
<1>1. DOMAIN b.wanted = 1 .. Len(b.wanted)
  BY BucketFields, LenProperties
<1> QED  BY <1>1 DEF Lists, ToSet

LEMMA TypesNow ==
    ASSUME Inv
    PROVE  /\ screen \in Screens /\ below \in {"root", "adjust", "recipients"}
           /\ target \in Targets \cup {None} /\ once \in BOOLEAN
           /\ draft \in Nat /\ edit \in Nat /\ bucket \in Bucket
           /\ loading \in {"nothing", "donates", "organisations"}
           /\ order \in Orders /\ completeDonation \in SavedBuckets \cup {None}
           /\ tmpDonateAmount \in Nat \cup {None} /\ oneTimeDonateAmount \in Nat
           /\ user \in Profile /\ user.default \in Nat /\ user.tips \in Nat
           /\ pledges \in [Ids -> Pledge] /\ paid \in Nat
           /\ activeDonates \in Seq(Row) /\ removed \subseteq Ids
           /\ checkouts \in 0 .. MaxCheckouts
  BY DEF Inv, TypeOK, Orders, SavedBuckets, Profile

LEMMA DonatesSame ==
    ASSUME pledges' = pledges
    PROVE  Donates' = Donates
  BY DEF Donates

LEMMA AmountTypes ==
    ASSUME Inv, NEW type
    PROVE  AmountOf(type) \in Nat
  BY TypesNow DEF AmountOf

FlowTypes ==
    /\ screen \in Screens /\ below \in {"root", "adjust", "recipients"}
    /\ target \in Targets \cup {None} /\ once \in BOOLEAN
    /\ draft \in Nat /\ edit \in Nat
    /\ oneTimeDonateAmount \in Nat /\ user \in Profile

LEMMA FlowNow ==
    ASSUME Inv
    PROVE  FlowTypes
  BY TypesNow DEF FlowTypes

(* The amounts, the screen or the target change, the table does not. *)
LEMMA QuietStep ==
    ASSUME Inv, FlowTypes', ScreenOK',
           UNCHANGED <<bucket, loading, removed, order, completeDonation, tmpDonateAmount,
                       pledges, paid, activeDonates, checkouts>>,
           screen # "success", target' = target \/ loading = "nothing"
    PROVE  Inv' /\ OnceStep
<1>0. TypeOK'
  BY DEF Inv, TypeOK, FlowTypes
<1>1. BucketOK(bucket', loading', target', completeDonation')
  BY DEF Inv, BucketOK
<1>2. AllDistinct'
  BY DonatesSame DEF Inv, AllDistinct
<1>3. SavedAmountIsKept'
  BY DEF Inv, SavedAmountIsKept, Saved
<1> QED  BY <1>0, <1>1, <1>2, <1>3 DEF Inv, OnceStep

LEMMA ShowStep ==
    ASSUME Inv, screen # "success", checkouts < MaxCheckouts,
           NEW type \in BOOLEAN, NEW amount \in Nat, NEW t \in Targets \cup {None},
           NEW impacts,
           impacts # None =>
               /\ impacts \in Seq(Row)
               /\ Distinct(Donates) /\ Distinct(activeDonates) => Distinct(impacts),
           NEW over \in {"root", "adjust", "recipients"},
           ShowBucket(type, amount, t, impacts, over),
           t = None \/ target' = t, target' \in Targets \cup {None},
           once' \in BOOLEAN, draft' \in Nat, oneTimeDonateAmount' \in Nat,
           UNCHANGED <<edit, order, completeDonation, tmpDonateAmount, serverVars>>
    PROVE  Inv' /\ OnceStep
<1>1. completeDonation \in SavedBuckets \cup {None} /\ removed \subseteq Ids
  BY TypesNow
<1>2. /\ screen' = "bucket" /\ below' = over
      /\ BucketOK(bucket', loading', target', completeDonation)
      /\ Gate(bucket') /\ removed' \subseteq Ids
      /\ bucket'.donates = <<>>
      /\ (impacts # None => Distinct(impacts))
            /\ (completeDonation # None => Distinct(completeDonation.rows))
         => Distinct(bucket'.rows)
      /\ bucket'.once /\ loading' = "nothing" /\ bucket'.organizations # None =>
            Lists(bucket')
  BY <1>1, Shown
<1>3. bucket' \in Bucket /\ loading' \in {"nothing", "donates", "organisations"}
  BY <1>2 DEF BucketOK
<1>4. TypeOK'
  BY <1>2, <1>3, TypesNow DEF TypeOK, serverVars, Screens, Orders, SavedBuckets
<1>5. ScreenOK'
  BY <1>2 DEF ScreenOK, serverVars
<1>6. AllDistinct'
  <2>1. Donates' = Donates
    BY DonatesSame DEF serverVars
  <2>2. Distinct(<<>>)
    BY DEF Distinct
  <2> QED  BY <1>2, <2>1, <2>2 DEF Inv, AllDistinct, serverVars
<1>7. SavedAmountIsKept'
  BY DEF Inv, SavedAmountIsKept, Saved
<1>8. OnceStep
  BY <1>2, <1>3, ListsAll DEF OnceStep
<1> QED  BY <1>2, <1>4, <1>5, <1>6, <1>7, <1>8 DEF Inv

LEMMA ChoosingStep ==
    ASSUME Inv,
           \/ \E t \in Targets : DonatePressed(t)
           \/ ChoiceClosed
           \/ \E v \in minAmount .. MaxAmount : SliderValueChanged(v)
           \/ AdjustBack \/ AmountContinue \/ IntroBack
           \/ EditButtonPressed \/ TipsClosed
    PROVE  Inv' /\ OnceStep
<1>0. FlowTypes /\ loading \in {"nothing", "donates", "organisations"} /\ bucket \in Bucket
  BY FlowNow, TypesNow
<1>1. ASSUME NEW t \in Targets, DonatePressed(t)
      PROVE  Inv' /\ OnceStep
  <2> USE <1>1 DEF DonatePressed, bucketVars, managerVars, serverVars
  <2>1. FlowTypes'
    BY <1>0 DEF FlowTypes, Screens
  <2>2. ScreenOK' /\ loading = "nothing"
    BY DEF Inv, ScreenOK, Working
  <2> QED  BY <2>1, <2>2, QuietStep
<1>2. ASSUME ChoiceClosed
      PROVE  Inv' /\ OnceStep
  <2> USE <1>2 DEF ChoiceClosed, ToRoot, bucketVars, managerVars, serverVars
  <2>1. FlowTypes'
    BY <1>0 DEF FlowTypes, Screens
  <2>2. ScreenOK' /\ loading = "nothing"
    BY DEF Inv, ScreenOK, Working
  <2> QED  BY <2>1, <2>2, QuietStep
<1>3. ASSUME NEW v \in minAmount .. MaxAmount, SliderValueChanged(v)
      PROVE  Inv' /\ OnceStep
  <2> USE <1>3 DEF SliderValueChanged, managerVars, serverVars
  <2>1. v \in Nat
    BY FlowBounds DEF minAmount
  <2>2. FlowTypes'
    BY <1>0, <2>1 DEF FlowTypes
  <2>3. ScreenOK'
    BY DEF Inv, ScreenOK
  <2> QED  BY <2>2, <2>3, QuietStep
<1>4. ASSUME AdjustBack
      PROVE  Inv' /\ OnceStep
  <2> USE <1>4 DEF AdjustBack, ToRoot, bucketVars, serverVars
  <2>1. Slider(draft) \in Nat
    BY <1>0 DEF Slider, minAmount, FlowTypes
  <2>2. FlowTypes'
    BY <1>0, <2>1 DEF FlowTypes, Screens
  <2>3. ScreenOK' /\ loading = "nothing"
    BY DEF Inv, ScreenOK, Working
  <2> QED  BY <2>2, <2>3, QuietStep
<1>5. ASSUME AmountContinue
      PROVE  Inv' /\ OnceStep
  <2> USE <1>5 DEF AmountContinue, ToRoot, flowVars, bucketVars, managerVars
  <2>1. user' \in Profile
    BY <1>0 DEF Profile, FlowTypes
  <2>2. edit' = edit /\ oneTimeDonateAmount' = oneTimeDonateAmount
    OBVIOUS
  <2>3. \/ /\ screen' \in {"recipients", "amount"}
           /\ below' = below /\ target' = target /\ once' = once /\ draft' = draft
        \/ screen' = "root" /\ below' = "root" /\ target' = None /\ once' = FALSE /\ draft' = 0
    OBVIOUS
  <2>4. FlowTypes'
    <3>1. below' \in {"root", "adjust", "recipients"} /\ screen' \in Screens
      BY <1>0, <2>3 DEF FlowTypes, Screens
    <3>2. target' \in Targets \cup {None} /\ draft' \in Nat
      BY <1>0, <2>3 DEF FlowTypes
    <3>3. once' \in BOOLEAN
      BY <1>0, <2>3, Zenon DEF FlowTypes
    <3> QED  BY <1>0, <2>1, <2>2, <3>1, <3>2, <3>3 DEF FlowTypes
  <2>5. ScreenOK' /\ loading = "nothing"
    BY DEF Inv, ScreenOK, Working
  <2> QED  BY <2>4, <2>5, QuietStep
<1>6. ASSUME IntroBack
      PROVE  Inv' /\ OnceStep
  <2> USE <1>6 DEF IntroBack, ToRoot, flowVars, bucketVars, managerVars, serverVars
  <2>1. edit' = edit /\ oneTimeDonateAmount' = oneTimeDonateAmount /\ user' = user
    OBVIOUS
  <2>2. \/ /\ screen' = "amount"
           /\ below' = below /\ target' = target /\ once' = once /\ draft' = draft
        \/ screen' = "root" /\ below' = "root" /\ target' = None /\ once' = FALSE /\ draft' = 0
    OBVIOUS
  <2>3. FlowTypes'
    <3>1. below' \in {"root", "adjust", "recipients"} /\ screen' \in Screens
      BY <1>0, <2>2 DEF FlowTypes, Screens
    <3>2. target' \in Targets \cup {None} /\ draft' \in Nat
      BY <1>0, <2>2 DEF FlowTypes
    <3>3. once' \in BOOLEAN
      BY <1>0, <2>2, Zenon DEF FlowTypes
    <3> QED  BY <1>0, <2>1, <3>1, <3>2, <3>3 DEF FlowTypes
  <2>4. ScreenOK' /\ loading = "nothing"
    BY DEF Inv, ScreenOK, Working
  <2> QED  BY <2>3, <2>4, QuietStep
<1>7. ASSUME EditButtonPressed
      PROVE  Inv' /\ OnceStep
  <2> USE <1>7 DEF EditButtonPressed, OnBucket, flowVars, managerVars, serverVars
  <2>1. bucket.amount \in Nat
    BY <1>0, BucketFields
  <2>2. FlowTypes'
    BY <1>0, <2>1 DEF FlowTypes, Screens
  <2>3. ScreenOK'
    BY DEF Inv, ScreenOK, Working
  <2> QED  BY <2>2, <2>3, QuietStep
<1>8. ASSUME TipsClosed
      PROVE  Inv' /\ OnceStep
  <2> USE <1>8 DEF TipsClosed, flowVars, bucketVars, managerVars, serverVars
  <2>1. FlowTypes'
    BY <1>0 DEF FlowTypes, Screens
  <2>2. ScreenOK'
    BY DEF Inv, ScreenOK, Working
  <2> QED  BY <2>1, <2>2, QuietStep
<1> QED  BY <1>1, <1>2, <1>3, <1>4, <1>5, <1>6, <1>7, <1>8
(* The choice of the type opens a bucket or asks for an amount first.      *)
LEMMA StepTwo ==
    ASSUME Inv, screen \in {"choice", "reset"}, NEW type \in BOOLEAN, DonateStepTwo(type),
           once' \in BOOLEAN, target' = target, UNCHANGED <<order, managerVars, serverVars>>
    PROVE  Inv' /\ OnceStep
<1>0. /\ FlowTypes /\ checkouts < MaxCheckouts
      /\ target \in Targets \cup {None} /\ oneTimeDonateAmount \in Nat /\ draft \in Nat
  BY FlowNow, TypesNow DEF Inv, ScreenOK
<1>1. ASSUME UNCHANGED <<below, bucketVars>>, screen' \in {"adjust", "amount"}, draft' \in Nat
      PROVE  Inv' /\ OnceStep
  <2> USE <1>1 DEF bucketVars, managerVars, serverVars
  <2>1. FlowTypes'
    BY <1>0 DEF FlowTypes, Screens
  <2>2. ScreenOK'
    BY DEF Inv, ScreenOK, Working
  <2> QED  BY <2>1, <2>2, QuietStep
<1>2. CASE ShowBucket(type, AmountOf(type), target, None, "root") /\ UNCHANGED <<draft, edit>>
  <2>1. UNCHANGED <<edit, order, completeDonation, tmpDonateAmount, serverVars>>
    BY <1>2 DEF managerVars
  <2>2. oneTimeDonateAmount' \in Nat /\ draft' \in Nat
    BY <1>0, <1>2 DEF managerVars
  <2>3. AmountOf(type) \in Nat /\ target' \in Targets \cup {None} /\ screen # "success"
    BY <1>0, AmountTypes
  <2> QED  BY <1>0, <1>2, <2>1, <2>2, <2>3, ShowStep
<1> QED  BY <1>0, <1>1, <1>2 DEF DonateStepTwo

LEMMA OpeningStep ==
    ASSUME Inv,
           \/ \E type \in BOOLEAN : DonateStepOne(type)
           \/ \E ok \in BOOLEAN : ResetAnswered(ok)
           \/ CompleteDonationButtonPressed \/ AdjustActiveDonationsButtonPressed
           \/ AdjustContinue \/ CreateButtonPressed
    PROVE  Inv' /\ OnceStep
<1>0. /\ FlowTypes /\ completeDonation \in SavedBuckets \cup {None} /\ pledges \in [Ids -> Pledge]
      /\ target \in Targets \cup {None} /\ activeDonates \in Seq(Row)
      /\ oneTimeDonateAmount \in Nat /\ draft \in Nat /\ once \in BOOLEAN
      /\ screen \notin {"root", "success"} => checkouts < MaxCheckouts
      /\ \A type : AmountOf(type) \in Nat
  BY FlowNow, TypesNow, AmountTypes DEF Inv, ScreenOK
<1>1. ASSUME NEW type \in BOOLEAN, DonateStepOne(type)
      PROVE  Inv' /\ OnceStep
  <2>1. /\ screen = "choice" /\ once' = type /\ target' = target
        /\ UNCHANGED <<order, managerVars, serverVars>>
    BY <1>1 DEF DonateStepOne
  <2>2. CASE ShowBucket(type, AmountOf(type), target, None, "root") /\ UNCHANGED <<draft, edit>>
    <3>1. UNCHANGED <<edit, order, completeDonation, tmpDonateAmount, serverVars>>
      BY <2>1, <2>2 DEF managerVars
    <3>2. oneTimeDonateAmount' \in Nat /\ draft' \in Nat /\ once' \in BOOLEAN
      BY <1>0, <2>1, <2>2 DEF managerVars
    <3> QED  BY <1>0, <2>1, <2>2, <3>1, <3>2, ShowStep
  <2>3. CASE DonateStepTwo(type)
    BY <2>1, <2>3, StepTwo
  <2>4. CASE screen' = "reset" /\ UNCHANGED <<below, draft, bucketVars>>
    <3> USE <2>1, <2>4 DEF bucketVars, managerVars, serverVars
    <3>1. FlowTypes'
      BY <1>0 DEF FlowTypes, Screens
    <3>2. ScreenOK'
      BY DEF Inv, ScreenOK, Working
    <3> QED  BY <3>1, <3>2, QuietStep
  <2> QED  BY <1>1, <2>2, <2>3, <2>4 DEF DonateStepOne
<1>2. ASSUME NEW ok \in BOOLEAN, ResetAnswered(ok)
      PROVE  Inv' /\ OnceStep
  <2>1. CASE DonateStepTwo(once) /\ UNCHANGED <<once, target>>
    <3>1. /\ screen = "reset" /\ once' \in BOOLEAN /\ target' = target
          /\ UNCHANGED <<order, managerVars, serverVars>>
      BY <1>0, <1>2, <2>1 DEF ResetAnswered
    <3> QED  BY <1>0, <2>1, <3>1, StepTwo
  <2>2. CASE ToRoot /\ UNCHANGED bucketVars
    <3> USE <1>2, <2>2 DEF ResetAnswered, ToRoot, bucketVars, managerVars, serverVars
    <3>0. screen = "reset" /\ UNCHANGED <<order, managerVars, serverVars>>
      OBVIOUS
    <3>1. FlowTypes'
      BY <1>0, <3>0 DEF FlowTypes, Screens
    <3>2. ScreenOK' /\ loading = "nothing"
      BY <3>0 DEF Inv, ScreenOK, Working
    <3> QED  BY <3>0, <3>1, <3>2, QuietStep
  <2> QED  BY <1>2, <2>1, <2>2 DEF ResetAnswered
<1>3. ASSUME CompleteDonationButtonPressed
      PROVE  Inv' /\ OnceStep
  <2> DEFINE type == completeDonation.once
  <2>1. /\ screen = "root" /\ checkouts < MaxCheckouts
        /\ ShowBucket(type, AmountOf(type), None, None, "root")
        /\ UNCHANGED <<target, once, draft, edit, order, managerVars, serverVars>>
    BY <1>3 DEF CompleteDonationButtonPressed
  <2>2. type \in BOOLEAN
    BY <1>0, <1>3 DEF CompleteDonationButtonPressed, SavedBuckets
  <2> HIDE DEF type
  <2>3. UNCHANGED <<edit, order, completeDonation, tmpDonateAmount, serverVars>>
    BY <2>1 DEF managerVars
  <2>4. /\ oneTimeDonateAmount' \in Nat /\ draft' \in Nat /\ once' \in BOOLEAN
        /\ target' \in Targets \cup {None}
    BY <1>0, <2>1 DEF managerVars
  <2> QED  BY <1>0, <2>1, <2>2, <2>3, <2>4, ShowStep
<1>4. ASSUME AdjustActiveDonationsButtonPressed
      PROVE  Inv' /\ OnceStep
  <2>1. /\ screen = "root" /\ checkouts < MaxCheckouts
        /\ UNCHANGED <<target, once, draft, edit, order, managerVars, serverVars>>
    BY <1>4 DEF AdjustActiveDonationsButtonPressed
  <2>2. PICK impacts \in {activeDonates} \cup FetchedDonates :
            ShowBucket(FALSE, AmountOf(FALSE), None, impacts, "root")
    BY <1>4 DEF AdjustActiveDonationsButtonPressed
  <2>3. /\ impacts \in Seq(Row)
        /\ Distinct(Donates) /\ Distinct(activeDonates) => Distinct(impacts)
    BY <1>0, <2>2, FetchedProperties
  <2>4. UNCHANGED <<edit, order, completeDonation, tmpDonateAmount, serverVars>>
    BY <2>1 DEF managerVars
  <2>5. /\ oneTimeDonateAmount' \in Nat /\ draft' \in Nat /\ once' \in BOOLEAN
        /\ target' \in Targets \cup {None}
    BY <1>0, <2>1 DEF managerVars
  <2> QED  BY <1>0, <2>1, <2>2, <2>3, <2>4, <2>5, ShowStep
<1>5. ASSUME AdjustContinue
      PROVE  Inv' /\ OnceStep
  <2>1. /\ screen = "adjust" /\ oneTimeDonateAmount' = draft
        /\ ShowBucket(TRUE, draft, target, None, "adjust")
        /\ UNCHANGED <<target, once, draft>>
        /\ UNCHANGED <<edit, order, completeDonation, tmpDonateAmount, serverVars>>
    BY <1>5 DEF AdjustContinue
  <2>2. /\ oneTimeDonateAmount' \in Nat /\ draft' \in Nat /\ once' \in BOOLEAN
        /\ target' \in Targets \cup {None}
    BY <1>0, <2>1
  <2> QED  BY <1>0, <2>1, <2>2, ShowStep
<1>6. ASSUME CreateButtonPressed
      PROVE  Inv' /\ OnceStep
  <2>1. /\ screen = "recipients"
        /\ ShowBucket(FALSE, AmountOf(FALSE), target, None, "recipients")
        /\ UNCHANGED <<target, once, draft, edit, order, managerVars, serverVars>>
    BY <1>6 DEF CreateButtonPressed
  <2>2. UNCHANGED <<edit, order, completeDonation, tmpDonateAmount, serverVars>>
    BY <2>1 DEF managerVars
  <2>3. /\ oneTimeDonateAmount' \in Nat /\ draft' \in Nat /\ once' \in BOOLEAN
        /\ target' \in Targets \cup {None}
    BY <1>0, <2>1 DEF managerVars
  <2> QED  BY <1>0, <2>1, <2>2, <2>3, ShowStep
<1> QED  BY <1>1, <1>2, <1>3, <1>4, <1>5, <1>6

(* The table changes.                                                      *)
DistinctNow ==
    /\ Distinct(bucket.rows) /\ Distinct(bucket.donates)
    /\ completeDonation # None => Distinct(completeDonation.rows)

LEMMA TableStep ==
    ASSUME Inv, FlowTypes', ScreenOK',
           BucketOK(bucket', loading', target', completeDonation'),
           order' \in Orders, completeDonation' \in SavedBuckets \cup {None},
           tmpDonateAmount' \in Nat \cup {None}, removed' \subseteq Ids, SavedAmountIsKept',
           UNCHANGED <<pledges, paid, activeDonates, checkouts>>,
           screen # "success", Distinct(Donates) /\ DistinctNow => DistinctNow'
    PROVE  Inv'
<1>1. bucket' \in Bucket /\ loading' \in {"nothing", "donates", "organisations"}
  BY DEF BucketOK
<1>2. TypeOK'
  BY <1>1, TypesNow DEF TypeOK, FlowTypes, Orders, SavedBuckets
<1>3. AllDistinct'
  BY DonatesSame DEF Inv, AllDistinct, DistinctNow
<1> QED  BY <1>2, <1>3 DEF Inv

(* A screen that waits for nothing lists nothing new.                      *)
LEMMA OnceQuiet ==
    ASSUME loading = "nothing", bucket'.organizations \in {None, bucket.organizations}
    PROVE  OnceStep
  BY NoBucketOK DEF OnceStep

LEMMA Edited ==
    ASSUME NEW b, NEW c \in Bucket, NEW t, NEW saved, BucketOK(b, "nothing", t, saved),
           c.once = b.once, c.wanted = b.wanted, c.organizations = b.organizations,
           c.donates = b.donates,
           \A donates : RowsFit(b.rows, donates) => RowsFit(c.rows, donates)
    PROVE  \A s, u : BucketOK(c, "nothing", s, u)
  BY DEF BucketOK

(* What is on a bucket screen that has loaded.                             *)
LEMMA OnTable ==
    ASSUME Inv, screen \in Working, loading = "nothing"
    PROVE  /\ FlowTypes /\ BucketOK(bucket, "nothing", target, completeDonation)
           /\ bucket \in Bucket /\ bucket.rows \in Seq(Row)
           /\ DOMAIN bucket.rows = 1 .. Len(bucket.rows)
           /\ order \in Orders /\ completeDonation \in SavedBuckets \cup {None}
           /\ tmpDonateAmount \in Nat \cup {None} /\ removed \subseteq Ids
           /\ checkouts < MaxCheckouts /\ Gate(bucket)
<1>1. bucket \in Bucket
  BY TypesNow
<1>2. bucket.rows \in Seq(Row) /\ DOMAIN bucket.rows = 1 .. Len(bucket.rows)
  BY <1>1, BucketFields, LenProperties
<1> QED  BY <1>1, <1>2, FlowNow, TypesNow DEF Inv, ScreenOK, Working

(* The rows are changed on the table.                                      *)
LEMMA RowsStep ==
    ASSUME Inv, screen \in Working, loading = "nothing", loading' = loading,
           screen' \in Working \ {"confirm"}, FlowTypes',
           bucket' \in Bucket, Gate(bucket'),
           bucket'.once = bucket.once, bucket'.wanted = bucket.wanted,
           bucket'.organizations = bucket.organizations, bucket'.donates = bucket.donates,
           \A donates : RowsFit(bucket.rows, donates) => RowsFit(bucket'.rows, donates),
           Distinct(bucket.rows) => Distinct(bucket'.rows), removed' \subseteq Ids,
           UNCHANGED <<order, completeDonation, tmpDonateAmount, pledges, paid,
                       activeDonates, checkouts>>
    PROVE  Inv' /\ OnceStep
<1>0. /\ BucketOK(bucket, "nothing", target, completeDonation) /\ checkouts < MaxCheckouts
      /\ order \in Orders /\ completeDonation \in SavedBuckets \cup {None}
      /\ tmpDonateAmount \in Nat \cup {None} /\ screen # "success"
  BY OnTable DEF Working
<1>1. BucketOK(bucket', loading', target', completeDonation')
  BY <1>0, Edited
<1>2. ScreenOK'
  BY <1>0 DEF ScreenOK, Working
<1>3. SavedAmountIsKept'
  BY DEF Inv, SavedAmountIsKept, Saved
<1>4. DistinctNow => DistinctNow'
  BY DEF DistinctNow
<1>5. OnceStep
  BY OnceQuiet
<1> QED  BY <1>0, <1>1, <1>2, <1>3, <1>4, <1>5, TableStep

(* Sliding, deleting and editing.                                          *)
LEMMA SlidingStep ==
    ASSUME Inv,
           \/ \E i \in DOMAIN bucket.rows : \E v \in Amounts : SliderMoved(i, v)
           \/ SliderEnded
           \/ \E i \in DOMAIN bucket.rows : DeleteRow(i)
           \/ EditContinue \/ EditBack
    PROVE  Inv' /\ OnceStep
<1>0. screen \in {"edit", "bucket"} /\ loading = "nothing"
  BY DEF SliderMoved, SliderEnded, DeleteRow, OnBucket, EditContinue, EditBack, Inv, ScreenOK
<1>1. /\ FlowTypes /\ bucket \in Bucket /\ bucket.rows \in Seq(Row)
      /\ DOMAIN bucket.rows = 1 .. Len(bucket.rows) /\ removed \subseteq Ids /\ Gate(bucket)
      /\ screen \in Working
  BY <1>0, OnTable DEF Working
<1>2. ASSUME NEW i \in DOMAIN bucket.rows, NEW v \in Amounts, SliderMoved(i, v)
      PROVE  Inv' /\ OnceStep
  <2> DEFINE new == [bucket.rows EXCEPT ![i].amount = v]
             c == [bucket EXCEPT !.rows = new]
  <2>1. /\ screen = "bucket" /\ bucket' = UpdateUI(c)
        /\ UNCHANGED <<screen, flowVars, edit, loading, removed, order, managerVars, serverVars>>
    BY <1>2 DEF SliderMoved, OnBucket
  <2>2. i \in 1 .. Len(bucket.rows) /\ v \in Nat
    BY <1>1, FlowBounds DEF Amounts
  <2>3. /\ new \in Seq(Row) /\ Len(new) = Len(bucket.rows)
        /\ \A j \in 1 .. Len(bucket.rows) : /\ new[j].org = bucket.rows[j].org
                                            /\ new[j].id = bucket.rows[j].id
    <3> DEFINE rows == bucket.rows
               e == [rows[i] EXCEPT !.amount = v]
    <3>1. new = [rows EXCEPT ![i] = e]
      OBVIOUS
    <3>2. rows \in Seq(Row) /\ i \in 1 .. Len(rows)
      BY <1>1, <2>2
    <3>3. e \in Row /\ e.org = rows[i].org /\ e.id = rows[i].id
      <4>1. rows[i] \in Row
        BY <3>2, LenProperties
      <4> QED  BY <2>2, <4>1 DEF Row
    <3> HIDE DEF new, rows, e
    <3>4. /\ new \in Seq(Row) /\ Len(new) = Len(rows)
          /\ \A j \in 1 .. Len(rows) : new[j].org = rows[j].org /\ new[j].id = rows[j].id
      BY <3>1, <3>2, <3>3, OneRowSet
    <3> QED  BY <3>4 DEF rows
  <2> HIDE DEF new
  <2>4. /\ Distinct(bucket.rows) => Distinct(new)
        /\ \A donates : RowsFit(bucket.rows, donates) => RowsFit(new, donates)
    BY <1>1, <2>3, SameRows
  <2>5. c \in Bucket /\ SameSetup(bucket, c) /\ c.rows = new
    BY <1>1, <2>3 DEF Bucket, SameSetup
  <2> HIDE DEF c
  <2>6. bucket' \in Bucket /\ SameTable(c, bucket') /\ Gate(bucket')
    BY <2>1, <2>5, Refreshed
  <2>7. FlowTypes' /\ screen' \in Working \ {"confirm"}
    BY <1>1, <2>1 DEF FlowTypes, flowVars, managerVars, serverVars, Working
  <2> QED
    BY <1>0, <1>1, <2>1, <2>4, <2>5, <2>6, <2>7, RowsStep
    DEF SameTable, SameSetup, managerVars, serverVars
<1>3. ASSUME SliderEnded
      PROVE  Inv' /\ OnceStep
  <2>1. /\ screen = "bucket" /\ bucket' = Reload(bucket)
        /\ UNCHANGED <<screen, flowVars, edit, loading, removed, order, managerVars, serverVars>>
    BY <1>3 DEF SliderEnded, OnBucket
  <2>2. bucket' \in Bucket /\ SameTable(bucket, bucket') /\ bucket'.isEnabled = bucket.isEnabled
    BY <1>1, <2>1, Refreshed
  <2>3. Gate(bucket')
    BY <1>1, <2>2 DEF Gate, SameTable, SameSetup
  <2>4. FlowTypes' /\ screen' \in Working \ {"confirm"}
    BY <1>1, <2>1 DEF FlowTypes, flowVars, managerVars, serverVars, Working
  <2> QED
    BY <1>0, <1>1, <2>1, <2>2, <2>3, <2>4, RowsStep
    DEF SameTable, SameSetup, managerVars, serverVars
<1>4. ASSUME NEW i \in DOMAIN bucket.rows, DeleteRow(i)
      PROVE  Inv' /\ OnceStep
  <2> DEFINE new == RemoveAt(bucket.rows, i)
             c == [bucket EXCEPT !.rows = new]
  <2>1. /\ screen = "bucket" /\ bucket' = Refresh(c)
        /\ removed' = removed \cup ({bucket.rows[i].id} \ {0})
        /\ UNCHANGED <<screen, flowVars, edit, loading, order, managerVars, serverVars>>
    BY <1>4 DEF DeleteRow, WithoutRow, OnBucket
  <2>2. i \in 1 .. Len(bucket.rows) /\ Len(bucket.rows) \in Nat
    BY <1>1, LenProperties
  <2>3. /\ new \in Seq(Row) /\ Len(new) = Len(bucket.rows) - 1
        /\ \A j \in 1 .. Len(bucket.rows) - 1 :
              new[j] = IF j < i THEN bucket.rows[j] ELSE bucket.rows[j + 1]
    BY <1>1, <2>2, RemoveAtProperties
  <2> HIDE DEF new
  <2>4. /\ Distinct(bucket.rows) => Distinct(new)
        /\ \A donates : RowsFit(bucket.rows, donates) => RowsFit(new, donates)
    <3> DEFINE at(j) == IF j < i THEN j ELSE j + 1
    <3>1. \A j \in 1 .. Len(new) : at(j) \in 1 .. Len(bucket.rows) /\ new[j] = bucket.rows[at(j)]
      BY <2>2, <2>3
    <3>2. \A j, k \in 1 .. Len(new) : at(j) = at(k) => j = k
      BY <2>2, <2>3
    <3> HIDE DEF at
    <3>3. DOMAIN new = 1 .. Len(new)
      BY <2>3, LenProperties
    <3>4. ASSUME Distinct(bucket.rows)
          PROVE  Distinct(new)
      <4> SUFFICES ASSUME NEW j \in DOMAIN new, NEW k \in DOMAIN new, new[j].org = new[k].org
                   PROVE  j = k
        BY DEF Distinct
      <4>1. /\ at(j) \in DOMAIN bucket.rows /\ at(k) \in DOMAIN bucket.rows
            /\ bucket.rows[at(j)].org = bucket.rows[at(k)].org
        BY <1>1, <3>1, <3>3
      <4>2. at(j) = at(k)
        BY <3>4, <4>1 DEF Distinct
      <4> QED  BY <3>2, <3>3, <4>2
    <3>5. ASSUME NEW donates, RowsFit(bucket.rows, donates)
          PROVE  RowsFit(new, donates)
      <4>1. \A j \in 1 .. Len(new) : \A k \in 1 .. Len(donates) :
               new[j].id = donates[k].id <=> new[j].org = donates[k].org
        BY <3>1, <3>5 DEF RowsFit
      <4> QED  BY <3>4, <3>5, <4>1 DEF RowsFit
    <3> QED  BY <3>4, <3>5
  <2>5. c \in Bucket /\ SameSetup(bucket, c) /\ c.rows = new
    BY <1>1, <2>3 DEF Bucket, SameSetup
  <2> HIDE DEF c
  <2>6. bucket' \in Bucket /\ SameTable(c, bucket') /\ Gate(bucket')
    BY <2>1, <2>5, Refreshed
  <2>7. FlowTypes' /\ screen' \in Working \ {"confirm"}
    BY <1>1, <2>1 DEF FlowTypes, flowVars, managerVars, serverVars, Working
  <2>8. removed' \subseteq Ids
    <3>1. bucket.rows[i] \in Row
      BY <1>1, <2>2, LenProperties
    <3>2. bucket.rows[i].id \in Ids \cup {0}
      BY <3>1 DEF Row
    <3> QED  BY <1>1, <2>1, <3>2
  <2> QED
    BY <1>0, <1>1, <2>1, <2>4, <2>5, <2>6, <2>7, <2>8, RowsStep
    DEF SameTable, SameSetup, managerVars, serverVars
<1>5. ASSUME EditContinue
      PROVE  Inv' /\ OnceStep
  <2> DEFINE new == [i \in DOMAIN bucket.rows |-> [bucket.rows[i] EXCEPT !.amount = 0]]
             c == [bucket EXCEPT !.amount = edit, !.rows = new]
  <2>1. /\ screen = "edit" /\ bucket' = Refresh(c) /\ edit' = 0
        /\ screen' = IF bucket.shouldShowTips THEN "tips" ELSE "bucket"
        /\ oneTimeDonateAmount' = IF bucket.once THEN Slider(edit) ELSE oneTimeDonateAmount
        /\ UNCHANGED <<flowVars, loading, removed, order, completeDonation,
                       tmpDonateAmount, serverVars>>
    BY <1>5 DEF EditContinue, ViewWillAppear
  <2>2. /\ new \in Seq(Row) /\ Len(new) = Len(bucket.rows)
        /\ \A j \in 1 .. Len(bucket.rows) : /\ new[j].org = bucket.rows[j].org
                                            /\ new[j].id = bucket.rows[j].id
    <3>1. Len(bucket.rows) \in Nat /\ \A j \in 1 .. Len(bucket.rows) : bucket.rows[j] \in Row
      BY <1>1, LenProperties
    <3>2. \A j \in 1 .. Len(bucket.rows) :
             new[j] \in Row /\ new[j].org = bucket.rows[j].org /\ new[j].id = bucket.rows[j].id
      BY <1>1, <3>1 DEF Row
    <3>3. new \in [1 .. Len(bucket.rows) -> Row]
      BY <1>1, <3>2
    <3> HIDE DEF new
    <3> QED  BY <3>1, <3>2, <3>3, FunctionIsSeq
  <2> HIDE DEF new
  <2>3. /\ Distinct(bucket.rows) => Distinct(new)
        /\ \A donates : RowsFit(bucket.rows, donates) => RowsFit(new, donates)
    BY <1>1, <2>2, SameRows
  <2>4. edit \in Nat /\ oneTimeDonateAmount \in Nat
    BY <1>1 DEF FlowTypes
  <2>5. /\ c \in Bucket /\ c.rows = new /\ c.once = bucket.once /\ c.wanted = bucket.wanted
        /\ c.organizations = bucket.organizations /\ c.donates = bucket.donates
    BY <1>1, <2>2, <2>4 DEF Bucket
  <2> HIDE DEF c
  <2>6. bucket' \in Bucket /\ SameTable(c, bucket') /\ Gate(bucket')
    BY <2>1, <2>5, Refreshed
  <2>7. oneTimeDonateAmount' \in Nat /\ edit' \in Nat /\ screen' \in {"bucket", "tips"}
    BY <2>1, <2>4 DEF Slider, minAmount
  <2>8. FlowTypes' /\ screen' \in Working \ {"confirm"}
    BY <1>1, <2>1, <2>7 DEF FlowTypes, flowVars, serverVars, Working, Screens
  <2> QED
    BY <1>0, <1>1, <2>1, <2>3, <2>5, <2>6, <2>8, RowsStep
    DEF SameTable, SameSetup, serverVars
<1>6. ASSUME EditBack
      PROVE  Inv' /\ OnceStep
  <2> USE <1>6 DEF EditBack, ViewWillAppear, flowVars, managerVars, serverVars
  <2>1. FlowTypes'
    BY <1>1 DEF FlowTypes, Screens
  <2>2. ScreenOK'
    BY <1>1 DEF Inv, ScreenOK, Working
  <2> QED  BY <2>1, <2>2, QuietStep
<1> QED  BY <1>2, <1>3, <1>4, <1>5, <1>6

(* An answer comes to the screen that loads.                               *)
LEMMA AnswerStep ==
    ASSUME Inv, LoadAnswered
    PROVE  Inv' /\ OnceStep
<1>0. /\ FlowTypes /\ BucketOK(bucket, loading, target, completeDonation) /\ bucket \in Bucket
      /\ order \in Orders /\ completeDonation \in SavedBuckets \cup {None}
      /\ tmpDonateAmount \in Nat \cup {None} /\ removed \subseteq Ids
      /\ target \in Targets \cup {None} /\ pledges \in [Ids -> Pledge]
  BY FlowNow, TypesNow DEF Inv
<1>1. /\ UNCHANGED <<screen, flowVars, edit, removed, order, managerVars, serverVars>>
      /\ DonatesLoaded \/ OrganisationsLoaded \/ LoadFailed
  BY DEF LoadAnswered
<1>2. /\ screen = "bucket" /\ Gate(bucket) /\ checkouts < MaxCheckouts
      /\ loading \in {"donates", "organisations"}
  <2>1. loading # "nothing"
    BY <1>1 DEF DonatesLoaded, OrganisationsLoaded, LoadFailed
  <2> QED  BY <1>0, <2>1 DEF Inv, ScreenOK, Working, BucketOK
<1>3. FlowTypes' /\ target' = target /\ completeDonation' = completeDonation
  BY <1>0, <1>1 DEF FlowTypes, flowVars, managerVars, serverVars
<1>4. SavedAmountIsKept'
  BY <1>1 DEF Inv, SavedAmountIsKept, Saved, managerVars
<1>5. ASSUME bucket' \in Bucket, Gate(bucket'), loading' \in {"nothing", "donates", "organisations"},
             BucketOK(bucket', loading', target, completeDonation),
             Distinct(Donates) /\ DistinctNow => DistinctNow'
      PROVE  Inv'
  <2>1. ScreenOK'
    BY <1>1, <1>2, <1>5 DEF ScreenOK, Working, serverVars
  <2> QED
    BY <1>0, <1>1, <1>2, <1>3, <1>4, <1>5, <2>1, TableStep
    DEF managerVars, serverVars
<1>6. ASSUME DonatesLoaded
      PROVE  Inv' /\ OnceStep
  <2> DEFINE asks == target # None /\ target.cause
  <2>1. loading = "donates" /\ ~bucket.once
    BY <1>0, <1>6 DEF DonatesLoaded, BucketOK
  <2>2. PICK donates \in FetchedDonates :
          bucket' = IF asks THEN [bucket EXCEPT !.donates = donates]
                    ELSE LoadDataCompletionHandler([bucket EXCEPT !.donates = donates])
    BY <1>6 DEF DonatesLoaded
  <2>3. loading' = IF asks THEN "organisations" ELSE "nothing"
    BY <1>6 DEF DonatesLoaded
  <2>4. /\ donates \in Seq(Row) /\ AreDonates(donates)
        /\ Distinct(Donates) => Distinct(donates)
    BY <1>0, FetchedProperties
  <2> DEFINE c == [bucket EXCEPT !.donates = donates]
  <2>5. /\ c \in Bucket /\ c.donates = donates /\ c.once = bucket.once /\ c.rows = bucket.rows
        /\ c.organizations = bucket.organizations /\ c.wanted = bucket.wanted
        /\ c.amount = bucket.amount /\ c.isEnabled = bucket.isEnabled
    BY <1>0, <2>4 DEF Bucket
  <2>6. bucket' = IF asks THEN c ELSE LoadDataCompletionHandler(c)
    BY <2>2
  <2> HIDE DEF c
  <2>7. /\ bucket.rows = <<>> /\ ~Saved(FALSE)
        /\ bucket.organizations # None => Once(bucket.organizations)
    BY <1>0, <2>1 DEF BucketOK, Saved
  <2>8. CASE asks
    <3>1. bucket' = c /\ loading' = "organisations"
      BY <2>3, <2>6, <2>8
    <3>2. Gate(bucket')
      BY <1>2, <2>5, <3>1 DEF Gate
    <3>3. RowsFit(<<>>, donates) /\ target \in Targets
      BY <1>0, <2>8 DEF RowsFit, Distinct
    <3>4. BucketOK(bucket', loading', target, completeDonation)
      BY <2>1, <2>4, <2>5, <2>7, <2>8, <3>1, <3>3 DEF BucketOK, Saved
    <3>5. Distinct(Donates) /\ DistinctNow => DistinctNow'
      BY <1>3, <2>4, <2>5, <3>1 DEF DistinctNow
    <3>6. OnceStep
      BY <2>1, <2>5, <3>1 DEF OnceStep
    <3> QED  BY <1>5, <2>5, <3>1, <3>2, <3>4, <3>5, <3>6
  <2>9. CASE ~asks
    <3>1. bucket' = LoadDataCompletionHandler(c) /\ loading' = "nothing"
      BY <2>3, <2>6, <2>9
    <3> DEFINE b == LoadDataCompletionHandler(c)
    <3>2. /\ b \in Bucket /\ SameSetup(c, b) /\ Gate(b)
          /\ Distinct(donates) => Distinct(b.rows) /\ RowsFit(b.rows, donates)
      BY <1>0, <2>1, <2>4, <2>5, <2>7, Loaded
    <3>3. bucket' = b
      BY <3>1
    <3> HIDE DEF b
    <3>4. BucketOK(bucket', loading', target, completeDonation)
      BY <2>1, <2>4, <2>5, <2>7, <3>1, <3>2, <3>3 DEF BucketOK, SameSetup
    <3>5. Distinct(Donates) /\ DistinctNow => DistinctNow'
      BY <1>3, <2>4, <2>5, <3>2, <3>3 DEF DistinctNow, SameSetup
    <3>6. OnceStep
      BY <2>1, <2>5, <3>2, <3>3 DEF OnceStep, SameSetup
    <3> QED  BY <1>5, <3>1, <3>2, <3>3, <3>4, <3>5, <3>6
  <2> QED  BY <2>8, <2>9
<1>7. ASSUME OrganisationsLoaded
      PROVE  Inv' /\ OnceStep
  <2> DEFINE c == [bucket EXCEPT !.organizations = target.orgs]
             b == LoadDataCompletionHandler(c)
  <2>1. loading = "organisations" /\ loading' = "nothing" /\ bucket' = b
    BY <1>7 DEF OrganisationsLoaded
  <2>2. /\ target \in Targets /\ (bucket.once => bucket.wanted = target.orgs)
        /\ AreDonates(bucket.donates) /\ (bucket.donates # <<>> => ~bucket.once)
        /\ ~bucket.once => ~Saved(FALSE)
    BY <1>0, <2>1 DEF BucketOK, Saved
  <2>3. target.orgs \in Seq(Orgs) /\ Once(target.orgs)
    BY <2>2, TargetProperties
  <2>4. /\ c \in Bucket /\ c.donates = bucket.donates /\ c.once = bucket.once
        /\ c.organizations = target.orgs /\ c.wanted = bucket.wanted
    BY <1>0, <2>3 DEF Bucket
  <2> HIDE DEF c
  <2>5. /\ b \in Bucket /\ SameSetup(c, b) /\ Gate(b)
        /\ Distinct(bucket.donates) => Distinct(b.rows)
        /\ ~bucket.once /\ Distinct(bucket.donates) => RowsFit(b.rows, bucket.donates)
        /\ target.orgs # None =>
              \A i \in 1 .. Len(target.orgs) : target.orgs[i] \in OrgsOf(b.rows)
    BY <1>0, <2>2, <2>3, <2>4, Loaded
  <2> HIDE DEF b
  <2>6. BucketOK(bucket', loading', target, completeDonation)
    BY <2>1, <2>2, <2>3, <2>4, <2>5 DEF BucketOK, SameSetup
  <2>7. DistinctNow => DistinctNow'
    BY <1>3, <2>1, <2>4, <2>5 DEF DistinctNow, SameSetup
  <2>8. OnceStep
    <3>1. CASE bucket'.once /\ bucket'.organizations # None
      <4>1. bucket'.wanted = target.orgs /\ target.orgs # None
        BY <2>1, <2>2, <2>4, <2>5, <3>1 DEF SameSetup
      <4>2. Lists(bucket')
        BY <2>1, <2>5, <4>1 DEF Lists
      <4> QED  BY <2>1, <2>5, <4>2, ListsAll DEF OnceStep
    <3> QED  BY <3>1 DEF OnceStep
  <2> QED  BY <1>5, <2>1, <2>5, <2>6, <2>7, <2>8
<1>8. ASSUME LoadFailed
      PROVE  Inv' /\ OnceStep
  <2>1. bucket' = bucket /\ loading' = "nothing"
    BY <1>8 DEF LoadFailed
  <2>2. BucketOK(bucket', loading', target, completeDonation)
    BY <1>0, <2>1 DEF BucketOK
  <2>3. DistinctNow => DistinctNow'
    BY <1>3, <2>1 DEF DistinctNow
  <2>4. OnceStep
    BY <2>1 DEF OnceStep
  <2> QED  BY <1>0, <1>2, <1>5, <2>1, <2>2, <2>3, <2>4
<1> QED  BY <1>1, <1>6, <1>7, <1>8

(* Saving the bucket, leaving it, and the checkout.                        *)
LEMMA SavingStep ==
    ASSUME Inv, CompleteButtonPressed \/ KeepBrowsingButtonPressed \/ BucketBack
    PROVE  Inv' /\ OnceStep
<1>0. /\ FlowTypes /\ bucket \in Bucket /\ screen = "bucket" /\ checkouts < MaxCheckouts
      /\ order \in Orders /\ completeDonation \in SavedBuckets \cup {None}
      /\ tmpDonateAmount \in Nat \cup {None} /\ removed \subseteq Ids /\ Gate(bucket)
  <2>1. screen = "bucket"
    BY DEF CompleteButtonPressed, KeepBrowsingButtonPressed, BucketBack, OnBucket
  <2> QED  BY <2>1, FlowNow, TypesNow DEF Inv, ScreenOK, Working
<1>1. /\ bucket.once \in BOOLEAN /\ bucket.amount \in Nat /\ bucket.rows \in Seq(Row)
  BY <1>0, BucketFields
<1>2. ASSUME SaveBucket
      PROVE  /\ completeDonation' \in SavedBuckets /\ tmpDonateAmount' \in Nat \cup {None}
             /\ oneTimeDonateAmount' = oneTimeDonateAmount /\ SavedAmountIsKept'
             /\ completeDonation'.rows = bucket.rows
  <2>1. completeDonation' = [once |-> bucket.once, rows |-> bucket.rows, amount |-> bucket.amount]
    BY <1>2 DEF SaveBucket
  <2>2. completeDonation' \in SavedBuckets
    BY <1>1, <2>1 DEF SavedBuckets
  <2>3. tmpDonateAmount' = IF bucket.once THEN tmpDonateAmount ELSE bucket.amount
    BY <1>2 DEF SaveBucket
  <2>4. SavedAmountIsKept'
    BY <2>1, <2>3 DEF SavedAmountIsKept, Saved
  <2> QED  BY <1>0, <1>1, <1>2, <2>1, <2>2, <2>3, <2>4 DEF SaveBucket
<1>3. ASSUME CompleteButtonPressed
      PROVE  Inv' /\ OnceStep
  <2> DEFINE c == [bucket EXCEPT !.shouldShowTips = TRUE]
  <2>1. /\ loading = "nothing" /\ SaveBucket /\ bucket' = c /\ screen' = "tips"
        /\ UNCHANGED <<flowVars, edit, loading, removed, order, serverVars>>
    BY <1>3 DEF CompleteButtonPressed, OnBucket
  <2>2. /\ c \in Bucket /\ c.rows = bucket.rows /\ c.once = bucket.once
        /\ c.wanted = bucket.wanted /\ c.organizations = bucket.organizations
        /\ c.donates = bucket.donates /\ c.amount = bucket.amount
        /\ c.isEnabled = bucket.isEnabled
    BY <1>0 DEF Bucket
  <2> HIDE DEF c
  <2>3. FlowTypes'
    BY <1>0, <1>2, <2>1 DEF FlowTypes, flowVars, serverVars, Screens
  <2>4. Gate(bucket')
    BY <1>0, <2>1, <2>2 DEF Gate
  <2>5. ScreenOK'
    BY <1>0, <2>1, <2>4 DEF ScreenOK, Working, serverVars
  <2>6. BucketOK(bucket', loading', target', completeDonation')
    BY <2>1, <2>2, Edited DEF Inv
  <2>7. DistinctNow => DistinctNow'
    BY <1>2, <2>1, <2>2 DEF DistinctNow
  <2>8. OnceStep
    BY <2>1, <2>2, OnceQuiet
  <2> QED
    BY <1>0, <1>2, <2>1, <2>3, <2>5, <2>6, <2>7, <2>8, TableStep DEF serverVars
<1>4. ASSUME KeepBrowsingButtonPressed
      PROVE  Inv' /\ OnceStep
  <2>1. /\ loading = "nothing" /\ SaveBucket /\ bucket' = NoBucket /\ ToRoot
        /\ UNCHANGED <<edit, loading, removed, order, serverVars>>
    BY <1>4 DEF KeepBrowsingButtonPressed, OnBucket
  <2>2. screen' = "root" /\ below' = "root" /\ target' = None /\ once' = FALSE /\ draft' = 0
    BY <2>1 DEF ToRoot
  <2>3. FlowTypes'
    BY <1>0, <1>2, <2>1, <2>2 DEF FlowTypes, serverVars, Screens
  <2>4. ScreenOK'
    BY <2>1, <2>2 DEF ScreenOK, Working
  <2>5. BucketOK(bucket', loading', target', completeDonation')
    BY <2>1, NoBucketOK
  <2>6. DistinctNow => DistinctNow'
    BY <1>2, <2>1, NoBucketOK DEF DistinctNow, Distinct
  <2>7. OnceStep
    BY <2>1, NoBucketOK, OnceQuiet
  <2> QED
    BY <1>0, <1>2, <2>1, <2>3, <2>4, <2>5, <2>6, <2>7, TableStep DEF serverVars
<1>5. ASSUME BucketBack
      PROVE  Inv' /\ OnceStep
  <2>1. /\ bucket' = NoBucket /\ loading' = "nothing"
        /\ UNCHANGED <<edit, removed, order, managerVars, serverVars>>
    BY <1>5 DEF BucketBack
  <2>2. /\ screen' \in {"root", "adjust", "recipients"} /\ below' = "root"
        /\ target' \in Targets \cup {None} /\ draft' \in Nat
    BY <1>0, <1>5 DEF BucketBack, ToRoot, FlowTypes
  <2>3. once' \in BOOLEAN
    BY <1>0, <1>5, Zenon DEF BucketBack, ToRoot, FlowTypes
  <2>4. FlowTypes'
    BY <1>0, <2>1, <2>2, <2>3 DEF FlowTypes, managerVars, serverVars, Screens
  <2>5. ScreenOK'
    BY <1>0, <2>1, <2>2 DEF ScreenOK, Working, serverVars
  <2>6. BucketOK(bucket', loading', target', completeDonation')
    BY <2>1, NoBucketOK
  <2>7. DistinctNow => DistinctNow'
    BY <2>1, NoBucketOK DEF DistinctNow, Distinct, managerVars
  <2>8. SavedAmountIsKept'
    BY <2>1 DEF Inv, SavedAmountIsKept, Saved, managerVars
  <2>9. OnceStep
    BY <2>1, NoBucketOK DEF OnceStep
  <2> QED
    BY <1>0, <2>1, <2>4, <2>5, <2>6, <2>7, <2>8, <2>9, TableStep DEF managerVars, serverVars
<1> QED  BY <1>3, <1>4, <1>5

LEMMA ConfirmingStep ==
    ASSUME Inv, \/ \E tips \in 0 .. MaxTips : DonateButtonPressed(tips)
                \/ ConfirmBack
    PROVE  Inv' /\ OnceStep
<1>0. /\ FlowTypes /\ bucket \in Bucket /\ checkouts < MaxCheckouts /\ Gate(bucket)
      /\ BucketOK(bucket, loading, target, completeDonation) /\ loading = "nothing"
      /\ completeDonation \in SavedBuckets \cup {None}
      /\ tmpDonateAmount \in Nat \cup {None} /\ removed \subseteq Ids
      /\ screen \in {"tips", "confirm"}
  <2>1. screen \in {"tips", "confirm"}
    BY DEF DonateButtonPressed, ConfirmBack
  <2> QED  BY <2>1, FlowNow, TypesNow DEF Inv, ScreenOK, Working
<1>1. ASSUME UNCHANGED <<flowVars, bucketVars, managerVars, serverVars>>, ScreenOK',
             screen' \in Working, order' \in Orders
      PROVE  Inv' /\ OnceStep
  <2> USE <1>1 DEF bucketVars, managerVars, serverVars
  <2>1. FlowTypes'
    BY <1>0 DEF FlowTypes, flowVars, Screens, Working
  <2>2. BucketOK(bucket', loading', target', completeDonation')
    BY <1>0 DEF flowVars
  <2>3. SavedAmountIsKept'
    BY DEF Inv, SavedAmountIsKept, Saved
  <2>4. DistinctNow => DistinctNow'
    BY DEF DistinctNow
  <2>5. OnceStep
    BY DEF OnceStep
  <2> QED  BY <1>0, <2>1, <2>2, <2>3, <2>4, <2>5, TableStep
<1>2. ASSUME NEW tips \in 0 .. MaxTips, DonateButtonPressed(tips)
      PROVE  Inv' /\ OnceStep
  <2>1. /\ order' = [once |-> bucket.once, amount |-> bucket.amount, tips |-> tips,
                     items |-> ItemsToPass(bucket)]
        /\ screen' = "confirm" /\ UNCHANGED <<flowVars, bucketVars, managerVars, serverVars>>
    BY <1>2 DEF DonateButtonPressed
  <2>2. order' \in Orders
    <3>1. bucket.once \in BOOLEAN /\ bucket.amount \in Nat /\ tips \in Nat
      BY <1>0, BucketFields, FlowBounds
    <3>2. ItemsToPass(bucket) \in Seq(Row)
      BY <1>0, ItemsTypes
    <3> QED  BY <2>1, <3>1, <3>2 DEF Orders
  <2>3. order'.once = bucket.once /\ order'.items = ItemsToPass(bucket)
    BY <2>1
  <2>4. bucket' = bucket /\ loading' = loading /\ checkouts' = checkouts
    BY <2>1 DEF bucketVars, serverVars
  <2>5. ScreenOK'
    BY <1>0, <2>1, <2>3, <2>4 DEF ScreenOK, Working
  <2> QED  BY <1>1, <2>1, <2>2, <2>5 DEF Working
<1>3. ASSUME ConfirmBack
      PROVE  Inv' /\ OnceStep
  <2>1. /\ screen' \in {"tips", "bucket"} /\ order' = NoOrder
        /\ UNCHANGED <<flowVars, bucketVars, managerVars, serverVars>>
    BY <1>3 DEF ConfirmBack, ViewWillAppear
  <2>2. order' \in Orders
    <3>1. <<>> \in Seq(Row) /\ 0 \in Nat /\ FALSE \in BOOLEAN
      OBVIOUS
    <3> QED  BY <2>1, <3>1 DEF NoOrder, Orders
  <2>3. ScreenOK'
    BY <1>0, <2>1 DEF ScreenOK, Working, bucketVars, serverVars
  <2> QED  BY <1>1, <2>1, <2>2, <2>3 DEF Working
<1> QED  BY <1>2, <1>3

LEMMA CheckoutStep ==
    ASSUME Inv, CheckoutSucceeds
    PROVE  Inv' /\ OnceStep
<1>0. /\ FlowTypes /\ bucket \in Bucket /\ checkouts < MaxCheckouts /\ loading = "nothing"
      /\ BucketOK(bucket, "nothing", target, completeDonation)
      /\ order \in Orders /\ removed \subseteq Ids /\ pledges \in [Ids -> Pledge]
      /\ paid \in Nat /\ checkouts \in Nat /\ MaxCheckouts \in Nat
      /\ user.default \in Nat /\ user.tips \in Nat
      /\ screen = "confirm"
  <2>1. screen = "confirm"
    BY DEF CheckoutSucceeds
  <2>2. loading = "nothing" /\ checkouts < MaxCheckouts
    BY <2>1 DEF Inv, ScreenOK
  <2> QED  BY <2>1, <2>2, FlowNow, TypesNow, FlowBounds DEF Inv
<1>1. order.once \in BOOLEAN /\ order.amount \in Nat /\ order.tips \in Nat /\ order.items \in Seq(Row)
  BY <1>0 DEF Orders
<1> DEFINE sum == order.amount + order.tips
           free == sum = user.default + user.tips
<1>2. /\ screen' = "success" /\ completeDonation' = None /\ tmpDonateAmount' = None
      /\ checkouts' = checkouts + 1 /\ activeDonates' = Donates
      /\ UNCHANGED <<flowVars, bucketVars, order, oneTimeDonateAmount>>
  BY DEF CheckoutSucceeds
<1>3. pledges' \in [Ids -> Pledge]
  <2>1. FoldLeft(SaveRow, pledges, order.items) \in [Ids -> Pledge]
    BY <1>0, <1>1, SavedTypes
  <2> QED  BY <1>0, <2>1 DEF CheckoutSucceeds
<1>4. paid' \in Nat
  <2>1. sum \in Nat /\ paid' \in {paid, sum}
    BY <1>1 DEF CheckoutSucceeds
  <2> QED  BY <1>0, <2>1
<1>5. user' \in Profile
  <2>1. PICK default \in {order.amount} \cup (IF CanFail THEN {user.default} ELSE {}),
             tips \in {order.tips} \cup (IF CanFail THEN {user.tips} ELSE {}) :
          user' = [default |-> IF order.once THEN user.default ELSE default,
                   tips |-> IF order.once \/ free \/ order.tips = 0 THEN user.tips ELSE tips]
    BY DEF CheckoutSucceeds
  <2>2. default \in Nat /\ tips \in Nat
    BY <1>0, <1>1
  <2> HIDE DEF free
  <2> QED  BY <1>0, <2>1, <2>2 DEF Profile
<1>6. Donates \in Seq(Row)
  BY <1>0, DonatesProperties
<1>7. TypeOK'
  <2>1. FlowTypes' /\ bucket' = bucket /\ loading' = loading /\ order' = order /\ removed' = removed
    BY <1>0, <1>2, <1>5 DEF FlowTypes, flowVars, bucketVars, Screens
  <2>2. checkouts' \in 0 .. MaxCheckouts
    BY <1>0, <1>2
  <2> QED  BY <1>0, <1>2, <1>3, <1>4, <1>6, <2>1, <2>2 DEF TypeOK, FlowTypes, Orders
<1>8. BucketOK(bucket', loading', target', completeDonation')
  <2>1. bucket' = bucket /\ loading' = "nothing"
    BY <1>0, <1>2 DEF bucketVars
  <2> QED  BY <1>0, <2>1, Edited
<1>9. ScreenOK'
  BY <1>0, <1>2 DEF ScreenOK, Working, bucketVars
<1>10. AllDistinct' /\ SavedAmountIsKept'
  BY <1>2 DEF AllDistinct, SavedAmountIsKept, Saved
<1>11. OnceStep
  BY <1>2 DEF OnceStep, bucketVars
<1> QED  BY <1>7, <1>8, <1>9, <1>10, <1>11 DEF Inv

LEMMA HomeStep ==
    ASSUME Inv, BackToHomeButtonPressed
    PROVE  Inv' /\ OnceStep
<1>1. /\ screen = "success" /\ screen' = "root" /\ below' = "root" /\ target' = None
      /\ once' = FALSE /\ draft' = 0 /\ bucket' = NoBucket /\ order' = NoOrder /\ removed' = {}
      /\ edit' = edit /\ loading' = loading /\ completeDonation' = completeDonation
      /\ tmpDonateAmount' = tmpDonateAmount /\ oneTimeDonateAmount' = oneTimeDonateAmount
      /\ UNCHANGED serverVars
  BY DEF BackToHomeButtonPressed, ToRoot, managerVars
<1>2. loading = "nothing" /\ completeDonation = None
  BY <1>1 DEF Inv, ScreenOK
<1>3. NoOrder \in Orders
  <2>1. <<>> \in Seq(Row) /\ 0 \in Nat /\ FALSE \in BOOLEAN
    OBVIOUS
  <2> QED  BY <2>1 DEF NoOrder, Orders
<1>4. TypeOK'
  BY <1>1, <1>2, <1>3, NoBucketOK, TypesNow DEF TypeOK, Orders, Screens, serverVars
<1>5. BucketOK(bucket', loading', target', completeDonation')
  BY <1>1, <1>2, NoBucketOK
<1>6. ScreenOK'
  BY <1>1, <1>2 DEF ScreenOK, Working
<1>7. AllDistinct' /\ SavedAmountIsKept'
  BY <1>1, <1>2, NoBucketOK DEF AllDistinct, Distinct, SavedAmountIsKept, Saved
<1>8. OnceStep
  BY <1>1, NoBucketOK DEF OnceStep
<1> QED  BY <1>4, <1>5, <1>6, <1>7, <1>8 DEF Inv

-----------------------------------------------------------------------------
(* The invariant *)

LEMMA InitInv ==
    ASSUME Init
    PROVE  Inv
<1>1. /\ screen = "root" /\ below = "root" /\ target = None /\ once = FALSE
      /\ draft = 0 /\ edit = 0 /\ bucket = NoBucket /\ loading = "nothing" /\ order = NoOrder
      /\ completeDonation = None /\ tmpDonateAmount = None /\ oneTimeDonateAmount = 1
      /\ activeDonates = <<>> /\ removed = {} /\ checkouts = 0
  BY DEF Init, minAmount
<1>2. pledges \in [Ids -> Pledge] /\ user \in Profile
  BY FirstPledgesAssumption, ProfileAssumption DEF Init
<1>3. paid \in Nat
  <2>1. user.default + user.tips \in Nat
    BY <1>2 DEF Profile
  <2> QED  BY <2>1 DEF Init
<1>4. <<>> \in Seq(Row) /\ 0 \in 0 .. MaxCheckouts /\ NoOrder \in Orders
  <2>1. <<>> \in Seq(Row) /\ 0 \in Nat /\ FALSE \in BOOLEAN
    OBVIOUS
  <2> QED  BY <2>1, FlowBounds DEF NoOrder, Orders
<1>5. TypeOK
  BY <1>1, <1>2, <1>3, <1>4, NoBucketOK DEF TypeOK, Screens, Orders
<1>6. BucketOK(bucket, loading, target, completeDonation)
  BY <1>1, NoBucketOK
<1>7. ScreenOK
  BY <1>1 DEF ScreenOK, Working
<1>8. AllDistinct /\ SavedAmountIsKept
  BY <1>1, NoBucketOK DEF AllDistinct, Distinct, SavedAmountIsKept, Saved
<1> QED  BY <1>5, <1>6, <1>7, <1>8 DEF Inv

LEMMA StepInv ==
    ASSUME Inv, [Next]_vars
    PROVE  Inv' /\ (UNCHANGED vars \/ OnceStep)
<1>1. CASE UNCHANGED vars
  <2> USE <1>1 DEF vars, flowVars, bucketVars, managerVars, serverVars
  <2>1. TypeOK'
    BY DEF Inv, TypeOK
  <2>2. BucketOK(bucket', loading', target', completeDonation')
    BY DEF Inv
  <2>3. ScreenOK'
    BY DEF Inv, ScreenOK
  <2>4. AllDistinct'
    BY DonatesSame DEF Inv, AllDistinct
  <2>5. SavedAmountIsKept'
    BY DEF Inv, SavedAmountIsKept, Saved
  <2> QED  BY <2>1, <2>2, <2>3, <2>4, <2>5 DEF Inv
<1>2. CASE Next
  <2>1. CASE \/ \E t \in Targets : DonatePressed(t)
             \/ ChoiceClosed
             \/ \E v \in minAmount .. MaxAmount : SliderValueChanged(v)
             \/ AdjustBack \/ AmountContinue \/ IntroBack
             \/ EditButtonPressed \/ TipsClosed
    BY <2>1, ChoosingStep
  <2>2. CASE \/ \E type \in BOOLEAN : DonateStepOne(type)
             \/ \E ok \in BOOLEAN : ResetAnswered(ok)
             \/ CompleteDonationButtonPressed \/ AdjustActiveDonationsButtonPressed
             \/ AdjustContinue \/ CreateButtonPressed
    BY <2>2, OpeningStep
  <2>3. CASE LoadAnswered
    BY <2>3, AnswerStep
  <2>4. CASE \/ \E i \in DOMAIN bucket.rows : \E v \in Amounts : SliderMoved(i, v)
             \/ SliderEnded
             \/ \E i \in DOMAIN bucket.rows : DeleteRow(i)
             \/ EditContinue \/ EditBack
    BY <2>4, SlidingStep
  <2>5. CASE CompleteButtonPressed \/ KeepBrowsingButtonPressed \/ BucketBack
    BY <2>5, SavingStep
  <2>6. CASE \/ \E tips \in 0 .. MaxTips : DonateButtonPressed(tips)
             \/ ConfirmBack
    BY <2>6, ConfirmingStep
  <2>7. CASE CheckoutSucceeds
    BY <2>7, CheckoutStep
  <2>8. CASE BackToHomeButtonPressed
    BY <2>8, HomeStep
  <2> QED  BY <1>2, <2>1, <2>2, <2>3, <2>4, <2>5, <2>6, <2>7, <2>8, Zenon DEF Next
<1> QED  BY <1>1, <1>2

LEMMA FlowInvariant == Spec => []Inv
  BY InitInv, StepInv, PTL DEF Spec

-----------------------------------------------------------------------------
(* Whatever is pressed and answered in whatever order, screens, amounts,   *)
(* rows, limits of the sliders, saved bucket and documents stay what they  *)
(* are declared to be, and no amount is negative                           *)
(* (MyBucketViewController.swift, UserManager.swift).                      *)
THEOREM FlowTypesKept == Spec => []TypeOK
<1>1. Inv => TypeOK
  BY DEF Inv
<1> QED  BY <1>1, FlowInvariant, PTL

(* "Proceed to Checkout" can be pressed exactly when the rows of the table *)
(* add up to the amount: no load, move of a slider, deletion or edit       *)
(* leaves the button as it was (MyBucketViewController.swift:188-204).     *)
THEOREM FlowGateIsFresh == Spec => []GateIsFresh
<1>1. Inv => GateIsFresh
  BY DEF Inv, ScreenOK, Working, Gate, GateIsFresh
<1> QED  BY <1>1, FlowInvariant, PTL

(* The table has one row for an organisation, however the target's         *)
(* organisations, the pledges, the saved bucket and a failed or partial    *)
(* load overlap (MyBucketViewController.swift:108-157).                    *)
THEOREM FlowRowsAreDistinct == Spec => []RowsAreDistinct
<1>1. Inv => RowsAreDistinct
  BY DEF Inv, AllDistinct, RowsAreDistinct
<1> QED  BY <1>1, FlowInvariant, PTL

(* Each pledge the monthly screen has loaded is handed to the checkout     *)
(* exactly once, changed, kept or stopped: no deletion loses one and no    *)
(* reload doubles one (MyBucketViewController.swift:206-224).              *)
THEOREM FlowLoadedPledgesHandedOver == Spec => []LoadedPledgesHandedOver
<1>1. ASSUME Inv, screen = "confirm", ~order.once, Distinct(bucket.donates),
             NEW d \in ToSet(bucket.donates)
      PROVE  Cardinality({k \in DOMAIN order.items : order.items[k].id = d.id}) = 1
  <2>1. /\ bucket \in Bucket /\ ~bucket.once /\ order.items = ItemsToPass(bucket)
        /\ AreDonates(bucket.donates)
        /\ bucket.donates # <<>> => RowsFit(bucket.rows, bucket.donates)
    BY <1>1, TypesNow DEF Inv, ScreenOK, BucketOK
  <2>2. bucket.donates # <<>>
    BY <1>1 DEF ToSet
  <2>3. Cardinality({k \in DOMAIN ItemsToPass(bucket) : ItemsToPass(bucket)[k].id = d.id}) = 1
    BY <1>1, <2>1, <2>2, HandedOnce
  <2> QED  BY <2>1, <2>3
<1>2. Inv => LoadedPledgesHandedOver
  BY <1>1 DEF LoadedPledgesHandedOver
<1> QED  BY <1>2, FlowInvariant, PTL

(* A saved monthly bucket is reopened with the amount it was divided for:  *)
(* the amount kept beside it is never that of another bucket               *)
(* (MyBucketViewController.swift:60,239-240,250-251).                      *)
THEOREM FlowSavedAmountIsKept == Spec => []SavedAmountIsKept
<1>1. Inv => SavedAmountIsKept
  BY DEF Inv
<1> QED  BY <1>1, FlowInvariant, PTL

(* A one-time bucket that has loaded lists every organisation "Donate" was *)
(* pressed on, whatever bucket was saved before                            *)
(* (MyBucketViewController.swift:111-131).                                 *)
THEOREM FlowOnceListsTarget == Spec => OnceListsTarget
<1>1. Inv /\ [Next]_vars => [OnceStep]_vars
  BY StepInv
<1>2. [OnceStep]_vars =>
         [bucket'.once /\ bucket' # bucket /\ loading' = "nothing"
             /\ (loading = "organisations" \/ bucket = NoBucket)
             /\ bucket'.organizations # None
          => ToSet(bucket'.wanted) \subseteq OrgsOf(bucket'.rows)]_vars
  BY DEF OnceStep
<1> QED  BY <1>1, <1>2, FlowInvariant, PTL DEF Spec, OnceListsTarget

=============================================================================
