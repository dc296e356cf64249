------------------------ MODULE TableEditor_proofs ------------------------
(***************************************************************************)
(* Proofs about the editable table, whatever is edited, saved, refused and *)
(* fetched: the change log names the rows that are shown as changed, the   *)
(* rows of a screen that nothing disturbed are the table, and a save that  *)
(* ends well makes the table what was shown.                               *)
(*                                                                         *)
(* The invariant IInv says what a callback finds: an exact screen          *)
(* (log and rows agree, every index of data has its object, every object   *)
(* its two columns), a table with keys out of Ids, and calls on their way  *)
(* whose statements, records and rows have their shape, since a record     *)
(* that comes back late is merged into rows then.  Each operation on a     *)
(* screen gives an exact screen (RemoveRowIsExact ...) that keeps what     *)
(* came from the table; deleting a selection is a loop of them.            *)
(* MInv relates screen, save and table: in the middle of a save a row      *)
(* whose statement was executed stands in the table as it was returned,    *)
(* any other row that is not new as it came.                               *)
(* Induction over the turns of a loop is done by the smallest              *)
(* counterexample: the library's induction theorems take an operator,      *)
(* which the provers cannot be given.                                      *)
(***************************************************************************)
EXTENDS TableEditor, FiniteSetTheorems, WellFoundedInduction, TLAPS

Elems(s) == {s[k] : k \in DOMAIN s}
Inserted(s, x, i) == SubSeq(s, 1, i - 1) \o <<x>> \o SubSeq(s, i, Len(s))

\* The values of loops of N turns that start with b and do g[n] in their n-th turn.
Loops(V, N, g, b) == {f \in [0..N -> V] : f[0] = b /\ \A n \in 1..N : f[n] = g[n][f[n - 1]]}

(* A screen on which the change log names the rows that differ. *)

RowT == [raw : [Cols -> Values], change : Changes \cup {NoChange}, isNew : BOOLEAN, isRemoved : BOOLEAN]
Sheets == [obj : Seq(RowT), data : Seq(Nat), log : Seq(Nat)]
Exact(s) ==
  /\ Elems(s.data) \subseteq DOMAIN s.obj
  /\ Elems(s.log) = {r \in Elems(s.data) : s.obj[r].change # NoChange}
Exacts == {s \in Sheets : Exact(s)}

(* What edits leave alone on a screen: the rows that came from the table, with the values they *)
(* came with.  No change is logged twice, and a new row has no values of its own and goes when *)
(* it is removed.                                                                              *)

Distinct(s) == \A j, k \in DOMAIN s : s[j] = s[k] => j = k
Stored(s) == {r \in Elems(s.data) : ~s.obj[r].isNew}
Marked(s) == \A r \in Elems(s.data) : s.obj[r].isNew \/ s.obj[r].isRemoved => r \in Elems(s.log)
NewRows(s) == \A r \in Elems(s.data) :
                s.obj[r].isNew => ~s.obj[r].isRemoved /\ s.obj[r].raw = [c \in Cols |-> Undef]
Keeps(s, t) ==
  /\ Distinct(s.log) => Distinct(t.log)
  /\ Stored(t) = Stored(s)
  /\ \A r \in Stored(s) : t.obj[r].raw = s.obj[r].raw
  /\ Marked(s) /\ NewRows(s) => NewRows(t)

(* What is on its way to or from the table. *)

Tables == UNION {[C -> Values] : C \in SUBSET Ids}
PlanT == [row : Nat, where : Values, values : Changes, op : {"INSERT", "DELETE", "UPDATE"}]
SaveT == [state : {"run", "failed", "done"}, plans : Seq(PlanT), returned : Seq(Changes), instance : Nat]
FetchT == [state : {"sent", "read", "shown"}, rows : Seq(Ids \X Values), alone : BOOLEAN]

IInv ==
  /\ Screen \in Exacts
  /\ table \in Tables
  /\ focus # None => focus \in Nat \ {0}
  /\ instance \in Nat
  /\ saves \in Seq(SaveT)
  /\ fetch \in Seq(FetchT)

-----------------------------------------------------------------------------
(* Induction and recursion over numbers *)

(* A set of naturals that is not empty has a smallest member. *)
LEMMA Smallest ==
  ASSUME NEW T \in SUBSET Nat, T # {}
  PROVE  \E m \in T : \A k \in T : m <= k
<1>1. IsWellFoundedOn(OpToRel(<, Nat), Nat)
  BY NatLessThanWellFounded, Zenon
<1>2. PICK m \in T : \A y \in T : ~(<<y, m>> \in OpToRel(<, Nat))
  BY <1>1, WFMin, Zenon
<1>3. \A y \in T : ~(y < m)
  BY <1>2, Zenon DEF OpToRel
<1>4. QED
  BY <1>3

(* A set of naturals that has 0 and every successor is Nat. *)
LEMMA Induction ==
  ASSUME NEW T \in SUBSET Nat, 0 \in T, \A n \in T : n + 1 \in T
  PROVE  T = Nat
<1>1. SUFFICES ASSUME Nat \ T # {} PROVE FALSE
  OBVIOUS
<1>2. PICK m \in Nat \ T : \A k \in Nat \ T : m <= k
  BY <1>1, Smallest
<1>3. m # 0 /\ m - 1 \in Nat /\ m - 1 \in T
  BY <1>2
<1>4. (m - 1) + 1 = m
  BY <1>2
<1>5. QED
  BY <1>2, <1>3, <1>4

(* Every loop has values. *)
LEMMA Loop ==
  ASSUME NEW V, NEW N \in Nat, NEW g \in [1..N -> [V -> V]], NEW b \in V
  PROVE  Loops(V, N, g, b) # {}
<1> DEFINE Runs(m, f) == f[0] = b /\ \A n \in 1..m : f[n] = g[n][f[n - 1]]
           T == {m \in Nat : m <= N => \E f \in [0..m -> V] : Runs(m, f)}
<1>1. 0 \in T
  <2>1. [n \in 0..0 |-> b] \in [0..0 -> V] /\ Runs(0, [n \in 0..0 |-> b])
    OBVIOUS
  <2>2. QED
    BY <2>1
<1>2. ASSUME NEW m \in T PROVE m + 1 \in T
  <2>1. SUFFICES ASSUME m + 1 <= N PROVE \E f \in [0..(m + 1) -> V] : Runs(m + 1, f)
    OBVIOUS
  <2>2. PICK f \in [0..m -> V] : Runs(m, f)
    BY <2>1
  <2>3. m + 1 \in 1..N /\ f[m] \in V
    BY <2>1, <2>2
  <2> DEFINE h == [n \in 0..(m + 1) |-> IF n = m + 1 THEN g[m + 1][f[m]] ELSE f[n]]
  <2>4. h \in [0..(m + 1) -> V]
    BY <2>2, <2>3
  <2>5. Runs(m + 1, h)
    <3>1. h[0] = b
      BY <2>2
    <3>2. \A n \in 1..m : h[n] = f[n] /\ h[n - 1] = f[n - 1]
      OBVIOUS
    <3>3. h[m + 1] = g[m + 1][f[m]] /\ h[(m + 1) - 1] = f[m]
      OBVIOUS
    <3>4. \A n \in 1..(m + 1) : n \in 1..m \/ n = m + 1
      OBVIOUS
    <3> HIDE DEF h
    <3>5. QED
      BY <2>2, <3>1, <3>2, <3>3, <3>4
  <2>6. QED
    BY <2>4, <2>5
<1>3. T = Nat
  <2> HIDE DEF T
  <2>1. T \in SUBSET Nat
    BY DEF T
  <2>2. QED
    BY <1>1, <1>2, <2>1, Induction
<1>4. N \in T
  <2> HIDE DEF T
  <2>1. QED
    BY <1>3
<1>5. QED
  BY <1>4 DEF Loops

-----------------------------------------------------------------------------
(* Sequences *)

(* Appending adds an element. *)
LEMMA ElemsAppend ==
  ASSUME NEW V, NEW s \in Seq(V), NEW x \in V
  PROVE  /\ Append(s, x) \in Seq(V) /\ Elems(Append(s, x)) = Elems(s) \cup {x}
         /\ Distinct(s) /\ x \notin Elems(s) => Distinct(Append(s, x))
<1>1. /\ Append(s, x) \in Seq(V) /\ Len(Append(s, x)) = Len(s) + 1
      /\ \A k \in 1..Len(s) : Append(s, x)[k] = s[k]
      /\ Append(s, x)[Len(s) + 1] = x
  OBVIOUS
<1>2. DOMAIN Append(s, x) = 1..Len(s) \cup {Len(s) + 1} /\ DOMAIN s = 1..Len(s)
  BY <1>1
<1>3. Elems(Append(s, x)) = Elems(s) \cup {x}
  BY <1>1, <1>2, Zenon DEF Elems
<1>4. ASSUME Distinct(s), x \notin Elems(s) PROVE Distinct(Append(s, x))
  BY <1>1, <1>2, <1>4 DEF Distinct, Elems
<1>5. QED
  BY <1>1, <1>3, <1>4

(* Without runs through s once. *)
LEMMA WithoutLoop ==
  ASSUME NEW V, NEW s \in Seq(V), NEW S
  PROVE  \E f : /\ f[0] = <<>> /\ Without(s, S) = f[Len(s)]
                /\ \A n \in 1..Len(s) : f[n] = IF s[n] \in S THEN f[n - 1] ELSE Append(f[n - 1], s[n])
<1> DEFINE N == Len(s)
           W == Seq(V)
           Turn(n, t) == IF s[n] \in S THEN t ELSE Append(t, s[n])
           g == [n \in 1..N |-> [t \in W |-> Turn(n, t)]]
           Body(f) == [n \in 0..N |-> IF n = 0 THEN <<>> ELSE Turn(n, f[n - 1])]
           kept == CHOOSE f : f = Body(f)
<1>1. N \in Nat /\ <<>> \in W /\ \A n \in 1..N, t \in W : Turn(n, t) \in W
  OBVIOUS
<1>2. Without(s, S) = kept[N]
  BY DEF Without
<1>3. kept[0] = <<>> /\ \A n \in 1..N : kept[n] = Turn(n, kept[n - 1])
  <2> HIDE DEF N, W, Turn
  <2>1. g \in [1..N -> [W -> W]]
    BY <1>1
  <2>2. PICK f \in [0..N -> W] : f[0] = <<>> /\ \A n \in 1..N : f[n] = g[n][f[n - 1]]
    <3> HIDE DEF g
    <3>1. Loops(W, N, g, <<>>) # {}
      BY <1>1, <2>1, Loop
    <3>2. QED
      BY <3>1 DEF Loops
  <2>3. \A n \in 1..N : n - 1 \in 0..N
    BY <1>1
  <2>4. \A n \in 1..N : f[n] = Turn(n, f[n - 1])
    BY <2>2, <2>3
  <2>5. f = Body(f)
    BY <2>2, <2>4
  <2>6. kept = Body(kept)
    <3>1. \E h : h = Body(h)
      BY <2>5, Zenon
    <3> HIDE DEF Body
    <3>2. QED
      BY <3>1, Zenon
  <2>7. kept[0] = <<>>
    <3> HIDE DEF kept
    <3>1. QED
      BY <1>1, <2>6
  <2>8. ASSUME NEW n \in 1..N PROVE kept[n] = Turn(n, kept[n - 1])
    <3> HIDE DEF kept
    <3>1. QED
      BY <1>1, <2>6
  <2>9. QED
    BY <2>7, <2>8
<1>4. QED
  <2> HIDE DEF kept
  <2>1. QED
    BY <1>2, <1>3, Zenon

(* What is left of s, in any order. *)
LEMMA WithoutElems ==
  ASSUME NEW V, NEW s \in Seq(V), NEW S
  PROVE  /\ Without(s, S) \in Seq(V) /\ Elems(Without(s, S)) = Elems(s) \ S
         /\ Distinct(s) => Distinct(Without(s, S))
<1>1. PICK f : /\ f[0] = <<>> /\ Without(s, S) = f[Len(s)]
               /\ \A n \in 1..Len(s) : f[n] = IF s[n] \in S THEN f[n - 1] ELSE Append(f[n - 1], s[n])
  BY WithoutLoop
<1> DEFINE First(n) == {s[k] : k \in 1..n}
           Good(n) == f[n] \in Seq(V) /\ Elems(f[n]) = First(n) \ S /\ (Distinct(s) => Distinct(f[n]))
           T == {n \in Nat : n <= Len(s) => Good(n)}
<1>2. 0 \in T
  <2>1. <<>> \in Seq(V) /\ DOMAIN <<>> = {} /\ First(0) = {}
    OBVIOUS
  <2>2. Elems(<<>>) = {} /\ Distinct(<<>>)
    BY <2>1 DEF Elems, Distinct
  <2> HIDE DEF First
  <2>3. QED
    BY <1>1, <2>1, <2>2
<1>3. ASSUME NEW n \in T PROVE n + 1 \in T
  <2>1. SUFFICES ASSUME n + 1 <= Len(s) PROVE Good(n + 1)
    OBVIOUS
  <2>2. Good(n) /\ n + 1 \in 1..Len(s) /\ (n + 1) - 1 = n /\ s[n + 1] \in V
    BY <2>1
  <2>3. f[n + 1] = IF s[n + 1] \in S THEN f[n] ELSE Append(f[n], s[n + 1])
    BY <1>1, <2>2
  <2>4. First(n + 1) = First(n) \cup {s[n + 1]}
    <3>1. 1..(n + 1) = (1..n) \cup {n + 1}
      BY <2>2
    <3>2. QED
      BY <3>1
  <2>5. /\ Append(f[n], s[n + 1]) \in Seq(V) /\ Elems(Append(f[n], s[n + 1])) = Elems(f[n]) \cup {s[n + 1]}
        /\ Distinct(f[n]) /\ s[n + 1] \notin Elems(f[n]) => Distinct(Append(f[n], s[n + 1]))
    BY <2>2, ElemsAppend
  <2>6. Distinct(s) => s[n + 1] \notin First(n)
    BY <2>1, <2>2 DEF Distinct
  <2> HIDE DEF First
  <2>7. QED
    BY <2>2, <2>3, <2>4, <2>5, <2>6
<1>4. T = Nat
  <2> HIDE DEF T
  <2>1. T \in SUBSET Nat
    BY DEF T
  <2>2. QED
    BY <1>2, <1>3, <2>1, Induction
<1>5. Good(Len(s)) /\ First(Len(s)) = Elems(s)
  <2>1. Len(s) \in Nat /\ DOMAIN s = 1..Len(s)
    OBVIOUS
  <2>2. Len(s) \in T
    <3> HIDE DEF T
    <3>1. QED
      BY <1>4, <2>1
  <2>3. Good(Len(s))
    <3> HIDE DEF Good
    <3>1. QED
      BY <2>1, <2>2
  <2>4. QED
    BY <2>1, <2>3 DEF Elems
<1>6. QED
  BY <1>1, <1>5

(* A sequence after another one. *)
LEMMA ElemsConcat ==
  ASSUME NEW V, NEW s \in Seq(V), NEW t \in Seq(V)
  PROVE  s \o t \in Seq(V) /\ Elems(s \o t) = Elems(s) \cup Elems(t)
<1>1. /\ s \o t \in Seq(V) /\ Len(s \o t) = Len(s) + Len(t)
      /\ \A k \in 1..Len(s) : (s \o t)[k] = s[k]
      /\ \A k \in 1..Len(t) : (s \o t)[Len(s) + k] = t[k]
  OBVIOUS
<1>2. DOMAIN s = 1..Len(s) /\ DOMAIN t = 1..Len(t) /\ DOMAIN (s \o t) = 1..(Len(s) + Len(t))
  BY <1>1
<1>3. ASSUME NEW k \in DOMAIN (s \o t)
      PROVE  k \in DOMAIN s \/ (k - Len(s) \in DOMAIN t /\ Len(s) + (k - Len(s)) = k)
  BY <1>2
<1>4. \A k \in DOMAIN t : Len(s) + k \in DOMAIN (s \o t)
  BY <1>2
<1>5. \A k \in DOMAIN s : k \in DOMAIN (s \o t)
  BY <1>2
<1>6. Elems(s \o t) \subseteq Elems(s) \cup Elems(t)
  <2>1. ASSUME NEW k \in DOMAIN (s \o t) PROVE (s \o t)[k] \in Elems(s) \cup Elems(t)
    BY <1>1, <1>2, <1>3 DEF Elems
  <2>2. QED
    BY <2>1 DEF Elems
<1>7. Elems(s) \cup Elems(t) \subseteq Elems(s \o t)
  BY <1>1, <1>2, <1>4, <1>5 DEF Elems
<1>8. QED
  BY <1>1, <1>6, <1>7

(* An element put between the others. *)
LEMMA ElemsInsert ==
  \A V : \A s \in Seq(V), x \in V : \A i \in 1..(Len(s) + 1) :
    Inserted(s, x, i) \in Seq(V) /\ Elems(Inserted(s, x, i)) = Elems(s) \cup {x}
<1> TAKE V
<1> TAKE s \in Seq(V), x \in V
<1> TAKE i \in 1..(Len(s) + 1)
<1> DEFINE a == SubSeq(s, 1, i - 1)
           b == SubSeq(s, i, Len(s))
<1>1. a \in Seq(V) /\ Len(a) = i - 1 /\ \A k \in 1..(i - 1) : a[k] = s[k]
  OBVIOUS
<1>2. b \in Seq(V) /\ Len(b) = Len(s) - i + 1 /\ \A k \in 1..Len(b) : b[k] = s[i + k - 1]
  OBVIOUS
<1>3. <<x>> \in Seq(V) /\ Elems(<<x>>) = {x}
  BY DEF Elems
<1> HIDE DEF a, b
<1>4. DOMAIN a = 1..(i - 1) /\ DOMAIN b = 1..(Len(s) - i + 1) /\ DOMAIN s = 1..Len(s)
  BY <1>1, <1>2
<1>5. Elems(a) \cup Elems(b) = Elems(s)
  <2>1. \A k \in DOMAIN a : k \in DOMAIN s /\ a[k] = s[k]
    BY <1>1, <1>4
  <2>2. ASSUME NEW k \in DOMAIN b PROVE i + k - 1 \in DOMAIN s /\ b[k] = s[i + k - 1]
    <3>1. b[k] = s[i + k - 1]
      BY <1>2, <1>4, <2>2
    <3>2. k \in Int /\ i \in Int /\ k >= 1 /\ i >= 1 /\ k <= Len(s) - i + 1 /\ Len(s) \in Nat
      BY <1>4, <2>2
    <3>3. i + k - 1 \in 1..Len(s)
      BY <3>2
    <3>4. QED
      BY <1>4, <3>1, <3>3
  <2>3. \A k \in DOMAIN s : k \in DOMAIN a \/ (k - i + 1 \in DOMAIN b /\ b[k - i + 1] = s[k])
    <3>1. ASSUME NEW k \in DOMAIN s, k \notin DOMAIN a
          PROVE  k - i + 1 \in 1..Len(b) /\ i + (k - i + 1) - 1 = k
      <4>1. k \in Int /\ i \in Int /\ k <= Len(s) /\ k >= i /\ Len(b) = Len(s) - i + 1 /\ Len(s) \in Nat
        BY <1>2, <1>4, <3>1
      <4>2. QED
        BY <4>1
    <3>2. QED
      BY <1>2, <1>4, <3>1
  <2>4. Elems(a) \subseteq Elems(s)
    BY <2>1 DEF Elems
  <2>5. Elems(b) \subseteq Elems(s)
    BY <2>2 DEF Elems
  <2>6. ASSUME NEW k \in DOMAIN s PROVE s[k] \in Elems(a) \cup Elems(b)
    BY <2>1, <2>3 DEF Elems
  <2>7. QED
    BY <2>4, <2>5, <2>6 DEF Elems
<1>6. a \o <<x>> \in Seq(V) /\ Elems(a \o <<x>>) = Elems(a) \cup {x}
  <2> DEFINE one == <<x>>
  <2>1. one \in Seq(V) /\ Elems(one) = {x}
    BY <1>3
  <2> HIDE DEF one
  <2>2. a \o one \in Seq(V) /\ Elems(a \o one) = Elems(a) \cup Elems(one)
    BY <1>1, <2>1, ElemsConcat
  <2>3. QED
    BY <2>1, <2>2 DEF one
<1>7. (a \o <<x>>) \o b \in Seq(V) /\ Elems((a \o <<x>>) \o b) = Elems(a) \cup {x} \cup Elems(b)
  <2> DEFINE ax == a \o <<x>>
  <2>1. ax \in Seq(V) /\ Elems(ax) = Elems(a) \cup {x}
    BY <1>6
  <2> HIDE DEF ax
  <2>2. ax \o b \in Seq(V) /\ Elems(ax \o b) = Elems(ax) \cup Elems(b)
    BY <1>2, <2>1, ElemsConcat
  <2>3. QED
    BY <2>1, <2>2 DEF ax
<1>8. QED
  BY <1>5, <1>7 DEF Inserted, a, b

-----------------------------------------------------------------------------
(* Operations on a screen *)

(* The changes that the editor makes are changes. *)
LEMMA SomeChanges ==
  /\ Empty \in Changes
  /\ \A c \in Cols, v \in Values : [d \in {c} |-> v] \in Changes
  /\ \A C \in SUBSET Cols : \A f \in [C -> Values] : f \in Changes
  /\ \A a \in Changes : DOMAIN a \subseteq Cols /\ a \in [DOMAIN a -> Values]
  /\ NoChange \notin Changes
<1>1. \A C \in SUBSET Cols : \A f \in [C -> Values] : f \in Changes
  BY DEF Changes
<1>2. Empty \in [{} -> Values] /\ {} \in SUBSET Cols
  BY DEF Empty
<1>3. \A c \in Cols, v \in Values : {c} \in SUBSET Cols /\ [d \in {c} |-> v] \in [{c} -> Values]
  OBVIOUS
<1>4. \A a \in Changes : DOMAIN a \subseteq Cols /\ a \in [DOMAIN a -> Values]
  BY DEF Changes
<1>5. QED
  BY <1>1, <1>2, <1>3, <1>4, NoChangeAssumption

(* A change over another one, or over a row. *)
LEMMA Merged ==
  ASSUME NEW a \in Changes, NEW b \in Changes
  PROVE  Over(a, b) \in Changes /\ DOMAIN Over(a, b) = DOMAIN a \cup DOMAIN b
<1>1. Over(a, b) = [d \in DOMAIN a \cup DOMAIN b |-> IF d \in DOMAIN a THEN a[d] ELSE b[d]]
  BY DEF Over
<1>2. Over(a, b) \in [DOMAIN a \cup DOMAIN b -> Values]
  BY <1>1, SomeChanges
<1>3. DOMAIN a \cup DOMAIN b \in SUBSET Cols
  BY SomeChanges
<1>4. QED
  BY <1>1, <1>2, <1>3, SomeChanges

(* A record of both columns. *)
LEMMA WholeRow ==
  ASSUME NEW i \in Values, NEW v \in Values
  PROVE  /\ [id |-> i, val |-> v] \in [Cols -> Values] /\ [id |-> i, val |-> v] \in Changes
<1>1. [id |-> i, val |-> v] \in [Cols -> Values]
  BY DEF Cols
<1>2. QED
  BY <1>1, SomeChanges

(* A screen is exact if another row than before was put at r and the log follows. *)
LEMMA RowPut ==
  ASSUME NEW s \in Exacts, NEW t \in Sheets, NEW r \in Elems(s.data),
         t.data = s.data, DOMAIN t.obj = DOMAIN s.obj, \A q \in DOMAIN s.obj \ {r} : t.obj[q] = s.obj[q],
         Elems(t.log) = IF t.obj[r].change = NoChange THEN Elems(s.log) \ {r} ELSE Elems(s.log) \cup {r}
  PROVE  t \in Exacts
BY DEF Exacts, Exact

(* What an element of a sequence is. *)
LEMMA SheetFacts ==
  ASSUME NEW s \in Exacts
  PROVE  /\ s \in Sheets /\ Exact(s) /\ s.obj \in Seq(RowT) /\ s.data \in Seq(Nat) /\ s.log \in Seq(Nat)
         /\ s = [obj |-> s.obj, data |-> s.data, log |-> s.log]
         /\ \A i \in DOMAIN s.data : s.data[i] \in Elems(s.data) /\ s.data[i] \in DOMAIN s.obj
         /\ \A r \in DOMAIN s.obj : s.obj[r] \in RowT /\ r \in Nat
<1>1. s \in Sheets /\ Exact(s)
  BY DEF Exacts
<1>2. /\ s.obj \in Seq(RowT) /\ s.data \in Seq(Nat) /\ s.log \in Seq(Nat)
      /\ s = [obj |-> s.obj, data |-> s.data, log |-> s.log]
  BY <1>1 DEF Sheets
<1>3. \A i \in DOMAIN s.data : s.data[i] \in Elems(s.data)
  BY DEF Elems
<1>4. \A r \in DOMAIN s.obj : s.obj[r] \in RowT /\ r \in Nat
  BY <1>2
<1>5. QED
  BY <1>1, <1>2, <1>3, <1>4 DEF Exact

(* Another row at r. *)
LEMMA PutObj ==
  ASSUME NEW s \in Exacts, NEW r \in Elems(s.data), NEW row \in RowT, NEW l \in Seq(Nat),
         Elems(l) = IF row.change = NoChange THEN Elems(s.log) \ {r} ELSE Elems(s.log) \cup {r},
         Distinct(s.log) => Distinct(l),
         row.raw = s.obj[r].raw, row.isNew = s.obj[r].isNew,
         row.isNew /\ row.isRemoved => s.obj[r].isRemoved \/ r \notin Elems(s.log)
  PROVE  LET t == [obj |-> [s.obj EXCEPT ![r] = row], data |-> s.data, log |-> l]
         IN t \in Exacts /\ Keeps(s, t)
<1> DEFINE objs == [s.obj EXCEPT ![r] = row]
           t == [obj |-> objs, data |-> s.data, log |-> l]
<1>1. r \in DOMAIN s.obj
  BY SheetFacts DEF Exact
<1>2. objs \in Seq(RowT)
  BY <1>1, SheetFacts
<1>3. DOMAIN objs = DOMAIN s.obj /\ objs[r] = row /\ \A q \in DOMAIN s.obj \ {r} : objs[q] = s.obj[q]
  BY <1>1
<1> HIDE DEF objs
<1>4. t \in Sheets
  BY <1>2, SheetFacts DEF Sheets
<1>5. t.data = s.data /\ t.obj = objs /\ t.log = l
  OBVIOUS
<1> HIDE DEF t
<1>6. t \in Exacts
  BY <1>3, <1>4, <1>5, RowPut
<1>7. Keeps(s, t)
  <2>1. Stored(t) = Stored(s)
    BY <1>1, <1>3, <1>5, SheetFacts DEF Stored, Exact
  <2>2. \A q \in Stored(s) : t.obj[q].raw = s.obj[q].raw
    BY <1>1, <1>3, <1>5, SheetFacts DEF Stored, Exact
  <2>3. Marked(s) /\ NewRows(s) => NewRows(t)
    BY <1>1, <1>3, <1>5, SheetFacts DEF Marked, NewRows, Exact
  <2>4. QED
    BY <1>5, <2>1, <2>2, <2>3 DEF Keeps
<1>8. QED
  BY <1>6, <1>7 DEF t, objs

(* A screen keeps what it has. *)
LEMMA KeepsItself == ASSUME NEW s PROVE Keeps(s, s)
BY DEF Keeps

(* Setting a value back takes its change, and the last one takes the row, out. *)
LEMMA SetBackIsExact ==
  ASSUME NEW s \in Exacts, NEW r \in Elems(s.data), NEW c \in Cols
  PROVE  SetBack(s, r, c) \in Exacts /\ Keeps(s, SetBack(s, r, c))
<1> DEFINE row == s.obj[r]
           rest == [d \in DOMAIN row.change \ {c} |-> row.change[d]]
<1>1. r \in DOMAIN s.obj /\ row \in RowT /\ row.change \in Changes \cup {NoChange} /\ r \in Nat
  BY SheetFacts DEF Exact, RowT
<1>2. CASE row.change = NoChange \/ c \notin DOMAIN row.change
  BY <1>2, KeepsItself DEF SetBack
<1>3. CASE row.change # NoChange /\ c \in DOMAIN row.change /\ DOMAIN rest = {}
  <2> DEFINE new == [row EXCEPT !.change = NoChange]
             l == Without(s.log, {r})
  <2>1. new \in RowT /\ new.change = NoChange
        /\ new.raw = row.raw /\ new.isNew = row.isNew /\ new.isRemoved = row.isRemoved
    BY <1>1 DEF RowT
  <2>2. l \in Seq(Nat) /\ Elems(l) = Elems(s.log) \ {r} /\ (Distinct(s.log) => Distinct(l))
    BY SheetFacts, WithoutElems
  <2>3. SetBack(s, r, c) = [s EXCEPT !.obj[r].change = NoChange, !.log = Without(@, {r})]
    BY <1>3 DEF SetBack
  <2>4. SetBack(s, r, c) = [obj |-> [s.obj EXCEPT ![r] = new], data |-> s.data, log |-> l]
    BY <2>3, SheetFacts
  <2> HIDE DEF new, l
  <2>5. QED
    BY <2>1, <2>2, <2>4, PutObj
<1>4. CASE row.change # NoChange /\ c \in DOMAIN row.change /\ DOMAIN rest # {}
  <2> DEFINE new == [row EXCEPT !.change = rest]
  <2>1. rest \in Changes
    <3>1. DOMAIN row.change \subseteq Cols /\ row.change \in [DOMAIN row.change -> Values]
      BY <1>1, <1>4, SomeChanges
    <3>2. rest \in [DOMAIN row.change \ {c} -> Values] /\ DOMAIN row.change \ {c} \in SUBSET Cols
      BY <3>1
    <3> HIDE DEF rest
    <3>3. QED
      BY <3>2, SomeChanges
  <2>2. new \in RowT /\ new.change = rest /\ rest # NoChange
        /\ new.raw = row.raw /\ new.isNew = row.isNew /\ new.isRemoved = row.isRemoved
    <3> HIDE DEF rest
    <3>1. QED
      BY <1>1, <2>1, SomeChanges DEF RowT
  <2>3. SetBack(s, r, c) = [s EXCEPT !.obj[r].change = rest]
    BY <1>4 DEF SetBack
  <2>4. SetBack(s, r, c) = [obj |-> [s.obj EXCEPT ![r] = new], data |-> s.data, log |-> s.log]
    <3> HIDE DEF rest
    <3>1. QED
      BY <2>3, SheetFacts
  <2>5. Elems(s.log) = Elems(s.log) \cup {r}
    BY <1>1, <1>4, SheetFacts DEF Exact
  <2> HIDE DEF new, rest
  <2>6. /\ s.log \in Seq(Nat) /\ new \in RowT
        /\ new.raw = s.obj[r].raw /\ new.isNew = s.obj[r].isNew /\ new.isRemoved = s.obj[r].isRemoved
        /\ Elems(s.log) = IF new.change = NoChange THEN Elems(s.log) \ {r} ELSE Elems(s.log) \cup {r}
    BY <2>2, <2>5, SheetFacts
  <2> DEFINE t == [obj |-> [s.obj EXCEPT ![r] = new], data |-> s.data, log |-> s.log]
  <2>7. t \in Exacts /\ Keeps(s, t)
    BY <2>6, PutObj
  <2>8. QED
    BY <2>4, <2>7
<1>5. QED
  BY <1>2, <1>3, <1>4

(* Leaving a cell, whatever was typed. *)
LEMMA ChangeValueIsExact ==
  ASSUME NEW s \in Exacts, NEW i, NEW c \in Cols, NEW v \in Values
  PROVE  ChangeValue(s, i, c, v) \in Exacts /\ Keeps(s, ChangeValue(s, i, c, v))
<1> DEFINE r == s.data[i]
           row == s.obj[r]
           new == [d \in {c} |-> v]
<1>1. CASE i \notin DOMAIN s.data
  BY <1>1, KeepsItself DEF ChangeValue
<1>2. CASE i \in DOMAIN s.data
  <2>1. r \in Elems(s.data) /\ r \in DOMAIN s.obj /\ row \in RowT /\ r \in Nat
        /\ row.change \in Changes \cup {NoChange}
    BY <1>2, SheetFacts DEF RowT
  <2>2. new \in Changes
    BY SomeChanges
  <2>3. CASE LooselyEqual(row.raw[c], v)
    BY <1>2, <2>1, <2>3, SetBackIsExact DEF ChangeValue
  <2>4. CASE ~LooselyEqual(row.raw[c], v) /\ row.change # NoChange
    <3> DEFINE both == Over(new, row.change)
               put == [row EXCEPT !.change = both]
    <3>1. both \in Changes
      <4> HIDE DEF new
      <4>1. QED
        BY <2>1, <2>2, <2>4, Merged
    <3>2. ChangeValue(s, i, c, v) = [s EXCEPT !.obj[r].change = both]
      BY <1>2, <2>4 DEF ChangeValue
    <3> HIDE DEF both
    <3>3. put \in RowT /\ put.change = both /\ both # NoChange
          /\ put.raw = row.raw /\ put.isNew = row.isNew /\ put.isRemoved = row.isRemoved
      BY <2>1, <3>1, SomeChanges DEF RowT
    <3>4. ChangeValue(s, i, c, v) = [obj |-> [s.obj EXCEPT ![r] = put], data |-> s.data, log |-> s.log]
      BY <3>2, SheetFacts
    <3>5. Elems(s.log) = Elems(s.log) \cup {r}
      BY <2>1, <2>4, SheetFacts DEF Exact
    <3> HIDE DEF put, r
    <3>6. /\ s.log \in Seq(Nat) /\ put \in RowT /\ r \in Elems(s.data)
          /\ put.raw = s.obj[r].raw /\ put.isNew = s.obj[r].isNew /\ put.isRemoved = s.obj[r].isRemoved
          /\ Elems(s.log) = IF put.change = NoChange THEN Elems(s.log) \ {r} ELSE Elems(s.log) \cup {r}
      BY <2>1, <3>3, <3>5, SheetFacts
    <3> DEFINE t == [obj |-> [s.obj EXCEPT ![r] = put], data |-> s.data, log |-> s.log]
    <3>7. t \in Exacts /\ Keeps(s, t)
      BY <3>6, PutObj
    <3>8. QED
      BY <3>4, <3>7
  <2>5. CASE ~LooselyEqual(row.raw[c], v) /\ row.change = NoChange
    <3> DEFINE put == [row EXCEPT !.change = new]
               l == Append(s.log, r)
    <3>1. ChangeValue(s, i, c, v) = [s EXCEPT !.obj[r].change = new, !.log = Append(@, r)]
      BY <1>2, <2>5 DEF ChangeValue
    <3> HIDE DEF new
    <3>2. put \in RowT /\ put.change = new /\ new # NoChange
          /\ put.raw = row.raw /\ put.isNew = row.isNew /\ put.isRemoved = row.isRemoved
      BY <2>1, <2>2, SomeChanges DEF RowT
    <3>3. ChangeValue(s, i, c, v) = [obj |-> [s.obj EXCEPT ![r] = put], data |-> s.data, log |-> l]
      BY <3>1, SheetFacts
    <3>4. l \in Seq(Nat) /\ Elems(l) = Elems(s.log) \cup {r} /\ (Distinct(s.log) => Distinct(l))
      <4>1. r \notin Elems(s.log)
        BY <2>5, SheetFacts DEF Exact
      <4> HIDE DEF r
      <4>2. QED
        BY <2>1, <4>1, SheetFacts, ElemsAppend
    <3> HIDE DEF put, l, r
    <3> DEFINE t == [obj |-> [s.obj EXCEPT ![r] = put], data |-> s.data, log |-> l]
    <3>5. t \in Exacts /\ Keeps(s, t)
      BY <2>1, <3>2, <3>4, PutObj DEF row
    <3>6. QED
      BY <3>3, <3>5
  <2>6. QED
    BY <2>3, <2>4, <2>5
<1>3. QED
  BY <1>1, <1>2

(* A new row is on the screen and in the log. *)
LEMMA InsertRowIsExact ==
  ASSUME NEW s \in Exacts, NEW i \in 1..(Len(s.data) + 1), NEW initial \in Changes
  PROVE  InsertRow(s, i, initial) \in Exacts /\ Keeps(s, InsertRow(s, i, initial))
<1> DEFINE r == Len(s.obj) + 1
           row == Row([c \in Cols |-> Undef], initial, TRUE, FALSE)
           objs == Append(s.obj, row)
           shown == Inserted(s.data, r, i)
           l == Append(s.log, r)
           t == [obj |-> objs, data |-> shown, log |-> l]
<1>1. r \in Nat /\ r \notin DOMAIN s.obj
  BY SheetFacts
<1>2. row \in RowT /\ row.change = initial /\ initial # NoChange
      /\ row.isNew /\ ~row.isRemoved /\ row.raw = [c \in Cols |-> Undef]
  <2>1. [c \in Cols |-> Undef] \in [Cols -> Values]
    BY DEF Values
  <2>2. QED
    BY <2>1, SomeChanges DEF Row, RowT
<1>3. objs \in Seq(RowT) /\ DOMAIN objs = DOMAIN s.obj \cup {r} /\ objs[r] = row
      /\ \A q \in DOMAIN s.obj : objs[q] = s.obj[q]
  <2> HIDE DEF row
  <2>1. QED
    BY <1>2, SheetFacts
<1>4. shown \in Seq(Nat) /\ Elems(shown) = Elems(s.data) \cup {r}
  <2> HIDE DEF r
  <2>1. s.data \in Seq(Nat) /\ i \in 1..(Len(s.data) + 1)
    BY SheetFacts
  <2>2. \A d \in Seq(Nat), q \in Nat : \A j \in 1..(Len(d) + 1) :
          Inserted(d, q, j) \in Seq(Nat) /\ Elems(Inserted(d, q, j)) = Elems(d) \cup {q}
    BY ElemsInsert
  <2>3. QED
    BY <1>1, <2>1, <2>2
<1>5. l \in Seq(Nat) /\ Elems(l) = Elems(s.log) \cup {r} /\ (Distinct(s.log) => Distinct(l))
  <2>1. r \notin Elems(s.log)
    BY <1>1, SheetFacts DEF Exact
  <2> HIDE DEF r
  <2>2. QED
    BY <1>1, <2>1, SheetFacts, ElemsAppend
<1>6. InsertRow(s, i, initial) = t
  BY DEF InsertRow, Inserted
<1> HIDE DEF objs, shown, l, row, r
<1>7. t \in Sheets
  BY <1>3, <1>4, <1>5 DEF Sheets
<1>8. Exact(t)
  <2>1. Elems(s.data) \subseteq DOMAIN s.obj /\ Elems(s.log) = {q \in Elems(s.data) : s.obj[q].change # NoChange}
    BY SheetFacts DEF Exact
  <2>2. Elems(shown) \subseteq DOMAIN objs
    BY <1>3, <1>4, <2>1
  <2>3. Elems(l) = {q \in Elems(shown) : objs[q].change # NoChange}
    BY <1>1, <1>2, <1>3, <1>4, <1>5, <2>1
  <2>4. QED
    BY <2>2, <2>3 DEF Exact
<1>9. Keeps(s, t)
  <2>1. Elems(s.data) \subseteq DOMAIN s.obj
    BY SheetFacts DEF Exact
  <2>2. Stored(t) = Stored(s)
    BY <1>1, <1>2, <1>3, <1>4, <2>1 DEF Stored
  <2>3. \A q \in Stored(s) : objs[q].raw = s.obj[q].raw
    BY <1>3, <2>1 DEF Stored
  <2>4. NewRows(s) => NewRows(t)
    BY <1>2, <1>3, <1>4, <2>1 DEF NewRows
  <2>5. QED
    BY <1>5, <2>2, <2>3, <2>4 DEF Keeps
<1>10. QED
  BY <1>6, <1>7, <1>8, <1>9 DEF Exacts

(* A row taken out that was never saved; a row taken out that is logged; any other. *)
LEMMA RemoveRowIsExact ==
  ASSUME NEW s \in Exacts, NEW i
  PROVE  /\ RemoveRow(s, i) \in Exacts /\ Keeps(s, RemoveRow(s, i))
         /\ Marked(s) => Marked(RemoveRow(s, i))
<1> DEFINE r == s.data[i]
           row == s.obj[r]
           logged == \E k \in DOMAIN s.log : s.log[k] = r
<1>1. CASE i \notin DOMAIN s.data
  BY <1>1, KeepsItself DEF RemoveRow
<1>2. CASE i \in DOMAIN s.data
  <2>1. r \in Elems(s.data) /\ r \in DOMAIN s.obj /\ row \in RowT /\ r \in Nat
        /\ row.change \in Changes \cup {NoChange}
    BY <1>2, SheetFacts DEF RowT
  <2>2. logged <=> row.change # NoChange
    <3>1. logged <=> r \in Elems(s.log)
      BY DEF Elems
    <3>2. QED
      BY <2>1, <3>1, SheetFacts DEF Exact
  <2>3. CASE row.isNew /\ logged
    <3> DEFINE shown == Without(s.data, {r})
               l == Without(s.log, {r})
               t == [obj |-> s.obj, data |-> shown, log |-> l]
    <3>1. RemoveRow(s, i) = [s EXCEPT !.data = shown, !.log = l]
      BY <1>2, <2>3 DEF RemoveRow
    <3>2. RemoveRow(s, i) = t
      <4> HIDE DEF shown, l
      <4>1. QED
        BY <3>1, SheetFacts
    <3>3. /\ shown \in Seq(Nat) /\ Elems(shown) = Elems(s.data) \ {r}
          /\ l \in Seq(Nat) /\ Elems(l) = Elems(s.log) \ {r} /\ (Distinct(s.log) => Distinct(l))
      BY SheetFacts, WithoutElems
    <3> HIDE DEF shown, l
    <3>4. t \in Sheets
      BY <3>3, SheetFacts DEF Sheets
    <3>5. Exact(t)
      BY <3>3, SheetFacts DEF Exact
    <3>6. Keeps(s, t) /\ (Marked(s) => Marked(t))
      <4>1. Stored(t) = Stored(s)
        BY <2>3, <3>3 DEF Stored
      <4>2. QED
        BY <3>3, <4>1 DEF Keeps, Stored, Marked, NewRows
    <3>7. QED
      BY <3>2, <3>4, <3>5, <3>6 DEF Exacts
  <2>4. CASE ~(row.isNew /\ logged) /\ logged
    <3> DEFINE put == [row EXCEPT !.isRemoved = TRUE]
    <3>1. RemoveRow(s, i) = [s EXCEPT !.obj[r].isRemoved = TRUE]
      BY <1>2, <2>4 DEF RemoveRow
    <3>2. put \in RowT /\ put.change = row.change /\ put.raw = row.raw /\ put.isNew = row.isNew
      BY <2>1 DEF RowT
    <3>3. RemoveRow(s, i) = [obj |-> [s.obj EXCEPT ![r] = put], data |-> s.data, log |-> s.log]
      BY <3>1, SheetFacts
    <3>4. r \in Elems(s.log)
      BY <2>4 DEF Elems
    <3> HIDE DEF put
    <3>5. Elems(s.log) = IF put.change = NoChange THEN Elems(s.log) \ {r} ELSE Elems(s.log) \cup {r}
      BY <2>2, <2>4, <3>2, <3>4
    <3> HIDE DEF r
    <3> DEFINE t == [obj |-> [s.obj EXCEPT ![r] = put], data |-> s.data, log |-> s.log]
    <3>6. t \in Exacts /\ Keeps(s, t)
      <4>1. s.log \in Seq(Nat) /\ ~(put.isNew /\ put.isRemoved)
        BY <2>4, <3>2, SheetFacts
      <4>2. QED
        BY <2>1, <3>2, <3>5, <4>1, PutObj
    <3>7. Marked(s) => Marked(t)
      BY <2>1, <3>4, SheetFacts DEF Marked, Exact
    <3>8. QED
      BY <3>3, <3>6, <3>7
  <2>5. CASE ~logged
    <3> DEFINE put == [row EXCEPT !.isRemoved = TRUE, !.change = Empty]
               l == Append(s.log, r)
    <3>1. RemoveRow(s, i) = [s EXCEPT !.obj[r] = [@ EXCEPT !.isRemoved = TRUE, !.change = Empty], !.log = Append(@, r)]
      BY <1>2, <2>5 DEF RemoveRow
    <3>2. put \in RowT /\ put.change = Empty /\ Empty # NoChange /\ put.raw = row.raw /\ put.isNew = row.isNew
      BY <2>1, SomeChanges DEF RowT
    <3>3. RemoveRow(s, i) = [obj |-> [s.obj EXCEPT ![r] = put], data |-> s.data, log |-> l]
      BY <2>1, <3>1, SheetFacts
    <3>4. /\ l \in Seq(Nat) /\ Elems(l) = Elems(s.log) \cup {r} /\ (Distinct(s.log) => Distinct(l))
          /\ r \notin Elems(s.log)
      <4>1. r \notin Elems(s.log)
        BY <2>5 DEF Elems
      <4> HIDE DEF r
      <4>2. QED
        BY <2>1, <4>1, SheetFacts, ElemsAppend
    <3> HIDE DEF put, l, r
    <3> DEFINE t == [obj |-> [s.obj EXCEPT ![r] = put], data |-> s.data, log |-> l]
    <3>5. t \in Exacts /\ Keeps(s, t)
      BY <2>1, <3>2, <3>4, PutObj DEF row
    <3>6. Marked(s) => Marked(t)
      BY <2>1, <3>4, SheetFacts DEF Marked, Exact
    <3>7. QED
      BY <3>3, <3>5, <3>6
  <2>6. QED
    BY <2>3, <2>4, <2>5
<1>3. QED
  BY <1>1, <1>2

(* Rows that are not in the log have no change: what clears the logged rows  *)
(* and the log clears everything.                                            *)
LEMMA Cleared ==
  ASSUME NEW s \in Exacts, NEW objs \in Seq(RowT), DOMAIN objs = DOMAIN s.obj,
         \A r \in DOMAIN s.obj : r \in Elems(s.log) => objs[r].change = NoChange,
         \A r \in DOMAIN s.obj : r \notin Elems(s.log) => objs[r] = s.obj[r],
         NEW S
  PROVE  [obj |-> objs, data |-> Without(s.data, S), log |-> <<>>] \in Exacts
<1> DEFINE shown == Without(s.data, S)
           t == [obj |-> objs, data |-> shown, log |-> <<>>]
<1>1. shown \in Seq(Nat) /\ Elems(shown) \subseteq Elems(s.data)
  BY SheetFacts, WithoutElems
<1>2. <<>> \in Seq(Nat) /\ Elems(<<>>) = {}
  BY DEF Elems
<1>3. \A r \in Elems(s.data) : r \in DOMAIN s.obj /\ objs[r].change = NoChange
  BY SheetFacts DEF Exact
<1> HIDE DEF shown
<1>4. t \in Sheets
  BY <1>1, <1>2 DEF Sheets
<1>5. Elems(t.data) \subseteq DOMAIN t.obj
  BY <1>1, <1>3
<1>6. Elems(t.log) = {} /\ {r \in Elems(t.data) : t.obj[r].change # NoChange} = {}
  BY <1>1, <1>2, <1>3
<1>7. Exact(t)
  BY <1>5, <1>6 DEF Exact
<1>8. QED
  BY <1>4, <1>7 DEF Exacts, shown

(* Discarding clears what is logged. *)
LEMMA DiscardAllIsExact ==
  ASSUME NEW s \in Exacts
  PROVE  DiscardAll(s) \in Exacts /\ Keeps(s, DiscardAll(s))
<1> DEFINE logged == {s.log[k] : k \in DOMAIN s.log}
           objs == [r \in 1..Len(s.obj) |-> IF r \in logged THEN Row(s.obj[r].raw, NoChange, FALSE, FALSE)
                                                             ELSE s.obj[r]]
           S == {r \in logged : s.obj[r].isNew}
<1>1. logged = Elems(s.log)
  BY DEF Elems
<1>2. DOMAIN s.obj = 1..Len(s.obj) /\ Len(s.obj) \in Nat
  BY SheetFacts
<1>3. \A r \in DOMAIN s.obj : Row(s.obj[r].raw, NoChange, FALSE, FALSE) \in RowT /\ s.obj[r] \in RowT
  BY SheetFacts DEF Row, RowT
<1>4. objs \in Seq(RowT) /\ DOMAIN objs = DOMAIN s.obj
  <2> HIDE DEF logged
  <2>1. \A r \in 1..Len(s.obj) : objs[r] \in RowT
    BY <1>2, <1>3
  <2>2. DOMAIN objs = 1..Len(s.obj) /\ objs = [r \in DOMAIN objs |-> objs[r]]
    OBVIOUS
  <2> HIDE DEF objs
  <2>3. objs \in [1..Len(s.obj) -> RowT]
    BY <2>1, <2>2
  <2>4. QED
    BY <1>2, <2>2, <2>3
<1>5. \A r \in DOMAIN s.obj : r \in Elems(s.log) => objs[r].change = NoChange
  <2> HIDE DEF logged
  <2>1. QED
    BY <1>1, <1>2 DEF Row
<1>6. \A r \in DOMAIN s.obj : r \notin Elems(s.log) => objs[r] = s.obj[r]
  <2> HIDE DEF logged
  <2>1. QED
    BY <1>1, <1>2
<1>7. DiscardAll(s) = [obj |-> objs, data |-> Without(s.data, S), log |-> <<>>]
  BY DEF DiscardAll
<1> DEFINE left == Without(s.data, S)
           t == [obj |-> objs, data |-> left, log |-> <<>>]
<1>8. Keeps(s, t)
  <2>1. Elems(left) = Elems(s.data) \ S
    BY SheetFacts, WithoutElems
  <2>2. Elems(s.data) \subseteq DOMAIN s.obj
    BY SheetFacts DEF Exact
  <2>3. S = {r \in Elems(s.log) : s.obj[r].isNew}
    BY <1>1
  <2>4. \A r \in DOMAIN s.obj : /\ objs[r].raw = s.obj[r].raw
                               /\ (objs[r].isNew <=> r \notin Elems(s.log) /\ s.obj[r].isNew)
                               /\ (objs[r].isRemoved <=> r \notin Elems(s.log) /\ s.obj[r].isRemoved)
    <3> HIDE DEF logged
    <3>1. ASSUME NEW r \in DOMAIN s.obj, r \in logged
          PROVE  objs[r].raw = s.obj[r].raw /\ ~objs[r].isNew /\ ~objs[r].isRemoved
      BY <1>2, <3>1 DEF Row
    <3>2. ASSUME NEW r \in DOMAIN s.obj, r \notin logged PROVE objs[r] = s.obj[r]
      BY <1>2, <3>2
    <3> HIDE DEF objs
    <3>3. QED
      BY <1>1, <3>1, <3>2
  <2> HIDE DEF left, objs, S
  <2>5. Stored(t) = Stored(s) /\ \A r \in Stored(s) : objs[r].raw = s.obj[r].raw
    BY <2>1, <2>2, <2>3, <2>4 DEF Stored
  <2>6. NewRows(s) => NewRows(t)
    BY <2>1, <2>2, <2>4 DEF NewRows
  <2>7. QED
    BY <2>5, <2>6 DEF Keeps, Distinct
<1> HIDE DEF objs, S
<1>9. t \in Exacts
  BY <1>4, <1>5, <1>6, Cleared
<1>10. QED
  BY <1>7, <1>8, <1>9

(* Saving clears what is logged, and rows keep both columns. *)
LEMMA ApplyChangesIsExact ==
  ASSUME NEW s \in Exacts, NEW updated, \A r \in DOMAIN s.obj : updated[r] \in Changes
  PROVE  ApplyChanges(s, updated) \in Exacts
<1> DEFINE logged == {s.log[k] : k \in DOMAIN s.log}
           Saved(r) == Over(updated[r], Over(s.obj[r].change, s.obj[r].raw))
           objs == [r \in 1..Len(s.obj) |-> IF r \in logged THEN Row(Saved(r), NoChange, FALSE, FALSE)
                                                             ELSE s.obj[r]]
           S == {r \in logged : s.obj[r].isRemoved}
<1>1. logged = Elems(s.log)
  BY DEF Elems
<1>2. DOMAIN s.obj = 1..Len(s.obj) /\ Len(s.obj) \in Nat
  BY SheetFacts
<1>3. ASSUME NEW r \in DOMAIN s.obj, r \in logged
      PROVE  Row(Saved(r), NoChange, FALSE, FALSE) \in RowT
  <2>1. s.obj[r] \in RowT /\ s.obj[r].change # NoChange
    <3> HIDE DEF logged
    <3>1. QED
      BY <1>1, <1>3, SheetFacts DEF Exact
  <2>2. s.obj[r].change \in Changes /\ s.obj[r].raw \in [Cols -> Values] /\ s.obj[r].raw \in Changes
        /\ DOMAIN s.obj[r].raw = Cols
    BY <2>1, SomeChanges DEF RowT
  <2> DEFINE u == Over(s.obj[r].change, s.obj[r].raw)
  <2>3. u \in Changes /\ DOMAIN u = Cols
    BY <2>2, Merged, SomeChanges
  <2> HIDE DEF u
  <2>4. Over(updated[r], u) \in Changes /\ DOMAIN Over(updated[r], u) = Cols
    BY <1>3, <2>3, Merged, SomeChanges
  <2>5. Saved(r) \in [Cols -> Values]
    BY <2>4, SomeChanges DEF u
  <2> HIDE DEF Saved
  <2>6. QED
    BY <2>5 DEF Row, RowT
<1>4. objs \in Seq(RowT) /\ DOMAIN objs = DOMAIN s.obj
  <2> HIDE DEF logged, Saved
  <2>1. \A r \in 1..Len(s.obj) : objs[r] \in RowT
    BY <1>2, <1>3, SheetFacts
  <2>2. DOMAIN objs = 1..Len(s.obj) /\ objs = [r \in DOMAIN objs |-> objs[r]]
    OBVIOUS
  <2> HIDE DEF objs
  <2>3. objs \in [1..Len(s.obj) -> RowT]
    BY <2>1, <2>2
  <2>4. QED
    BY <1>2, <2>2, <2>3
<1>5. \A r \in DOMAIN s.obj : r \in Elems(s.log) => objs[r].change = NoChange
  <2> HIDE DEF logged, Saved
  <2>1. QED
    BY <1>1, <1>2 DEF Row
<1>6. \A r \in DOMAIN s.obj : r \notin Elems(s.log) => objs[r] = s.obj[r]
  <2> HIDE DEF logged, Saved
  <2>1. QED
    BY <1>1, <1>2
<1>7. ApplyChanges(s, updated) = [obj |-> objs, data |-> Without(s.data, S), log |-> <<>>]
  BY DEF ApplyChanges
<1> HIDE DEF objs, S
<1>8. QED
  BY <1>4, <1>5, <1>6, <1>7, Cleared

(* What every turn of a loop keeps. *)
LEMMA LoopKeeps ==
  ASSUME NEW V, NEW N \in Nat, NEW f, f[0] \in V, \A n \in 1..N : f[n - 1] \in V => f[n] \in V
  PROVE  f[N] \in V
<1> DEFINE T == {n \in Nat : n <= N => f[n] \in V}
<1>1. 0 \in T
  OBVIOUS
<1>2. ASSUME NEW n \in T PROVE n + 1 \in T
  <2>1. SUFFICES ASSUME n + 1 <= N PROVE f[n + 1] \in V
    OBVIOUS
  <2>2. f[n] \in V /\ n + 1 \in 1..N /\ (n + 1) - 1 = n
    BY <2>1
  <2>3. QED
    BY <2>2
<1>3. T = Nat
  <2> HIDE DEF T
  <2>1. T \in SUBSET Nat
    BY DEF T
  <2>2. QED
    BY <1>1, <1>2, <2>1, Induction
<1>4. N \in T
  <2> HIDE DEF T
  <2>1. QED
    BY <1>3
<1>5. QED
  BY <1>4

(* Removing the rows of a selection one after the other. *)
LEMMA AfterDeleteIsExact ==
  ASSUME Screen \in Exacts
  PROVE  AfterDelete \in Exacts /\ Keeps(Screen, AfterDelete)
<1> DEFINE N == Len(data)
           Turn(n, t) == IF n \in sel THEN RemoveRow(t, n) ELSE t
           g == [n \in 1..N |-> [t \in Exacts |-> Turn(n, t)]]
           Body(f) == [n \in 0..N |-> IF n = 0 THEN Screen ELSE Turn(n, f[n - 1])]
           after == CHOOSE f : f = Body(f)
           V == {t \in Exacts : Keeps(Screen, t) /\ (Marked(Screen) => Marked(t))}
<1>1. N \in Nat /\ \A n \in 1..N, t \in Exacts : Turn(n, t) \in Exacts
  <2>1. data \in Seq(Nat)
    BY SheetFacts DEF Screen
  <2>2. QED
    BY <2>1, RemoveRowIsExact
<1>2. AfterDelete = after[N]
  BY DEF AfterDelete
<1>3. after[0] = Screen /\ \A n \in 1..N : after[n] = Turn(n, after[n - 1])
  <2> HIDE DEF N, Turn
  <2>1. g \in [1..N -> [Exacts -> Exacts]]
    BY <1>1
  <2>2. PICK f \in [0..N -> Exacts] : f[0] = Screen /\ \A n \in 1..N : f[n] = g[n][f[n - 1]]
    <3> HIDE DEF g
    <3>1. Loops(Exacts, N, g, Screen) # {}
      BY <1>1, <2>1, Loop
    <3>2. QED
      BY <3>1 DEF Loops
  <2>3. \A n \in 1..N : n - 1 \in 0..N
    BY <1>1
  <2>4. \A n \in 1..N : f[n] = Turn(n, f[n - 1])
    BY <2>2, <2>3
  <2>5. f = Body(f)
    BY <2>2, <2>4
  <2>6. after = Body(after)
    <3>1. \E h : h = Body(h)
      BY <2>5, Zenon
    <3> HIDE DEF Body
    <3>2. QED
      BY <3>1, Zenon
  <2> HIDE DEF after
  <2>7. after[0] = Screen
    BY <1>1, <2>6
  <2>8. ASSUME NEW n \in 1..N PROVE after[n] = Turn(n, after[n - 1])
    BY <1>1, <2>6
  <2>9. QED
    BY <2>7, <2>8
<1>4. \A n \in 1..N, t \in V : Turn(n, t) \in V
  <2>1. ASSUME NEW t \in V, NEW n PROVE RemoveRow(t, n) \in V
    <3> DEFINE u == RemoveRow(t, n)
    <3>1. u \in Exacts /\ Keeps(t, u) /\ (Marked(t) => Marked(u))
      BY RemoveRowIsExact
    <3>2. Keeps(Screen, t) /\ (Marked(Screen) => Marked(t))
      OBVIOUS
    <3> HIDE DEF u
    <3>3. Keeps(Screen, u)
      BY <3>1, <3>2 DEF Keeps
    <3>4. QED
      BY <3>1, <3>2, <3>3 DEF u
  <2>2. QED
    BY <2>1
<1>5. Screen \in V
  BY KeepsItself
<1> HIDE DEF N, Turn, after
<1>6. \A n \in 1..N : after[n - 1] \in V => after[n] \in V
  <2> HIDE DEF V
  <2>1. QED
    BY <1>3, <1>4
<1>7. after[N] \in V
  <2> HIDE DEF V
  <2>1. QED
    BY <1>1, <1>3, <1>5, <1>6, LoopKeeps
<1>8. QED
  BY <1>2, <1>7

-----------------------------------------------------------------------------
(* The table and what is on its way *)

(* What the screen holds, in the variables. *)
LEMMA ScreenFacts ==
  ASSUME IInv
  PROVE  /\ Screen \in Exacts /\ obj \in Seq(RowT) /\ data \in Seq(Nat) /\ log \in Seq(Nat)
         /\ \A i \in DOMAIN data : data[i] \in DOMAIN obj /\ obj[data[i]] \in RowT
         /\ \A k \in DOMAIN log : log[k] \in Nat /\ obj[log[k]] \in RowT /\ obj[log[k]].change \in Changes
<1>1. Screen \in Exacts /\ Screen.obj = obj /\ Screen.data = data /\ Screen.log = log
  BY DEF IInv, Screen
<1>2. /\ obj \in Seq(RowT) /\ data \in Seq(Nat) /\ log \in Seq(Nat)
      /\ \A i \in DOMAIN data : data[i] \in DOMAIN obj
      /\ \A r \in DOMAIN obj : obj[r] \in RowT
      /\ Elems(data) \subseteq DOMAIN obj
      /\ Elems(log) = {r \in Elems(data) : obj[r].change # NoChange}
  BY <1>1, SheetFacts DEF Exact
<1>3. \A k \in DOMAIN log : log[k] \in Elems(log)
  BY DEF Elems
<1>4. ASSUME NEW k \in DOMAIN log
      PROVE  log[k] \in Nat /\ obj[log[k]] \in RowT /\ obj[log[k]].change \in Changes
  <2>1. log[k] \in Nat
    BY <1>2
  <2>2. log[k] \in DOMAIN obj /\ obj[log[k]].change # NoChange
    BY <1>2, <1>3
  <2>3. QED
    BY <1>2, <2>1, <2>2 DEF RowT
<1>5. QED
  BY <1>1, <1>2, <1>4

(* What the server answers to a read of the table. *)
LEMMA RowsOfTable ==
  ASSUME NEW t \in Tables
  PROVE  /\ RowsOf(t) \in Seq(Ids \X Values)
         /\ \A k \in DOMAIN RowsOf(t) : RowsOf(t)[k][1] \in DOMAIN t /\ RowsOf(t)[k][2] = t[RowsOf(t)[k][1]]
         /\ \A i \in DOMAIN t : \E k \in DOMAIN RowsOf(t) : RowsOf(t)[k][1] = i
         /\ \A j, k \in DOMAIN RowsOf(t) : RowsOf(t)[j][1] = RowsOf(t)[k][1] => j = k
<1> DEFINE all == [i \in 1..Cardinality(Ids) |-> i]
           ids == Without(all, Ids \ DOMAIN t)
<1>1. Cardinality(Ids) \in Nat /\ Ids = 1..Cardinality(Ids)
  BY TableAssumption, FS_CardinalityType
<1>2. all \in Seq(Ids) /\ Elems(all) = Ids /\ Distinct(all)
  <2>1. all \in [1..Cardinality(Ids) -> Ids] /\ DOMAIN all = 1..Cardinality(Ids)
    BY <1>1
  <2>2. all \in Seq(Ids)
    BY <1>1, <2>1
  <2>3. \A i \in Ids : all[i] = i
    BY <1>1
  <2> HIDE DEF all
  <2>4. QED
    BY <1>1, <2>1, <2>2, <2>3 DEF Elems, Distinct
<1> HIDE DEF all
<1>3. ids \in Seq(Ids) /\ Elems(ids) = Ids \ (Ids \ DOMAIN t) /\ Distinct(ids)
  BY <1>2, WithoutElems
<1>4. DOMAIN t \subseteq Ids /\ \A i \in DOMAIN t : t[i] \in Values
  BY DEF Tables
<1> HIDE DEF ids
<1>5. \A k \in DOMAIN ids : ids[k] \in DOMAIN t
  BY <1>3, <1>4 DEF Elems
<1>6. \A k \in DOMAIN ids : <<ids[k], t[ids[k]]>> \in Ids \X Values
  BY <1>4, <1>5
<1>7. DOMAIN ids = 1..Len(ids) /\ Len(ids) \in Nat
  BY <1>3
<1> DEFINE rows == [k \in DOMAIN ids |-> <<ids[k], t[ids[k]]>>]
<1>8. rows \in Seq(Ids \X Values)
  BY <1>6, <1>7
<1>9. RowsOf(t) = rows
  BY DEF RowsOf, ids, all
<1>10. DOMAIN rows = DOMAIN ids /\ \A k \in DOMAIN ids : rows[k][1] = ids[k] /\ rows[k][2] = t[ids[k]]
  OBVIOUS
<1>11. \A i \in DOMAIN t : \E k \in DOMAIN ids : ids[k] = i
  BY <1>3, <1>4 DEF Elems
<1>12. \A j, k \in DOMAIN ids : ids[j] = ids[k] => j = k
  BY <1>3 DEF Distinct
<1> HIDE DEF rows
<1>13. QED
  BY <1>5, <1>8, <1>9, <1>10, <1>11, <1>12

(* Rows as they come from the server are an exact screen. *)
LEMMA LoadedIsExact ==
  ASSUME NEW rows \in Seq(Ids \X Values)
  PROVE  /\ [obj |-> ObjectsOf(rows), data |-> [k \in DOMAIN rows |-> k], log |-> <<>>] \in Exacts
         /\ Len(ObjectsOf(rows)) = Len(rows) /\ DOMAIN rows = 1..Len(rows)
<1> DEFINE objs == ObjectsOf(rows)
           shown == [k \in DOMAIN rows |-> k]
           t == [obj |-> objs, data |-> shown, log |-> <<>>]
<1>1. DOMAIN rows = 1..Len(rows) /\ Len(rows) \in Nat
  OBVIOUS
<1>2. ASSUME NEW k \in 1..Len(rows) PROVE Loaded(rows[k][1], rows[k][2]) \in RowT
                                          /\ Loaded(rows[k][1], rows[k][2]).change = NoChange
  <2>1. rows[k] \in Ids \X Values
    BY <1>2
  <2>2. rows[k][1] \in Values /\ rows[k][2] \in Values
    BY <2>1 DEF Values
  <2>3. [id |-> rows[k][1], val |-> rows[k][2]] \in [Cols -> Values]
    BY <2>2, WholeRow
  <2>4. QED
    BY <2>3 DEF Loaded, Row, RowT
<1>3. objs = [k \in 1..Len(rows) |-> Loaded(rows[k][1], rows[k][2])]
  BY DEF ObjectsOf
<1>4. /\ objs \in Seq(RowT) /\ DOMAIN objs = 1..Len(rows) /\ Len(objs) = Len(rows)
      /\ \A k \in 1..Len(rows) : objs[k].change = NoChange
  <2>1. objs \in [1..Len(rows) -> RowT]
    BY <1>2, <1>3
  <2>2. \A k \in 1..Len(rows) : objs[k].change = NoChange
    BY <1>2, <1>3
  <2> HIDE DEF objs
  <2>3. QED
    BY <1>1, <2>1, <2>2
<1>5. shown \in Seq(Nat) /\ Elems(shown) = 1..Len(rows)
  <2>1. shown \in [1..Len(rows) -> Nat] /\ \A k \in 1..Len(rows) : shown[k] = k
    BY <1>1
  <2> HIDE DEF shown
  <2>2. QED
    BY <1>1, <2>1 DEF Elems
<1>6. <<>> \in Seq(Nat) /\ Elems(<<>>) = {}
  BY DEF Elems
<1> HIDE DEF objs, shown
<1>7. t \in Sheets
  BY <1>4, <1>5, <1>6 DEF Sheets
<1>8. Exact(t)
  BY <1>4, <1>5, <1>6 DEF Exact
<1>9. QED
  BY <1>1, <1>4, <1>7, <1>8 DEF Exacts, objs, shown

(* A statement that SQLite executes leaves a table and returns a row. *)
LEMMA ExecutedIsTable ==
  ASSUME NEW p \in PlanT, table \in Tables, ~Refused(p)
  PROVE  Executed(p) \in Tables /\ Returned(p) \in Changes
<1> DEFINE kept == [i \in DOMAIN table \ (IF p.op = "INSERT" THEN {} ELSE {p.where}) |-> table[i]]
<1>1. DOMAIN table \subseteq Ids /\ \A i \in DOMAIN table : table[i] \in Values
  BY DEF Tables
<1>2. p.values \in Changes /\ p.where \in Values /\ p.op \in {"INSERT", "DELETE", "UPDATE"}
  BY DEF PlanT
<1>3. kept \in Tables
  <2>1. kept \in [DOMAIN kept -> Values] /\ DOMAIN kept \in SUBSET Ids
    BY <1>1
  <2> HIDE DEF kept
  <2>2. QED
    BY <2>1 DEF Tables
<1>4. CASE ~Matches(p)
  BY <1>4, SomeChanges DEF Executed, Returned
<1>5. CASE Matches(p) /\ p.op = "DELETE"
  BY <1>3, <1>5, SomeChanges DEF Executed, Returned
<1>6. CASE Matches(p) /\ p.op # "DELETE"
  <2>1. TargetId(p) \in Ids
    BY <1>6 DEF Refused
  <2>2. TargetVal(p) \in Values
    <3>1. CASE "val" \in DOMAIN p.values
      BY <1>2, <3>1, SomeChanges DEF TargetVal
    <3>2. CASE "val" \notin DOMAIN p.values
      BY <1>1, <1>2, <1>6, <3>2 DEF TargetVal, Matches, Values
    <3>3. QED
      BY <3>1, <3>2
  <2>3. Returned(p) \in Changes
    <3>1. TargetId(p) \in Values /\ Returned(p) = [id |-> TargetId(p), val |-> TargetVal(p)]
      BY <1>6, <2>1 DEF Values, Returned
    <3>2. QED
      BY <2>2, <3>1, WholeRow
  <2> DEFINE one == [i \in {TargetId(p)} |-> TargetVal(p)]
  <2>4. Executed(p) = Over(one, kept)
    BY <1>6 DEF Executed
  <2>5. Over(one, kept) \in Tables
    <3> DEFINE D == DOMAIN one \cup DOMAIN kept
    <3>1. DOMAIN one = {TargetId(p)} /\ \A i \in DOMAIN one : one[i] \in Values
      BY <2>2
    <3>2. DOMAIN kept \subseteq Ids /\ \A i \in DOMAIN kept : kept[i] \in Values
      BY <1>1
    <3> HIDE DEF one, kept
    <3>3. Over(one, kept) \in [D -> Values] /\ D \in SUBSET Ids
      BY <2>1, <3>1, <3>2 DEF Over
    <3> HIDE DEF D
    <3>4. QED
      BY <3>3 DEF Tables
  <2>6. QED
    BY <2>3, <2>4, <2>5
<1>7. QED
  BY <1>2, <1>4, <1>5, <1>6

-----------------------------------------------------------------------------
(* Every step keeps the invariant *)

(* The edit of an action: it leaves an exact screen that keeps what was stored. *)
Edited ==
  \E s \in Exacts : Keeps(Screen, s) /\ Edit(s) /\ (focus' # None => focus' \in Nat \ {0})

(* A cell is left. *)
LEMMA EditCellEdits == ASSUME IInv, NEW c \in Cols, NEW v \in ValuesOf(c), EditCell(c, v) PROVE Edited
<1> DEFINE s == ChangeValue(Screen, focus, c, v)
<1>1. v \in Values
  BY DEF ValuesOf, Values
<1>2. s \in Exacts /\ Keeps(Screen, s)
  BY <1>1, ChangeValueIsExact DEF IInv
<1>3. focus' # None => focus' \in Nat \ {0}
  BY DEF EditCell, IInv
<1>4. Edit(s)
  BY DEF EditCell, User
<1> HIDE DEF s
<1>5. QED
  BY <1>2, <1>3, <1>4 DEF Edited

(* A row is put before the focused one. *)
LEMMA InsertAndSelectEdits == ASSUME IInv, NEW initial \in Changes, InsertAndSelect(initial) PROVE Edited
<1> DEFINE at == IF focus = None THEN 1 ELSE IF focus > Len(data) THEN Len(data) + 1 ELSE focus
           i == IF focus = None THEN 1 ELSE focus
           s == InsertRow(Screen, at, initial)
<1>1. Edit(s) /\ focus' = i
  BY DEF InsertAndSelect, User
<1>2. Len(data) \in Nat
  BY ScreenFacts
<1>3. at \in 1..(Len(data) + 1) /\ i \in Nat \ {0}
  BY <1>2 DEF IInv
<1>4. Screen.data = data /\ Screen \in Exacts
  BY DEF Screen, IInv
<1> HIDE DEF at, i
<1>5. s \in Exacts /\ Keeps(Screen, s)
  BY <1>3, <1>4, InsertRowIsExact
<1> HIDE DEF s
<1>6. QED
  BY <1>1, <1>3, <1>5 DEF Edited

(* A new row. *)
LEMMA NewRowEdits == ASSUME IInv, NewRow PROVE Edited
BY SomeChanges, InsertAndSelectEdits DEF NewRow

(* A copy of a row. *)
LEMMA DuplicateRowEdits == ASSUME IInv, NEW withKey \in BOOLEAN, DuplicateRow(withKey) PROVE Edited
<1> DEFINE row == obj[data[focus]]
           change == IF row.change = NoChange THEN Empty ELSE row.change
           present == {c \in Cols : ~row.isNew \/ c \in DOMAIN change}
           copied == IF withKey THEN present ELSE present \ {"id"}
           initial == [c \in copied |-> Over(change, row.raw)[c]]
<1>1. focus \in DOMAIN data /\ InsertAndSelect(initial)
  BY DEF DuplicateRow
<1>2. row \in RowT
  BY <1>1, ScreenFacts
<1>3. change \in Changes /\ row.raw \in Changes /\ DOMAIN row.raw = Cols
  BY <1>2, SomeChanges DEF RowT
<1> HIDE DEF row, change
<1>4. Over(change, row.raw) \in [Cols -> Values]
  <2>1. DOMAIN change \subseteq Cols
    BY <1>3, SomeChanges
  <2>2. Over(change, row.raw) \in Changes /\ DOMAIN Over(change, row.raw) = Cols
    BY <1>3, <2>1, Merged
  <2>3. QED
    BY <2>2, SomeChanges
<1>5. copied \in SUBSET Cols
  OBVIOUS
<1> HIDE DEF copied
<1>6. initial \in [copied -> Values]
  BY <1>4, <1>5
<1> HIDE DEF initial
<1>7. initial \in Changes
  BY <1>5, <1>6, SomeChanges
<1>8. QED
  BY <1>1, <1>7, InsertAndSelectEdits

(* The selected rows are removed. *)
LEMMA DeleteSelectedEdits == ASSUME IInv, DeleteSelected PROVE Edited
<1>1. AfterDelete \in Exacts /\ Keeps(Screen, AfterDelete)
  BY AfterDeleteIsExact DEF IInv
<1>2. Edit(AfterDelete) /\ (focus' # None => focus' \in Nat \ {0})
  BY DEF DeleteSelected, User, IInv
<1>3. QED
  BY <1>1, <1>2 DEF Edited

(* Everything pending is given up. *)
LEMMA DiscardEdits == ASSUME IInv, Discard PROVE Edited
<1>1. DiscardAll(Screen) \in Exacts /\ Keeps(Screen, DiscardAll(Screen))
  BY DiscardAllIsExact DEF IInv
<1>2. Edit(DiscardAll(Screen)) /\ (focus' # None => focus' \in Nat \ {0})
  BY DEF Discard, User, IInv
<1>3. QED
  BY <1>1, <1>2 DEF Edited

(* What the clipboard held comes into the cell the paste began at. *)
LEMMA FinishPasteEdits ==
  ASSUME IInv, NEW v \in Vals \cup {Null}, FinishPaste(v), paste.instance = instance
  PROVE  Edited
<1> DEFINE s == ChangeValue(Screen, paste.at, "val", v)
<1>1. "val" \in Cols /\ v \in Values
  BY DEF Cols, Values
<1>2. s \in Exacts /\ Keeps(Screen, s)
  BY <1>1, ChangeValueIsExact DEF IInv
<1>3. Edit(s) /\ focus' = focus
  BY DEF FinishPaste
<1>4. focus' # None => focus' \in Nat \ {0}
  BY <1>3 DEF IInv
<1> HIDE DEF s
<1>5. QED
  BY <1>2, <1>3, <1>4 DEF Edited

(* A step of the user that edits. *)
UserEdits ==
  \/ \E c \in Cols : \E v \in ValuesOf(c) : EditCell(c, v)
  \/ NewRow
  \/ \E withKey \in BOOLEAN : DuplicateRow(withKey)
  \/ DeleteSelected
  \/ Discard
  \/ \E v \in Vals \cup {Null} : FinishPaste(v) /\ paste.instance = instance

(* Such a step is an edit. *)
LEMMA UserEditsEdits == ASSUME IInv, UserEdits PROVE Edited
<1>1. ASSUME NEW c \in Cols, NEW v \in ValuesOf(c), EditCell(c, v) PROVE Edited
  BY <1>1, EditCellEdits
<1>2. ASSUME NEW withKey \in BOOLEAN, DuplicateRow(withKey) PROVE Edited
  BY <1>2, DuplicateRowEdits
<1>3. ASSUME NEW v \in Vals \cup {Null}, FinishPaste(v), paste.instance = instance PROVE Edited
  BY <1>3, FinishPasteEdits
<1>4. QED
  BY <1>1, <1>2, <1>3, NewRowEdits, DeleteSelectedEdits, DiscardEdits DEF UserEdits

(* An edit keeps the invariant. *)
LEMMA EditedKeeps == ASSUME IInv, Edited PROVE IInv'
<1>1. PICK s \in Exacts : Edit(s) /\ (focus' # None => focus' \in Nat \ {0})
  BY DEF Edited
<1>2. Screen' = s
  BY <1>1, SheetFacts DEF Edit, Show, Screen
<1>3. QED
  BY <1>1, <1>2 DEF IInv, Edit

(* The rows under the pointer are selected, a paste waits for the clipboard, or the screen it  *)
(* was for is gone: nothing changes that the invariants are about, but the focus.              *)
Aside == /\ UNCHANGED <<table, obj, data, log, instance, saves, fetch, calm>>
         /\ focus' # focus => focus' \in DOMAIN data

(* These steps are aside. *)
LEMMA AsideSteps ==
  ASSUME IInv
  PROVE  /\ \A lo, hi \in DOMAIN data : SelectRows(lo, hi) => Aside
         /\ StartPaste => Aside
         /\ \A v \in Vals \cup {Null} : FinishPaste(v) /\ paste.instance # instance => Aside
         /\ UNCHANGED vars => Aside
BY DEF SelectRows, StartPaste, FinishPaste, Aside, vars, screen

(* They keep the invariant. *)
LEMMA AsideKeeps == ASSUME IInv, Aside PROVE IInv'
<1>1. focus' # None => focus' \in Nat \ {0}
  BY ScreenFacts DEF Aside, IInv
<1>2. QED
  BY <1>1 DEF Aside, IInv, Screen

(* The fetches in flight after something began beside them. *)
LEMMA OverlappedFetches == ASSUME IInv PROVE Overlapped \in Seq(FetchT)
<1>1. ASSUME NEW f \in DOMAIN fetch PROVE [fetch[f] EXCEPT !.alone = FALSE] \in FetchT
  <2>1. fetch[f] \in FetchT
    BY DEF IInv
  <2>2. QED
    BY <2>1 DEF FetchT
<1>2. DOMAIN fetch = 1..Len(fetch) /\ Len(fetch) \in Nat
  BY DEF IInv
<1>3. QED
  BY <1>1, <1>2 DEF Overlapped

(* The change log becomes the plan of a save. *)
LEMMA CommitKeeps == ASSUME IInv, Commit PROVE IInv'
<1> DEFINE ok == \A k \in DOMAIN log : Valid(Plan(log[k]))
           save == IF ok THEN [state |-> "run", plans |-> Plans, returned |-> <<>>, instance |-> instance]
                         ELSE Ended("failed")
<1>1. Plans \in Seq(PlanT)
  <2>1. ASSUME NEW k \in DOMAIN log PROVE Plan(log[k]) \in PlanT
    <3>1. log[k] \in Nat /\ obj[log[k]] \in RowT /\ obj[log[k]].change \in Changes
      BY ScreenFacts
    <3>2. obj[log[k]].raw["id"] \in Values
      BY <3>1 DEF RowT, Cols
    <3>3. QED
      BY <3>1, <3>2 DEF Plan, PlanT
  <2>2. DOMAIN log = 1..Len(log) /\ Len(log) \in Nat
    BY ScreenFacts
  <2>3. QED
    BY <2>1, <2>2 DEF Plans
<1>2. save \in SaveT
  <2>1. <<>> \in Seq(Changes) /\ <<>> \in Seq(PlanT)
    OBVIOUS
  <2>2. CASE ok
    BY <1>1, <2>1, <2>2 DEF SaveT, IInv
  <2>3. CASE ~ok
    BY <2>1, <2>3 DEF SaveT, Ended
  <2>4. QED
    BY <2>2, <2>3
<1>3. saves' = Append(saves, save)
  BY DEF Commit
<1> HIDE DEF save
<1>4. saves' \in Seq(SaveT)
  BY <1>2, <1>3 DEF IInv
<1>5. QED
  BY <1>4, OverlappedFetches DEF Commit, IInv, screen, Screen

(* What a save that is not at its end holds. *)
LEMMA SaveFacts ==
  ASSUME IInv, NEW s \in DOMAIN saves
  PROVE  /\ saves[s] \in SaveT
         /\ Unfinished(s) => NextPlan(s) \in PlanT
         /\ \A e \in SaveT : [saves EXCEPT ![s] = e] \in Seq(SaveT)
         /\ \A how \in {"failed", "done"} : Ended(how) \in SaveT
<1>1. saves[s] \in SaveT
  BY DEF IInv
<1>2. ASSUME Unfinished(s) PROVE NextPlan(s) \in PlanT
  <2>1. saves[s].plans \in Seq(PlanT) /\ saves[s].returned \in Seq(Changes)
    BY <1>1 DEF SaveT
  <2>2. Len(saves[s].returned) + 1 \in 1..Len(saves[s].plans)
    BY <1>2, <2>1 DEF Unfinished
  <2>3. QED
    BY <2>1, <2>2 DEF NextPlan
<1>3. ASSUME NEW e \in SaveT PROVE [saves EXCEPT ![s] = e] \in Seq(SaveT)
  BY DEF IInv
<1>4. ASSUME NEW how \in {"failed", "done"} PROVE Ended(how) \in SaveT
  <2>1. <<>> \in Seq(PlanT) /\ <<>> \in Seq(Changes)
    OBVIOUS
  <2>2. QED
    BY <2>1 DEF Ended, SaveT
<1>5. QED
  BY <1>1, <1>2, <1>3, <1>4

(* A statement of a save is executed. *)
LEMMA RunStatementKeeps == ASSUME IInv, NEW s \in DOMAIN saves, RunStatement(s) PROVE IInv'
<1> DEFINE p == NextPlan(s)
           row == Returned(p)
           after == [saves[s] EXCEPT !.returned = Append(@, row)]
<1>1. p \in PlanT /\ ~Refused(p) /\ saves[s] \in SaveT
  BY SaveFacts DEF RunStatement
<1>2. table' = Executed(p) /\ saves' = [saves EXCEPT ![s].returned = Append(@, row)]
  BY DEF RunStatement
<1> HIDE DEF p
<1>3. Executed(p) \in Tables /\ row \in Changes
  BY <1>1, ExecutedIsTable DEF IInv
<1> HIDE DEF row
<1>4. after \in SaveT
  <2>1. Append(saves[s].returned, row) \in Seq(Changes)
    BY <1>1, <1>3 DEF SaveT
  <2>2. QED
    BY <1>1, <2>1 DEF SaveT
<1>5. saves' = [saves EXCEPT ![s] = after]
  BY <1>2
<1> HIDE DEF after
<1>6. saves' \in Seq(SaveT) /\ table' \in Tables
  BY <1>2, <1>3, <1>4, <1>5, SaveFacts
<1>7. QED
  BY <1>6 DEF RunStatement, IInv, screen, Screen

(* A save fails at a statement that was executed or was not. *)
LEMMA FailStatementKeeps == ASSUME IInv, NEW s \in DOMAIN saves, FailStatement(s) PROVE IInv'
<1> DEFINE p == NextPlan(s)
<1>1. p \in PlanT /\ saves' = [saves EXCEPT ![s] = Ended("failed")]
  BY SaveFacts DEF FailStatement
<1>2. PICK ran \in BOOLEAN : (ran => ~Refused(p)) /\ table' = IF ran THEN Executed(p) ELSE table
  BY DEF FailStatement
<1>3. Ended("failed") \in SaveT
  BY SaveFacts
<1>4. saves' \in Seq(SaveT)
  BY <1>1, <1>3, SaveFacts
<1> HIDE DEF p
<1>5. table' \in Tables
  BY <1>1, <1>2, ExecutedIsTable DEF IInv
<1>6. QED
  BY <1>4, <1>5 DEF FailStatement, IInv, screen, Screen

(* What was returned for a row of the screen is a record or nothing. *)
LEMMA ReturnedForFacts ==
  ASSUME IInv, NEW s \in DOMAIN saves, Len(saves[s].returned) = Len(saves[s].plans),
         NEW r \in DOMAIN obj
  PROVE  ReturnedFor(s)[r] \in Changes
<1> DEFINE ks == {k \in DOMAIN saves[s].plans : saves[s].plans[k].row = r}
           given == IF ks = {} THEN Empty ELSE saves[s].returned[CHOOSE k \in ks : TRUE]
<1>1. r \in 1..Len(obj)
  BY ScreenFacts
<1>2. ReturnedFor(s)[r] = given
  BY <1>1 DEF ReturnedFor
<1>3. saves[s].plans \in Seq(PlanT) /\ saves[s].returned \in Seq(Changes)
  BY SaveFacts DEF SaveT
<1>4. \A k \in DOMAIN saves[s].plans : saves[s].returned[k] \in Changes
  BY <1>3
<1>5. given \in Changes
  <2>1. ks \subseteq DOMAIN saves[s].plans
    OBVIOUS
  <2> HIDE DEF ks
  <2>2. QED
    BY <1>4, <2>1, SomeChanges
<1>6. QED
  BY <1>2, <1>5

(* A save comes to its end; the screen it belongs to takes it over. *)
LEMMA FinishSaveKeeps == ASSUME IInv, NEW s \in DOMAIN saves, FinishSave(s) PROVE IInv'
<1>1. saves' \in Seq(SaveT)
  <2>1. Ended("done") \in SaveT /\ saves' = [saves EXCEPT ![s] = Ended("done")]
    BY SaveFacts DEF FinishSave
  <2>2. QED
    BY <2>1, SaveFacts
<1>2. CASE saves[s].instance # instance
  BY <1>1, <1>2 DEF FinishSave, IInv, screen, Screen
<1>3. CASE saves[s].instance = instance
  <2> DEFINE updated == ReturnedFor(s)
             t == ApplyChanges(Screen, updated)
  <2>1. Screen.obj = obj /\ Screen \in Exacts
    BY DEF Screen, IInv
  <2>2. \A r \in DOMAIN obj : updated[r] \in Changes
    BY ReturnedForFacts DEF FinishSave
  <2>3. Show(t) /\ focus' = focus /\ instance' = instance /\ table' = table /\ fetch' = fetch
    BY <1>3 DEF FinishSave
  <2> HIDE DEF updated
  <2>4. t \in Exacts
    BY <2>1, <2>2, ApplyChangesIsExact
  <2> HIDE DEF t
  <2>5. Screen' = t
    BY <2>3, <2>4, SheetFacts DEF Show, Screen
  <2>6. QED
    BY <1>1, <2>3, <2>4, <2>5 DEF IInv
<1>4. QED
  BY <1>2, <1>3

(* A fetch is sent. *)
LEMMA StartFetchKeeps == ASSUME IInv, StartFetch PROVE IInv'
<1> DEFINE sent == [state |-> "sent", rows |-> <<>>, alone |-> ~Saving /\ ~Fetching]
<1>1. sent \in FetchT
  <2>1. <<>> \in Seq(Ids \X Values) /\ (~Saving /\ ~Fetching) \in BOOLEAN
    OBVIOUS
  <2>2. QED
    BY <2>1, Zenon DEF FetchT
<1>2. fetch' = Append(Overlapped, sent)
  BY DEF StartFetch
<1> HIDE DEF sent
<1>3. fetch' \in Seq(FetchT)
  BY <1>1, <1>2, OverlappedFetches
<1>4. QED
  BY <1>3 DEF StartFetch, IInv, screen, Screen

(* The server reads the table for a fetch. *)
LEMMA ReadFetchKeeps == ASSUME IInv, NEW f \in DOMAIN fetch, ReadFetch(f) PROVE IInv'
<1> DEFINE rows == RowsOf(table)
           e == [fetch[f] EXCEPT !.state = "read", !.rows = rows]
<1>1. rows \in Seq(Ids \X Values)
  BY RowsOfTable DEF IInv
<1>2. fetch' = [fetch EXCEPT ![f].state = "read", ![f].rows = rows]
  BY DEF ReadFetch
<1> HIDE DEF rows
<1>3. fetch[f] \in FetchT
  BY DEF IInv
<1>4. e \in FetchT /\ fetch' = [fetch EXCEPT ![f] = e]
  BY <1>1, <1>2, <1>3 DEF FetchT
<1> HIDE DEF e
<1>5. fetch' \in Seq(FetchT)
  BY <1>4 DEF IInv
<1>6. QED
  BY <1>5 DEF ReadFetch, IInv, screen, Screen

(* An answer becomes a new screen. *)
LEMMA ShowFetchKeeps == ASSUME IInv, NEW f \in DOMAIN fetch, ShowFetch(f) PROVE IInv'
<1> DEFINE rows == fetch[f].rows
           shown == [state |-> "shown", rows |-> <<>>, alone |-> FALSE]
<1>1. rows \in Seq(Ids \X Values)
  <2>1. fetch[f] \in FetchT
    BY DEF IInv
  <2>2. QED
    BY <2>1 DEF FetchT
<1>2. obj' = ObjectsOf(rows) /\ data' = [k \in DOMAIN rows |-> k] /\ log' = <<>>
  BY DEF ShowFetch
<1>3. shown \in FetchT
  <2>1. <<>> \in Seq(Ids \X Values)
    OBVIOUS
  <2>2. QED
    BY <2>1 DEF FetchT
<1>4. fetch' = [fetch EXCEPT ![f] = shown]
  BY DEF ShowFetch
<1> HIDE DEF rows, shown
<1>5. fetch' \in Seq(FetchT)
  BY <1>3, <1>4 DEF IInv
<1>6. Screen' \in Exacts
  BY <1>1, <1>2, LoadedIsExact DEF Screen
<1>7. QED
  BY <1>5, <1>6 DEF ShowFetch, IInv

(* The first fetch is an exact screen. *)
LEMMA InitExact == ASSUME Init PROVE IInv
<1>1. table \in Tables
  <2>1. {1, 2} \cap Ids \in SUBSET Ids /\ table \in [{1, 2} \cap Ids -> Values]
    BY DEF Init, Values
  <2>2. QED
    BY <2>1 DEF Tables
<1> DEFINE rows == RowsOf(table)
<1>2. rows \in Seq(Ids \X Values)
  BY <1>1, RowsOfTable
<1>3. obj = ObjectsOf(rows) /\ data = [k \in 1..Len(obj) |-> k] /\ log = <<>>
  BY DEF Init
<1> HIDE DEF rows
<1>4. Screen \in Exacts
  <2>1. Len(obj) = Len(rows) /\ DOMAIN rows = 1..Len(rows)
    BY <1>2, <1>3, LoadedIsExact
  <2>2. Screen = [obj |-> ObjectsOf(rows), data |-> [k \in DOMAIN rows |-> k], log |-> <<>>]
    BY <1>3, <2>1 DEF Screen
  <2>3. QED
    BY <1>2, <2>2, LoadedIsExact
<1>5. <<>> \in Seq(SaveT) /\ <<>> \in Seq(FetchT)
  OBVIOUS
<1>6. QED
  BY <1>1, <1>4, <1>5 DEF Init, IInv

(* Every step is one of these. *)
Steps ==
  \/ UserEdits \/ Aside \/ Commit \/ StartFetch
  \/ \E s \in DOMAIN saves : RunStatement(s) \/ FailStatement(s) \/ FinishSave(s)
  \/ \E f \in DOMAIN fetch : ReadFetch(f) \/ ShowFetch(f)

(* No other step is in Next. *)
LEMMA StepKinds == ASSUME IInv, [Next]_vars PROVE Steps
<1>1. ASSUME NEW v \in Vals \cup {Null}, FinishPaste(v) PROVE UserEdits \/ Aside
  BY <1>1, AsideSteps DEF UserEdits
<1>2. QED
  BY <1>1, AsideSteps DEF Next, Steps, UserEdits

(* Whatever happens, the screen stays exact. *)
LEMMA StepKeepsExact == ASSUME IInv, [Next]_vars PROVE IInv'
<1>1. CASE UserEdits
  BY <1>1, UserEditsEdits, EditedKeeps
<1>2. CASE Aside
  BY <1>2, AsideKeeps
<1>3. ASSUME NEW s \in DOMAIN saves, RunStatement(s) \/ FailStatement(s) \/ FinishSave(s) PROVE IInv'
  BY <1>3, RunStatementKeeps, FailStatementKeeps, FinishSaveKeeps
<1>4. ASSUME NEW f \in DOMAIN fetch, ReadFetch(f) \/ ShowFetch(f) PROVE IInv'
  BY <1>4, ReadFetchKeeps, ShowFetchKeeps
<1>5. CASE Commit \/ StartFetch
  BY <1>5, CommitKeeps, StartFetchKeeps
<1>6. QED
  BY <1>1, <1>2, <1>3, <1>4, <1>5, StepKinds DEF Steps

(* An exact screen is what the property asks for. *)
LEMMA ExactIsPendingIsExact == ASSUME IInv PROVE PendingIsExact
<1>1. Elems(log) = {r \in Elems(data) : obj[r].change # NoChange}
  BY SheetFacts DEF IInv, Screen, Exact
<1>2. QED
  BY <1>1 DEF PendingIsExact, Elems

(* Through edits set back, rows inserted, copied and removed, saves that end  *)
(* well or half way, answers that arrive late and refreshes, the change log   *)
(* that Save and Discard go through names exactly the rows that are shown as  *)
(* changed: whatever the table, its keys, its values and the bounds.          *)
THEOREM PendingIsExactHolds == Spec => []PendingIsExact
<1>1. Init => IInv
  BY InitExact
<1>2. IInv /\ [Next]_vars => IInv'
  BY StepKeepsExact
<1>3. IInv => PendingIsExact
  BY ExactIsPendingIsExact
<1>4. QED
  BY <1>1, <1>2, <1>3, PTL DEF Spec

-----------------------------------------------------------------------------
(* What the screen and a save on its way make of the table *)

(* g: what the statements of the save have returned so far.  A row whose statement was executed *)
(* stands in the table as it was returned, any other as it came.                                *)
Covered(s, g) == {s.log[k] : k \in DOMAIN g}
Current(s, g, r) == IF r \in Covered(s, g) THEN g[CHOOSE k \in DOMAIN g : s.log[k] = r] ELSE s.obj[r].raw
Alive(s, g) == {r \in Elems(s.data) : IF r \in Covered(s, g) THEN ~s.obj[r].isRemoved ELSE ~s.obj[r].isNew}
Held(s, g) == [r \in Alive(s, g) |-> Current(s, g, r)]

(* The rows A with the values h are the table t. *)
Mirrors(A, h, t) ==
  /\ \A r \in A : h[r]["id"] \in DOMAIN t /\ h[r]["val"] = t[h[r]["id"]]
  /\ \A i \in DOMAIN t : \E r \in A : h[r]["id"] = i
  /\ \A q, r \in A : h[q]["id"] = h[r]["id"] => q = r

Seen(s, r) == IF s.obj[r].change = NoChange THEN s.obj[r].raw ELSE Over(s.obj[r].change, s.obj[r].raw)

(* What was returned is what was seen, but for what was left to the database. *)
AsSeen(s, r, record) ==
  /\ DOMAIN record = Cols
  /\ \A c \in Cols : Seen(s, r)[c] \in {record[c], Undef}
Faithful(s, g) == \A k \in DOMAIN g : ~s.obj[s.log[k]].isRemoved => AsSeen(s, s.log[k], g[k])

(* A save on its way is the only one, was planned from what is on the screen, and what it has   *)
(* executed is in the table.                                                                    *)
Running == {s \in DOMAIN saves : saves[s].state = "run"}
Got == IF Running = {} THEN <<>> ELSE saves[CHOOSE s \in Running : TRUE].returned
OneSave ==
  /\ \A s, t \in Running : s = t
  /\ \A s \in Running : saves[s].instance = instance /\ saves[s].plans = Plans
                        /\ Len(saves[s].returned) <= Len(log)
Mirrored(s, g, t) ==
  Marked(s) /\ NewRows(s) /\ Faithful(s, g) /\ Mirrors(Alive(s, g), Held(s, g), t)

(* Nothing is saved beside a fetch that is alone. *)
Alone == \A f \in DOMAIN fetch :
           fetch[f].alone => /\ Running = {} /\ fetch[f].state # "shown"
                             /\ fetch[f].state = "read" => fetch[f].rows = RowsOf(table)

MInv == Distinct(log) /\ Alone /\ (calm => OneSave /\ Mirrored(Screen, Got, table))

(* With nothing executed the rows that came from the table stand as they came. *)
LEMMA NothingExecuted ==
  ASSUME NEW s
  PROVE  /\ Alive(s, <<>>) = Stored(s) /\ Faithful(s, <<>>)
         /\ \A r \in Stored(s) : Held(s, <<>>)[r] = s.obj[r].raw
<1>1. DOMAIN <<>> = {} /\ Covered(s, <<>>) = {}
  BY DEF Covered
<1>2. Alive(s, <<>>) = Stored(s)
  BY <1>1 DEF Alive, Stored
<1>3. \A r \in Stored(s) : Held(s, <<>>)[r] = s.obj[r].raw
  BY <1>1, <1>2 DEF Held, Current
<1>4. QED
  BY <1>1, <1>2, <1>3 DEF Faithful

(* The same rows with the same keys and values. *)
LEMMA MirrorsSame ==
  ASSUME NEW A, NEW h, NEW g, NEW t, Mirrors(A, h, t),
         \A r \in A : g[r]["id"] = h[r]["id"] /\ g[r]["val"] = h[r]["val"]
  PROVE  Mirrors(A, g, t)
BY DEF Mirrors

(* What Got is. *)
LEMMA GotFacts ==
  /\ Running = {} => Got = <<>>
  /\ \A s \in Running : OneSave => Got = saves[s].returned
  /\ Saving <=> Running # {}
<1>1. ASSUME NEW s \in Running, OneSave PROVE Got = saves[s].returned
  <2>1. (CHOOSE t \in Running : TRUE) = s
    BY <1>1 DEF OneSave
  <2>2. QED
    BY <2>1 DEF Got
<1>2. QED
  BY <1>1 DEF Got, Running, Saving

(* The returned record of a row, wherever it is in the log. *)
LEMMA CurrentAt ==
  ASSUME NEW s, NEW g, Distinct(s.log), DOMAIN g \subseteq DOMAIN s.log, NEW k \in DOMAIN g
  PROVE  s.log[k] \in Covered(s, g) /\ Current(s, g, s.log[k]) = g[k]
<1>1. (CHOOSE j \in DOMAIN g : s.log[j] = s.log[k]) = k
  BY DEF Distinct
<1>2. QED
  BY <1>1 DEF Current, Covered

-----------------------------------------------------------------------------
(* Statements on a table and its rows *)

(* A row with a key of its own joins the rows, and its values the table. *)
LEMMA RowsInserted ==
  ASSUME NEW A, NEW h, NEW t, Mirrors(A, h, t), NEW r, r \notin A,
         NEW g, \A q \in A : g[q] = h[q], g[r]["id"] \notin DOMAIN t,
         NEW one, DOMAIN one = {g[r]["id"]}, one[g[r]["id"]] = g[r]["val"]
  PROVE  Mirrors(A \cup {r}, g, Over(one, t))
<1>1. DOMAIN Over(one, t) = DOMAIN t \cup {g[r]["id"]} /\ Over(one, t)[g[r]["id"]] = g[r]["val"]
      /\ \A j \in DOMAIN t : Over(one, t)[j] = t[j]
  BY DEF Over
<1>2. QED
  BY <1>1 DEF Mirrors

(* A row and its values go. *)
LEMMA RowsDeleted ==
  ASSUME NEW A, NEW h, NEW t, Mirrors(A, h, t), NEW r \in A, NEW g, \A q \in A \ {r} : g[q] = h[q]
  PROVE  Mirrors(A \ {r}, g, [j \in DOMAIN t \ {h[r]["id"]} |-> t[j]])
BY DEF Mirrors

(* A row keeps its key or takes a free one. *)
LEMMA RowsUpdated ==
  ASSUME NEW A, NEW h, NEW t, Mirrors(A, h, t), NEW r \in A,
         NEW g, \A q \in A \ {r} : g[q] = h[q], g[r]["id"] = h[r]["id"] \/ g[r]["id"] \notin DOMAIN t,
         NEW one, DOMAIN one = {g[r]["id"]}, one[g[r]["id"]] = g[r]["val"]
  PROVE  Mirrors(A, g, Over(one, [j \in DOMAIN t \ {h[r]["id"]} |-> t[j]]))
<1> DEFINE kept == [j \in DOMAIN t \ {h[r]["id"]} |-> t[j]]
           B == A \ {r}
<1>1. Mirrors(B, g, kept)
  <2>1. Mirrors(B, h, kept)
    BY RowsDeleted
  <2> HIDE DEF kept
  <2>2. QED
    BY <2>1, MirrorsSame
<1>2. g[r]["id"] \notin DOMAIN kept /\ r \notin B /\ B \cup {r} = A
  OBVIOUS
<1> HIDE DEF kept, B
<1>3. \A q \in B : g[q] = g[q]
  OBVIOUS
<1>4. Mirrors(B \cup {r}, g, Over(one, kept))
  BY <1>1, <1>2, <1>3, RowsInserted
<1>5. QED
  BY <1>2, <1>4 DEF kept

(* b has one more record than g, the n-th. *)
OneMore(s, g, b, n) ==
  /\ Distinct(s.log) /\ DOMAIN g \subseteq DOMAIN s.log /\ n \in DOMAIN s.log \ DOMAIN g
  /\ DOMAIN b = DOMAIN g \cup {n} /\ \A k \in DOMAIN g : b[k] = g[k]

(* What one more returned record changes. *)
LEMMA NextRecord ==
  ASSUME NEW s, NEW g, NEW b, NEW n, OneMore(s, g, b, n)
  PROVE  /\ s.log[n] \notin Covered(s, g) /\ Covered(s, b) = Covered(s, g) \cup {s.log[n]}
         /\ Current(s, b, s.log[n]) = b[n]
         /\ \A q : q # s.log[n] => Current(s, b, q) = Current(s, g, q)
<1>1. /\ Distinct(s.log) /\ DOMAIN g \subseteq DOMAIN s.log /\ n \in DOMAIN s.log \ DOMAIN g
      /\ DOMAIN b = DOMAIN g \cup {n} /\ \A k \in DOMAIN g : b[k] = g[k]
  BY DEF OneMore
<1>2. Distinct(s.log) /\ DOMAIN b \subseteq DOMAIN s.log /\ n \in DOMAIN b
  BY <1>1
<1>3. \A k \in DOMAIN g : s.log[k] # s.log[n]
  BY <1>1 DEF Distinct
<1>4. s.log[n] \notin Covered(s, g)
  BY <1>3 DEF Covered
<1>5. Covered(s, b) = Covered(s, g) \cup {s.log[n]}
  BY <1>1 DEF Covered
<1>6. Current(s, b, s.log[n]) = b[n]
  BY <1>2, CurrentAt, Zenon
<1>7. ASSUME NEW q, q # s.log[n] PROVE Current(s, b, q) = Current(s, g, q)
  <2>1. CASE q \notin Covered(s, g)
    BY <1>5, <1>7, <2>1 DEF Current
  <2>2. CASE q \in Covered(s, g)
    <3>1. PICK k \in DOMAIN g : s.log[k] = q
      BY <2>2 DEF Covered
    <3>2. Current(s, g, s.log[k]) = g[k]
      <4>1. Distinct(s.log) /\ DOMAIN g \subseteq DOMAIN s.log
        BY <1>1, Zenon
      <4>2. QED
        BY <4>1, CurrentAt, Zenon
    <3>3. k \in DOMAIN b
      BY <1>1, Zenon
    <3>4. Current(s, b, s.log[k]) = b[k]
      BY <1>2, <3>3, CurrentAt, Zenon
    <3>5. QED
      BY <1>1, <3>1, <3>2, <3>4
  <2>3. QED
    BY <2>1, <2>2
<1>8. QED
  BY <1>4, <1>5, <1>6, <1>7

(* The rows that stand in the table after one more statement, and their values. *)
LEMMA NextAlive ==
  ASSUME NEW s, NEW g, NEW b, NEW n, OneMore(s, g, b, n), NEW r \in Elems(s.data), r = s.log[n]
  PROVE  /\ Alive(s, b) = (Alive(s, g) \ {r}) \cup (IF s.obj[r].isRemoved THEN {} ELSE {r})
         /\ r \in Alive(s, g) <=> ~s.obj[r].isNew
         /\ r \in Alive(s, g) => Held(s, g)[r] = s.obj[r].raw
         /\ ~s.obj[r].isRemoved => Held(s, b)[r] = b[n]
         /\ \A q \in Alive(s, g) \ {r} : Held(s, b)[q] = Held(s, g)[q]
<1>1. /\ r \notin Covered(s, g) /\ Covered(s, b) = Covered(s, g) \cup {r}
      /\ Current(s, b, r) = b[n]
      /\ \A q : q # r => Current(s, b, q) = Current(s, g, q)
  BY NextRecord
<1>2. Alive(s, b) = (Alive(s, g) \ {r}) \cup (IF s.obj[r].isRemoved THEN {} ELSE {r})
  BY <1>1 DEF Alive
<1>3. r \in Alive(s, g) <=> ~s.obj[r].isNew
  BY <1>1 DEF Alive
<1>4. r \in Alive(s, g) => Held(s, g)[r] = s.obj[r].raw
  BY <1>1 DEF Held, Current
<1>5. ~s.obj[r].isRemoved => Held(s, b)[r] = b[n]
  BY <1>1, <1>2 DEF Held
<1>6. \A q \in Alive(s, g) \ {r} : Held(s, b)[q] = Held(s, g)[q]
  BY <1>1, <1>2 DEF Held
<1>7. QED
  BY <1>2, <1>3, <1>4, <1>5, <1>6

(* What a plan says, by the row it is for. *)
LEMMA PlanFacts ==
  ASSUME IInv, NEW n \in DOMAIN log, NEW r, r = log[n], NEW p, p = Plan(log[n])
  PROVE  /\ r \in Elems(data) /\ obj[r] \in RowT /\ obj[r].change \in Changes /\ obj[r].change # NoChange
         /\ p \in PlanT /\ p.where = obj[r].raw["id"] /\ p.values = obj[r].change
         /\ obj[r].isNew => p.op = "INSERT"
         /\ ~obj[r].isNew /\ obj[r].isRemoved => p.op = "DELETE"
         /\ ~obj[r].isNew /\ ~obj[r].isRemoved => p.op = "UPDATE"
<1>1. r \in Elems(log) /\ r \in Nat
  BY ScreenFacts DEF Elems
<1>2. Elems(log) = {q \in Elems(data) : obj[q].change # NoChange}
  BY SheetFacts DEF IInv, Screen, Exact
<1>3. r \in Elems(data) /\ obj[r] \in RowT /\ obj[r].change \in Changes /\ obj[r].change # NoChange
  BY <1>1, <1>2, ScreenFacts
<1>4. obj[r].raw["id"] \in Values
  BY <1>3 DEF RowT, Cols
<1>5. p \in PlanT
  BY <1>1, <1>3, <1>4 DEF Plan, PlanT
<1>6. QED
  BY <1>3, <1>5 DEF Plan

(* What a statement returns for a row that stays is what was seen of it. *)
LEMMA ReturnedAsSeen ==
  ASSUME IInv, NEW n \in DOMAIN log, NEW r, r = log[n], NEW p, p = Plan(log[n]),
         ~obj[r].isRemoved, Matches(p),
         obj[r].isNew => obj[r].raw = [c \in Cols |-> Undef],
         ~obj[r].isNew => obj[r].raw["val"] = table[obj[r].raw["id"]]
  PROVE  AsSeen(Screen, r, Returned(p))
<1>1. /\ obj[r] \in RowT /\ obj[r].change \in Changes /\ obj[r].change # NoChange
      /\ p.where = obj[r].raw["id"] /\ p.values = obj[r].change
      /\ p.op = IF obj[r].isNew THEN "INSERT" ELSE "UPDATE"
  BY PlanFacts
<1>2. Returned(p) = [id |-> TargetId(p), val |-> TargetVal(p)]
  BY <1>1 DEF Returned
<1>3. Seen(Screen, r) = Over(obj[r].change, obj[r].raw)
  BY <1>1 DEF Seen, Screen
<1>4. DOMAIN obj[r].raw = Cols /\ "id" \in Cols /\ "val" \in Cols /\ DOMAIN obj[r].change \subseteq Cols
  BY <1>1, SomeChanges DEF RowT, Cols
<1> DEFINE u == Over(obj[r].change, obj[r].raw)
<1>5. \A c \in Cols : u[c] = IF c \in DOMAIN obj[r].change THEN obj[r].change[c] ELSE obj[r].raw[c]
  BY <1>4 DEF Over
<1> HIDE DEF u
<1>6. u["id"] \in {TargetId(p), Undef}
  BY <1>1, <1>4, <1>5 DEF TargetId
<1>7. u["val"] \in {TargetVal(p), Undef}
  BY <1>1, <1>4, <1>5 DEF TargetVal
<1>8. DOMAIN Returned(p) = Cols /\ Returned(p)["id"] = TargetId(p) /\ Returned(p)["val"] = TargetVal(p)
  BY <1>2 DEF Cols
<1>9. QED
  BY <1>3, <1>6, <1>7, <1>8 DEF AsSeen, Cols, u

(* A statement that is executed leaves the table with the rows that were returned. *)
LEMMA StatementMirrors ==
  ASSUME IInv, NEW g, NEW b, NEW n, OneMore(Screen, g, b, n), Mirrored(Screen, g, table),
         NEW p, p = Plan(log[n]), b[n] = Returned(p), ~Refused(p)
  PROVE  Mirrored(Screen, b, Executed(p))
<1> DEFINE r == log[n]
           A == Alive(Screen, g)
           h == Held(Screen, g)
           B == Alive(Screen, b)
           f == Held(Screen, b)
           one == [i \in {TargetId(p)} |-> TargetVal(p)]
<1>1. n \in DOMAIN log /\ Screen.obj = obj /\ Screen.data = data /\ Screen.log = log
  BY DEF OneMore, Screen
<1>2. /\ r \in Elems(data) /\ p.where = obj[r].raw["id"] /\ p.values = obj[r].change
      /\ obj[r] \in RowT
      /\ obj[r].isNew => p.op = "INSERT"
      /\ ~obj[r].isNew /\ obj[r].isRemoved => p.op = "DELETE"
      /\ ~obj[r].isNew /\ ~obj[r].isRemoved => p.op = "UPDATE"
  BY <1>1, PlanFacts
<1>3. /\ Marked(Screen) /\ NewRows(Screen) /\ Faithful(Screen, g) /\ Mirrors(A, h, table)
      /\ obj[r].isNew => ~obj[r].isRemoved /\ obj[r].raw = [c \in Cols |-> Undef]
  BY <1>1, <1>2 DEF Mirrored, NewRows
<1>4. /\ B = (A \ {r}) \cup (IF obj[r].isRemoved THEN {} ELSE {r})
      /\ r \in A <=> ~obj[r].isNew
      /\ r \in A => h[r] = obj[r].raw
      /\ ~obj[r].isRemoved => f[r] = b[n]
      /\ \A q \in A \ {r} : f[q] = h[q]
  BY <1>1, <1>2, NextAlive
<1> HIDE DEF r, A, h, B, f
<1>5. ~obj[r].isNew => obj[r].raw["id"] \in DOMAIN table /\ obj[r].raw["val"] = table[obj[r].raw["id"]]
  BY <1>3, <1>4 DEF Mirrors
<1>6. Matches(p)
  BY <1>2, <1>5 DEF Matches
<1>7. p.op # "DELETE" => TargetId(p) \notin DOMAIN table \/ (p.op = "UPDATE" /\ TargetId(p) = p.where)
  BY <1>6 DEF Refused
<1>8. p.op # "DELETE" => b[n]["id"] = TargetId(p) /\ b[n]["val"] = TargetVal(p)
  BY <1>6 DEF Returned
<1>9. DOMAIN one = {TargetId(p)} /\ one[TargetId(p)] = TargetVal(p)
  OBVIOUS
<1> HIDE DEF one
<1>10. Mirrors(B, f, Executed(p))
  <2>1. CASE obj[r].isNew
    <3>1. Executed(p) = Over(one, table)
      <4>1. [i \in DOMAIN table \ {} |-> table[i]] = table
        BY DEF IInv, Tables
      <4>2. QED
        BY <1>2, <1>6, <2>1, <4>1 DEF Executed, one
    <3>2. B = A \cup {r} /\ r \notin A /\ TargetId(p) \notin DOMAIN table /\ \A q \in A : f[q] = h[q]
      BY <1>2, <1>3, <1>4, <1>7, <2>1
    <3>3. f[r]["id"] = TargetId(p) /\ f[r]["val"] = TargetVal(p)
      BY <1>2, <1>3, <1>4, <1>8, <2>1
    <3>4. DOMAIN one = {f[r]["id"]} /\ one[f[r]["id"]] = f[r]["val"] /\ f[r]["id"] \notin DOMAIN table
      BY <1>9, <3>2, <3>3
    <3>5. Mirrors(A \cup {r}, f, Over(one, table))
      BY <1>3, <3>2, <3>4, RowsInserted
    <3>6. QED
      BY <3>1, <3>2, <3>5
  <2>2. CASE ~obj[r].isNew /\ obj[r].isRemoved
    <3>1. Executed(p) = [i \in DOMAIN table \ {h[r]["id"]} |-> table[i]]
      BY <1>2, <1>4, <1>6, <2>2 DEF Executed
    <3>2. B = A \ {r} /\ r \in A
      BY <1>4, <2>2
    <3>3. QED
      BY <1>3, <1>4, <3>1, <3>2, RowsDeleted
  <2>3. CASE ~obj[r].isNew /\ ~obj[r].isRemoved
    <3>1. Executed(p) = Over(one, [i \in DOMAIN table \ {h[r]["id"]} |-> table[i]])
      BY <1>2, <1>4, <1>6, <2>3 DEF Executed, one
    <3>2. B = A /\ r \in A /\ (TargetId(p) = h[r]["id"] \/ TargetId(p) \notin DOMAIN table)
      BY <1>2, <1>4, <1>7, <2>3
    <3>3. f[r]["id"] = TargetId(p) /\ f[r]["val"] = TargetVal(p)
      BY <1>2, <1>4, <1>8, <2>3
    <3>4. DOMAIN one = {f[r]["id"]} /\ one[f[r]["id"]] = f[r]["val"]
      BY <1>9, <3>3
    <3>5. Mirrors(A, f, Over(one, [i \in DOMAIN table \ {h[r]["id"]} |-> table[i]]))
      BY <1>3, <1>4, <3>2, <3>3, <3>4, RowsUpdated
    <3>6. QED
      BY <3>1, <3>2, <3>5
  <2>4. QED
    BY <2>1, <2>2, <2>3
<1>11. Faithful(Screen, b)
  <2>1. ~obj[r].isRemoved => AsSeen(Screen, r, b[n])
    BY <1>1, <1>3, <1>5, <1>6, ReturnedAsSeen DEF r
  <2>2. DOMAIN b = DOMAIN g \cup {n} /\ \A k \in DOMAIN g : b[k] = g[k]
    BY DEF OneMore
  <2>3. \A k \in DOMAIN g : ~obj[log[k]].isRemoved => AsSeen(Screen, log[k], g[k])
    BY <1>1, <1>3 DEF Faithful
  <2>4. QED
    BY <1>1, <2>1, <2>2, <2>3 DEF Faithful, r
<1>12. QED
  BY <1>3, <1>10, <1>11 DEF Mirrored, B, f

-----------------------------------------------------------------------------
(* Every step keeps the mirror *)

(* On a screen with nothing executed that keeps what was stored the mirror is kept. *)
LEMMA KeptMirrors ==
  ASSUME NEW s, NEW t, NEW d, Keeps(s, t), Mirrored(s, <<>>, d), Marked(t)
  PROVE  Mirrored(t, <<>>, d)
<1>1. NewRows(t) /\ Stored(t) = Stored(s) /\ \A r \in Stored(s) : t.obj[r].raw = s.obj[r].raw
  BY DEF Keeps, Mirrored
<1>2. Alive(t, <<>>) = Alive(s, <<>>) /\ Faithful(t, <<>>)
  BY <1>1, NothingExecuted
<1>3. \A r \in Alive(s, <<>>) : Held(t, <<>>)[r] = Held(s, <<>>)[r]
  BY <1>1, NothingExecuted
<1>4. Mirrors(Alive(s, <<>>), Held(s, <<>>), d)
  BY DEF Mirrored
<1>5. Mirrors(Alive(s, <<>>), Held(t, <<>>), d)
  BY <1>3, <1>4, MirrorsSame
<1>6. QED
  BY <1>1, <1>2, <1>5 DEF Mirrored

(* Nothing happened to the saves. *)
LEMMA SavesAlone == ASSUME UNCHANGED saves PROVE Running' = Running /\ Got' = Got
<1>1. Running' = Running
  BY DEF Running
<1>2. QED
  BY <1>1 DEF Got

(* No save is on its way. *)
LEMMA NoSave == ASSUME Running = {} PROVE Got = <<>> /\ OneSave
BY DEF Got, OneSave

(* An edit. *)
LEMMA EditedMirrors == ASSUME IInv, MInv, Edited PROVE MInv'
<1>1. PICK s \in Exacts : Keeps(Screen, s) /\ Edit(s)
  BY DEF Edited
<1>2. Screen' = s /\ log' = s.log /\ Screen.log = log
  BY <1>1, SheetFacts DEF Edit, Show, Screen
<1>3. UNCHANGED <<table, instance, saves, fetch>> /\ calm' = (calm /\ ~Saving /\ ~MarkLost(s))
  BY <1>1 DEF Edit
<1>4. Running' = Running /\ Got' = Got
  BY <1>3, SavesAlone
<1>5. Distinct(log')
  BY <1>1, <1>2 DEF MInv, Keeps
<1>6. Alone'
  BY <1>3, <1>4 DEF MInv, Alone, RowsOf
<1>7. ASSUME calm' PROVE OneSave' /\ Mirrored(Screen, Got, table)'
  <2>1. calm /\ Running = {} /\ ~MarkLost(s)
    BY <1>3, <1>7, GotFacts
  <2>2. Got = <<>> /\ Got' = <<>> /\ Mirrored(Screen, <<>>, table)
    BY <1>4, <2>1, NoSave DEF MInv
  <2>3. Marked(s)
    BY <2>1 DEF Marked, MarkLost, Elems
  <2>4. Mirrored(s, <<>>, table)
    BY <1>1, <2>2, <2>3, KeptMirrors
  <2>5. OneSave'
    BY <1>4, <2>1 DEF OneSave
  <2>6. Mirrored(Screen', Got', table')
    BY <1>2, <1>3, <2>2, <2>4
  <2>7. QED
    BY <2>5, <2>6 DEF Mirrored, Marked, NewRows, Faithful, Mirrors, Alive, Held
<1>8. QED
  BY <1>5, <1>6, <1>7 DEF MInv

(* A step aside. *)
LEMMA AsideMirrors == ASSUME IInv, MInv, Aside PROVE MInv'
<1>1. UNCHANGED <<table, obj, data, log, instance, saves, fetch, calm>>
  BY DEF Aside
<1>2. Running' = Running /\ Got' = Got /\ Screen' = Screen
  BY <1>1, SavesAlone DEF Screen
<1>3. Plans' = Plans /\ Alone'
  BY <1>1, <1>2 DEF Plans, Plan, MInv, Alone, RowsOf
<1>4. OneSave <=> OneSave'
  BY <1>1, <1>2, <1>3 DEF OneSave
<1>5. QED
  BY <1>1, <1>2, <1>3, <1>4 DEF MInv

(* After something began beside the fetches none of them is alone. *)
LEMMA OverlappedAlone ==
  ASSUME IInv
  PROVE  DOMAIN Overlapped = DOMAIN fetch /\ \A f \in DOMAIN Overlapped : ~Overlapped[f].alone
<1>1. DOMAIN Overlapped = DOMAIN fetch
  BY DEF Overlapped
<1>2. ASSUME NEW f \in DOMAIN fetch PROVE ~Overlapped[f].alone
  <2>1. fetch[f] \in FetchT
    BY DEF IInv
  <2>2. QED
    BY <2>1 DEF Overlapped, FetchT
<1>3. QED
  BY <1>1, <1>2

(* A save is planned, or is refused before it began. *)
LEMMA CommitMirrors == ASSUME IInv, MInv, Commit PROVE MInv'
<1> DEFINE ok == \A k \in DOMAIN log : Valid(Plan(log[k]))
           save == IF ok THEN [state |-> "run", plans |-> Plans, returned |-> <<>>, instance |-> instance]
                         ELSE Ended("failed")
           n == Len(saves) + 1
<1>1. /\ saves' = Append(saves, save) /\ calm' = (calm /\ (ok => ~Saving /\ ~Fetching))
      /\ fetch' = Overlapped /\ UNCHANGED <<table, screen>>
  BY DEF Commit
<1>2. Screen' = Screen /\ Plans' = Plans /\ instance' = instance /\ log' = log
  BY <1>1 DEF screen, Screen, Plans, Plan
<1>3. Alone'
  BY <1>1, OverlappedAlone DEF Alone
<1>4. save.state = IF ok THEN "run" ELSE "failed"
  BY DEF Ended
<1>5. ok => save.plans = Plans /\ save.returned = <<>> /\ save.instance = instance
  OBVIOUS
<1> HIDE DEF save, ok
<1>6. DOMAIN saves' = DOMAIN saves \cup {n} /\ saves'[n] = save /\ n \notin DOMAIN saves
      /\ \A s \in DOMAIN saves : saves'[s] = saves[s]
  BY <1>1 DEF IInv
<1> HIDE DEF n
<1>7. Running' = IF ok THEN Running \cup {n} ELSE Running
  BY <1>4, <1>6 DEF Running
<1>8. \A s \in Running : saves'[s] = saves[s]
  BY <1>6 DEF Running
<1>9. ASSUME calm' PROVE OneSave' /\ Got' = Got
  <2>1. CASE ok
    <3>1. Running = {} /\ Running' = {n}
      BY <1>1, <1>7, <1>9, <2>1, GotFacts
    <3>2. Got' = <<>> /\ Got = <<>>
      BY <1>5, <1>6, <2>1, <3>1 DEF Got
    <3>3. Len(<<>>) <= Len(log)
      BY ScreenFacts
    <3>4. QED
      BY <1>2, <1>5, <1>6, <2>1, <3>1, <3>2, <3>3 DEF OneSave
  <2>2. CASE ~ok
    <3>1. Running' = Running /\ OneSave
      BY <1>1, <1>7, <1>9, <2>2 DEF MInv
    <3>2. Got' = Got
      BY <1>8, <3>1 DEF Got
    <3>3. QED
      BY <1>2, <1>8, <3>1, <3>2 DEF OneSave
  <2>3. QED
    BY <2>1, <2>2
<1>10. calm' => OneSave' /\ Mirrored(Screen', Got', table')
  <2>1. calm' => Mirrored(Screen, Got, table)
    BY <1>1 DEF MInv
  <2>2. QED
    BY <1>1, <1>2, <1>9, <2>1
<1>11. QED
  BY <1>2, <1>3, <1>10 DEF MInv, Mirrored, Marked, NewRows, Faithful, Mirrors, Alive, Held

(* A save that is not at its end, in calm. *)
LEMMA UnderWay ==
  ASSUME IInv, MInv, NEW s \in DOMAIN saves, saves[s].state = "run"
  PROVE  /\ s \in Running
         /\ \A f \in DOMAIN fetch : ~fetch[f].alone
         /\ calm => /\ Running = {s} /\ Got = saves[s].returned /\ saves[s].plans = Plans
                    /\ saves[s].instance = instance /\ Mirrored(Screen, Got, table)
                    /\ Len(saves[s].plans) = Len(log) /\ Len(Got) <= Len(log)
                    /\ Got \in Seq(Changes)
<1>1. s \in Running
  BY DEF Running
<1>2. \A f \in DOMAIN fetch : ~fetch[f].alone
  BY <1>1 DEF MInv, Alone
<1>3. ASSUME calm PROVE /\ Running = {s} /\ Got = saves[s].returned /\ saves[s].plans = Plans
                        /\ saves[s].instance = instance /\ Mirrored(Screen, Got, table)
                        /\ Len(Got) <= Len(log)
  BY <1>1, <1>3, GotFacts DEF MInv, OneSave
<1>4. Len(Plans) = Len(log)
  <2>1. DOMAIN log = 1..Len(log) /\ Len(log) \in Nat
    BY ScreenFacts
  <2>2. QED
    BY <2>1 DEF Plans
<1>5. saves[s].returned \in Seq(Changes)
  BY SaveFacts DEF SaveT
<1>6. QED
  BY <1>1, <1>2, <1>3, <1>4, <1>5

(* A statement of a save is executed. *)
LEMMA RunStatementMirrors ==
  ASSUME IInv, MInv, NEW s \in DOMAIN saves, RunStatement(s)
  PROVE  MInv'
<1> DEFINE p == NextPlan(s)
           g == saves[s].returned
           b == Append(g, Returned(p))
           n == Len(g) + 1
<1>1. saves[s].state = "run" /\ Len(g) < Len(saves[s].plans) /\ ~Refused(p)
  BY DEF RunStatement, Unfinished
<1>2. /\ table' = Executed(p) /\ calm' = calm /\ UNCHANGED <<screen, fetch>>
      /\ saves' = [saves EXCEPT ![s].returned = b]
  BY DEF RunStatement
<1>3. Screen' = Screen /\ Plans' = Plans /\ instance' = instance /\ log' = log
  BY <1>2 DEF screen, Screen, Plans, Plan
<1>4. s \in Running /\ \A f \in DOMAIN fetch : ~fetch[f].alone
  BY <1>1, UnderWay
<1>5. g \in Seq(Changes) /\ saves[s] \in SaveT /\ p \in PlanT
  BY SaveFacts DEF SaveT, RunStatement
<1>6. b \in Seq(Changes) /\ Len(b) = n /\ DOMAIN b = DOMAIN g \cup {n} /\ n \notin DOMAIN g
      /\ b[n] = Returned(p) /\ \A k \in DOMAIN g : b[k] = g[k]
  <2>1. Returned(p) \in Changes
    BY <1>1, <1>5, ExecutedIsTable DEF IInv
  <2>2. QED
    BY <1>5, <2>1
<1>7. DOMAIN saves' = DOMAIN saves /\ saves'[s] = [saves[s] EXCEPT !.returned = b]
      /\ \A q \in DOMAIN saves \ {s} : saves'[q] = saves[q]
  BY <1>2
<1>8. saves'[s].state = "run" /\ saves'[s].returned = b
      /\ saves'[s].plans = saves[s].plans /\ saves'[s].instance = saves[s].instance
  BY <1>1, <1>5, <1>7 DEF SaveT
<1>9. Alone'
  BY <1>2, <1>4 DEF Alone
<1>10. ASSUME calm' PROVE OneSave' /\ Mirrored(Screen', Got', table')
  <2>1. /\ Running = {s} /\ Got = g /\ saves[s].plans = Plans /\ saves[s].instance = instance
        /\ Mirrored(Screen, Got, table) /\ Len(saves[s].plans) = Len(log)
    BY <1>1, <1>2, <1>10, UnderWay
  <2>2. n \in DOMAIN log /\ DOMAIN g \subseteq DOMAIN log
    BY <1>1, <1>5, <2>1, ScreenFacts
  <2> HIDE DEF b, n
  <2>3. Running' = {s}
    BY <1>1, <1>7, <1>8, <2>1 DEF Running
  <2>4. Got' = b
    BY <1>8, <2>3 DEF Got
  <2>5. p = Plan(log[n])
    BY <2>1, <2>2 DEF NextPlan, Plans, n
  <2>6. OneMore(Screen, g, b, n)
    BY <1>6, <2>2 DEF OneMore, Screen, MInv
  <2>7. Mirrored(Screen, b, Executed(p))
    BY <1>1, <1>6, <2>1, <2>5, <2>6, StatementMirrors
  <2>8. Len(b) <= Len(log)
    BY <1>6, <2>2, ScreenFacts
  <2>9. OneSave'
    BY <1>3, <1>8, <2>1, <2>3, <2>8 DEF OneSave
  <2>10. QED
    BY <1>2, <1>3, <2>4, <2>7, <2>9
<1>11. QED
  BY <1>3, <1>9, <1>10 DEF MInv, Mirrored, Marked, NewRows, Faithful, Mirrors, Alive, Held

(* A save fails: in calm nothing of it was executed. *)
LEMMA FailStatementMirrors ==
  ASSUME IInv, MInv, NEW s \in DOMAIN saves, FailStatement(s)
  PROVE  MInv'
<1>1. saves[s].state = "run" /\ saves' = [saves EXCEPT ![s] = Ended("failed")] /\ UNCHANGED <<screen, fetch>>
  BY DEF FailStatement, Unfinished
<1>2. calm' => calm /\ saves[s].returned = <<>> /\ table' = table
  BY DEF FailStatement
<1>3. Screen' = Screen /\ instance' = instance /\ log' = log
  BY <1>1 DEF screen, Screen
<1>4. s \in Running /\ \A f \in DOMAIN fetch : ~fetch[f].alone
  BY <1>1, UnderWay
<1>5. Alone'
  BY <1>1, <1>4 DEF Alone
<1>6. Running' = Running \ {s}
  BY <1>1 DEF Running, Ended
<1>7. ASSUME calm' PROVE OneSave' /\ Got' = <<>> /\ Mirrored(Screen, <<>>, table)
  <2>1. Running = {s} /\ Got = <<>> /\ Mirrored(Screen, Got, table)
    BY <1>1, <1>2, <1>7, UnderWay
  <2>2. Running' = {}
    BY <1>6, <2>1
  <2>3. QED
    BY <2>1, <2>2 DEF Got, OneSave
<1>8. calm' => OneSave' /\ Mirrored(Screen', Got', table')
  BY <1>2, <1>3, <1>7
<1>9. QED
  BY <1>3, <1>5, <1>8 DEF MInv, Mirrored, Marked, NewRows, Faithful, Mirrors, Alive, Held

(* With every statement executed the record of a logged row is its current one. *)
LEMMA CurrentLogged ==
  ASSUME NEW s, NEW g, Distinct(s.log), DOMAIN g = DOMAIN s.log
  PROVE  \A k \in DOMAIN g : Current(s, g, s.log[k]) = g[k]
<1>1. DOMAIN g \subseteq DOMAIN s.log
  OBVIOUS
<1>2. QED
  BY <1>1, CurrentAt

(* The screen after a save took over what was returned for each logged row. *)
LEMMA AppliedMirrors ==
  ASSUME NEW s \in Exacts, NEW updated, NEW g, NEW t, Mirrored(s, g, t), DOMAIN g = DOMAIN s.log,
         \A k \in DOMAIN g : updated[s.log[k]] = g[k], Distinct(s.log)
  PROVE  Mirrored(ApplyChanges(s, updated), <<>>, t)
<1> DEFINE logged == {s.log[k] : k \in DOMAIN s.log}
           Saved(r) == Over(updated[r], Over(s.obj[r].change, s.obj[r].raw))
           gone == {r \in logged : s.obj[r].isRemoved}
           a == ApplyChanges(s, updated)
<1>1. logged = Elems(s.log) /\ logged = Covered(s, g)
  BY DEF Elems, Covered
<1>2. Elems(s.data) \subseteq 1..Len(s.obj) /\ logged \subseteq Elems(s.data)
  <2>1. DOMAIN s.obj = 1..Len(s.obj)
    BY SheetFacts
  <2> HIDE DEF logged
  <2>2. QED
    BY <1>1, <2>1, SheetFacts DEF Exact
<1>3. /\ a.data = Without(s.data, gone) /\ a.log = <<>>
      /\ \A r \in 1..Len(s.obj) : a.obj[r] = IF r \in logged THEN Row(Saved(r), NoChange, FALSE, FALSE)
                                                              ELSE s.obj[r]
  BY DEF ApplyChanges
<1> HIDE DEF a, logged, Saved
<1>4. Elems(a.data) = Elems(s.data) \ gone
  BY <1>3, SheetFacts, WithoutElems
<1>5. ASSUME NEW r \in logged PROVE ~a.obj[r].isNew /\ ~a.obj[r].isRemoved /\ a.obj[r].raw = Saved(r)
  <2>1. r \in 1..Len(s.obj)
    BY <1>2
  <2>2. a.obj[r] = Row(Saved(r), NoChange, FALSE, FALSE)
    BY <1>3, <2>1
  <2>3. QED
    BY <2>2 DEF Row
<1>6. \A r \in Elems(s.data) \ logged : a.obj[r] = s.obj[r] /\ ~s.obj[r].isNew /\ ~s.obj[r].isRemoved
  BY <1>1, <1>2, <1>3 DEF Mirrored, Marked
<1>7. \A r \in Elems(a.data) : ~a.obj[r].isNew /\ ~a.obj[r].isRemoved
  BY <1>4, <1>5, <1>6
<1>8. Marked(a) /\ NewRows(a)
  BY <1>7 DEF Marked, NewRows
<1>9. Stored(a) = Elems(s.data) \ gone
  BY <1>4, <1>7 DEF Stored
<1>10. Alive(s, g) = Elems(s.data) \ gone
  BY <1>1, <1>6 DEF Alive
<1>11. ASSUME NEW r \in Alive(s, g)
       PROVE  a.obj[r].raw["id"] = Held(s, g)[r]["id"] /\ a.obj[r].raw["val"] = Held(s, g)[r]["val"]
  <2>1. CASE r \in logged
    <3>1. PICK k \in DOMAIN g : s.log[k] = r
      BY <2>1 DEF logged
    <3>2. Current(s, g, s.log[k]) = g[k]
      BY CurrentLogged
    <3>3. Held(s, g)[r] = g[k]
      BY <3>1, <3>2 DEF Held
    <3>4. ~s.obj[r].isRemoved
      BY <1>10, <2>1
    <3>5. DOMAIN g[k] = Cols
      BY <3>1, <3>4 DEF Mirrored, Faithful, AsSeen
    <3>6. a.obj[r].raw = Over(g[k], Over(s.obj[r].change, s.obj[r].raw))
      BY <1>5, <2>1, <3>1 DEF Saved
    <3>7. \A c \in Cols : a.obj[r].raw[c] = g[k][c]
      BY <3>5, <3>6 DEF Over
    <3>8. QED
      BY <3>3, <3>7 DEF Cols
  <2>2. CASE r \notin logged
    <3>1. a.obj[r].raw = s.obj[r].raw
      BY <1>6, <1>10, <2>2
    <3>2. Held(s, g)[r] = s.obj[r].raw
      BY <1>1, <2>2 DEF Held, Current
    <3>3. QED
      BY <3>1, <3>2
  <2>3. QED
    BY <2>1, <2>2
<1>12. Alive(a, <<>>) = Alive(s, g) /\ Faithful(a, <<>>)
       /\ \A r \in Alive(s, g) : Held(a, <<>>)[r] = a.obj[r].raw
  BY <1>9, <1>10, NothingExecuted
<1>13. Mirrors(Alive(s, g), Held(s, g), t)
  BY DEF Mirrored
<1>14. Mirrors(Alive(s, g), Held(a, <<>>), t)
  BY <1>11, <1>12, <1>13, MirrorsSame
<1>15. QED
  BY <1>8, <1>12, <1>14 DEF Mirrored, a

(* What was returned for a logged row is found by its plan. *)
LEMMA ReturnedForLogged ==
  ASSUME IInv, MInv, calm, NEW s \in DOMAIN saves, saves[s].state = "run",
         Len(saves[s].returned) = Len(saves[s].plans)
  PROVE  DOMAIN Got = DOMAIN log /\ \A k \in DOMAIN Got : ReturnedFor(s)[log[k]] = Got[k]
<1>1. /\ Got = saves[s].returned /\ saves[s].plans = Plans /\ Len(saves[s].plans) = Len(log)
      /\ Got \in Seq(Changes) /\ Distinct(log)
  BY UnderWay DEF MInv
<1>2. DOMAIN Got = DOMAIN log
  BY <1>1, ScreenFacts
<1>3. ASSUME NEW k \in DOMAIN log PROVE ReturnedFor(s)[log[k]] = Got[k]
  <2> DEFINE r == log[k]
             ks == {j \in DOMAIN Plans : Plans[j].row = r}
  <2>1. r \in 1..Len(obj)
    <3>1. r \in Elems(data)
      BY PlanFacts
    <3>2. Elems(data) \subseteq DOMAIN obj /\ DOMAIN obj = 1..Len(obj)
      BY SheetFacts, ScreenFacts DEF Exact, Screen, IInv
    <3>3. QED
      BY <3>1, <3>2
  <2>2. ReturnedFor(s)[r] = IF ks = {} THEN Empty ELSE Got[CHOOSE j \in ks : TRUE]
    BY <1>1, <2>1 DEF ReturnedFor
  <2>3. ks = {k}
    <3>1. DOMAIN Plans = DOMAIN log /\ \A j \in DOMAIN log : Plans[j].row = log[j]
      BY DEF Plans, Plan
    <3>2. QED
      BY <1>1, <3>1 DEF Distinct
  <2> HIDE DEF ks
  <2>4. QED
    BY <2>2, <2>3
<1>4. QED
  BY <1>2, <1>3

(* A save ends and the screen takes it over. *)
LEMMA FinishSaveMirrors == ASSUME IInv, MInv, NEW s \in DOMAIN saves, FinishSave(s) PROVE MInv'
<1>1. /\ saves[s].state = "run" /\ saves' = [saves EXCEPT ![s] = Ended("done")]
      /\ Len(saves[s].returned) = Len(saves[s].plans)
      /\ UNCHANGED <<table, fetch, calm>>
  BY DEF FinishSave
<1>2. s \in Running /\ \A f \in DOMAIN fetch : ~fetch[f].alone
  BY <1>1, UnderWay
<1>3. Alone'
  BY <1>1, <1>2 DEF Alone
<1>4. Running' = Running \ {s}
  BY <1>1 DEF Running, Ended
<1>5. Distinct(log')
  <2>1. saves[s].instance # instance => log' = log
    BY DEF FinishSave, screen
  <2>2. saves[s].instance = instance => log' = <<>>
    BY DEF FinishSave, Show, ApplyChanges
  <2>3. QED
    BY <2>1, <2>2 DEF MInv, Distinct
<1>6. ASSUME calm' PROVE OneSave' /\ Mirrored(Screen', Got', table')
  <2>1. Running = {s} /\ saves[s].instance = instance /\ Mirrored(Screen, Got, table)
    BY <1>1, <1>6, UnderWay
  <2>2. Running' = {} /\ Got' = <<>> /\ OneSave'
    <3>1. Running' = {}
      BY <1>4, <2>1
    <3>2. QED
      BY <3>1 DEF Got, OneSave
  <2> DEFINE u == ReturnedFor(s)
             a == ApplyChanges(Screen, u)
  <2>3. Show(a)
    BY <2>1 DEF FinishSave
  <2>4. DOMAIN Got = DOMAIN log /\ \A k \in DOMAIN Got : u[log[k]] = Got[k]
    BY <1>1, <1>6, ReturnedForLogged
  <2>5. Screen' = a
    BY <2>3 DEF Show, Screen, ApplyChanges
  <2>6. Screen.log = log /\ Distinct(log) /\ Screen \in Exacts
    BY DEF Screen, MInv, IInv
  <2> HIDE DEF u
  <2>7. Mirrored(a, <<>>, table)
    BY <2>1, <2>4, <2>6, AppliedMirrors
  <2>8. QED
    BY <1>1, <2>2, <2>5, <2>7
<1>7. QED
  BY <1>3, <1>5, <1>6 DEF MInv, Mirrored, Marked, NewRows, Faithful, Mirrors, Alive, Held

(* A screen that was just loaded mirrors the table. *)
LEMMA LoadedMirrors ==
  ASSUME NEW t \in Tables, NEW rows, rows = RowsOf(t),
         NEW s, s.obj = ObjectsOf(rows), s.data = [k \in DOMAIN rows |-> k]
  PROVE  Mirrored(s, <<>>, t)
<1>1. /\ rows \in Seq(Ids \X Values)
      /\ \A k \in DOMAIN rows : rows[k][1] \in DOMAIN t /\ rows[k][2] = t[rows[k][1]]
      /\ \A i \in DOMAIN t : \E k \in DOMAIN rows : rows[k][1] = i
      /\ \A j, k \in DOMAIN rows : rows[j][1] = rows[k][1] => j = k
  BY RowsOfTable
<1>2. DOMAIN rows = 1..Len(rows)
  BY <1>1
<1>3. Elems(s.data) = DOMAIN rows
  BY DEF Elems
<1>4. \A k \in DOMAIN rows : s.obj[k] = Loaded(rows[k][1], rows[k][2])
  BY <1>2 DEF ObjectsOf
<1>5. ASSUME NEW k \in DOMAIN rows
      PROVE  /\ ~s.obj[k].isNew /\ ~s.obj[k].isRemoved
             /\ s.obj[k].raw["id"] = rows[k][1] /\ s.obj[k].raw["val"] = rows[k][2]
  <2>1. s.obj[k] = Loaded(rows[k][1], rows[k][2])
    BY <1>4
  <2>2. QED
    BY <2>1 DEF Loaded, Row
<1>6. Stored(s) = DOMAIN rows
  BY <1>3, <1>5 DEF Stored
<1>7. /\ Alive(s, <<>>) = DOMAIN rows /\ Faithful(s, <<>>)
      /\ \A r \in DOMAIN rows : Held(s, <<>>)[r] = s.obj[r].raw
  BY <1>6, NothingExecuted
<1>8. \A r \in DOMAIN rows : Held(s, <<>>)[r]["id"] = rows[r][1] /\ Held(s, <<>>)[r]["val"] = rows[r][2]
  BY <1>5, <1>7
<1>9. Mirrors(DOMAIN rows, Held(s, <<>>), t)
  <2> DEFINE h == Held(s, <<>>)
  <2>1. \A r \in DOMAIN rows : h[r]["id"] = rows[r][1] /\ h[r]["val"] = rows[r][2]
    BY <1>8
  <2> HIDE DEF h
  <2>2. Mirrors(DOMAIN rows, h, t)
    <3>1. \A r \in DOMAIN rows : h[r]["id"] \in DOMAIN t /\ h[r]["val"] = t[h[r]["id"]]
      BY <1>1, <2>1
    <3>2. \A i \in DOMAIN t : \E r \in DOMAIN rows : h[r]["id"] = i
      BY <1>1, <2>1
    <3>3. \A q, r \in DOMAIN rows : h[q]["id"] = h[r]["id"] => q = r
      BY <1>1, <2>1
    <3>4. QED
      BY <3>1, <3>2, <3>3 DEF Mirrors
  <2>3. QED
    BY <2>2 DEF h
<1>10. Marked(s) /\ NewRows(s)
  BY <1>3, <1>5 DEF Marked, NewRows
<1>11. QED
  BY <1>7, <1>9, <1>10 DEF Mirrored

(* A fetch is sent. *)
LEMMA StartFetchMirrors == ASSUME IInv, MInv, StartFetch PROVE MInv'
<1> DEFINE sent == [state |-> "sent", rows |-> <<>>, alone |-> ~Saving /\ ~Fetching]
           n == Len(Overlapped) + 1
<1>1. fetch' = Append(Overlapped, sent) /\ calm' = (calm /\ ~Saving) /\ UNCHANGED <<table, screen, saves>>
  BY DEF StartFetch
<1>2. Running' = Running /\ Got' = Got /\ Screen' = Screen /\ Plans' = Plans /\ instance' = instance /\ log' = log
  BY <1>1, SavesAlone DEF Screen, screen, Plans, Plan
<1>3. Alone'
  <2>1. sent.state = "sent" /\ (sent.alone => Running = {})
    BY GotFacts
  <2> HIDE DEF sent
  <2>2. DOMAIN fetch' = DOMAIN Overlapped \cup {n} /\ fetch'[n] = sent
        /\ \A f \in DOMAIN Overlapped : fetch'[f] = Overlapped[f]
    BY <1>1, OverlappedFetches
  <2> HIDE DEF n
  <2>3. \A f \in DOMAIN fetch' : fetch'[f].alone => fetch'[f] = sent
    BY <2>2, OverlappedAlone
  <2>4. QED
    BY <1>2, <2>1, <2>3 DEF Alone
<1>4. OneSave <=> OneSave'
  BY <1>2, <1>1 DEF OneSave
<1>5. QED
  BY <1>1, <1>2, <1>3, <1>4 DEF MInv

(* The server reads the table for a fetch. *)
LEMMA ReadFetchMirrors == ASSUME IInv, MInv, NEW f \in DOMAIN fetch, ReadFetch(f) PROVE MInv'
<1> DEFINE rows == RowsOf(table)
<1>1. fetch' = [fetch EXCEPT ![f].state = "read", ![f].rows = rows]
      /\ UNCHANGED <<table, screen, saves, calm>>
  BY DEF ReadFetch
<1>2. Running' = Running /\ Got' = Got /\ Screen' = Screen /\ Plans' = Plans /\ instance' = instance /\ log' = log
  BY <1>1, SavesAlone DEF Screen, screen, Plans, Plan
<1>3. Alone'
  <2>1. rows' = rows
    BY <1>1 DEF RowsOf
  <2> HIDE DEF rows
  <2>2. fetch[f] \in FetchT
    BY DEF IInv
  <2>3. DOMAIN fetch' = DOMAIN fetch /\ fetch'[f].state = "read" /\ fetch'[f].rows = rows
        /\ fetch'[f].alone = fetch[f].alone /\ \A g \in DOMAIN fetch \ {f} : fetch'[g] = fetch[g]
    BY <1>1, <2>2 DEF FetchT
  <2>4. ASSUME NEW g \in DOMAIN fetch', fetch'[g].alone
        PROVE  Running' = {} /\ fetch'[g].state # "shown" /\ (fetch'[g].state = "read" => fetch'[g].rows = rows')
    BY <1>2, <2>1, <2>3, <2>4 DEF MInv, Alone, rows
  <2>5. QED
    BY <2>4 DEF Alone, rows
<1>4. OneSave <=> OneSave'
  BY <1>1, <1>2 DEF OneSave
<1>5. QED
  BY <1>1, <1>2, <1>3, <1>4 DEF MInv

(* An answer becomes a new screen; it mirrors the table if the fetch was alone. *)
LEMMA ShowFetchMirrors == ASSUME IInv, MInv, NEW f \in DOMAIN fetch, ShowFetch(f) PROVE MInv'
<1> DEFINE rows == fetch[f].rows
           s == [obj |-> ObjectsOf(rows), data |-> [k \in DOMAIN rows |-> k], log |-> <<>>]
<1>1. /\ obj' = ObjectsOf(rows) /\ data' = [k \in DOMAIN rows |-> k] /\ log' = <<>>
      /\ calm' = fetch[f].alone /\ UNCHANGED <<table, saves>> /\ fetch[f].state = "read"
      /\ fetch' = [fetch EXCEPT ![f] = [state |-> "shown", rows |-> <<>>, alone |-> FALSE]]
  BY DEF ShowFetch
<1>2. Running' = Running /\ Got' = Got /\ Screen' = s
  BY <1>1, SavesAlone DEF Screen
<1>3. Alone'
  BY <1>1, <1>2 DEF MInv, Alone, RowsOf
<1>4. ASSUME calm' PROVE OneSave' /\ Mirrored(Screen', Got', table')
  <2>1. Running = {} /\ rows = RowsOf(table)
    BY <1>1, <1>4 DEF MInv, Alone
  <2>2. Got = <<>> /\ table \in Tables
    BY <2>1, NoSave DEF IInv
  <2>3. s.obj = ObjectsOf(rows) /\ s.data = [k \in DOMAIN rows |-> k]
    OBVIOUS
  <2> HIDE DEF rows, s
  <2>4. Mirrored(s, <<>>, table)
    BY <2>1, <2>2, <2>3, LoadedMirrors
  <2>5. OneSave'
    BY <1>2, <2>1 DEF OneSave
  <2>6. QED
    BY <1>1, <1>2, <2>2, <2>4, <2>5
<1>5. Distinct(log')
  BY <1>1 DEF Distinct
<1>6. QED
  BY <1>3, <1>4, <1>5 DEF MInv, Mirrored, Marked, NewRows, Faithful, Mirrors, Alive, Held

(* Initially the screen was just loaded. *)
LEMMA InitMirrors == ASSUME Init PROVE MInv
<1> DEFINE rows == RowsOf(table)
<1>1. table \in Tables
  BY InitExact DEF IInv
<1>2. obj = ObjectsOf(rows) /\ data = [k \in 1..Len(obj) |-> k] /\ log = <<>> /\ saves = <<>> /\ fetch = <<>>
  BY DEF Init
<1>3. rows \in Seq(Ids \X Values)
  BY <1>1, RowsOfTable
<1>4. Running = {} /\ DOMAIN fetch = {} /\ Distinct(log)
  BY <1>2 DEF Running, Distinct
<1> HIDE DEF rows
<1>5. Len(obj) = Len(rows) /\ DOMAIN rows = 1..Len(rows)
  BY <1>2, <1>3, LoadedIsExact
<1>6. Screen.obj = ObjectsOf(rows) /\ Screen.data = [k \in DOMAIN rows |-> k]
  BY <1>2, <1>5 DEF Screen
<1>7. Mirrored(Screen, <<>>, table)
  BY <1>1, <1>6, LoadedMirrors DEF rows
<1>8. QED
  BY <1>4, <1>7, NoSave DEF MInv, Alone

-----------------------------------------------------------------------------
(* What the mirror says *)

(* Rows that mirror a table are as many as its values. *)
LEMMA MirrorsCount ==
  ASSUME NEW A, NEW h, NEW t, Mirrors(A, h, t), IsFiniteSet(A)
  PROVE  Cardinality(A) = Cardinality(DOMAIN t)
<1> DEFINE key == [r \in A |-> h[r]["id"]]
<1>1. key \in [A -> DOMAIN t] /\ (\A i \in DOMAIN t : \E r \in A : key[r] = i)
      /\ \A q, r \in A : key[q] = key[r] => q = r
  BY DEF Mirrors
<1> HIDE DEF key
<1>2. key \in Bijection(A, DOMAIN t)
  BY <1>1 DEF Bijection, Injection, IsInjective, Surjection
<1>3. ExistsBijection(A, DOMAIN t)
  BY <1>2 DEF ExistsBijection
<1>4. QED
  BY <1>3, FS_Bijection

(* In calm and with no save on its way the screen is the table. *)
LEMMA MirroredIsMirror == ASSUME IInv, MInv PROVE ScreenMirrorsTable
<1> DEFINE rows == {data[i] : i \in {j \in DOMAIN data : ~obj[data[j]].isNew}}
<1>1. SUFFICES ASSUME calm, ~Saving
               PROVE  /\ \A r \in rows : /\ obj[r].raw["id"] \in DOMAIN table
                                         /\ obj[r].raw["val"] = table[obj[r].raw["id"]]
                      /\ \A i \in DOMAIN table : Cardinality({r \in rows : obj[r].raw["id"] = i}) = 1
  BY DEF ScreenMirrorsTable
<1>2. Mirrors(Alive(Screen, <<>>), Held(Screen, <<>>), table)
  BY <1>1, GotFacts DEF MInv, Mirrored
<1>3. Stored(Screen) = rows
  BY DEF Stored, Screen, Elems
<1>4. Alive(Screen, <<>>) = rows /\ \A r \in rows : Held(Screen, <<>>)[r] = obj[r].raw
  BY <1>3, NothingExecuted DEF Screen
<1> DEFINE h == Held(Screen, <<>>)
<1> HIDE DEF rows, h
<1>5. Mirrors(rows, h, table) /\ \A r \in rows : h[r] = obj[r].raw
  BY <1>2, <1>4 DEF h
<1>6. \A r \in rows : obj[r].raw["id"] \in DOMAIN table /\ obj[r].raw["val"] = table[obj[r].raw["id"]]
  BY <1>5 DEF Mirrors
<1>7. ASSUME NEW i \in DOMAIN table PROVE Cardinality({r \in rows : obj[r].raw["id"] = i}) = 1
  <2>1. PICK q \in rows : h[q]["id"] = i
    BY <1>5 DEF Mirrors
  <2>2. {r \in rows : obj[r].raw["id"] = i} = {q}
    BY <1>5, <2>1 DEF Mirrors
  <2>3. QED
    BY <2>2, FS_Singleton
<1>8. QED
  BY <1>6, <1>7

(* A save that ends well in calm. *)
LEMMA EndsAsShown ==
  ASSUME IInv, MInv, calm, NEW s \in DOMAIN saves, FinishSave(s),
         NEW kept, kept = {data[i] : i \in {j \in DOMAIN data : ~obj[data[j]].isRemoved}}
  PROVE  /\ Cardinality(kept) = Cardinality(DOMAIN table)
         /\ \A r \in kept : \E i \in DOMAIN table : /\ Shown(r)["id"] \in {i, Undef}
                                                     /\ Shown(r)["val"] \in {table[i], Undef}
<1> DEFINE A == Alive(Screen, Got)
           h == Held(Screen, Got)
<1>1. saves[s].state = "run" /\ Len(saves[s].returned) = Len(saves[s].plans)
  BY DEF FinishSave
<1>2. Mirrored(Screen, Got, table) /\ DOMAIN Got = DOMAIN log
  BY <1>1, UnderWay, ReturnedForLogged
<1>3. Screen.obj = obj /\ Screen.data = data /\ Screen.log = log /\ Exact(Screen) /\ Distinct(log)
  BY SheetFacts DEF Screen, IInv, MInv
<1>4. Covered(Screen, Got) = Elems(log) /\ Elems(log) = {r \in Elems(data) : obj[r].change # NoChange}
  BY <1>2, <1>3 DEF Covered, Elems, Exact
<1>5. \A r \in Elems(data) \ Elems(log) : ~obj[r].isNew /\ ~obj[r].isRemoved
  BY <1>2, <1>3 DEF Mirrored, Marked
<1>6. kept = {r \in Elems(data) : ~obj[r].isRemoved}
  BY DEF Elems
<1>7. A = kept
  BY <1>3, <1>4, <1>5, <1>6 DEF Alive
<1>8. IsFiniteSet(kept)
  <2>1. kept \subseteq DOMAIN obj /\ DOMAIN obj = 1..Len(obj) /\ Len(obj) \in Nat
    BY <1>3, <1>6, ScreenFacts DEF Exact
  <2>2. IsFiniteSet(1..Len(obj))
    BY <2>1, FS_Interval
  <2>3. QED
    BY <2>1, <2>2, FS_Subset
<1>9. Mirrors(kept, h, table)
  BY <1>2, <1>7 DEF Mirrored
<1>10. Cardinality(kept) = Cardinality(DOMAIN table)
  BY <1>8, <1>9, MirrorsCount
<1>11. ASSUME NEW r \in kept
       PROVE  Shown(r)["id"] \in {h[r]["id"], Undef} /\ Shown(r)["val"] \in {h[r]["val"], Undef}
  <2>1. CASE r \in Elems(log)
    <3>1. PICK k \in DOMAIN log : log[k] = r
      BY <2>1 DEF Elems
    <3>2. Current(Screen, Got, log[k]) = Got[k]
      BY <1>2, <1>3, CurrentLogged
    <3>3. h[r] = Got[k]
      BY <1>7, <3>1, <3>2 DEF Held
    <3>4. AsSeen(Screen, r, Got[k])
      BY <1>2, <1>3, <1>6, <3>1 DEF Mirrored, Faithful
    <3>5. Seen(Screen, r) = Shown(r)
      BY <1>3 DEF Seen, Shown
    <3>6. QED
      BY <3>3, <3>4, <3>5 DEF AsSeen, Cols
  <2>2. CASE r \notin Elems(log)
    <3>1. Shown(r) = obj[r].raw
      BY <1>4, <1>6, <2>2 DEF Shown
    <3>2. h[r] = obj[r].raw
      BY <1>3, <1>4, <1>7, <2>2 DEF Held, Current
    <3>3. QED
      BY <3>1, <3>2
  <2>3. QED
    BY <2>1, <2>2
<1> HIDE DEF h
<1>12. ASSUME NEW r \in kept
       PROVE  \E i \in DOMAIN table : Shown(r)["id"] \in {i, Undef} /\ Shown(r)["val"] \in {table[i], Undef}
  <2>1. h[r]["id"] \in DOMAIN table /\ h[r]["val"] = table[h[r]["id"]]
    BY <1>9 DEF Mirrors
  <2>2. QED
    BY <1>11, <2>1
<1>13. QED
  BY <1>10, <1>12

(* Whatever happens, the mirror is kept. *)
LEMMA StepKeepsMirror == ASSUME IInv, MInv, [Next]_vars PROVE MInv'
<1>1. CASE UserEdits
  BY <1>1, UserEditsEdits, EditedMirrors
<1>2. CASE Aside
  BY <1>2, AsideMirrors
<1>3. ASSUME NEW s \in DOMAIN saves, RunStatement(s) \/ FailStatement(s) \/ FinishSave(s) PROVE MInv'
  BY <1>3, RunStatementMirrors, FailStatementMirrors, FinishSaveMirrors
<1>4. ASSUME NEW f \in DOMAIN fetch, ReadFetch(f) \/ ShowFetch(f) PROVE MInv'
  BY <1>4, ReadFetchMirrors, ShowFetchMirrors
<1>5. CASE Commit \/ StartFetch
  BY <1>5, CommitMirrors, StartFetchMirrors
<1>6. QED
  BY <1>1, <1>2, <1>3, <1>4, <1>5, StepKinds DEF Steps

(* As long as no edit, save or fetch ran beside a save in flight, no save     *)
(* failed half way and no mark was lost, the values the rows of the screen    *)
(* came with are the table, each of its rows once, after any number of saves: *)
(* the keys, the values and the order of the statements do not matter.        *)
THEOREM ScreenMirrorsTableHolds == Spec => []ScreenMirrorsTable
<1>1. Init => IInv /\ MInv
  BY InitExact, InitMirrors
<1>2. (IInv /\ MInv) /\ [Next]_vars => (IInv /\ MInv)'
  BY StepKeepsExact, StepKeepsMirror
<1>3. IInv /\ MInv => ScreenMirrorsTable
  BY MirroredIsMirror
<1>4. QED
  BY <1>1, <1>2, <1>3, PTL DEF Spec

(* Then, too, a save that ends well has made the table what the screen showed *)
(* when it began: the rows marked as removed are gone, every other row is     *)
(* there, new ones included, with what was typed into it or came with it.     *)
THEOREM SavedAsShownHolds == Spec => SavedAsShown
<1> DEFINE Ends == \A s \in DOMAIN saves :
                     FinishSave(s) /\ calm =>
                       LET kept == {data[i] : i \in {j \in DOMAIN data : ~obj[data[j]].isRemoved}}
                       IN /\ Cardinality(kept) = Cardinality(DOMAIN table)
                          /\ \A r \in kept : \E i \in DOMAIN table :
                               /\ Shown(r)["id"] \in {i, Undef}
                               /\ Shown(r)["val"] \in {table[i], Undef}
<1>1. Init => IInv /\ MInv
  BY InitExact, InitMirrors
<1>2. (IInv /\ MInv) /\ [Next]_vars => (IInv /\ MInv)'
  BY StepKeepsExact, StepKeepsMirror
<1>3. IInv /\ MInv => Ends
  BY EndsAsShown
<1>4. QED
  BY <1>1, <1>2, <1>3, PTL DEF Spec, SavedAsShown
=============================================================================
