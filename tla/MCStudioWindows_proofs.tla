------------------------ MODULE MCStudioWindows_proofs ------------------------
(***************************************************************************)
(* Proofs about the windows of the studio: the tabs, the schema editor,    *)
(* the assistant in the SQL editor, the selection of the grid, and the     *)
(* buttons under a result.                                                 *)
(***************************************************************************)
EXTENDS MCStudioWindows, SequenceTheorems, WellFoundedInduction, TLAPS

(* A step of the sum is one of the part the behaviour is about. *)
LEMMA PartSteps ==
  ASSUME [Next]_vars
  PROVE  /\ part' = part
         /\ part = "tabs" => TabsPart!Next \/ UNCHANGED tabs_vars
         /\ part = "change" => ChangePart!Next \/ UNCHANGED change_vars
         /\ part = "prompt" => PromptPart!Next \/ UNCHANGED prompt_vars
         /\ part = "grid" => GridPart!Next \/ UNCHANGED grid_vars
         /\ part = "panel" => PanelPart!Next \/ UNCHANGED panel_vars
         /\ part = "settings" => SettingsPart!Next \/ UNCHANGED settings_vars
<1>1. CASE UNCHANGED vars
  BY <1>1 DEF vars
<1>2. CASE TabsNext \/ ChangeNext \/ PromptNext \/ GridNext \/ PanelNext \/ SettingsNext
  BY <1>2 DEF TabsNext, ChangeNext, PromptNext, GridNext, PanelNext, SettingsNext
<1>3. CASE Next /\ ~TabsNext /\ ~ChangeNext /\ ~PromptNext /\ ~GridNext /\ ~PanelNext /\ ~SettingsNext
  BY <1>3 DEF Next, SchemaNext, DiagramNext, DoltNext
<1>4. QED
  BY <1>1, <1>2, <1>3

-----------------------------------------------------------------------------
(* The tabs.  Loops are recursive functions: that Without has a value for every list is proved *)
(* by induction on the places of the list, from the least number that is in a set.             *)

(* The values of a loop that runs N times from b. *)
Loops(V, N, g, b) == {f \in [0..N -> V] : f[0] = b /\ \A n \in 1..N : f[n] = g[n][f[n - 1]]}

(* A set of naturals that is not empty has a smallest member. *)
LEMMA Smallest ==
  ASSUME NEW T \in SUBSET Nat, T # {}
  PROVE  \E m \in T : \A k \in T : m <= k
<1>1. IsWellFoundedOn(OpToRel(<, Nat), Nat)
  BY NatLessThanWellFounded, Zenon
<1>2. PICK m \in T : \A y \in T : ~(<<y, m>> \in OpToRel(<, Nat))
  BY <1>1, WFMin, Zenon
<1>3. \A y \in T : ~(y < m)
  BY <1>2, Zenon DEF OpToRel
<1>4. QED
  BY <1>3

(* A set of naturals that has 0 and every successor is Nat. *)
LEMMA Induction ==
  ASSUME NEW T \in SUBSET Nat, 0 \in T, \A n \in T : n + 1 \in T
  PROVE  T = Nat
<1>1. SUFFICES ASSUME Nat \ T # {} PROVE FALSE
  OBVIOUS
<1>2. PICK m \in Nat \ T : \A k \in Nat \ T : m <= k
  BY <1>1, Smallest
<1>3. m # 0 /\ m - 1 \in Nat /\ m - 1 \in T
  BY <1>2
<1>4. (m - 1) + 1 = m
  BY <1>2
<1>5. QED
  BY <1>2, <1>3, <1>4

(* Every loop has values. *)
LEMMA LoopHasValues ==
  ASSUME NEW V, NEW N \in Nat, NEW g \in [1..N -> [V -> V]], NEW b \in V
  PROVE  Loops(V, N, g, b) # {}
<1> DEFINE Runs(m, f) == f[0] = b /\ \A n \in 1..m : f[n] = g[n][f[n - 1]]
           T == {m \in Nat : m <= N => \E f \in [0..m -> V] : Runs(m, f)}
<1>1. 0 \in T
  <2>1. [n \in 0..0 |-> b] \in [0..0 -> V] /\ Runs(0, [n \in 0..0 |-> b])
    OBVIOUS
  <2>2. QED
    BY <2>1
<1>2. ASSUME NEW m \in T PROVE m + 1 \in T
  <2>1. SUFFICES ASSUME m + 1 <= N PROVE \E f \in [0..(m + 1) -> V] : Runs(m + 1, f)
    OBVIOUS
  <2>2. PICK f \in [0..m -> V] : Runs(m, f)
    BY <2>1
  <2>3. m + 1 \in 1..N /\ f[m] \in V
    BY <2>1, <2>2
  <2> DEFINE h == [n \in 0..(m + 1) |-> IF n = m + 1 THEN g[m + 1][f[m]] ELSE f[n]]
  <2>4. h \in [0..(m + 1) -> V]
    BY <2>2, <2>3
  <2>5. Runs(m + 1, h)
    <3>1. h[0] = b
      BY <2>2
    <3>2. \A n \in 1..m : h[n] = f[n] /\ h[n - 1] = f[n - 1]
      OBVIOUS
    <3>3. h[m + 1] = g[m + 1][f[m]] /\ h[(m + 1) - 1] = f[m]
      OBVIOUS
    <3>4. \A n \in 1..(m + 1) : n \in 1..m \/ n = m + 1
      OBVIOUS
    <3> HIDE DEF h
    <3>5. QED
      BY <2>2, <3>1, <3>2, <3>3, <3>4
  <2>6. QED
    BY <2>4, <2>5
<1>3. T = Nat
  <2> HIDE DEF T
  <2>1. T \in SUBSET Nat
    BY DEF T
  <2>2. QED
    BY <1>1, <1>2, <2>1, Induction
<1>4. N \in T
  <2> HIDE DEF T
  <2>1. QED
    BY <1>3
<1>5. QED
  BY <1>4 DEF Loops

(* Without runs through s once. *)
LEMMA WithoutLoop ==
  ASSUME NEW V, NEW s \in Seq(V), NEW S
  PROVE  \E f : /\ f[0] = <<>> /\ TabsPart!Without(s, S) = f[Len(s)]
                /\ \A n \in 1..Len(s) : f[n] = IF s[n] \in S THEN f[n - 1] ELSE Append(f[n - 1], s[n])
<1> DEFINE N == Len(s)
           W == Seq(V)
           Turn(n, t) == IF s[n] \in S THEN t ELSE Append(t, s[n])
           g == [n \in 1..N |-> [t \in W |-> Turn(n, t)]]
           Body(f) == [n \in 0..N |-> IF n = 0 THEN <<>> ELSE Turn(n, f[n - 1])]
           kept == CHOOSE f : f = Body(f)
<1>1. N \in Nat /\ <<>> \in W /\ \A n \in 1..N, t \in W : Turn(n, t) \in W
  OBVIOUS
<1>2. TabsPart!Without(s, S) = kept[N]
  BY DEF TabsPart!Without
<1>3. kept[0] = <<>> /\ \A n \in 1..N : kept[n] = Turn(n, kept[n - 1])
  <2> HIDE DEF N, W, Turn
  <2>1. g \in [1..N -> [W -> W]]
    BY <1>1
  <2>2. PICK f \in [0..N -> W] : f[0] = <<>> /\ \A n \in 1..N : f[n] = g[n][f[n - 1]]
    <3> HIDE DEF g
    <3>1. Loops(W, N, g, <<>>) # {}
      BY <1>1, <2>1, LoopHasValues
    <3>2. QED
      BY <3>1 DEF Loops
  <2>3. \A n \in 1..N : n - 1 \in 0..N
    BY <1>1
  <2>4. \A n \in 1..N : f[n] = Turn(n, f[n - 1])
    BY <2>2, <2>3
  <2>5. f = Body(f)
    BY <2>2, <2>4
  <2>6. kept = Body(kept)
    <3>1. \E h : h = Body(h)
      BY <2>5, Zenon
    <3> HIDE DEF Body
    <3>2. QED
      BY <3>1, Zenon
  <2>7. kept[0] = <<>>
    <3> HIDE DEF kept
    <3>1. QED
      BY <1>1, <2>6
  <2>8. ASSUME NEW n \in 1..N PROVE kept[n] = Turn(n, kept[n - 1])
    <3> HIDE DEF kept
    <3>1. QED
      BY <1>1, <2>6
  <2>9. QED
    BY <2>7, <2>8
<1>4. QED
  <2> HIDE DEF kept
  <2>1. QED
    BY <1>2, <1>3, Zenon

(* What a tab and a save may be. *)
TabNames == TabTables \cup {"v", "d", ""}
TabKinds == {"query", "table", "schema", "_schema", "view", "saved-query"}
TabKeys == TabKinds \X (TabNames \cup Nat)
TabT == [key : TabKeys, ident : TabKeys, n : Nat]
SaveT == [kind : TabKinds, old : TabNames, new : TabNames, list : Nat, at : Nat, n : Nat]

TabsTyped ==
  /\ tabs_lists \in Seq(Seq(TabT)) /\ tabs_lists # <<>> /\ tabs_saves \in Seq(SaveT)
  /\ tabs_selected \in Int /\ tabs_fresh \in Nat /\ tabs_clash \in BOOLEAN /\ tabs_stale \in BOOLEAN
  /\ tabs_exists \subseteq TabNames

(* A save of the list on the screen is of the tab it was started in. *)
OfItsTab(s) ==
  /\ s.list \in 1..Len(tabs_lists)
  /\ s.list = Len(tabs_lists) => s.at < Len(TabsPart!tabs) /\ TabsPart!tabs[s.at + 1].n = s.n

TabsInv ==
  /\ TabsTyped
  /\ ~tabs_clash => TabsPart!Distinct(TabsPart!tabs)
  /\ TabsPart!SelectedIsShown
  /\ \A i \in DOMAIN tabs_saves : OfItsTab(tabs_saves[i])

(* The list on the screen is the last one. *)
LEMMA ShownList ==
  ASSUME NEW V, NEW s \in Seq(V), s # <<>>
  PROVE  TabsPart!Last(s) = s[Len(s)] /\ TabsPart!Last(s) \in V /\ Len(s) \in Nat \ {0}
<1>1. Len(s) \in Nat /\ Len(s) # 0
  OBVIOUS
<1>2. QED
  BY <1>1 DEF TabsPart!Last

(* A place that is found is one of those looked for, and the first of them. *)
LEMMA FoundPlace ==
  ASSUME NEW n \in Nat, NEW places \in SUBSET (1..n)
  PROVE  /\ TabsPart!FoundIndex(places) \in Int /\ TabsPart!FoundIndex(places) < n
         /\ TabsPart!FoundIndex(places) >= 0 => TabsPart!FoundIndex(places) + 1 \in places
         /\ places # {} => TabsPart!FoundIndex(places) >= 0
<1>1. CASE places = {}
  BY <1>1 DEF TabsPart!FoundIndex
<1>2. CASE places # {}
  <2>1. \E m \in places : \A k \in places : m <= k
    BY <1>2, Smallest
  <2>2. TabsPart!Min(places) \in places
    BY <2>1, Zenon DEF TabsPart!Min
  <2>3. TabsPart!FoundIndex(places) = TabsPart!Min(places) - 1
    BY <1>2 DEF TabsPart!FoundIndex
  <2>4. PICK m \in 1..n : m = TabsPart!Min(places)
    BY <2>2
  <2>5. m \in places /\ TabsPart!FoundIndex(places) = m - 1 /\ (m - 1) + 1 = m
    BY <2>2, <2>3, <2>4
  <2>6. QED
    BY <1>2, <2>4, <2>5
<1>3. QED
  BY <1>1, <1>2

(* What is left of a list, and all of it before the first tab that is taken out. *)
LEMMA LeftPlace ==
  ASSUME NEW V, NEW s \in Seq(V), NEW S
  PROVE  /\ TabsPart!Without(s, S) \in Seq(V)
         /\ \A m \in 0..Len(s) : (\A k \in 1..m : s[k] \notin S) => Len(TabsPart!Without(s, S)) >= m
<1>1. PICK f : /\ f[0] = <<>> /\ TabsPart!Without(s, S) = f[Len(s)]
               /\ \A n \in 1..Len(s) : f[n] = IF s[n] \in S THEN f[n - 1] ELSE Append(f[n - 1], s[n])
  BY WithoutLoop
<1> DEFINE Good(n) == /\ f[n] \in Seq(V)
                      /\ \A m \in 0..n : (\A k \in 1..m : s[k] \notin S) => Len(f[n]) >= m
           T == {n \in Nat : n <= Len(s) => Good(n)}
<1>2. 0 \in T
  <2>1. f[0] \in Seq(V) /\ Len(f[0]) = 0
    BY <1>1
  <2>2. QED
    BY <2>1
<1>3. ASSUME NEW n \in T PROVE n + 1 \in T
  <2>1. SUFFICES ASSUME n + 1 <= Len(s) PROVE Good(n + 1)
    OBVIOUS
  <2>2. Good(n) /\ n + 1 \in 1..Len(s) /\ (n + 1) - 1 = n /\ s[n + 1] \in V
    BY <2>1
  <2>3. f[n + 1] = IF s[n + 1] \in S THEN f[n] ELSE Append(f[n], s[n + 1])
    BY <1>1, <2>2
  <2>4. f[n + 1] \in Seq(V) /\ Len(f[n + 1]) >= Len(f[n])
        /\ (s[n + 1] \notin S => Len(f[n + 1]) = Len(f[n]) + 1)
    BY <2>2, <2>3
  <2>5. ASSUME NEW m \in 0..(n + 1), \A k \in 1..m : s[k] \notin S PROVE Len(f[n + 1]) >= m
    <3>1. CASE m = n + 1
      <4>1. s[n + 1] \notin S /\ n \in 0..n /\ \A k \in 1..n : s[k] \notin S
        BY <2>2, <2>5, <3>1
      <4>2. Len(f[n]) >= n
        BY <2>2, <4>1
      <4>3. QED
        BY <2>2, <2>4, <3>1, <4>1, <4>2
    <3>2. CASE m \in 0..n
      <4>1. Len(f[n]) >= m
        BY <2>2, <2>5, <3>2
      <4>2. QED
        BY <2>2, <2>4, <3>2, <4>1
    <3>3. QED
      BY <2>5, <3>1, <3>2
  <2>6. QED
    BY <2>4, <2>5
<1>4. T = Nat
  <2> HIDE DEF T
  <2>1. T \in SUBSET Nat
    BY DEF T
  <2>2. QED
    BY <1>2, <1>3, <2>1, Induction
<1>5. Good(Len(s))
  <2>1. Len(s) \in Nat /\ Len(s) \in T
    <3> HIDE DEF T
    <3>1. QED
      BY <1>4
  <2> HIDE DEF Good
  <2>2. QED
    BY <2>1
<1>6. QED
  BY <1>1, <1>5

(* One query is open at first. *)
LEMMA TabsInit == ASSUME TabsPart!Init PROVE TabsInv
<1>1. TabsPart!Tab(<<"query", 1>>, 1) \in TabT
  BY DEF TabsPart!Tab, TabT, TabKeys, TabKinds
<1> DEFINE t == TabsPart!Tab(<<"query", 1>>, 1)
<1>2. tabs_lists = <<<<t>>>> /\ tabs_selected = 0 /\ tabs_saves = <<>> /\ tabs_fresh = 1 /\
          tabs_stale = FALSE /\ tabs_clash = FALSE
  BY DEF TabsPart!Init
<1>3. tabs_exists \subseteq TabNames
  BY TabsAssumption DEF TabsPart!Init, TabNames
<1> HIDE DEF t
<1>4. tabs_lists \in Seq(Seq(TabT)) /\ tabs_lists # <<>> /\ tabs_lists[Len(tabs_lists)] = <<t>>
  BY <1>1, <1>2 DEF t
<1>5. TabsPart!tabs = <<t>> /\ Len(TabsPart!tabs) = 1
  <2>1. TabsPart!Last(tabs_lists) = tabs_lists[Len(tabs_lists)]
    BY <1>4, ShownList
  <2>2. TabsPart!tabs = <<t>>
    BY <1>4, <2>1 DEF TabsPart!tabs
  <2>3. QED
    BY <2>2
<1>6. TabsPart!Distinct(TabsPart!tabs)
  BY <1>5 DEF TabsPart!Distinct
<1>7. tabs_selected \in TabsPart!Indexes
  BY <1>2, <1>5 DEF TabsPart!Indexes
<1>8. tabs_saves \in Seq(SaveT) /\ DOMAIN tabs_saves = {}
  BY <1>2
<1>9. TabsTyped
  <2>1. tabs_selected \in Int /\ tabs_fresh \in Nat
    BY <1>2
  <2>2. tabs_clash \in BOOLEAN /\ tabs_stale \in BOOLEAN
    BY <1>2
  <2>3. QED
    BY <1>3, <1>4, <1>8, <2>1, <2>2 DEF TabsTyped
<1>10. QED
  BY <1>6, <1>7, <1>8, <1>9 DEF TabsInv, TabsPart!SelectedIsShown

(* A step that shows the list s next, in which no save was started yet. *)
LEMMA NewList ==
  ASSUME TabsInv, NEW s \in Seq(TabT), tabs_lists' \in Seq(Seq(TabT)),
      Len(tabs_lists') = Len(tabs_lists) + 1, TabsPart!tabs' = s,
         tabs_clash' \in BOOLEAN, ~tabs_clash' => ~tabs_clash /\ TabsPart!Distinct(s),
         tabs_stale' \in BOOLEAN, tabs_saves' \in Seq(SaveT),
         \A i \in DOMAIN tabs_saves' : \E j \in DOMAIN tabs_saves : tabs_saves'[i] = tabs_saves[j],
         tabs_selected' \in Int, tabs_fresh' \in Nat, tabs_exists' \subseteq TabNames,
         ~tabs_stale' /\ ~tabs_clash' /\ s # <<>> => 0 <= tabs_selected' /\ tabs_selected' < Len(s)
  PROVE  TabsInv'
<1>1. tabs_lists' # <<>> /\ Len(tabs_lists) \in Nat
  BY DEF TabsInv, TabsTyped
<1>2. TabsPart!SelectedIsShown'
  BY DEF TabsPart!SelectedIsShown, TabsPart!Indexes
<1>3. ASSUME NEW i \in DOMAIN tabs_saves' PROVE OfItsTab(tabs_saves[i])'
  <2>1. PICK j \in DOMAIN tabs_saves : tabs_saves'[i] = tabs_saves[j]
    OBVIOUS
  <2>2. tabs_saves[j] \in SaveT /\ OfItsTab(tabs_saves[j])
    BY <2>1 DEF TabsInv, TabsTyped
  <2>3. tabs_saves[j].list \in 1..Len(tabs_lists)
    BY <2>2 DEF OfItsTab
  <2>4. QED
    BY <1>1, <2>1, <2>3 DEF OfItsTab
<1>4. QED
  BY <1>1, <1>2, <1>3 DEF TabsInv, TabsTyped

(* The setter of the bar: the list is set and compared. *)
LEMMA SetTabsShows ==
  ASSUME TabsInv, NEW s \in Seq(TabT), TabsPart!SetTabs(s)
  PROVE  /\ tabs_lists' \in Seq(Seq(TabT)) /\ Len(tabs_lists') = Len(tabs_lists) + 1 /\ TabsPart!tabs' = s
         /\ tabs_clash' \in BOOLEAN /\ (~tabs_clash' => ~tabs_clash /\ TabsPart!Distinct(s))
<1>1. tabs_lists' = Append(tabs_lists, s) /\ tabs_clash' = (tabs_clash \/ ~TabsPart!Distinct(s))
  BY DEF TabsPart!SetTabs
<1>2. tabs_lists \in Seq(Seq(TabT)) /\ tabs_clash \in BOOLEAN
  BY DEF TabsInv, TabsTyped
<1>3. tabs_lists' \in Seq(Seq(TabT)) /\ Len(tabs_lists') = Len(tabs_lists) + 1 /\
          tabs_lists'[Len(tabs_lists')] = s /\ tabs_lists' # <<>>
  BY <1>1, <1>2
<1>4. TabsPart!tabs' = s
  BY <1>3, ShownList DEF TabsPart!tabs
<1>5. QED
  BY <1>1, <1>2, <1>3, <1>4 DEF TabsPart!Distinct

(* A step that shows the same list. *)
LEMMA SameList ==
  ASSUME TabsInv, UNCHANGED <<tabs_lists, tabs_fresh, tabs_clash>>, tabs_stale' \in BOOLEAN, tabs_stale =>
      tabs_stale', tabs_selected' \in Int,
         tabs_exists' \subseteq TabNames, tabs_saves' \in Seq(SaveT),
         \A i \in DOMAIN tabs_saves' : OfItsTab(tabs_saves'[i]),
         ~tabs_stale' /\ ~tabs_clash /\ TabsPart!tabs # <<>> => tabs_selected' \in TabsPart!Indexes
  PROVE  TabsInv'
<1>1. TabsPart!tabs' = TabsPart!tabs /\ TabsPart!Indexes' = TabsPart!Indexes
  BY DEF TabsPart!tabs, TabsPart!Indexes
<1>2. TabsPart!SelectedIsShown'
  BY <1>1 DEF TabsPart!SelectedIsShown
<1>3. \A i \in DOMAIN tabs_saves' : OfItsTab(tabs_saves[i])'
  BY <1>1 DEF OfItsTab
<1>4. QED
  BY <1>1, <1>2, <1>3 DEF TabsInv, TabsTyped, TabsPart!Distinct

(* What is left of a sequence. *)
LEMMA Removal ==
  ASSUME NEW S, NEW s \in Seq(S), NEW k \in 1..Len(s)
  PROVE  /\ TabsPart!RemoveAt(s, k) \in Seq(S) /\ Len(TabsPart!RemoveAt(s, k)) = Len(s) - 1
         /\ \A j \in 1..(Len(s) - 1) : TabsPart!RemoveAt(s, k)[j] = IF j < k THEN s[j] ELSE s[j + 1]
<1> DEFINE a == SubSeq(s, 1, k - 1)
           b == SubSeq(s, k + 1, Len(s))
<1>1. a \in Seq(S) /\ Len(a) = k - 1 /\ \A j \in 1..(k - 1) : a[j] = s[j]
  OBVIOUS
<1>2. b \in Seq(S) /\ Len(b) = Len(s) - k /\ \A j \in 1..(Len(s) - k) : b[j] = s[k + j]
  OBVIOUS
<1>3. TabsPart!RemoveAt(s, k) = a \o b
  BY DEF TabsPart!RemoveAt
<1> HIDE DEF a, b
<1>4. /\ a \o b \in Seq(S) /\ Len(a \o b) = Len(a) + Len(b)
      /\ \A j \in 1..(Len(a) + Len(b)) : (a \o b)[j] = IF j <= Len(a) THEN a[j] ELSE b[j - Len(a)]
  BY <1>1, <1>2, ConcatProperties
<1>5. ASSUME NEW j \in 1..(Len(s) - 1) PROVE (a \o b)[j] = IF j < k THEN s[j] ELSE s[j + 1]
  <2>1. CASE j < k
    BY <1>1, <1>2, <1>4, <2>1
  <2>2. CASE j >= k
    <3>1. (a \o b)[j] = b[j - (k - 1)] /\ j - (k - 1) \in 1..(Len(s) - k)
      <4>1. j \in 1..(Len(a) + Len(b)) /\ ~(j <= Len(a)) /\ Len(a) = k - 1
        BY <1>1, <1>2, <2>2
      <4>2. QED
        BY <1>4, <2>2, <4>1
    <3>2. b[j - (k - 1)] = s[k + (j - (k - 1))]
      BY <1>2, <3>1
    <3>3. k + (j - (k - 1)) = j + 1 /\ ~(j < k)
      BY <2>2
    <3>4. (a \o b)[j] = s[j + 1]
      BY <3>1, <3>2, <3>3, Zenon
    <3>5. QED
      BY <3>3, <3>4
  <2>3. j < k \/ j >= k
    OBVIOUS
  <2>4. QED
    BY <2>1, <2>2, <2>3, Zenon
<1>6. Len(a \o b) = Len(s) - 1
  BY <1>1, <1>2, <1>4
<1>7. QED
  BY <1>3, <1>4, <1>5, <1>6

(* A sequence with one element more. *)
LEMMA Insertion ==
  ASSUME NEW S, NEW s \in Seq(S), NEW k \in 1..(Len(s) + 1), NEW e \in S
  PROVE  /\ TabsPart!InsertAt(s, k, e) \in Seq(S) /\ Len(TabsPart!InsertAt(s, k, e)) = Len(s) + 1 /\
              TabsPart!InsertAt(s, k, e)[k] = e
         /\ \A j \in 1..Len(s) : TabsPart!InsertAt(s, k, e)[IF j < k THEN j ELSE j + 1] = s[j]
<1> DEFINE a == SubSeq(s, 1, k - 1)
           b == SubSeq(s, k, Len(s))
           c == a \o <<e>>
<1>1. a \in Seq(S) /\ Len(a) = k - 1 /\ \A j \in 1..(k - 1) : a[j] = s[j]
  BY SubSeqProperties
<1>2. b \in Seq(S) /\ Len(b) = Len(s) - (k - 1) /\ \A j \in 1..(Len(s) - (k - 1)) : b[j] = s[(k - 1) + j]
  BY SubSeqProperties
<1>3. TabsPart!InsertAt(s, k, e) = c \o b
  BY DEF TabsPart!InsertAt
<1> HIDE DEF a, b
<1>4. c \in Seq(S) /\ Len(c) = k /\ c[k] = e /\ \A j \in 1..(k - 1) : c[j] = s[j]
  BY <1>1
<1> HIDE DEF c
<1>5. /\ c \o b \in Seq(S) /\ Len(c \o b) = Len(c) + Len(b)
      /\ \A j \in 1..(Len(c) + Len(b)) : (c \o b)[j] = IF j <= Len(c) THEN c[j] ELSE b[j - Len(c)]
  BY <1>2, <1>4, ConcatProperties
<1>6. Len(c \o b) = Len(s) + 1 /\ (c \o b)[k] = e
  BY <1>2, <1>4, <1>5
<1>7. ASSUME NEW j \in 1..Len(s), j < k PROVE (c \o b)[j] = s[j]
  BY <1>2, <1>4, <1>5, <1>7
<1>8. ASSUME NEW j \in 1..Len(s), j >= k PROVE (c \o b)[j + 1] = s[j]
  <2>1. PICK n \in 1..(Len(s) - (k - 1)) : n = (j + 1) - k /\ (k - 1) + n = j
    BY <1>8
  <2>2. j + 1 \in 1..(Len(c) + Len(b)) /\ ~(j + 1 <= Len(c)) /\ (j + 1) - Len(c) = n
    BY <1>2, <1>4, <1>8, <2>1
  <2>3. (c \o b)[j + 1] = b[n]
    BY <1>5, <2>2
  <2>4. b[n] = s[j]
    BY <1>2, <2>1
  <2>5. QED
    BY <2>3, <2>4
<1>9. ASSUME NEW j \in 1..Len(s) PROVE (c \o b)[IF j < k THEN j ELSE j + 1] = s[j]
  <2>1. CASE j < k
    BY <1>7, <2>1
  <2>2. CASE ~(j < k)
    <3>1. j >= k
      BY <2>2
    <3>2. (c \o b)[j + 1] = s[j]
      BY <1>8, <3>1
    <3>3. QED
      BY <2>2, <3>2
  <2>3. QED
    BY <2>1, <2>2
<1>10. QED
  BY <1>3, <1>5, <1>6, <1>9

(* A list after one of its elements was moved has the same elements. *)
LEMMA Dragged ==
  ASSUME NEW V, NEW s \in Seq(V), NEW i \in 1..Len(s), NEW j \in 1..Len(s)
  PROVE  /\ TabsPart!InsertAt(TabsPart!RemoveAt(s, i), j, s[i]) \in Seq(V)
         /\ \A k \in 1..Len(s) : \E m \in DOMAIN TabsPart!InsertAt(TabsPart!RemoveAt(s, i), j, s[i]) :
              TabsPart!InsertAt(TabsPart!RemoveAt(s, i), j, s[i])[m] = s[k]
<1>1. PICK r : r = TabsPart!RemoveAt(s, i)
  OBVIOUS
<1>2. r \in Seq(V) /\ Len(r) = Len(s) - 1 /\
          \A n \in 1..(Len(s) - 1) : r[n] = IF n < i THEN s[n] ELSE s[n + 1]
  BY <1>1, Removal
<1>3. PICK e \in V : e = s[i]
  OBVIOUS
<1>4. PICK t : t = TabsPart!InsertAt(r, j, e)
  OBVIOUS
<1>5. j \in 1..(Len(r) + 1)
  BY <1>2
<1>6. /\ t \in Seq(V) /\ Len(t) = Len(r) + 1 /\ t[j] = e
      /\ \A n \in 1..Len(r) : t[IF n < j THEN n ELSE n + 1] = r[n]
  <2>1. r \in Seq(V)
    BY <1>2
  <2>2. /\ TabsPart!InsertAt(r, j, e) \in Seq(V) /\ Len(TabsPart!InsertAt(r, j, e)) = Len(r) + 1 /\
             TabsPart!InsertAt(r, j, e)[j] = e
        /\ \A n \in 1..Len(r) : TabsPart!InsertAt(r, j, e)[IF n < j THEN n ELSE n + 1] = r[n]
    BY <1>5, <2>1, Insertion
  <2>3. QED
    BY <1>4, <2>1, <2>2
<1>7. DOMAIN t = 1..Len(s)
  BY <1>2, <1>6
<1>8. ASSUME NEW n \in 1..Len(r) PROVE \E m \in DOMAIN t : t[m] = r[n]
  <2>1. (IF n < j THEN n ELSE n + 1) \in DOMAIN t
    BY <1>2, <1>7
  <2>2. QED
    BY <1>6, <2>1
<1>9. ASSUME NEW k \in 1..Len(s) PROVE \E m \in DOMAIN t : t[m] = s[k]
  <2>1. CASE k = i
    BY <1>3, <1>6, <1>7, <2>1
  <2>2. CASE k < i
    <3>1. k \in 1..Len(r) /\ r[k] = s[k]
      BY <1>2, <2>2
    <3>2. QED
      BY <1>8, <3>1
  <2>3. CASE k > i
    <3>1. k - 1 \in 1..Len(r) /\ ~(k - 1 < i) /\ (k - 1) + 1 = k
      BY <1>2, <2>3
    <3>2. r[k - 1] = s[k]
      BY <1>2, <3>1
    <3>3. QED
      BY <1>8, <3>1, <3>2
  <2>4. QED
    BY <2>1, <2>2, <2>3
<1>10. QED
  BY <1>1, <1>3, <1>4, <1>6, <1>9

(* What the typing says of the list on the screen. *)
LEMMA ListTyped ==
  ASSUME TabsInv
  PROVE  /\ TabsPart!tabs \in Seq(TabT) /\ Len(TabsPart!tabs) \in Nat /\
              TabsPart!tabs = tabs_lists[Len(tabs_lists)] /\ Len(tabs_lists) \in Nat \ {0}
         /\ DOMAIN TabsPart!tabs = 1..Len(TabsPart!tabs)
         /\ \A i \in TabsPart!Indexes : i + 1 \in 1..Len(TabsPart!tabs) /\ TabsPart!At(TabsPart!tabs,
              i) = TabsPart!tabs[i + 1] /\ TabsPart!At(TabsPart!tabs, i) \in TabT
<1>1. tabs_lists \in Seq(Seq(TabT)) /\ tabs_lists # <<>>
  BY DEF TabsInv, TabsTyped
<1>2. TabsPart!tabs = tabs_lists[Len(tabs_lists)] /\ TabsPart!tabs \in Seq(TabT) /\
          Len(tabs_lists) \in Nat \ {0}
  BY <1>1, ShownList DEF TabsPart!tabs
<1>3. \A i \in TabsPart!Indexes : i + 1 \in 1..Len(TabsPart!tabs)
  BY <1>2 DEF TabsPart!Indexes
<1>4. QED
  BY <1>2, <1>3 DEF TabsPart!At

(* A new tab for a key. *)
LEMMA TabTyped ==
  ASSUME NEW key \in TabKeys, NEW n \in Nat
  PROVE  TabsPart!Tab(key, n) \in TabT /\ TabsPart!Tab(key, n).key = key /\ TabsPart!Tab(key,
      n).ident = key /\ TabsPart!Tab(key, n).n = n
BY DEF TabsPart!Tab, TabT

(* What can be opened has a key. *)
LEMMA OpenableTyped == ASSUME TabsInv PROVE TabsPart!Openable \subseteq TabKeys
<1>1. tabs_fresh + 1 \in Nat
  BY DEF TabsInv, TabsTyped
<1>2. TabTables \subseteq TabNames /\ "v" \in TabNames /\ "" \in TabNames
  BY Zenon DEF TabNames
<1>3. "table" \in TabKinds /\ "schema" \in TabKinds /\ "view" \in TabKinds /\ "query" \in TabKinds
  BY Zenon DEF TabKinds
<1>4. \A x \in TabsPart!Openable : \/ \E t \in TabTables : x = <<"table", t>> \/ x = <<"schema", t>>
                                   \/ x = <<"view", "v">> \/ x = <<"schema", "">> \/ x = <<"view", "">>
                                   \/ x = <<"query", tabs_fresh + 1>>
  BY Zenon DEF TabsPart!Openable
<1>5. \A k \in TabKinds, e \in TabNames \cup Nat : <<k, e>> \in TabKeys
  BY DEF TabKeys
<1>6. \A t \in TabTables : <<"table", t>> \in TabKeys /\ <<"schema", t>> \in TabKeys
  BY <1>2, <1>3, <1>5, Zenon
<1>7. <<"view", "v">> \in TabKeys /\ <<"schema", "">> \in TabKeys /\ <<"view", "">> \in TabKeys
  BY <1>2, <1>3, <1>5, Zenon
<1>8. <<"query", tabs_fresh + 1>> \in TabKeys
  BY <1>1, <1>3, <1>5, Zenon
<1>9. QED
  BY <1>4, <1>6, <1>7, <1>8, Zenon

LEMMA OpenTabKeeps == ASSUME TabsInv, NEW key \in TabsPart!Openable, TabsPart!Open(key) PROVE TabsInv'
<1> DEFINE at == TabsPart!FoundIndex(TabsPart!Named(TabsPart!tabs, key))
           t == TabsPart!Tab(key, tabs_fresh + 1)
<1>1. TabsPart!tabs \in Seq(TabT) /\ Len(TabsPart!tabs) \in Nat /\
          DOMAIN TabsPart!tabs = 1..Len(TabsPart!tabs)
  BY ListTyped
<1>2. tabs_fresh \in Nat /\ tabs_exists \subseteq TabNames /\ tabs_saves \in Seq(SaveT) /\
          tabs_stale \in BOOLEAN
  BY DEF TabsInv, TabsTyped
<1>3. TabsPart!Named(TabsPart!tabs, key) \in SUBSET (1..Len(TabsPart!tabs))
  BY <1>1 DEF TabsPart!Named
<1>4. at \in Int /\ at < Len(TabsPart!tabs)
  BY <1>1, <1>3, FoundPlace
<1>5. CASE at >= 0
  <2>1. tabs_selected' = at /\ UNCHANGED <<tabs_lists, tabs_fresh, tabs_clash, tabs_exists, tabs_saves,
            tabs_stale>>
    BY <1>5 DEF TabsPart!Open
  <2> HIDE DEF at
  <2>2. tabs_selected' \in TabsPart!Indexes /\ tabs_selected' \in Int
    BY <1>1, <1>4, <1>5, <2>1 DEF TabsPart!Indexes
  <2>3. QED
    BY <1>2, <2>1, <2>2, SameList DEF TabsInv
<1>6. CASE ~(at >= 0)
  <2>1. /\ tabs_fresh' = tabs_fresh + 1 /\ TabsPart!SetTabs(Append(TabsPart!tabs, t)) /\
             tabs_selected' = Len(TabsPart!tabs)
        /\ UNCHANGED <<tabs_exists, tabs_saves, tabs_stale>>
    BY <1>6 DEF TabsPart!Open
  <2>2. t \in TabT
    BY <1>2, OpenableTyped, TabTyped
  <2> HIDE DEF t
  <2>3. Append(TabsPart!tabs, t) \in Seq(TabT) /\ Len(Append(TabsPart!tabs, t)) = Len(TabsPart!tabs) + 1
    BY <1>1, <2>2
  <2>4. PICK s \in Seq(TabT) : s = Append(TabsPart!tabs, t)
    BY <2>3
  <2>5. TabsPart!SetTabs(s) /\ Len(s) = Len(TabsPart!tabs) + 1
    BY <2>1, <2>3, <2>4
  <2>6. QED
    BY <1>1, <1>2, <2>1, <2>5, SetTabsShows, NewList
<1>7. QED
  BY <1>5, <1>6

LEMMA SelectKeeps == ASSUME TabsInv, NEW i \in TabsPart!Indexes, TabsPart!Select(i) PROVE TabsInv'
<1>1. tabs_selected' = i /\ UNCHANGED <<tabs_lists, tabs_exists, tabs_saves, tabs_fresh, tabs_stale,
          tabs_clash>>
  BY DEF TabsPart!Select
<1>2. i \in Int
  BY DEF TabsPart!Indexes
<1>3. QED
  BY <1>1, <1>2, SameList DEF TabsInv, TabsTyped

(* The close button of a tab: one of the tabs before it stays in its place. *)
LEMMA CloseButtonKeeps == ASSUME TabsInv, NEW i \in TabsPart!Indexes, TabsPart!CloseButton(i) PROVE TabsInv'
<1> DEFINE gone == {t \in TabsPart!Range(TabsPart!tabs) : t.key = TabsPart!At(TabsPart!tabs, i).key}
<1>1. PICK s : s = TabsPart!Without(TabsPart!tabs, gone)
  OBVIOUS
<1>2. /\ TabsPart!SetTabs(s) /\ tabs_selected' = IF tabs_selected >= i THEN Len(s) - 1 ELSE tabs_selected
      /\ UNCHANGED <<tabs_exists, tabs_saves, tabs_fresh, tabs_stale>>
  BY <1>1 DEF TabsPart!CloseButton
<1>3. /\ TabsPart!tabs \in Seq(TabT) /\ Len(TabsPart!tabs) \in Nat /\
           DOMAIN TabsPart!tabs = 1..Len(TabsPart!tabs)
      /\ i + 1 \in 1..Len(TabsPart!tabs) /\ TabsPart!At(TabsPart!tabs, i) = TabsPart!tabs[i + 1] /\ i \in Nat
  BY ListTyped DEF TabsPart!Indexes
<1>4. /\ s \in Seq(TabT)
      /\ \A m \in 0..Len(TabsPart!tabs) : (\A k \in 1..m : TabsPart!tabs[k] \notin gone) => Len(s) >= m
  BY <1>1, <1>3, LeftPlace
<1>5. /\ tabs_selected \in Int /\ tabs_fresh \in Nat /\ tabs_exists \subseteq TabNames /\
           tabs_saves \in Seq(SaveT)
      /\ tabs_stale \in BOOLEAN /\ tabs_clash \in BOOLEAN
  BY DEF TabsInv, TabsTyped
<1>6. /\ tabs_lists' \in Seq(Seq(TabT)) /\ Len(tabs_lists') = Len(tabs_lists) + 1 /\ TabsPart!tabs' = s
      /\ tabs_clash' \in BOOLEAN /\ (~tabs_clash' => ~tabs_clash /\ TabsPart!Distinct(s))
  BY <1>2, <1>4, SetTabsShows
<1>7. Len(s) \in Nat /\ (s # <<>> => Len(s) > 0)
  BY <1>4
<1>8. ASSUME ~tabs_stale, ~tabs_clash, s # <<>> PROVE 0 <= tabs_selected' /\ tabs_selected' < Len(s)
  <2>1. TabsPart!tabs # <<>> /\ TabsPart!Distinct(TabsPart!tabs)
    BY <1>3, <1>8 DEF TabsInv
  <2>2. tabs_selected \in 0..(Len(TabsPart!tabs) - 1)
    BY <1>8, <2>1 DEF TabsInv, TabsPart!SelectedIsShown, TabsPart!Indexes
  <2>3. ASSUME tabs_selected < i PROVE tabs_selected < Len(s)
    <3>1. ASSUME NEW k \in 1..i PROVE TabsPart!tabs[k] \notin gone
      <4>1. k # i + 1 /\ k \in 1..Len(TabsPart!tabs)
        BY <1>3
      <4>2. QED
        BY <1>3, <2>1, <4>1 DEF TabsPart!Distinct
    <3> HIDE DEF gone
    <3>2. i \in 0..Len(TabsPart!tabs)
      BY <1>3
    <3>3. Len(s) >= i
      BY <1>4, <3>1, <3>2
    <3>4. QED
      BY <1>3, <1>5, <1>7, <2>3, <3>3
  <2>4. QED
    BY <1>2, <1>3, <1>5, <1>7, <1>8, <2>2, <2>3
<1>9. tabs_selected' \in Int
  BY <1>2, <1>5, <1>7
<1> HIDE DEF gone
<1>10. QED
  BY <1>2, <1>4, <1>5, <1>6, <1>8, <1>9, NewList

LEMMA CloseChannelKeeps == ASSUME TabsInv, TabsPart!CloseChannel PROVE TabsInv'
<1>1. PICK gone : gone = {t \in TabsPart!Range(TabsPart!tabs) : t.ident = <<"saved-query", "d">>}
  OBVIOUS
<1>2. PICK s : s = TabsPart!Without(TabsPart!tabs, gone)
  OBVIOUS
<1>3. PICK keep : keep = TabsPart!FoundIndex(TabsPart!Named(s, TabsPart!At(TabsPart!tabs,
          tabs_selected).ident))
  OBVIOUS
<1>4. /\ Len(s) < Len(TabsPart!tabs) /\ TabsPart!SetTabs(s) /\ UNCHANGED <<tabs_exists, tabs_saves,
           tabs_fresh, tabs_stale>>
      /\ tabs_selected' = IF tabs_selected \notin TabsPart!Indexes THEN tabs_selected
                     ELSE IF keep >= 0 THEN keep
                     ELSE IF tabs_selected < Len(s) THEN tabs_selected ELSE Len(s) - 1
  BY <1>1, <1>2, <1>3 DEF TabsPart!CloseChannel
<1>5. TabsPart!tabs \in Seq(TabT) /\ Len(TabsPart!tabs) \in Nat /\ (Len(TabsPart!tabs) > 0 =>
          TabsPart!tabs # <<>>)
  BY ListTyped
<1>6. s \in Seq(TabT)
  BY <1>2, <1>5, LeftPlace
<1>7. Len(s) \in Nat /\ DOMAIN s = 1..Len(s) /\ (s # <<>> => Len(s) > 0)
  BY <1>6
<1>8. keep \in Int /\ keep < Len(s)
  <2>1. TabsPart!Named(s, TabsPart!At(TabsPart!tabs, tabs_selected).ident) \in SUBSET (1..Len(s))
    BY <1>7 DEF TabsPart!Named
  <2>2. QED
    BY <1>3, <1>7, <2>1, FoundPlace
<1>9. /\ tabs_selected \in Int /\ tabs_fresh \in Nat /\ tabs_exists \subseteq TabNames /\
           tabs_saves \in Seq(SaveT)
      /\ tabs_stale \in BOOLEAN /\ tabs_clash \in BOOLEAN
  BY DEF TabsInv, TabsTyped
<1>10. /\ tabs_lists' \in Seq(Seq(TabT)) /\ Len(tabs_lists') = Len(tabs_lists) + 1 /\ TabsPart!tabs' = s
       /\ tabs_clash' \in BOOLEAN /\ (~tabs_clash' => ~tabs_clash /\ TabsPart!Distinct(s))
  BY <1>4, <1>6, SetTabsShows
<1>11. ASSUME ~tabs_stale, ~tabs_clash, s # <<>> PROVE 0 <= tabs_selected' /\ tabs_selected' < Len(s)
  <2>1. tabs_selected \in TabsPart!Indexes /\ 0 <= tabs_selected
    BY <1>4, <1>5, <1>7, <1>11 DEF TabsInv, TabsPart!SelectedIsShown, TabsPart!Indexes
  <2>2. QED
    BY <1>4, <1>7, <1>8, <1>9, <1>11, <2>1
<1>12. tabs_selected' \in Int
  BY <1>4, <1>7, <1>8, <1>9
<1>13. QED
  BY <1>4, <1>6, <1>9, <1>10, <1>11, <1>12, NewList

LEMMA DragKeeps == ASSUME TabsInv, NEW i \in TabsPart!Indexes, NEW j \in TabsPart!Indexes,
TabsPart!Drag(i, j) PROVE TabsInv'
<1>1. PICK s : s = TabsPart!InsertAt(TabsPart!RemoveAt(TabsPart!tabs, i + 1), j + 1,
          TabsPart!At(TabsPart!tabs, i))
  OBVIOUS
<1>2. /\ TabsPart!SetTabs(s) /\ UNCHANGED <<tabs_exists, tabs_saves, tabs_fresh, tabs_stale>>
      /\ tabs_selected' = IF tabs_selected \in TabsPart!Indexes THEN TabsPart!FoundIndex(TabsPart!Keyed(s,
           TabsPart!At(TabsPart!tabs, tabs_selected).key)) ELSE -1
  BY <1>1 DEF TabsPart!Drag
<1>3. /\ TabsPart!tabs \in Seq(TabT) /\ Len(TabsPart!tabs) \in Nat
      /\ i + 1 \in 1..Len(TabsPart!tabs) /\ j + 1 \in 1..Len(TabsPart!tabs) /\ TabsPart!At(TabsPart!tabs,
           i) = TabsPart!tabs[i + 1]
  BY ListTyped
<1>4. s \in Seq(TabT) /\ \A k \in 1..Len(TabsPart!tabs) : \E m \in DOMAIN s : s[m] = TabsPart!tabs[k]
  <2>1. s = TabsPart!InsertAt(TabsPart!RemoveAt(TabsPart!tabs, i + 1), j + 1, TabsPart!tabs[i + 1])
    BY <1>1, <1>3
  <2>2. QED
    BY <1>3, <2>1, Dragged
<1>5. Len(s) \in Nat /\ DOMAIN s = 1..Len(s)
  BY <1>4
<1>6. /\ tabs_selected \in Int /\ tabs_fresh \in Nat /\ tabs_exists \subseteq TabNames /\
           tabs_saves \in Seq(SaveT)
      /\ tabs_stale \in BOOLEAN /\ tabs_clash \in BOOLEAN
  BY DEF TabsInv, TabsTyped
<1>7. /\ tabs_lists' \in Seq(Seq(TabT)) /\ Len(tabs_lists') = Len(tabs_lists) + 1 /\ TabsPart!tabs' = s
      /\ tabs_clash' \in BOOLEAN /\ (~tabs_clash' => ~tabs_clash /\ TabsPart!Distinct(s))
  BY <1>2, <1>4, SetTabsShows
<1>8. ASSUME tabs_selected \in TabsPart!Indexes PROVE tabs_selected' \in Int /\ 0 <= tabs_selected' /\
          tabs_selected' < Len(s)
  <2>1. PICK places : places = TabsPart!Keyed(s, TabsPart!At(TabsPart!tabs, tabs_selected).key)
    OBVIOUS
  <2>2. places \in SUBSET (1..Len(s))
    BY <1>5, <2>1 DEF TabsPart!Keyed
  <2>3. places # {}
    <3>1. tabs_selected + 1 \in 1..Len(TabsPart!tabs) /\ TabsPart!At(TabsPart!tabs,
              tabs_selected) = TabsPart!tabs[tabs_selected + 1]
      BY <1>8, ListTyped
    <3>2. PICK m \in DOMAIN s : s[m] = TabsPart!tabs[tabs_selected + 1]
      BY <1>4, <3>1
    <3>3. m \in places
      BY <2>1, <3>1, <3>2 DEF TabsPart!Keyed
    <3>4. QED
      BY <3>3
  <2>4. tabs_selected' = TabsPart!FoundIndex(places)
    BY <1>2, <1>8, <2>1
  <2>5. QED
    BY <1>5, <2>2, <2>3, <2>4, FoundPlace
<1>9. tabs_selected' \in Int
  BY <1>2, <1>8
<1>10. ASSUME ~tabs_stale, ~tabs_clash, s # <<>> PROVE 0 <= tabs_selected' /\ tabs_selected' < Len(s)
  <2>1. TabsPart!tabs # <<>>
    BY <1>3
  <2>2. QED
    BY <1>8, <1>10, <2>1 DEF TabsInv, TabsPart!SelectedIsShown
<1>11. QED
  BY <1>2, <1>4, <1>6, <1>7, <1>9, <1>10, NewList

LEMMA DropTableKeeps == ASSUME TabsInv, NEW t \in TabTables, TabsPart!DropTable(t) PROVE TabsInv'
<1>1. tabs_exists' \subseteq tabs_exists /\ UNCHANGED <<tabs_lists, tabs_selected, tabs_saves, tabs_fresh,
          tabs_stale, tabs_clash>>
  BY DEF TabsPart!DropTable
<1>2. QED
  BY <1>1, SameList DEF TabsInv, TabsTyped, TabsPart!SelectedIsShown

LEMMA EscapeKeeps == ASSUME TabsInv, TabsPart!Escape PROVE TabsInv'
<1>1. UNCHANGED <<tabs_lists, tabs_selected, tabs_exists, tabs_saves, tabs_fresh, tabs_stale, tabs_clash>>
  BY DEF TabsPart!Escape
<1>2. QED
  BY <1>1, SameList DEF TabsInv, TabsTyped, TabsPart!SelectedIsShown

-----------------------------------------------------------------------------
(* A save begins with the tab on the screen. *)
LEMMA StartSaveKeeps ==
  ASSUME TabsInv, NEW old \in TabNames, NEW new \in TabNames, TabsPart!StartSave(old, new)
  PROVE  TabsInv'
<1> DEFINE t == TabsPart!At(TabsPart!tabs, tabs_selected)
           e == [kind |-> t.key[1], old |-> old, new |-> new, list |-> Len(tabs_lists),
                 at |-> tabs_selected, n |-> t.n]
<1>1. /\ tabs_selected \in TabsPart!Indexes /\ tabs_saves' = Append(tabs_saves, e)
      /\ UNCHANGED <<tabs_lists, tabs_selected, tabs_exists, tabs_fresh, tabs_stale, tabs_clash>>
  BY DEF TabsPart!StartSave
<1>2. /\ t = TabsPart!tabs[tabs_selected + 1] /\ t \in TabT /\ Len(tabs_lists) \in Nat \ {0} /\
           Len(TabsPart!tabs) \in Nat
  BY <1>1, ListTyped
<1>3. t.key \in TabKeys /\ t.n \in Nat
  BY <1>2 DEF TabT
<1>4. t.key[1] \in TabKinds
  BY <1>3 DEF TabKeys
<1>5. tabs_selected \in Nat /\ tabs_selected < Len(TabsPart!tabs)
  BY <1>1, <1>2 DEF TabsPart!Indexes
<1>6. e \in SaveT
  BY <1>2, <1>3, <1>4, <1>5 DEF SaveT
<1>7. OfItsTab(e)
  BY <1>2, <1>5 DEF OfItsTab
<1> HIDE DEF e
<1>8. tabs_saves \in Seq(SaveT) /\ \A i \in DOMAIN tabs_saves : OfItsTab(tabs_saves[i])
  BY DEF TabsInv, TabsTyped
<1>9. tabs_saves' \in Seq(SaveT) /\ \A i \in DOMAIN tabs_saves' : tabs_saves'[i] = e \/
          \E j \in DOMAIN tabs_saves : tabs_saves'[i] = tabs_saves[j]
  BY <1>1, <1>6, <1>8
<1>10. \A i \in DOMAIN tabs_saves' : OfItsTab(tabs_saves'[i])
  BY <1>7, <1>8, <1>9
<1>11. QED
  BY <1>1, <1>9, <1>10, SameList DEF TabsInv, TabsTyped

(* A list in which the tabs of one instance have another identifier. *)
RenamedIn(l, m, new) ==
  [i \in DOMAIN l |-> IF l[i].n = m THEN [l[i] EXCEPT !.ident = <<"saved-query", new>>] ELSE l[i]]

LEMMA RenamedList ==
  ASSUME NEW l \in Seq(TabT), NEW m, NEW new \in TabNames
  PROVE  /\ RenamedIn(l, m, new) \in Seq(TabT) /\ DOMAIN RenamedIn(l, m, new) = DOMAIN l
         /\ Len(RenamedIn(l, m, new)) = Len(l)
         /\ \A i \in DOMAIN l : /\ RenamedIn(l, m, new)[i].key = l[i].key
                                /\ RenamedIn(l, m, new)[i].n = l[i].n
<1>0. PICK r : r = RenamedIn(l, m, new)
  OBVIOUS
<1>1. <<"saved-query", new>> \in TabKeys
  BY DEF TabKeys, TabKinds
<1>2. DOMAIN r = DOMAIN l /\ DOMAIN l = 1..Len(l) /\ Len(l) \in Nat
  BY <1>0 DEF RenamedIn
<1>3. ASSUME NEW i \in DOMAIN l PROVE r[i] \in TabT /\ r[i].key = l[i].key /\ r[i].n = l[i].n
  <2>1. l[i] \in TabT
    OBVIOUS
  <2>2. /\ [l[i] EXCEPT !.ident = <<"saved-query", new>>] \in TabT
        /\ [l[i] EXCEPT !.ident = <<"saved-query", new>>].key = l[i].key
        /\ [l[i] EXCEPT !.ident = <<"saved-query", new>>].n = l[i].n
    BY <1>1, <2>1 DEF TabT
  <2>3. CASE l[i].n = m
    BY <1>0, <2>2, <2>3 DEF RenamedIn
  <2>4. CASE l[i].n # m
    BY <1>0, <2>1, <2>4 DEF RenamedIn
  <2>5. QED
    BY <2>3, <2>4
<1>4. r = [i \in 1..Len(l) |-> r[i]]
  BY <1>0, <1>2 DEF RenamedIn
<1>5. r \in [1..Len(l) -> TabT]
  BY <1>2, <1>3, <1>4
<1>6. r \in Seq(TabT) /\ Len(r) = Len(l)
  BY <1>2, <1>5
<1>7. QED
  BY <1>0, <1>2, <1>3, <1>6

(* A list in which one slot was overwritten. *)
LEMMA SlotList ==
  ASSUME NEW V, NEW l \in Seq(V), NEW k, NEW e \in V
  PROVE  /\ [l EXCEPT ![k] = e] \in Seq(V) /\ Len([l EXCEPT ![k] = e]) = Len(l)
         /\ DOMAIN [l EXCEPT ![k] = e] = DOMAIN l
         /\ \A j \in DOMAIN l : j # k => [l EXCEPT ![k] = e][j] = l[j]
<1>1. Len(l) \in Nat /\ DOMAIN l = 1..Len(l) /\ \A j \in 1..Len(l) : l[j] \in V
  OBVIOUS
<1>2. PICK m : m = [l EXCEPT ![k] = e]
  OBVIOUS
<1>3. DOMAIN m = 1..Len(l) /\ \A j \in 1..Len(l) : m[j] = IF j = k THEN e ELSE l[j]
  BY <1>1, <1>2
<1>4. m = [j \in 1..Len(l) |-> m[j]]
  BY <1>1, <1>2
<1>5. m \in [1..Len(l) -> V]
  BY <1>1, <1>3, <1>4
<1>6. m \in Seq(V) /\ Len(m) = Len(l)
  BY <1>1, <1>3, <1>5
<1>7. QED
  BY <1>1, <1>2, <1>3, <1>6

(* The three ways in which a save changes the list that is shown.  Those that go back to the *)
(* list of the save leave every slot of it but the saved one.                                *)
LEMMA ChangeCurrentShows ==
  ASSUME TabsInv, NEW s \in SaveT, OfItsTab(s), TabsPart!ChangeCurrent(s)
  PROVE  /\ tabs_lists' \in Seq(Seq(TabT)) /\ Len(tabs_lists') = Len(tabs_lists) + 1 /\
              UNCHANGED <<tabs_selected, tabs_fresh>>
         /\ tabs_clash' \in BOOLEAN /\ (~tabs_clash' => ~tabs_clash /\ TabsPart!Distinct(TabsPart!tabs'))
         /\ TabsPart!tabs' \in Seq(TabT) /\ DOMAIN TabsPart!tabs' = DOMAIN tabs_lists[s.list] /\
              Len(TabsPart!tabs') = Len(tabs_lists[s.list])
         /\ \A k \in DOMAIN TabsPart!tabs' : TabsPart!tabs'[k].n = tabs_lists[s.list][k].n
<1> DEFINE Renamed(l) == RenamedIn(l, s.n, s.new)
<1>1. PICK all : all = [v \in DOMAIN tabs_lists |-> Renamed(tabs_lists[v])]
  OBVIOUS
<1>2. /\ tabs_lists' = Append(all, all[s.list]) /\ tabs_clash' = (tabs_clash \/
           ~TabsPart!Distinct(tabs_lists[s.list]))
      /\ UNCHANGED <<tabs_selected, tabs_fresh>>
  BY <1>1 DEF TabsPart!ChangeCurrent, RenamedIn
<1>3. /\ tabs_lists \in Seq(Seq(TabT)) /\ Len(tabs_lists) \in Nat /\ DOMAIN tabs_lists = 1..Len(tabs_lists)
      /\ s.list \in DOMAIN tabs_lists /\ s.new \in TabNames /\ tabs_clash \in BOOLEAN
  BY DEF TabsInv, TabsTyped, OfItsTab, SaveT
<1>4. ASSUME NEW l \in Seq(TabT)
      PROVE  /\ Renamed(l) \in Seq(TabT) /\ DOMAIN Renamed(l) = DOMAIN l /\ Len(Renamed(l)) = Len(l)
             /\ \A i \in DOMAIN l : Renamed(l)[i].key = l[i].key /\ Renamed(l)[i].n = l[i].n
  BY <1>3, RenamedList
<1> HIDE DEF Renamed
<1>5. PICK w : w = s.list
  OBVIOUS
<1>6. PICK V : V = Seq(TabT)
  OBVIOUS
<1>7. w \in 1..Len(tabs_lists) /\ tabs_lists \in Seq(V) /\ \A v \in 1..Len(tabs_lists) : tabs_lists[v] \in V
  BY <1>3, <1>5, <1>6
<1>8. \A v \in 1..Len(tabs_lists) : Renamed(tabs_lists[v]) \in V
  BY <1>4, <1>6, <1>7
<1>9. all = [v \in 1..Len(tabs_lists) |-> Renamed(tabs_lists[v])]
  BY <1>1, <1>3
<1>10. all \in [1..Len(tabs_lists) -> V] /\ all[w] = Renamed(tabs_lists[w])
  BY <1>7, <1>8, <1>9
<1>11. all \in Seq(V) /\ Len(all) = Len(tabs_lists)
  <2>1. PICK n : n = Len(tabs_lists)
    OBVIOUS
  <2>2. n \in Nat
    BY <1>3, <2>1
  <2>3. all \in [1..n -> V]
    BY <1>10, <2>1
  <2>4. all \in Seq(V) /\ Len(all) = n
    BY <2>2, <2>3
  <2>5. QED
    BY <2>1, <2>4
<1>12. PICK e : e = all[w]
  OBVIOUS
<1>13. e \in V /\ tabs_lists' = Append(all, e)
  BY <1>2, <1>5, <1>7, <1>10, <1>12
<1>14. tabs_lists' \in Seq(V) /\ Len(tabs_lists') = Len(tabs_lists) + 1 /\
           tabs_lists'[Len(tabs_lists')] = e /\ tabs_lists' # <<>>
  BY <1>3, <1>11, <1>13
<1>15. TabsPart!tabs' = e
  BY <1>14, ShownList DEF TabsPart!tabs
<1>16. PICK old : old = tabs_lists[w]
  OBVIOUS
<1>17. TabsPart!tabs' = Renamed(old) /\ old \in Seq(TabT) /\ old = tabs_lists[s.list]
  BY <1>5, <1>6, <1>7, <1>10, <1>12, <1>15, <1>16
<1>18. /\ TabsPart!tabs' \in Seq(TabT) /\ DOMAIN TabsPart!tabs' = DOMAIN old /\ Len(TabsPart!tabs') = Len(old)
       /\ \A k \in DOMAIN TabsPart!tabs' : TabsPart!tabs'[k].key = old[k].key /\
            TabsPart!tabs'[k].n = old[k].n
  BY <1>4, <1>17
<1>19. TabsPart!Distinct(old) => TabsPart!Distinct(TabsPart!tabs')
  BY <1>18 DEF TabsPart!Distinct
<1>20. tabs_clash' \in BOOLEAN /\ (~tabs_clash' => ~tabs_clash /\ TabsPart!Distinct(old))
  BY <1>2, <1>3, <1>17
<1>21. tabs_lists' \in Seq(Seq(TabT))
  BY <1>6, <1>14
<1>22. QED
  BY <1>2, <1>14, <1>17, <1>18, <1>19, <1>20, <1>21

LEMMA ReplaceCurrentShows ==
  ASSUME TabsInv, NEW s \in SaveT, OfItsTab(s), TabsPart!ReplaceCurrent(s)
  PROVE  /\ tabs_lists' \in Seq(Seq(TabT)) /\ Len(tabs_lists') = Len(tabs_lists) + 1 /\
              tabs_fresh' \in Nat /\ UNCHANGED tabs_selected
         /\ tabs_clash' \in BOOLEAN /\ (~tabs_clash' => ~tabs_clash /\ TabsPart!Distinct(TabsPart!tabs'))
         /\ TabsPart!tabs' \in Seq(TabT) /\ DOMAIN TabsPart!tabs' = DOMAIN tabs_lists[s.list] /\
              Len(TabsPart!tabs') = Len(tabs_lists[s.list])
         /\ \A k \in DOMAIN TabsPart!tabs' : k # s.at + 1 => TabsPart!tabs'[k] = tabs_lists[s.list][k]
<1>1. PICK e : e = TabsPart!Tab(<<"_schema", s.new>>, tabs_fresh + 1)
  OBVIOUS
<1>2. PICK old : old = tabs_lists[s.list]
  OBVIOUS
<1>3. PICK now : now = [old EXCEPT ![s.at + 1] = e]
  OBVIOUS
<1>4. /\ tabs_lists' = Append([tabs_lists EXCEPT ![s.list] = now], now) /\ tabs_clash' = (tabs_clash \/
           ~TabsPart!Distinct(now))
      /\ tabs_fresh' = tabs_fresh + 1 /\ UNCHANGED tabs_selected
  BY <1>1, <1>2, <1>3 DEF TabsPart!ReplaceCurrent
<1>5. /\ tabs_lists \in Seq(Seq(TabT)) /\ Len(tabs_lists) \in Nat /\ DOMAIN tabs_lists = 1..Len(tabs_lists)
      /\ s.list \in DOMAIN tabs_lists /\ s.new \in TabNames /\ tabs_clash \in BOOLEAN /\ tabs_fresh \in Nat
  BY DEF TabsInv, TabsTyped, OfItsTab, SaveT
<1>6. e \in TabT
  <2>1. <<"_schema", s.new>> \in TabKeys
    BY <1>5 DEF TabKeys, TabKinds
  <2>2. PICK k : k = <<"_schema", s.new>>
    OBVIOUS
  <2>3. k \in TabKeys /\ tabs_fresh + 1 \in Nat /\ e = TabsPart!Tab(k, tabs_fresh + 1)
    BY <1>1, <1>5, <2>1, <2>2
  <2>4. QED
    BY <2>3, TabTyped
<1>7. old \in Seq(TabT)
  BY <1>2, <1>5
<1>8. /\ now \in Seq(TabT) /\ Len(now) = Len(old) /\ DOMAIN now = DOMAIN old
      /\ \A j \in DOMAIN old : j # s.at + 1 => now[j] = old[j]
  BY <1>3, <1>6, <1>7, SlotList
<1>9. PICK all : all = [tabs_lists EXCEPT ![s.list] = now]
  OBVIOUS
<1>10. all \in Seq(Seq(TabT)) /\ Len(all) = Len(tabs_lists)
  BY <1>5, <1>8, <1>9, SlotList
<1>11. tabs_lists' \in Seq(Seq(TabT)) /\ Len(tabs_lists') = Len(tabs_lists) + 1 /\ tabs_lists' # <<>> /\
           tabs_lists'[Len(tabs_lists')] = now
  BY <1>4, <1>5, <1>8, <1>9, <1>10
<1>12. TabsPart!tabs' = now
  BY <1>11, ShownList DEF TabsPart!tabs
<1>13. tabs_clash' \in BOOLEAN /\ (~tabs_clash' => ~tabs_clash /\ TabsPart!Distinct(now))
  BY <1>4, <1>5
<1>14. TabsPart!Distinct(TabsPart!tabs') = TabsPart!Distinct(now)
  BY <1>12
<1>15. tabs_fresh' \in Nat
  BY <1>4, <1>5
<1>16. QED
  BY <1>2, <1>4, <1>8, <1>11, <1>12, <1>13, <1>14, <1>15

LEMMA ReplaceChannelShows ==
  ASSUME TabsInv, NEW s \in SaveT, TabsPart!ReplaceChannel(s)
  PROVE  \/ tabs_selected' \in TabsPart!Indexes /\ UNCHANGED <<tabs_lists, tabs_fresh, tabs_clash>>
         \/ /\ tabs_lists' \in Seq(Seq(TabT)) /\ Len(tabs_lists') = Len(tabs_lists) + 1 /\
                 tabs_fresh' \in Nat /\ UNCHANGED tabs_selected
            /\ tabs_clash' \in BOOLEAN /\ (~tabs_clash' => ~tabs_clash /\ TabsPart!Distinct(TabsPart!tabs'))
            /\ TabsPart!tabs' \in Seq(TabT) /\ DOMAIN TabsPart!tabs' = DOMAIN TabsPart!tabs /\
                 Len(TabsPart!tabs') = Len(TabsPart!tabs)
            /\ \A k \in DOMAIN TabsPart!tabs : k # tabs_selected + 1 => TabsPart!tabs'[k] = TabsPart!tabs[k]
<1> DEFINE key == <<"view", s.new>>
<1>1. PICK at : at = TabsPart!FoundIndex(TabsPart!Named(TabsPart!tabs, key))
  OBVIOUS
<1>2. PICK e : e = TabsPart!Tab(key, tabs_fresh + 1)
  OBVIOUS
<1>3. TabsPart!tabs \in Seq(TabT) /\ Len(TabsPart!tabs) \in Nat /\
          DOMAIN TabsPart!tabs = 1..Len(TabsPart!tabs)
  BY ListTyped
<1>4. at \in Int /\ at < Len(TabsPart!tabs)
  <2>1. TabsPart!Named(TabsPart!tabs, key) \in SUBSET (1..Len(TabsPart!tabs))
    BY <1>3 DEF TabsPart!Named
  <2>2. QED
    BY <1>1, <1>3, <2>1, FoundPlace
<1>5. CASE at >= 0
  <2>1. tabs_selected' = at /\ UNCHANGED <<tabs_lists, tabs_fresh, tabs_clash>>
    BY <1>1, <1>5 DEF TabsPart!ReplaceChannel
  <2>2. QED
    BY <1>3, <1>4, <1>5, <2>1 DEF TabsPart!Indexes
<1>6. CASE ~(at >= 0)
  <2>1. PICK now : now = [i \in DOMAIN TabsPart!tabs |-> IF i = tabs_selected + 1 THEN e ELSE TabsPart!tabs[i]]
    OBVIOUS
  <2>2. TabsPart!SetTabs(now) /\ tabs_fresh' = tabs_fresh + 1 /\ UNCHANGED tabs_selected
    BY <1>1, <1>2, <1>6, <2>1 DEF TabsPart!ReplaceChannel
  <2>3. tabs_fresh \in Nat /\ s.new \in TabNames
    BY DEF TabsInv, TabsTyped, SaveT
  <2>4. e \in TabT
    <3>1. key \in TabKeys
      BY <2>3 DEF TabKeys, TabKinds
    <3>2. QED
      BY <1>2, <2>3, <3>1, TabTyped
  <2>5. now \in [1..Len(TabsPart!tabs) -> TabT]
    BY <1>3, <2>1, <2>4
  <2>6. now \in Seq(TabT) /\ Len(now) = Len(TabsPart!tabs)
    BY <1>3, <2>5
  <2>7. /\ tabs_lists' \in Seq(Seq(TabT)) /\ Len(tabs_lists') = Len(tabs_lists) + 1 /\ TabsPart!tabs' = now
        /\ tabs_clash' \in BOOLEAN /\ (~tabs_clash' => ~tabs_clash /\ TabsPart!Distinct(now))
    BY <2>2, <2>6, SetTabsShows
  <2>8. tabs_fresh' \in Nat
    BY <2>2, <2>3
  <2>9. DOMAIN now = DOMAIN TabsPart!tabs /\ \A k \in DOMAIN TabsPart!tabs : k # tabs_selected + 1 =>
            now[k] = TabsPart!tabs[k]
    BY <2>1
  <2>10. QED
    BY <2>2, <2>6, <2>7, <2>8, <2>9
<1>7. QED
  BY <1>5, <1>6

(* What a save that ends leaves: the other saves. *)
LEMMA EndSaveTakes ==
  ASSUME TabsInv, NEW i \in DOMAIN tabs_saves, TabsPart!EndSave(i)
  PROVE  /\ tabs_saves' \in Seq(SaveT) /\ Len(tabs_saves') = Len(tabs_saves) - 1 /\ Len(tabs_saves) \in Nat
         /\ \A k \in DOMAIN tabs_saves' : \E j \in DOMAIN tabs_saves : tabs_saves'[k] = tabs_saves[j]
         /\ tabs_saves[i] \in SaveT /\ OfItsTab(tabs_saves[i])
         /\ ~TabsPart!Accepted(tabs_saves[i]) => UNCHANGED <<tabs_lists, tabs_selected, tabs_exists,
              tabs_fresh, tabs_stale, tabs_clash>>
         /\ TabsPart!Accepted(tabs_saves[i]) =>
              /\ tabs_exists' = TabsPart!Applied(tabs_saves[i]) /\ tabs_stale' = (tabs_stale \/
                   tabs_saves[i].list # Len(tabs_lists) \/ tabs_saves[i].at # tabs_selected)
              /\ TabsPart!ChangeCurrent(tabs_saves[i]) \/ TabsPart!ReplaceChannel(tabs_saves[i]) \/
                   TabsPart!ReplaceCurrent(tabs_saves[i])
                   \/ UNCHANGED <<tabs_lists, tabs_selected, tabs_fresh, tabs_clash>>
<1>1. tabs_saves \in Seq(SaveT) /\ i \in 1..Len(tabs_saves) /\ OfItsTab(tabs_saves[i]) /\
          Len(tabs_saves) \in Nat
  BY DEF TabsInv, TabsTyped
<1>2. PICK r : r = TabsPart!RemoveAt(tabs_saves, i)
  OBVIOUS
<1>3. r \in Seq(SaveT) /\ Len(r) = Len(tabs_saves) - 1
      /\ \A j \in 1..(Len(tabs_saves) - 1) : r[j] = IF j < i THEN tabs_saves[j] ELSE tabs_saves[j + 1]
  BY <1>1, <1>2, Removal
<1>4. ASSUME NEW k \in DOMAIN r PROVE \E j \in DOMAIN tabs_saves : r[k] = tabs_saves[j]
  <2>1. k \in 1..(Len(tabs_saves) - 1) /\ k \in DOMAIN tabs_saves /\ k + 1 \in DOMAIN tabs_saves
    BY <1>1, <1>3
  <2>2. CASE k < i
    BY <1>3, <2>1, <2>2
  <2>3. CASE ~(k < i)
    BY <1>3, <2>1, <2>3
  <2>4. QED
    BY <2>2, <2>3
<1>5. tabs_saves' = r
  BY <1>2 DEF TabsPart!EndSave
<1>6. tabs_saves[i] \in SaveT
  BY <1>1
<1>7. ~TabsPart!Accepted(tabs_saves[i]) => UNCHANGED <<tabs_lists, tabs_selected, tabs_exists, tabs_fresh,
          tabs_stale, tabs_clash>>
  BY DEF TabsPart!EndSave
<1>8. TabsPart!Accepted(tabs_saves[i]) =>
        /\ tabs_exists' = TabsPart!Applied(tabs_saves[i]) /\ tabs_stale' = (tabs_stale \/
             tabs_saves[i].list # Len(tabs_lists) \/ tabs_saves[i].at # tabs_selected)
        /\ TabsPart!ChangeCurrent(tabs_saves[i]) \/ TabsPart!ReplaceChannel(tabs_saves[i]) \/
             TabsPart!ReplaceCurrent(tabs_saves[i])
             \/ UNCHANGED <<tabs_lists, tabs_selected, tabs_fresh, tabs_clash>>
  BY DEF TabsPart!EndSave
<1>9. QED
  BY <1>1, <1>3, <1>4, <1>5, <1>6, <1>7, <1>8

(* A save that ends for the list and the tab on the screen leaves the selection in it. *)
LEMMA EndSaveKeeps == ASSUME TabsInv, NEW i \in DOMAIN tabs_saves, TabsPart!EndSave(i) PROVE TabsInv'
<1>1. PICK s : s = tabs_saves[i]
  OBVIOUS
<1>2. /\ tabs_saves' \in Seq(SaveT) /\
           \A k \in DOMAIN tabs_saves' : \E j \in DOMAIN tabs_saves : tabs_saves'[k] = tabs_saves[j]
      /\ s \in SaveT /\ OfItsTab(s)
  BY <1>1, EndSaveTakes
<1>3. \A k \in DOMAIN tabs_saves' : OfItsTab(tabs_saves'[k])
  BY <1>2 DEF TabsInv
<1>4. /\ tabs_selected \in Int /\ tabs_fresh \in Nat /\ tabs_exists \subseteq TabNames /\
           tabs_stale \in BOOLEAN
      /\ tabs_clash \in BOOLEAN /\ TabsPart!tabs = tabs_lists[Len(tabs_lists)] /\ Len(TabsPart!tabs) \in Nat
  BY ListTyped DEF TabsInv, TabsTyped
<1>5. CASE ~TabsPart!Accepted(s)
  <2>1. UNCHANGED <<tabs_lists, tabs_selected, tabs_exists, tabs_fresh, tabs_stale, tabs_clash>>
    BY <1>1, <1>5, EndSaveTakes
  <2>2. QED
    BY <1>2, <1>3, <1>4, <2>1, SameList DEF TabsInv, TabsPart!SelectedIsShown
<1>6. CASE TabsPart!Accepted(s)
  <2>1. /\ tabs_exists' = TabsPart!Applied(s) /\ tabs_stale' = (tabs_stale \/ s.list # Len(tabs_lists) \/
             s.at # tabs_selected)
        /\ TabsPart!ChangeCurrent(s) \/ TabsPart!ReplaceChannel(s) \/ TabsPart!ReplaceCurrent(s)
             \/ UNCHANGED <<tabs_lists, tabs_selected, tabs_fresh, tabs_clash>>
    BY <1>1, <1>6, EndSaveTakes
  <2>2. tabs_exists' \subseteq TabNames
    <3>1. s.new \in TabNames
      BY <1>2 DEF SaveT
    <3>2. QED
      BY <1>4, <2>1, <3>1 DEF TabsPart!Applied
  <2>3. tabs_stale' \in BOOLEAN /\ (tabs_stale => tabs_stale')
    BY <1>4, <2>1
  <2>4. ~tabs_stale' => tabs_selected = s.at /\ s.list = Len(tabs_lists) /\ s.at \in Nat /\
            s.at < Len(TabsPart!tabs)
    BY <1>2, <2>1 DEF OfItsTab, SaveT
  <2>5. CASE UNCHANGED <<tabs_lists, tabs_selected, tabs_fresh, tabs_clash>>
    BY <1>2, <1>3, <1>4, <2>2, <2>3, <2>5, SameList DEF TabsInv, TabsPart!SelectedIsShown
  <2>6. CASE TabsPart!ChangeCurrent(s) \/ TabsPart!ReplaceCurrent(s)
    <3>1. /\ tabs_lists' \in Seq(Seq(TabT)) /\ Len(tabs_lists') = Len(tabs_lists) + 1 /\
               tabs_fresh' \in Nat /\ UNCHANGED tabs_selected
          /\ tabs_clash' \in BOOLEAN /\ (~tabs_clash' => ~tabs_clash /\ TabsPart!Distinct(TabsPart!tabs'))
          /\ TabsPart!tabs' \in Seq(TabT) /\ Len(TabsPart!tabs') = Len(tabs_lists[s.list])
      BY <1>2, <1>4, <2>6, ChangeCurrentShows, ReplaceCurrentShows
    <3>2. ~tabs_stale' => 0 <= tabs_selected' /\ tabs_selected' < Len(TabsPart!tabs')
      BY <1>4, <2>4, <3>1
    <3>3. PICK now \in Seq(TabT) : now = TabsPart!tabs'
      BY <3>1
    <3>4. QED
      BY <1>2, <1>4, <2>2, <2>3, <3>1, <3>2, <3>3, NewList
  <2>7. CASE TabsPart!ReplaceChannel(s)
    <3>1. CASE tabs_selected' \in TabsPart!Indexes /\ UNCHANGED <<tabs_lists, tabs_fresh, tabs_clash>>
      <4>1. tabs_selected' \in Int
        BY <3>1 DEF TabsPart!Indexes
      <4>2. QED
        BY <1>2, <1>3, <2>2, <2>3, <3>1, <4>1, SameList
    <3>2. CASE /\ tabs_lists' \in Seq(Seq(TabT)) /\ Len(tabs_lists') = Len(tabs_lists) + 1 /\
                    tabs_fresh' \in Nat /\ UNCHANGED tabs_selected
               /\ tabs_clash' \in BOOLEAN /\ (~tabs_clash' => ~tabs_clash /\
                    TabsPart!Distinct(TabsPart!tabs'))
               /\ TabsPart!tabs' \in Seq(TabT) /\ Len(TabsPart!tabs') = Len(TabsPart!tabs)
      <4>1. ~tabs_stale' => 0 <= tabs_selected' /\ tabs_selected' < Len(TabsPart!tabs')
        BY <1>4, <2>4, <3>2
      <4>2. PICK now \in Seq(TabT) : now = TabsPart!tabs'
        BY <3>2
      <4>3. QED
        BY <1>2, <1>4, <2>2, <2>3, <3>2, <4>1, <4>2, NewList
    <3>3. QED
      BY <1>2, <2>7, <3>1, <3>2, ReplaceChannelShows
  <2>8. QED
    BY <2>1, <2>5, <2>6, <2>7
<1>7. QED
  BY <1>5, <1>6

(* Whatever happens to the tabs, the invariant stays. *)
LEMMA TabsStep == ASSUME TabsInv, TabsPart!Next \/ UNCHANGED tabs_vars PROVE TabsInv'
<1>1. CASE UNCHANGED tabs_vars
  <2>1. UNCHANGED <<tabs_lists, tabs_selected, tabs_exists, tabs_saves, tabs_fresh, tabs_stale, tabs_clash>>
    BY <1>1 DEF tabs_vars
  <2>2. QED
    BY <2>1, SameList DEF TabsInv, TabsTyped, TabsPart!SelectedIsShown
<1>2. CASE \E key \in TabsPart!Openable : TabsPart!Open(key)
  BY <1>2, OpenTabKeeps
<1>3. CASE \E i \in TabsPart!Indexes : TabsPart!Select(i) \/ TabsPart!CloseButton(i)
  BY <1>3, SelectKeeps, CloseButtonKeeps
<1>4. CASE \E i, j \in TabsPart!Indexes : TabsPart!Drag(i, j)
  BY <1>4, DragKeeps
<1>5. CASE \E t \in TabTables : TabsPart!DropTable(t)
  BY <1>5, DropTableKeeps
<1>6. CASE \E old, new \in TabTables \cup {"v", "d", ""} : TabsPart!StartSave(old, new)
  <2>1. PICK old, new \in TabNames : TabsPart!StartSave(old, new)
    BY <1>6, Zenon DEF TabNames
  <2>2. QED
    BY <2>1, StartSaveKeeps
<1>7. CASE \E i \in DOMAIN tabs_saves : TabsPart!EndSave(i)
  BY <1>7, EndSaveKeeps
<1>8. CASE TabsPart!CloseChannel \/ TabsPart!Escape
  BY <1>8, CloseChannelKeeps, EscapeKeeps
<1>9. QED
  BY <1>1, <1>2, <1>3, <1>4, <1>5, <1>6, <1>7, <1>8, Zenon DEF TabsPart!Next

(* Only a save that ends makes the saves fewer, and it takes no tab but its own. *)
LEMMA ReplacesItsOwn == ASSUME TabsInv, TabsPart!Next \/ UNCHANGED tabs_vars PROVE TabsPart!ReplaceStep
<1> SUFFICES ASSUME Len(tabs_saves') < Len(tabs_saves), ~tabs_stale'
             PROVE  \E s \in TabsPart!Range(tabs_saves) :
                      TabsPart!Instances(TabsPart!tabs) \ TabsPart!Instances(TabsPart!tabs') \subseteq {s.n}
  BY Zenon DEF TabsPart!ReplaceStep
<1>1. Len(tabs_saves) \in Nat /\ tabs_saves \in Seq(SaveT)
  BY DEF TabsInv, TabsTyped
<1>2. PICK i \in DOMAIN tabs_saves : TabsPart!EndSave(i)
  <2>1. tabs_saves' # tabs_saves
    BY <1>1
  <2>2. ASSUME NEW old, NEW new, TabsPart!StartSave(old, new) PROVE FALSE
    <3>1. PICK e : tabs_saves' = Append(tabs_saves, e)
      BY <2>2 DEF TabsPart!StartSave
    <3>2. Len(tabs_saves') = Len(tabs_saves) + 1
      BY <1>1, <3>1
    <3>3. QED
      BY <1>1, <3>2
  <2>3. QED
    BY <2>1, <2>2, Zenon
    DEF TabsPart!Next, tabs_vars, TabsPart!Open, TabsPart!Select, TabsPart!CloseButton,
        TabsPart!CloseChannel, TabsPart!Drag, TabsPart!DropTable, TabsPart!Escape
<1>3. PICK s : s = tabs_saves[i]
  OBVIOUS
<1>4. s \in TabsPart!Range(tabs_saves) /\ s \in SaveT /\ OfItsTab(s)
  BY <1>2, <1>3, EndSaveTakes DEF TabsPart!Range
<1>5. SUFFICES ASSUME NEW k \in DOMAIN TabsPart!tabs,
                    TabsPart!tabs[k].n # s.n
             PROVE  \E m \in DOMAIN TabsPart!tabs' : TabsPart!tabs'[m].n = TabsPart!tabs[k].n
  <2>1. TabsPart!Instances(TabsPart!tabs) \ TabsPart!Instances(TabsPart!tabs') \subseteq {s.n}
    BY <1>5 DEF TabsPart!Instances, TabsPart!Range
  <2>2. QED
    BY <1>4, <2>1
<1>6. TabsPart!tabs = tabs_lists[Len(tabs_lists)] /\ tabs_selected \in Int
  BY ListTyped DEF TabsInv, TabsTyped
<1>7. CASE UNCHANGED tabs_lists
  BY <1>7 DEF TabsPart!tabs
<1>8. CASE TabsPart!Accepted(s)
  <2>1. /\ s.list = Len(tabs_lists) /\ s.at = tabs_selected
        /\ TabsPart!ChangeCurrent(s) \/ TabsPart!ReplaceChannel(s) \/ TabsPart!ReplaceCurrent(s) \/
             UNCHANGED <<tabs_lists, tabs_selected, tabs_fresh, tabs_clash>>
    BY <1>2, <1>3, <1>8, EndSaveTakes
  <2>2. TabsPart!tabs[s.at + 1].n = s.n /\ k # s.at + 1
    BY <1>4, <1>5, <2>1 DEF OfItsTab
  <2>3. CASE TabsPart!ChangeCurrent(s)
    BY <1>4, <1>6, <2>1, <2>3, ChangeCurrentShows
  <2>4. CASE TabsPart!ReplaceCurrent(s)
    <3>1. k \in DOMAIN TabsPart!tabs' /\ TabsPart!tabs'[k] = TabsPart!tabs[k]
      BY <1>4, <1>6, <2>1, <2>2, <2>4, ReplaceCurrentShows
    <3>2. QED
      BY <3>1
  <2>5. CASE TabsPart!ReplaceChannel(s)
    <3>1. CASE UNCHANGED tabs_lists
      BY <1>7, <3>1
    <3>2. CASE DOMAIN TabsPart!tabs' = DOMAIN TabsPart!tabs /\
              \A j \in DOMAIN TabsPart!tabs : j # tabs_selected + 1 => TabsPart!tabs'[j] = TabsPart!tabs[j]
      <4>1. k \in DOMAIN TabsPart!tabs' /\ TabsPart!tabs'[k] = TabsPart!tabs[k]
        BY <2>1, <2>2, <3>2
      <4>2. QED
        BY <4>1
    <3>3. QED
      BY <1>4, <2>5, <3>1, <3>2, ReplaceChannelShows
  <2>6. QED
    BY <1>7, <2>1, <2>3, <2>4, <2>5
<1>9. QED
  BY <1>2, <1>3, <1>7, <1>8, EndSaveTakes

(* A tab is shown whenever there is one, unless a save ended for a list that had been left or  *)
(* two tabs have one key, for any tables and however many tabs, lists and saves.               *)
THEOREM TabIsShownHolds == Spec => []TabIsShown
<1> DEFINE Inv == part = "tabs" => TabsInv
<1>1. Init => Inv
  BY TabsInit DEF Init, OnlyAtFirst
<1>2. Inv /\ [Next]_vars => Inv'
  BY PartSteps, TabsStep
<1>3. Inv => TabIsShown
  BY DEF TabsInv, TabIsShown
<1>4. QED
  BY <1>1, <1>2, <1>3, PTL DEF Spec

(* What a tab holds unsaved is lost only when it is closed or when its own save replaces it. *)
THEOREM SavesReplaceTheirOwnHolds == Spec => SavesReplaceTheirOwn
<1> DEFINE Inv == part = "tabs" => TabsInv
<1>1. Init => Inv
  BY TabsInit DEF Init, OnlyAtFirst
<1>2. Inv /\ [Next]_vars => Inv'
  BY PartSteps, TabsStep
<1>3. Inv /\ [Next]_vars => (part = "tabs" => TabsPart!ReplaceStep)
  BY PartSteps, ReplacesItsOwn
<1>4. QED
  BY <1>1, <1>2, <1>3, PTL DEF Spec, SavesReplaceTheirOwn

-----------------------------------------------------------------------------
(* The schema editor.  The lists of a draft are edited as those of the tabs are. *)
LEMMA ColumnRemoval ==
  ASSUME NEW S, NEW s \in Seq(S), NEW k \in 1..Len(s)
  PROVE  /\ ChangePart!RemoveAt(s, k) \in Seq(S) /\ Len(ChangePart!RemoveAt(s, k)) = Len(s) - 1
         /\ \A j \in 1..(Len(s) - 1) : ChangePart!RemoveAt(s, k)[j] = IF j < k THEN s[j] ELSE s[j + 1]
<1>1. ChangePart!RemoveAt(s, k) = TabsPart!RemoveAt(s, k)
  BY DEF ChangePart!RemoveAt, TabsPart!RemoveAt
<1>2. QED
  BY <1>1, Removal

LEMMA ColumnInsertion ==
  ASSUME NEW S, NEW s \in Seq(S), NEW k \in 1..(Len(s) + 1), NEW e \in S
  PROVE  /\ ChangePart!InsertAt(s, k, e) \in Seq(S)
         /\ Len(ChangePart!InsertAt(s, k, e)) = Len(s) + 1 /\ ChangePart!InsertAt(s, k, e)[k] = e
         /\ \A j \in 1..Len(s) : ChangePart!InsertAt(s, k, e)[IF j < k THEN j ELSE j + 1] = s[j]
<1>1. ChangePart!InsertAt(s, k, e) = TabsPart!InsertAt(s, k, e)
  BY DEF ChangePart!InsertAt, TabsPart!InsertAt
<1>2. QED
  BY <1>1, Insertion

LEMMA ColumnDragged ==
  ASSUME NEW V, NEW s \in Seq(V), NEW i \in 1..Len(s), NEW j \in 1..Len(s)
  PROVE  /\ ChangePart!InsertAt(ChangePart!RemoveAt(s, i), j, s[i]) \in Seq(V)
         /\ \A k \in 1..Len(s) : \E m \in DOMAIN ChangePart!InsertAt(ChangePart!RemoveAt(s, i), j, s[i]) :
              ChangePart!InsertAt(ChangePart!RemoveAt(s, i), j, s[i])[m] = s[k]
<1>1. ChangePart!RemoveAt(s, i) = TabsPart!RemoveAt(s, i)
  BY DEF ChangePart!RemoveAt, TabsPart!RemoveAt
<1>2. \A r : ChangePart!InsertAt(r, j, s[i]) = TabsPart!InsertAt(r, j, s[i])
  BY DEF ChangePart!InsertAt, TabsPart!InsertAt
<1>3. QED
  BY <1>1, <1>2, Dragged

LEMMA ColumnsLeft ==
  ASSUME NEW V, NEW s \in Seq(V), NEW S
  PROVE  \E f : /\ f[0] = <<>> /\ ChangePart!Without(s, S) = f[Len(s)]
                /\ \A n \in 1..Len(s) : f[n] = IF s[n] \in S THEN f[n - 1] ELSE Append(f[n - 1], s[n])
<1>1. ChangePart!Without(s, S) = TabsPart!Without(s, S)
  BY DEF ChangePart!Without, TabsPart!Without
<1>2. QED
  BY <1>1, WithoutLoop

(* Columns as the database and the editor keep them. *)
ColumnT == [name : ColumnNames, has : SUBSET ChangePart!Features]
Places == {ChangePart!None} \cup {<<c>> : c \in ColumnT}
PairT == [old : Places, new : Places]
IsList(s) == \E S : s \in Seq(S)
Whole(d) == d = [old |-> d.old, new |-> d.new, columns |-> d.columns, constraints |-> d.constraints]
WholeSave(s) == s = [draft |-> s.draft, left |-> s.left, failed |-> s.failed, apart |-> s.apart, gone |-> s.gone]

(* The columns of a draft: an old one keeps its features, and no two are of one column. *)
Drawn(old, cs) ==
  /\ cs \in Seq(PairT)
  /\ \A k \in DOMAIN cs :
       /\ cs[k].old # ChangePart!None \/ cs[k].new # ChangePart!None
       /\ old = ChangePart!Unnamed => cs[k].old = ChangePart!None
       /\ cs[k].old # ChangePart!None /\ cs[k].new # ChangePart!None => cs[k].old[1].has = cs[k].new[1].has
  /\ \A j, k \in DOMAIN cs :
       cs[j].old # ChangePart!None /\ cs[k].old # ChangePart!None /\
       cs[j].old[1].name = cs[k].old[1].name => j = k

(* A draft that changes nothing. *)
Plain(d) == d.new = d.old /\ \A k \in DOMAIN d.columns : d.columns[k].old = d.columns[k].new

Stored(cs) == cs \in Seq(ColumnT) /\ ChangePart!Unique(cs)
Tabled == ChangePart!Unnamed \notin DOMAIN change_tables /\
\A t \in DOMAIN change_tables : Stored(change_tables[t].columns)

Olds(cs) == {cs[k].old[1] : k \in {j \in DOMAIN cs : cs[j].old # ChangePart!None}}
Stands(t, columns) == t \in DOMAIN change_tables /\ ChangePart!Range(change_tables[t].columns) = columns
Synced == change_draft.old # ChangePart!Unnamed => Stands(change_draft.old, Olds(change_draft.columns))

After(d) == IF d.new = d.old THEN <<>> ELSE <<[do |-> "title", to |-> d.new]>>
Rest(d, m) == ChangePart!LinesOf(d.columns, After(d))[Len(d.columns) - m]

(* The first m columns are done. *)
Done(c) == IF c.old = ChangePart!None THEN ChangePart!Written(c.new[1]) ELSE c.new[1]
News(cs, m) == {k \in DOMAIN cs : k <= m /\ cs[k].new # ChangePart!None}
Waiting(cs, m) == {k \in DOMAIN cs : k > m /\ cs[k].old # ChangePart!None}
Halfway(cs, m) == {Done(cs[k]) : k \in News(cs, m)} \cup {cs[k].old[1] : k \in Waiting(cs, m)}
KeptApart(cs, m) == \A j \in News(cs, m), k \in Waiting(cs, m) : Done(cs[j]).name # cs[k].old[1].name

Creation(d) == ChangePart!GenerateSqlSchemaChange(d)[1]
Lines(d) == {ChangePart!Line(d.columns[k]) : k \in DOMAIN d.columns}
Statements(d) ==
  IF d.old = ChangePart!Unnamed THEN {Creation(d)}
  ELSE {x \in Lines(d) : x.do # "nothing"} \cup {[do |-> "title", to |-> d.new]}
Created(d) == [k \in DOMAIN d.columns |-> ChangePart!Written(d.columns[k].new[1])]
Progress(s) == LET d == s.draft IN
  IF d.old = ChangePart!Unnamed
    THEN \/ s.left = ChangePart!GenerateSqlSchemaChange(d)
         \/ s.left = <<>> /\ d.new \in DOMAIN change_tables /\ change_tables[d.new].columns = Created(d)
    ELSE \/ s.left = <<>> /\ Stands(d.new, Halfway(d.columns, Len(d.columns)))
         \/ \E m \in 0..Len(d.columns) :
              s.left = Rest(d, m) /\ Stands(d.old, Halfway(d.columns, m)) /\ KeptApart(d.columns, m)

Busy == change_sent # <<>> \/ change_fetches # <<>>
Refreshes(s) == s.failed = FALSE /\ (s.draft.new # s.draft.old \/ s.gone = FALSE)
OfDraft(s) ==
  /\ WholeSave(s) /\ s.left \in Seq(Statements(s.draft))
  /\ s.failed \in BOOLEAN /\ s.apart \in BOOLEAN /\ s.gone \in BOOLEAN
  /\ Drawn(s.draft.old, s.draft.columns)
  /\ s.draft.new # ChangePart!Unnamed \/ Plain(s.draft)
  /\ Plain(s.draft) /\ s.draft.old # ChangePart!Unnamed => s.left = <<>>
  /\ Plain(s.draft) /\ s.draft.old = ChangePart!Unnamed =>
       s.left = ChangePart!GenerateSqlSchemaChange(s.draft)
  /\ s.gone = TRUE /\ s.draft.new = s.draft.old => Plain(s.draft)
Alone(s) ==
  /\ Len(change_sent) = 1 /\ change_fetches = <<>> /\ s.draft = change_draft
  /\ Len(s.left) <= Len(ChangePart!GenerateSqlSchemaChange(s.draft))
  /\ Len(s.left) = Len(ChangePart!GenerateSqlSchemaChange(s.draft)) => Synced
  /\ Progress(s)

Lists == IsList(change_sent) /\ IsList(change_fetches) /\ Whole(change_draft)
OneDraft == \A i, j \in DOMAIN change_sent :
  Plain(change_sent[i].draft) \/ Plain(change_sent[j].draft) \/ change_sent[i].draft = change_sent[j].draft
SameDraft == Busy => \A j \in DOMAIN change_sent : Plain(change_draft) \/ Plain(change_sent[j].draft) \/
change_sent[j].draft = change_draft
Named == Busy \/ change_isSaving = TRUE => change_draft.new # ChangePart!Unnamed \/ Plain(change_draft)
Coming == change_fetches # <<>> \/ \E i \in DOMAIN change_sent : Refreshes(change_sent[i])

Orderly ==
  /\ Lists /\ change_isSaving \in BOOLEAN
  /\ Tabled /\ Drawn(change_draft.old, change_draft.columns)
  /\ \A i \in DOMAIN change_sent : OfDraft(change_sent[i]) /\ (change_sent[i].apart = TRUE =>
       Alone(change_sent[i]))
  /\ OneDraft /\ SameDraft /\ Named
  /\ Synced \/ Coming

ChangeInv == change_torn \in BOOLEAN /\ change_stale \in BOOLEAN /\ (change_torn = TRUE \/
change_stale = TRUE \/ Orderly)

(* A list that begins with x. *)
LEMMA Begun ==
  ASSUME NEW U, NEW x \in U, NEW t \in Seq(U)
  PROVE  /\ <<x>> \o t \in Seq(U) /\ <<x>> \o t # <<>> /\ Len(<<x>> \o t) = Len(t) + 1
         /\ Head(<<x>> \o t) = x /\ Tail(<<x>> \o t) = t
<1>1. /\ <<x>> \o t \in Seq(U) /\ Len(<<x>> \o t) = Len(t) + 1
      /\ (<<x>> \o t)[1] = x
      /\ \A n \in 1..Len(t) : (<<x>> \o t)[n + 1] = t[n]
  <2>1. <<x>> \in Seq(U) /\ Len(<<x>>) = 1 /\ <<x>>[1] = x
    OBVIOUS
  <2>2. /\ <<x>> \o t \in Seq(U) /\ Len(<<x>> \o t) = Len(<<x>>) + Len(t)
        /\ \A i \in 1..(Len(<<x>>) + Len(t)) :
              (<<x>> \o t)[i] = IF i <= Len(<<x>>) THEN <<x>>[i] ELSE t[i - Len(<<x>>)]
    BY <2>1, ConcatProperties
  <2>3. \A n \in 1..Len(t) : n + 1 \in 1..(1 + Len(t)) /\ ~(n + 1 <= 1) /\ (n + 1) - 1 = n
    OBVIOUS
  <2>4. Len(t) \in Nat /\ 1 \in 1..(1 + Len(t))
    OBVIOUS
  <2>5. QED
    BY <2>1, <2>2, <2>3, <2>4
<1>2. PICK q \in Seq(U) : q = <<x>> \o t
  BY <1>1
<1>3. Len(q) = Len(t) + 1 /\ q[1] = x /\ \A n \in 1..Len(t) : q[n + 1] = t[n]
  BY <1>1, <1>2
<1>4. q # <<>> /\ Head(q) = x
  BY <1>3
<1>5. Tail(q) \in Seq(U) /\ Len(Tail(q)) = Len(t) /\ \A n \in 1..Len(t) : Tail(q)[n] = t[n]
  <2>1. q # <<>> /\ Len(q) - 1 = Len(t)
    BY <1>3, <1>4
  <2>2. Tail(q) \in Seq(U) /\ Len(Tail(q)) = Len(q) - 1 /\ \A n \in 1..(Len(q) - 1) : Tail(q)[n] = q[n + 1]
    BY <2>1, HeadTailProperties
  <2>3. QED
    BY <1>3, <2>1, <2>2
<1>6. Tail(q) = t
  BY <1>5, SeqEqual
<1>7. QED
  BY <1>1, <1>2, <1>4, <1>6

(* Each column has nothing to be sent or a statement of U. *)
Sendable(cs, N, U) == \A k \in 1..N : ChangePart!Line(cs[k]).do = "nothing" \/ ChangePart!Line(cs[k]) \in U

(* LinesOf has a value for each column. *)
LEMMA LinesLoop ==
  ASSUME NEW cs, NEW N \in Nat, Len(cs) = N, NEW U, NEW after \in Seq(U),
         Sendable(cs, N, U)
  PROVE  \E f : /\ ChangePart!LinesOf(cs, after) = f /\ f[0] = after
                /\ \A n \in 1..N : f[n] = IF ChangePart!Line(cs[N + 1 - n]).do = "nothing" THEN f[n - 1]
                                           ELSE <<ChangePart!Line(cs[N + 1 - n])>> \o f[n - 1]
<1> DEFINE W == Seq(U)
           Turn(n, t) == IF ChangePart!Line(cs[N + 1 - n]).do = "nothing" THEN t
                         ELSE <<ChangePart!Line(cs[N + 1 - n])>> \o t
           g == [n \in 1..N |-> [t \in W |-> Turn(n, t)]]
           Body(f) == [n \in 0..N |-> IF n = 0 THEN after ELSE Turn(n, f[n - 1])]
           lines == CHOOSE f : f = Body(f)
<1>1. after \in W /\ \A n \in 1..N, t \in W : Turn(n, t) \in W
  <2>1. \A n \in 1..N : N + 1 - n \in 1..N
    OBVIOUS
  <2>2. ASSUME NEW n \in 1..N, NEW t \in W PROVE Turn(n, t) \in W
    <3>1. ChangePart!Line(cs[N + 1 - n]).do = "nothing" \/ ChangePart!Line(cs[N + 1 - n]) \in U
      BY <2>1 DEF Sendable
    <3>2. ChangePart!Line(cs[N + 1 - n]) \in U => <<ChangePart!Line(cs[N + 1 - n])>> \o t \in W
      BY Begun
    <3>3. QED
      BY <3>1, <3>2
  <2>3. QED
    BY <2>2
<1>2. ChangePart!LinesOf(cs, after) = lines
  BY DEF ChangePart!LinesOf
<1>3. lines[0] = after /\ \A n \in 1..N : lines[n] = Turn(n, lines[n - 1])
  <2> HIDE DEF W, Turn
  <2>1. g \in [1..N -> [W -> W]]
    BY <1>1
  <2>2. PICK f \in [0..N -> W] : f[0] = after /\ \A n \in 1..N : f[n] = g[n][f[n - 1]]
    <3> HIDE DEF g
    <3>1. Loops(W, N, g, after) # {}
      BY <1>1, <2>1, LoopHasValues
    <3>2. QED
      BY <3>1 DEF Loops
  <2>3. \A n \in 1..N : n - 1 \in 0..N
    BY <1>1
  <2>4. \A n \in 1..N : f[n] = Turn(n, f[n - 1])
    BY <2>2, <2>3
  <2>5. f = Body(f)
    BY <2>2, <2>4
  <2>6. lines = Body(lines)
    <3>1. \E h : h = Body(h)
      BY <2>5, Zenon
    <3> HIDE DEF Body
    <3>2. QED
      BY <3>1, Zenon
  <2>7. lines[0] = after
    <3> HIDE DEF lines
    <3>1. QED
      BY <1>1, <2>6
  <2>8. ASSUME NEW n \in 1..N PROVE lines[n] = Turn(n, lines[n - 1])
    <3> HIDE DEF lines
    <3>1. QED
      BY <1>1, <2>6
  <2>9. QED
    BY <2>7, <2>8
<1>4. QED
  <2> HIDE DEF lines
  <2>1. QED
    BY <1>2, <1>3, Zenon

(* The values of the loop of LinesOf. *)
LinesRun(cs, N, U, after, f) ==
  /\ f[0] = after
  /\ \A n \in 0..N : f[n] \in Seq(U)
  /\ \A m \in 0..(N - 1) : LET line == ChangePart!Line(cs[m + 1]) IN
       f[N - m] = IF line.do = "nothing" THEN f[N - (m + 1)] ELSE <<line>> \o f[N - (m + 1)]

(* What is to be sent from a column on. *)
LEMMA LinesOn ==
  ASSUME NEW cs, NEW N \in Nat, Len(cs) = N, NEW U, NEW after \in Seq(U), NEW f,
      f = ChangePart!LinesOf(cs, after),
         Sendable(cs, N, U)
  PROVE  LinesRun(cs, N, U, after, f)
<1> USE DEF LinesRun
<1>1. /\ f[0] = after
      /\ \A n \in 1..N : f[n] = IF ChangePart!Line(cs[N + 1 - n]).do = "nothing" THEN f[n - 1]
                                 ELSE <<ChangePart!Line(cs[N + 1 - n])>> \o f[n - 1]
  BY LinesLoop
<1> DEFINE T == {n \in Nat : n <= N => f[n] \in Seq(U)}
<1>2. 0 \in T
  BY <1>1
<1>3. ASSUME NEW n \in T PROVE n + 1 \in T
  <2>1. SUFFICES ASSUME n + 1 <= N PROVE f[n + 1] \in Seq(U)
    OBVIOUS
  <2>2. n + 1 \in 1..N /\ (n + 1) - 1 = n /\ N + 1 - (n + 1) = N - n /\ N - n \in 1..N /\ f[n] \in Seq(U)
    BY <2>1
  <2>3. f[n + 1] = IF ChangePart!Line(cs[N - n]).do = "nothing" THEN f[n]
                   ELSE <<ChangePart!Line(cs[N - n])>> \o f[n]
    BY <1>1, <2>2
  <2>4. ChangePart!Line(cs[N - n]) \in U => <<ChangePart!Line(cs[N - n])>> \o f[n] \in Seq(U)
    BY <2>2, Begun
  <2>5. ChangePart!Line(cs[N - n]).do = "nothing" \/ ChangePart!Line(cs[N - n]) \in U
    BY <2>2 DEF Sendable
  <2>6. QED
    BY <2>2, <2>3, <2>4, <2>5
<1>4. T = Nat
  <2> HIDE DEF T
  <2>1. T \in SUBSET Nat
    BY DEF T
  <2>2. QED
    BY <1>2, <1>3, <2>1, Induction
<1>5. \A n \in 0..N : f[n] \in Seq(U)
  BY <1>4
<1>6. ASSUME NEW m \in 0..(N - 1)
      PROVE  f[N - m] = IF ChangePart!Line(cs[m + 1]).do = "nothing" THEN f[N - (m + 1)]
                        ELSE <<ChangePart!Line(cs[m + 1])>> \o f[N - (m + 1)]
  <2>1. N - m \in 1..N /\ N + 1 - (N - m) = m + 1 /\ (N - m) - 1 = N - (m + 1)
    OBVIOUS
  <2>2. QED
    BY <1>1, <2>1
<1>7. QED
  BY <1>1, <1>5, <1>6

(* What is left of a list keeps its places apart. *)
LEMMA LeftPlaces ==
  ASSUME NEW V, NEW s \in Seq(V), NEW S
  PROVE  \E p : /\ ChangePart!Without(s, S) \in Seq(V) /\
                     p \in [1..Len(ChangePart!Without(s, S)) -> 1..Len(s)]
                /\ \A i \in 1..Len(ChangePart!Without(s, S)) : ChangePart!Without(s, S)[i] = s[p[i]] /\
                     s[p[i]] \notin S
                /\ \A i, j \in 1..Len(ChangePart!Without(s, S)) : p[i] = p[j] => i = j
                /\ \A k \in 1..Len(s) : s[k] \notin S => \E i \in 1..Len(ChangePart!Without(s, S)) : p[i] = k
<1>1. PICK f : /\ f[0] = <<>> /\ ChangePart!Without(s, S) = f[Len(s)]
               /\ \A n \in 1..Len(s) : f[n] = IF s[n] \in S THEN f[n - 1] ELSE Append(f[n - 1], s[n])
  BY ColumnsLeft
<1> DEFINE Good(n, p) == /\ f[n] \in Seq(V) /\ p \in [1..Len(f[n]) -> 1..n]
                         /\ \A i \in 1..Len(f[n]) : f[n][i] = s[p[i]] /\ s[p[i]] \notin S
                         /\ \A i, j \in 1..Len(f[n]) : p[i] = p[j] => i = j
                         /\ \A k \in 1..n : s[k] \notin S => \E i \in 1..Len(f[n]) : p[i] = k
           T == {n \in Nat : n <= Len(s) => \E p : Good(n, p)}
<1>2. 0 \in T
  <2>1. f[0] \in Seq(V) /\ Len(f[0]) = 0
    BY <1>1
  <2>2. Good(0, [i \in 1..0 |-> 1])
    BY <2>1
  <2>3. QED
    BY <2>2
<1>3. ASSUME NEW n \in Nat, n + 1 <= Len(s), NEW p, Good(n, p) PROVE \E q : Good(n + 1, q)
  <2> HIDE DEF T
  <2>2. n + 1 \in 1..Len(s) /\ (n + 1) - 1 = n /\ s[n + 1] \in V /\ n \in Nat
    BY <1>3
  <2>3. Good(n, p)
    BY <1>3
  <2>4. f[n + 1] = IF s[n + 1] \in S THEN f[n] ELSE Append(f[n], s[n + 1])
    BY <1>1, <2>2
  <2>5. CASE s[n + 1] \in S
    <3>1. f[n + 1] = f[n]
      BY <2>4, <2>5
    <3>2. Good(n + 1, p)
      <4>1. p \in [1..Len(f[n]) -> 1..(n + 1)]
        BY <2>2, <2>3
      <4>2. \A k \in 1..(n + 1) : k \in 1..n \/ k = n + 1
        BY <2>2
      <4>3. QED
        BY <2>3, <2>5, <3>1, <4>1, <4>2
    <3>3. QED
      BY <3>2
  <2>6. CASE s[n + 1] \notin S
    <3>1. f[n + 1] = Append(f[n], s[n + 1])
      BY <2>4, <2>6
    <3>2. PICK L \in Nat : L = Len(f[n])
      BY <2>3
    <3>3. PICK e \in V : e = s[n + 1]
      BY <2>2
    <3>4. PICK q \in Seq(V) : q = f[n]
      BY <2>3
    <3>5. PICK r : r = f[n + 1]
      OBVIOUS
    <3>6. r = Append(q, e) /\ L = Len(q)
      BY <3>1, <3>2, <3>3, <3>4, <3>5
    <3>7. r \in Seq(V) /\ Len(r) = L + 1 /\ r[L + 1] = e /\ \A i \in 1..L : r[i] = q[i]
      BY <3>6
    <3> DEFINE h == [i \in 1..(L + 1) |-> IF i = L + 1 THEN n + 1 ELSE p[i]]
    <3>8. \A i \in 1..L : p[i] \in 1..n /\ q[i] = s[p[i]] /\ s[p[i]] \notin S /\ h[i] = p[i]
      <4>1. \A i \in 1..L : h[i] = p[i]
        OBVIOUS
      <4> HIDE DEF h
      <4>2. \A i \in 1..L : p[i] \in 1..n /\ q[i] = s[p[i]] /\ s[p[i]] \notin S
        BY <2>3, <3>2, <3>4
      <4>3. QED
        BY <4>1, <4>2
    <3>9. h[L + 1] = n + 1
      OBVIOUS
    <3>10. \A i \in 1..(L + 1) : i \in 1..L \/ i = L + 1
      OBVIOUS
    <3>11. h \in [1..(L + 1) -> 1..(n + 1)]
      <4>1. \A i \in 1..L : p[i] \in 1..(n + 1)
        <5>1. \A i \in 1..L : p[i] \in 1..n
          BY <3>8
        <5>2. \A x \in 1..n : x \in 1..(n + 1)
          OBVIOUS
        <5> HIDE DEF h
        <5>3. QED
          BY <5>1, <5>2
      <4>2. n + 1 \in 1..(n + 1)
        BY <2>2
      <4>3. QED
        BY <3>10, <4>1, <4>2
    <3>12. \A i, j \in 1..L : p[i] = p[j] => i = j
      BY <2>3, <3>2
    <3>13. \A k \in 1..n : s[k] \notin S => \E i \in 1..L : p[i] = k
      BY <2>3, <3>2
    <3> HIDE DEF h
    <3>14. \A i \in 1..(L + 1) : r[i] = s[h[i]] /\ s[h[i]] \notin S
      BY <2>6, <3>3, <3>7, <3>8, <3>9, <3>10
    <3>15. \A i, j \in 1..(L + 1) : h[i] = h[j] => i = j
      <4>1. \A i \in 1..L : h[i] # n + 1
        BY <3>8
      <4>2. QED
        BY <3>8, <3>9, <3>10, <3>12, <4>1
    <3>16. \A k \in 1..(n + 1) : s[k] \notin S => \E i \in 1..(L + 1) : h[i] = k
      <4>1. ASSUME NEW k \in 1..(n + 1), s[k] \notin S PROVE \E i \in 1..(L + 1) : h[i] = k
        <5>1. CASE k = n + 1
          <6>1. L + 1 \in 1..(L + 1)
            OBVIOUS
          <6>2. QED
            BY <3>9, <5>1, <6>1
        <5>2. CASE k \in 1..n
          <6>1. PICK i \in 1..L : p[i] = k
            BY <3>13, <4>1, <5>2
          <6>2. h[i] = k /\ i \in 1..(L + 1)
            BY <3>8, <6>1
          <6>3. QED
            BY <6>2
        <5>3. k = n + 1 \/ k \in 1..n
          BY <2>2
        <5>4. QED
          BY <5>1, <5>2, <5>3
      <4>2. QED
        BY <4>1
    <3>17. Good(n + 1, h)
      BY <3>5, <3>7, <3>11, <3>14, <3>15, <3>16
    <3>18. QED
      BY <3>17
  <2>7. QED
    BY <2>5, <2>6
<1>4. T = Nat
  <2>1. ASSUME NEW n \in T PROVE n + 1 \in T
    <3> HIDE DEF Good
    <3>1. QED
      BY <1>3
  <2> HIDE DEF T
  <2>2. T \in SUBSET Nat
    BY DEF T
  <2>3. QED
    BY <1>2, <2>1, <2>2, Induction
<1>5. PICK p : Good(Len(s), p)
  <2>1. Len(s) \in T
    BY <1>4
  <2>2. QED
    BY <2>1
<1>6. QED
  BY <1>1, <1>5

-----------------------------------------------------------------------------
(* A column has a name and features, *)
LEMMA ColumnTyped == ASSUME NEW c \in ColumnT PROVE c.name \in ColumnNames /\
c.has \in SUBSET ChangePart!Features
  BY DEF ColumnT

(* and a name and features are a column. *)
LEMMA ColumnMade ==
  ASSUME NEW n \in ColumnNames, NEW h \in SUBSET ChangePart!Features
  PROVE  /\ [name |-> n, has |-> h] \in ColumnT
         /\ [name |-> n, has |-> h].name = n /\ [name |-> n, has |-> h].has = h
<1>1. [name |-> n, has |-> h] \in ColumnT
  BY DEF ColumnT
<1>2. [name |-> n, has |-> h].name = n /\ [name |-> n, has |-> h].has = h
  OBVIOUS
<1>3. QED
  BY <1>1, <1>2

(* A column dropped from a table is the one with its name. *)
LEMMA DroppedColumns ==
  ASSUME NEW cs, Stored(cs), NEW k \in DOMAIN cs
  PROVE  LET r == ChangePart!RemoveAt(cs, CHOOSE j \in DOMAIN cs : cs[j].name = cs[k].name) IN
         Stored(r) /\ ChangePart!Range(r) = ChangePart!Range(cs) \ {cs[k]}
<1>1. cs \in Seq(ColumnT) /\ DOMAIN cs = 1..Len(cs) /\ Len(cs) \in Nat /\ ChangePart!Unique(cs)
  BY DEF Stored
<1>2. (CHOOSE j \in DOMAIN cs : cs[j].name = cs[k].name) = k
  <2>1. \A j \in DOMAIN cs : cs[j].name = cs[k].name => j = k
    BY <1>1 DEF ChangePart!Unique
  <2>2. QED
    BY <2>1
<1>3. PICK r : r = ChangePart!RemoveAt(cs, k)
  OBVIOUS
<1>4. r \in Seq(ColumnT) /\ Len(r) = Len(cs) - 1 /\
          \A j \in 1..(Len(cs) - 1) : r[j] = IF j < k THEN cs[j] ELSE cs[j + 1]
  BY <1>1, <1>3, ColumnRemoval
<1>5. DOMAIN r = 1..(Len(cs) - 1)
  BY <1>4
<1>6. ASSUME NEW j \in DOMAIN r PROVE \E i \in DOMAIN cs : r[j] = cs[i] /\ i # k /\
          i = IF j < k THEN j ELSE j + 1
  BY <1>1, <1>4, <1>5
<1>7. ASSUME NEW i \in DOMAIN cs, i # k PROVE \E j \in DOMAIN r : r[j] = cs[i]
  <2>1. CASE i < k
    <3>1. i \in DOMAIN r /\ r[i] = cs[i]
      BY <1>1, <1>4, <1>5, <2>1
    <3>2. QED
      BY <3>1
  <2>2. CASE i > k
    <3>1. PICK j \in DOMAIN r : j = i - 1
      BY <1>1, <1>5, <2>2
    <3>2. j \in 1..(Len(cs) - 1) /\ ~(j < k) /\ j + 1 = i
      BY <1>1, <1>5, <2>2, <3>1
    <3>3. r[j] = cs[i]
      BY <1>4, <3>2
    <3>4. QED
      BY <3>3
  <2>3. QED
    BY <1>1, <1>7, <2>1, <2>2
<1>8. \A i, j \in DOMAIN cs : cs[i].name = cs[j].name => i = j
  BY <1>1 DEF ChangePart!Unique
<1>9. ChangePart!Unique(r)
  <2>1. ASSUME NEW i \in DOMAIN r, NEW j \in DOMAIN r, r[i].name = r[j].name PROVE i = j
    <3>1. PICK a \in DOMAIN cs : r[i] = cs[a] /\ a = IF i < k THEN i ELSE i + 1
      BY <1>6
    <3>2. PICK b \in DOMAIN cs : r[j] = cs[b] /\ b = IF j < k THEN j ELSE j + 1
      BY <1>6
    <3>3. a = b
      BY <1>8, <2>1, <3>1, <3>2
    <3>4. QED
      BY <1>1, <1>5, <3>1, <3>2, <3>3
  <2>2. QED
    BY <2>1 DEF ChangePart!Unique
<1>10. ChangePart!Range(r) = ChangePart!Range(cs) \ {cs[k]}
  <2>1. \A x \in ChangePart!Range(r) : x \in ChangePart!Range(cs) /\ x # cs[k]
    BY <1>6, <1>8 DEF ChangePart!Range
  <2>2. \A x \in ChangePart!Range(cs) : x # cs[k] => x \in ChangePart!Range(r)
    BY <1>7 DEF ChangePart!Range
  <2>3. QED
    BY <2>1, <2>2
<1>11. QED
  BY <1>2, <1>3, <1>4, <1>9, <1>10 DEF Stored

(* A column added to a table. *)
LEMMA AddedColumns ==
  ASSUME NEW cs, Stored(cs), NEW c \in ColumnT, c.name \notin ChangePart!NamesOf(cs)
  PROVE  Stored(Append(cs, c)) /\ ChangePart!Range(Append(cs, c)) = ChangePart!Range(cs) \cup {c}
<1>1. cs \in Seq(ColumnT) /\ DOMAIN cs = 1..Len(cs) /\ Len(cs) \in Nat
  BY DEF Stored
<1>2. \A i, j \in DOMAIN cs : cs[i].name = cs[j].name => i = j
  BY DEF Stored, ChangePart!Unique
<1>3. \A i \in DOMAIN cs : cs[i].name # c.name
  BY DEF ChangePart!NamesOf
<1>4. PICK r : r = Append(cs, c)
  OBVIOUS
<1>5. r \in Seq(ColumnT) /\ DOMAIN r = 1..(Len(cs) + 1) /\ r[Len(cs) + 1] = c /\
          \A i \in 1..Len(cs) : r[i] = cs[i]
  BY <1>1, <1>4
<1>6. \A i \in DOMAIN r : i \in DOMAIN cs \/ i = Len(cs) + 1
  BY <1>1, <1>5
<1>7. \A i, j \in DOMAIN r : r[i].name = r[j].name => i = j
  BY <1>1, <1>2, <1>3, <1>5, <1>6
<1>8. ChangePart!Range(r) = ChangePart!Range(cs) \cup {c}
  <2>1. \A i \in DOMAIN cs : i \in DOMAIN r /\ r[i] = cs[i]
    BY <1>1, <1>5
  <2>2. Len(cs) + 1 \in DOMAIN r
    BY <1>1, <1>5
  <2>3. QED
    BY <1>5, <1>6, <2>1, <2>2 DEF ChangePart!Range
<1>9. QED
  BY <1>4, <1>5, <1>7, <1>8 DEF Stored, ChangePart!Unique

(* A column renamed. *)
LEMMA RenamedColumns ==
  ASSUME NEW cs, Stored(cs), NEW k \in DOMAIN cs, NEW to \in ColumnNames,
      to \notin ChangePart!NamesOf(cs), NEW n, n = cs[k].name,
         NEW r, r = [j \in DOMAIN cs |-> IF cs[j].name = n THEN [name |-> to, has |-> cs[j].has] ELSE cs[j]]
  PROVE  Stored(r) /\
      ChangePart!Range(r) = (ChangePart!Range(cs) \ {cs[k]}) \cup {[name |-> to, has |-> cs[k].has]}
<1>1. cs \in Seq(ColumnT) /\ DOMAIN cs = 1..Len(cs) /\ Len(cs) \in Nat
  BY DEF Stored
<1>2. \A i, j \in DOMAIN cs : cs[i].name = cs[j].name => i = j
  BY DEF Stored, ChangePart!Unique
<1>3. \A i \in DOMAIN cs : cs[i].name # to
  BY DEF ChangePart!NamesOf
<1>4. PICK h \in SUBSET ChangePart!Features : h = cs[k].has
  <2>1. cs[k] \in ColumnT
    BY <1>1
  <2>2. QED
    BY <2>1, ColumnTyped
<1>5. PICK c \in ColumnT : c = [name |-> to, has |-> h] /\ c.name = to
  BY ColumnMade
<1>6. r[k] = c
  BY <1>4, <1>5
<1>7. \A j \in DOMAIN cs : j # k => r[j] = cs[j]
  BY <1>2
<1>8. DOMAIN r = DOMAIN cs
  OBVIOUS
<1>9. \A j \in DOMAIN cs : cs[j] \in ColumnT
  BY <1>1
<1>10. r = [j \in 1..Len(cs) |-> r[j]]
  BY <1>1
<1>11. r \in Seq(ColumnT)
  <2>1. \A j \in 1..Len(cs) : r[j] \in ColumnT
    BY <1>1, <1>6, <1>7, <1>9
  <2>2. r \in [1..Len(cs) -> ColumnT]
    BY <1>10, <2>1
  <2>3. QED
    BY <1>1, <2>2
<1>12. \A i, j \in DOMAIN r : r[i].name = r[j].name => i = j
  BY <1>2, <1>3, <1>5, <1>6, <1>7, <1>8
<1>13. ChangePart!Range(r) = (ChangePart!Range(cs) \ {cs[k]}) \cup {c}
  <2>1. \A x \in ChangePart!Range(r) : (x \in ChangePart!Range(cs) /\ x # cs[k]) \/ x = c
    <3>1. ASSUME NEW j \in DOMAIN r PROVE (r[j] \in ChangePart!Range(cs) /\ r[j] # cs[k]) \/ r[j] = c
      <4>1. CASE j = k
        BY <1>6, <4>1
      <4>2. CASE j # k
        <5>1. r[j] = cs[j] /\ cs[j] # cs[k]
          BY <1>2, <1>7, <1>8, <4>2
        <5>2. QED
          BY <1>8, <5>1 DEF ChangePart!Range
      <4>3. QED
        BY <4>1, <4>2
    <3>2. QED
      BY <3>1 DEF ChangePart!Range
  <2>2. \A x \in ChangePart!Range(cs) : x # cs[k] => x \in ChangePart!Range(r)
    <3>1. ASSUME NEW j \in DOMAIN cs, cs[j] # cs[k] PROVE cs[j] \in ChangePart!Range(r)
      <4>1. r[j] = cs[j] /\ j \in DOMAIN r
        BY <1>7, <1>8, <3>1
      <4>2. QED
        BY <4>1 DEF ChangePart!Range
    <3>2. QED
      BY <3>1 DEF ChangePart!Range
  <2>3. c \in ChangePart!Range(r)
    BY <1>6, <1>8 DEF ChangePart!Range
  <2>4. QED
    BY <2>1, <2>2, <2>3
<1>14. Stored(r)
  BY <1>11, <1>12 DEF Stored, ChangePart!Unique
<1>15. QED
  BY <1>4, <1>5, <1>13, <1>14

-----------------------------------------------------------------------------
(* A place of a draft that is not empty has a column, *)
LEMMA PlaceTyped == ASSUME NEW p \in Places, p # ChangePart!None PROVE p[1] \in ColumnT
<1>1. PICK c \in ColumnT : p = <<c>>
  BY DEF Places
<1>2. QED
  BY <1>1

(* and a column makes such a place. *)
LEMMA PlaceMade == ASSUME NEW c \in ColumnT PROVE <<c>> \in Places /\ <<c>> # ChangePart!None /\ <<c>>[1] = c
  BY DEF Places, ChangePart!None

LEMMA NonePlace == ChangePart!None \in Places
  BY DEF Places

(* A pair has two places, *)
LEMMA PairTyped == ASSUME NEW c \in PairT PROVE c.old \in Places /\ c.new \in Places
  BY DEF PairT

(* and two places make a pair. *)
LEMMA PairMade ==
  ASSUME NEW a \in Places, NEW b \in Places
  PROVE  [old |-> a, new |-> b] \in PairT /\ [old |-> a, new |-> b].old = a /\ [old |-> a, new |-> b].new = b
<1>1. [old |-> a, new |-> b] \in PairT
  BY DEF PairT
<1>2. [old |-> a, new |-> b].old = a /\ [old |-> a, new |-> b].new = b
  OBVIOUS
<1>3. QED
  BY <1>1, <1>2

(* A draft of which one part is replaced. *)
LEMMA DraftExcept ==
  ASSUME NEW d, Whole(d), NEW x
  PROVE  /\ [d EXCEPT !.columns = x] = [old |-> d.old, new |-> d.new, columns |-> x, constraints |-> d.constraints]
         /\ [d EXCEPT !.new = x] = [old |-> d.old, new |-> x, columns |-> d.columns, constraints |-> d.constraints]
         /\ [d EXCEPT !.constraints = x] = [old |-> d.old, new |-> d.new, columns |-> d.columns, constraints |-> x]
<1>1. PICK a, b, c, e : a = d.old /\ b = d.new /\ c = d.columns /\ e = d.constraints
  OBVIOUS
<1>2. d = [old |-> a, new |-> b, columns |-> c, constraints |-> e]
  BY <1>1 DEF Whole
<1>3. [d EXCEPT !.columns = x] = [old |-> a, new |-> b, columns |-> x, constraints |-> e]
  BY <1>2
<1>4. [d EXCEPT !.new = x] = [old |-> a, new |-> x, columns |-> c, constraints |-> e]
  BY <1>2
<1>5. [d EXCEPT !.constraints = x] = [old |-> a, new |-> b, columns |-> c, constraints |-> x]
  BY <1>2
<1>6. QED
  BY <1>1, <1>3, <1>4, <1>5

(* A draft made of four parts has them. *)
LEMMA DraftMade ==
  ASSUME NEW a, NEW b, NEW c, NEW e, NEW d, d = [old |-> a, new |-> b, columns |-> c, constraints |-> e]
  PROVE  Whole(d) /\ d.old = a /\ d.new = b /\ d.columns = c /\ d.constraints = e
<1>1. d.old = a /\ d.new = b /\ d.columns = c /\ d.constraints = e
  OBVIOUS
<1>2. QED
  BY <1>1 DEF Whole

(* Each element of t is one of s, and no two are the same. *)
Injects(p, t, s) ==
  /\ p \in [DOMAIN t -> DOMAIN s]
  /\ \A i \in DOMAIN t : t[i] = s[p[i]]
  /\ \A i, j \in DOMAIN t : p[i] = p[j] => i = j
AllOlds(es, cs) == \A k \in DOMAIN cs : cs[k].old # ChangePart!None => \E i \in DOMAIN es : es[i] = cs[k]

(* Columns of a draft in another order, or without some that are new. *)
LEMMA Rearranged ==
  ASSUME NEW old, NEW cs, Drawn(old, cs), NEW es \in Seq(PairT), NEW p, Injects(p, es, cs), AllOlds(es, cs)
  PROVE  Drawn(old, es) /\ Olds(es) = Olds(cs)
<1> USE DEF Injects, AllOlds
<1>1. \A i \in DOMAIN es : p[i] \in DOMAIN cs
  OBVIOUS
<1>2. \A k \in DOMAIN cs :
        /\ cs[k].old # ChangePart!None \/ cs[k].new # ChangePart!None
        /\ old = ChangePart!Unnamed => cs[k].old = ChangePart!None
        /\ cs[k].old # ChangePart!None /\ cs[k].new # ChangePart!None => cs[k].old[1].has = cs[k].new[1].has
  BY DEF Drawn
<1>3. \A j, k \in DOMAIN cs :
        cs[j].old # ChangePart!None /\ cs[k].old # ChangePart!None /\
        cs[j].old[1].name = cs[k].old[1].name => j = k
  BY DEF Drawn
<1>4. \A k \in DOMAIN es :
        /\ es[k].old # ChangePart!None \/ es[k].new # ChangePart!None
        /\ old = ChangePart!Unnamed => es[k].old = ChangePart!None
        /\ es[k].old # ChangePart!None /\ es[k].new # ChangePart!None => es[k].old[1].has = es[k].new[1].has
  <2>1. ASSUME NEW k \in DOMAIN es PROVE es[k] = cs[p[k]] /\ p[k] \in DOMAIN cs
    BY <1>1
  <2>2. QED
    BY <1>2, <2>1
<1>5. \A j, k \in DOMAIN es :
        es[j].old # ChangePart!None /\ es[k].old # ChangePart!None /\
        es[j].old[1].name = es[k].old[1].name => j = k
  <2>1. ASSUME NEW j \in DOMAIN es, NEW k \in DOMAIN es, es[j].old # ChangePart!None,
            es[k].old # ChangePart!None,
               es[j].old[1].name = es[k].old[1].name
        PROVE  j = k
    <3>1. es[j] = cs[p[j]] /\ es[k] = cs[p[k]] /\ p[j] \in DOMAIN cs /\ p[k] \in DOMAIN cs
      BY <1>1
    <3>2. p[j] = p[k]
      BY <1>3, <2>1, <3>1
    <3>3. QED
      BY <3>2
  <2>2. QED
    BY <2>1
<1>6. Drawn(old, es)
  BY <1>4, <1>5 DEF Drawn
<1>7. \A x \in Olds(es) : x \in Olds(cs)
  BY <1>1 DEF Olds
<1>8. \A x \in Olds(cs) : x \in Olds(es)
  <2>1. ASSUME NEW k \in DOMAIN cs, cs[k].old # ChangePart!None PROVE cs[k].old[1] \in Olds(es)
    <3>1. PICK i \in DOMAIN es : es[i] = cs[k]
      BY <2>1
    <3>2. QED
      BY <2>1, <3>1 DEF Olds
  <2>2. QED
    BY <2>1 DEF Olds
<1>9. QED
  BY <1>6, <1>7, <1>8

(* One column of a draft changed: its old place stays. *)
LEMMA ColumnChanged ==
  ASSUME NEW old, NEW cs, Drawn(old, cs), NEW k \in DOMAIN cs, NEW n \in Places,
         cs[k].old # ChangePart!None \/ n # ChangePart!None,
         cs[k].old # ChangePart!None /\ n # ChangePart!None => cs[k].old[1].has = n[1].has
  PROVE  LET es == [cs EXCEPT ![k] = [old |-> cs[k].old, new |-> n]] IN Drawn(old, es) /\ Olds(es) = Olds(cs)
<1>1. cs \in Seq(PairT) /\ \A i \in DOMAIN cs : cs[i] \in PairT
  BY DEF Drawn
<1>2. PICK o \in Places : o = cs[k].old
  BY <1>1, PairTyped
<1>3. PICK c \in PairT : c = [old |-> o, new |-> n] /\ c.old = o /\ c.new = n
  BY PairMade
<1>4. PICK es : es = [cs EXCEPT ![k] = c]
  OBVIOUS
<1>5. es \in Seq(PairT) /\ DOMAIN es = DOMAIN cs /\ es[k] = c /\ \A i \in DOMAIN cs : i # k => es[i] = cs[i]
  BY <1>1, <1>4
<1>6. \A i \in DOMAIN cs : es[i].old = cs[i].old
  BY <1>2, <1>3, <1>5
<1>7. \A i \in DOMAIN cs :
        /\ cs[i].old # ChangePart!None \/ cs[i].new # ChangePart!None
        /\ old = ChangePart!Unnamed => cs[i].old = ChangePart!None
        /\ cs[i].old # ChangePart!None /\ cs[i].new # ChangePart!None => cs[i].old[1].has = cs[i].new[1].has
  BY DEF Drawn
<1>8. \A i \in DOMAIN es :
        /\ es[i].old # ChangePart!None \/ es[i].new # ChangePart!None
        /\ old = ChangePart!Unnamed => es[i].old = ChangePart!None
        /\ es[i].old # ChangePart!None /\ es[i].new # ChangePart!None => es[i].old[1].has = es[i].new[1].has
  <2>1. ASSUME NEW i \in DOMAIN es, i # k
        PROVE  /\ es[i].old # ChangePart!None \/ es[i].new # ChangePart!None
               /\ old = ChangePart!Unnamed => es[i].old = ChangePart!None
               /\ es[i].old # ChangePart!None /\ es[i].new # ChangePart!None =>
                    es[i].old[1].has = es[i].new[1].has
    BY <1>5, <1>7, <2>1, Zenon
  <2>2. /\ es[k].old # ChangePart!None \/ es[k].new # ChangePart!None
        /\ old = ChangePart!Unnamed => es[k].old = ChangePart!None
        /\ es[k].old # ChangePart!None /\ es[k].new # ChangePart!None => es[k].old[1].has = es[k].new[1].has
    BY <1>2, <1>3, <1>5, <1>7
  <2>3. QED
    BY <2>1, <2>2
<1>9. \A i, j \in DOMAIN es :
        es[i].old # ChangePart!None /\ es[j].old # ChangePart!None /\
        es[i].old[1].name = es[j].old[1].name => i = j
  <2>1. \A i, j \in DOMAIN cs :
          cs[i].old # ChangePart!None /\ cs[j].old # ChangePart!None /\
          cs[i].old[1].name = cs[j].old[1].name => i = j
    BY DEF Drawn
  <2>2. QED
    BY <1>5, <1>6, <2>1
<1>10. Olds(es) = Olds(cs)
  BY <1>5, <1>6 DEF Olds
<1>11. Drawn(old, es)
  BY <1>5, <1>8, <1>9 DEF Drawn
<1>12. QED
  BY <1>2, <1>3, <1>4, <1>10, <1>11

(* A new column at the end. *)
LEMMA ColumnAppended ==
  ASSUME NEW old, NEW cs, Drawn(old, cs), NEW c \in ColumnT
  PROVE  LET es == Append(cs, [old |-> ChangePart!None, new |-> <<c>>]) IN Drawn(old, es) /\
      Olds(es) = Olds(cs)
<1>1. cs \in Seq(PairT) /\ DOMAIN cs = 1..Len(cs) /\ Len(cs) \in Nat
  BY DEF Drawn
<1>2. PICK e \in PairT : e = [old |-> ChangePart!None, new |-> <<c>>] /\ e.old = ChangePart!None /\
          e.new # ChangePart!None
  <2>1. <<c>> \in Places /\ <<c>> # ChangePart!None /\ ChangePart!None \in Places
    BY PlaceMade, NonePlace
  <2>2. QED
    BY <2>1, PairMade
<1>3. PICK es : es = Append(cs, e)
  OBVIOUS
<1>4. es \in Seq(PairT) /\ DOMAIN es = 1..(Len(cs) + 1) /\ es[Len(cs) + 1] = e /\
          \A i \in DOMAIN cs : es[i] = cs[i]
  BY <1>1, <1>3
<1>5. \A i \in DOMAIN es : i \in DOMAIN cs \/ i = Len(cs) + 1
  BY <1>1, <1>4
<1>6. \A i \in DOMAIN cs : i \in DOMAIN es
  BY <1>1, <1>4
<1>7. \A i \in DOMAIN es : es[i].old # ChangePart!None => i \in DOMAIN cs
  BY <1>2, <1>4, <1>5
<1>8. \A i \in DOMAIN es :
        /\ es[i].old # ChangePart!None \/ es[i].new # ChangePart!None
        /\ old = ChangePart!Unnamed => es[i].old = ChangePart!None
        /\ es[i].old # ChangePart!None /\ es[i].new # ChangePart!None => es[i].old[1].has = es[i].new[1].has
  <2>1. \A i \in DOMAIN cs :
          /\ cs[i].old # ChangePart!None \/ cs[i].new # ChangePart!None
          /\ old = ChangePart!Unnamed => cs[i].old = ChangePart!None
          /\ cs[i].old # ChangePart!None /\ cs[i].new # ChangePart!None => cs[i].old[1].has = cs[i].new[1].has
    BY DEF Drawn
  <2>2. ASSUME NEW i \in DOMAIN cs
        PROVE  /\ es[i].old # ChangePart!None \/ es[i].new # ChangePart!None
               /\ old = ChangePart!Unnamed => es[i].old = ChangePart!None
               /\ es[i].old # ChangePart!None /\ es[i].new # ChangePart!None =>
                    es[i].old[1].has = es[i].new[1].has
    BY <1>4, <2>1, Zenon
  <2>3. es[Len(cs) + 1].old = ChangePart!None /\ es[Len(cs) + 1].new # ChangePart!None
    BY <1>2, <1>4
  <2>4. QED
    BY <1>5, <2>2, <2>3
<1>9. \A i, j \in DOMAIN es :
        es[i].old # ChangePart!None /\ es[j].old # ChangePart!None /\
        es[i].old[1].name = es[j].old[1].name => i = j
  <2>1. \A i, j \in DOMAIN cs :
          cs[i].old # ChangePart!None /\ cs[j].old # ChangePart!None /\
          cs[i].old[1].name = cs[j].old[1].name => i = j
    BY DEF Drawn
  <2>2. QED
    BY <1>4, <1>7, <2>1
<1>10. Olds(es) = Olds(cs)
  <2>1. \A i \in DOMAIN es : es[i].old # ChangePart!None => i \in DOMAIN cs /\
            cs[i].old # ChangePart!None /\ es[i].old[1] = cs[i].old[1]
    BY <1>4, <1>7
  <2>2. \A i \in DOMAIN cs : cs[i].old # ChangePart!None => i \in DOMAIN es /\
            es[i].old # ChangePart!None /\ es[i].old[1] = cs[i].old[1]
    BY <1>4, <1>6
  <2>3. QED
    BY <2>1, <2>2 DEF Olds
<1>11. Drawn(old, es)
  BY <1>4, <1>8, <1>9 DEF Drawn
<1>12. QED
  BY <1>2, <1>3, <1>10, <1>11

-----------------------------------------------------------------------------
(* What went wrong once stays on record. *)
LEMMA RecordsStay ==
  ASSUME change_torn \in BOOLEAN, change_stale \in BOOLEAN, ChangePart!Next \/ UNCHANGED change_vars
  PROVE  /\ change_torn' \in BOOLEAN /\ change_stale' \in BOOLEAN
         /\ change_torn = TRUE => change_torn' = TRUE
         /\ change_stale = TRUE => change_stale' = TRUE
<1>1. ASSUME NEW d, ChangePart!Edit(d) PROVE change_torn' = change_torn /\
          change_stale' = (change_stale \/ change_sent # <<>> \/ change_fetches # <<>>)
  BY <1>1 DEF ChangePart!Edit
<1>2. CASE ChangePart!OnAddColumn
  BY <1>1, <1>2 DEF ChangePart!OnAddColumn
<1>3. CASE ChangePart!OnDiscard
  BY <1>3 DEF ChangePart!OnDiscard
<1>4. ASSUME NEW k, NEW c, ChangePart!ChangeColumnOnIndex(k, c) PROVE change_torn' = change_torn /\
          change_stale' = (change_stale \/ change_sent # <<>> \/ change_fetches # <<>>)
  BY <1>1, <1>4 DEF ChangePart!ChangeColumnOnIndex
<1>5. ASSUME NEW k,
             \/ ChangePart!RemoveColumn(k)
             \/ \E n \in NewNames : ChangePart!Rename(k, n)
             \/ \E f \in ChangePart!Features : ChangePart!Put(k, f) \/ ChangePart!Take(k, f)
             \/ \E j \in DOMAIN change_draft.columns : ChangePart!HandleDragEnd(k, j)
      PROVE  change_torn' = change_torn /\ change_stale' = (change_stale \/ change_sent # <<>> \/
          change_fetches # <<>>)
  BY <1>1, <1>4, <1>5, Zenon DEF ChangePart!RemoveColumn, ChangePart!Rename, ChangePart!Put,
      ChangePart!Take, ChangePart!HandleDragEnd
<1>6. ASSUME NEW t, ChangePart!RenameTable(t) PROVE change_torn' = change_torn /\
          change_stale' = (change_stale \/ change_sent # <<>> \/ change_fetches # <<>>)
  BY <1>1, <1>6, Zenon DEF ChangePart!RenameTable
<1>7. ASSUME NEW t, ChangePart!NewConstraint(t) PROVE change_torn' = change_torn /\
          change_stale' = (change_stale \/ change_sent # <<>> \/ change_fetches # <<>>)
  BY <1>1, <1>7, Zenon DEF ChangePart!NewConstraint
<1>8. ASSUME NEW k, ChangePart!RemoveConstraint(k) \/
          \E n \in ChangePart!ColumnList : ChangePart!OnConstraintChange(k, <<n>>)
      PROVE  change_torn' = change_torn /\ change_stale' = (change_stale \/ change_sent # <<>> \/
          change_fetches # <<>>)
  BY <1>1, <1>8, Zenon DEF ChangePart!RemoveConstraint, ChangePart!OnConstraintChange
<1>9. ASSUME NEW t, ChangePart!Elsewhere(t) PROVE change_torn' = change_torn /\ change_stale' = TRUE
  BY <1>9 DEF ChangePart!Elsewhere
<1>10. CASE ChangePart!OnSaveToggle \/ ChangePart!Cancel \/ ChangePart!OnSave
  BY <1>10 DEF ChangePart!OnSaveToggle, ChangePart!Cancel, ChangePart!OnSave
<1>11. ASSUME NEW i, ChangePart!Statement(i) PROVE change_stale' = change_stale /\
           change_torn' \in BOOLEAN /\ (change_torn = TRUE => change_torn' = TRUE)
  BY <1>11 DEF ChangePart!Statement
<1>12. ASSUME NEW i, ChangePart!Complete(i) \/ ChangePart!Fail(i) PROVE change_stale' = change_stale /\
           change_torn' = change_torn
  BY <1>12 DEF ChangePart!Complete, ChangePart!Fail
<1>13. ASSUME NEW i, ChangePart!FetchAnswer(i) PROVE change_torn' = change_torn /\
           (change_stale' = change_stale \/ change_stale' = TRUE)
  BY <1>13 DEF ChangePart!FetchAnswer
<1>14. CASE UNCHANGED change_vars
  BY <1>14 DEF change_vars
<1>15. QED
  <2>1. ChangePart!Next \/ UNCHANGED change_vars
    OBVIOUS
  <2>2. (change_stale \/ change_sent # <<>> \/ change_fetches # <<>>) \in BOOLEAN /\
            (change_stale = TRUE => (change_stale \/ change_sent # <<>> \/ change_fetches # <<>>) = TRUE)
    OBVIOUS
  <2>3. CASE \E k \in DOMAIN change_draft.columns :
                      \/ ChangePart!RemoveColumn(k)
                      \/ \E n \in NewNames : ChangePart!Rename(k, n)
                      \/ \E f \in ChangePart!Features : ChangePart!Put(k, f) \/ ChangePart!Take(k, f)
                      \/ \E j \in DOMAIN change_draft.columns : ChangePart!HandleDragEnd(k, j)
    BY <1>5, <2>2, <2>3
  <2>4. CASE (\E t \in NewTitles : ChangePart!RenameTable(t)) \/
            \E kind \in ChangePart!Kinds : ChangePart!NewConstraint(kind)
    BY <1>6, <1>7, <2>2, <2>4
  <2>5. CASE \E k \in DOMAIN change_draft.constraints :
               ChangePart!RemoveConstraint(k) \/
               \E n \in ChangePart!ColumnList : ChangePart!OnConstraintChange(k, <<n>>)
    BY <1>8, <2>2, <2>5
  <2>6. CASE \E t \in DOMAIN change_tables : ChangePart!Elsewhere(t)
    BY <1>9, <2>6
  <2>7. CASE \E i \in DOMAIN change_sent : ChangePart!Statement(i) \/ ChangePart!Complete(i) \/
            ChangePart!Fail(i)
    BY <1>11, <1>12, <2>7
  <2>8. CASE \E i \in DOMAIN change_fetches : ChangePart!FetchAnswer(i)
    BY <1>13, <2>8
  <2>9. QED
    BY <1>2, <1>3, <1>10, <1>14, <2>1, <2>3, <2>4, <2>5, <2>6, <2>7, <2>8 DEF ChangePart!Next

(* An edit keeps order: nothing is in flight, or the edit is on record. *)
LEMMA DraftEditKeeps ==
  ASSUME Orderly, NEW e, Whole(e), e.old = change_draft.old, Drawn(e.old, e.columns),
      Olds(e.columns) = Olds(change_draft.columns),
         change_draft' = e, change_isSaving = FALSE, UNCHANGED <<change_tables, change_isSaving,
         change_fetches, change_sent>>,
         change_stale' = (change_stale \/ change_sent # <<>> \/ change_fetches # <<>>)
  PROVE  change_stale' = TRUE \/ Orderly'
<1>1. SUFFICES ASSUME change_sent = <<>>, change_fetches = <<>> PROVE Orderly'
  OBVIOUS
<1>2. DOMAIN change_sent = {} /\ DOMAIN change_sent' = {} /\ change_sent' = <<>> /\ change_fetches' = <<>>
  BY <1>1
<1>3. Lists'
  BY DEF Orderly, Lists
<1>4. change_isSaving' \in BOOLEAN /\ Tabled'
  BY DEF Orderly, Tabled
<1>5. Drawn(change_draft.old, change_draft.columns)'
  BY DEF Drawn
<1>6. (\A i \in DOMAIN change_sent : OfDraft(change_sent[i]) /\ (change_sent[i].apart = TRUE =>
          Alone(change_sent[i])))'
  BY <1>2
<1>7. OneDraft' /\ SameDraft'
  BY <1>2 DEF OneDraft, SameDraft
<1>8. Named'
  BY <1>2 DEF Named, Busy
<1>9. Synced
  BY <1>1, <1>2 DEF Orderly, Coming
<1>10. Synced'
  BY <1>9 DEF Synced, Stands, Olds
<1>11. QED
  BY <1>3, <1>4, <1>5, <1>6, <1>7, <1>8, <1>10 DEF Orderly

(* An edit of the columns, *)
LEMMA ColumnsEdited ==
  ASSUME Orderly, NEW es, Drawn(change_draft.old, es), Olds(es) = Olds(change_draft.columns),
      ChangePart!Edit([change_draft EXCEPT !.columns = es])
  PROVE  change_stale' = TRUE \/ Orderly'
<1>1. PICK e : e = [change_draft EXCEPT !.columns = es]
  OBVIOUS
<1>2. Whole(change_draft) /\ change_isSaving \in BOOLEAN
  BY DEF Orderly, Lists
<1>3. e = [old |-> change_draft.old, new |-> change_draft.new, columns |-> es,
           constraints |-> change_draft.constraints]
  BY <1>1, <1>2, DraftExcept
<1>4. Whole(e) /\ e.old = change_draft.old /\ e.columns = es
  BY <1>3, DraftMade
<1>5. ChangePart!Edit(e)
  BY <1>1
<1>6. /\ change_draft' = e /\ change_isSaving = FALSE /\ UNCHANGED <<change_tables, change_isSaving,
           change_fetches, change_sent>>
      /\ change_stale' = (change_stale \/ change_sent # <<>> \/ change_fetches # <<>>)
  BY <1>2, <1>5 DEF ChangePart!Edit
<1>7. QED
  BY <1>4, <1>6, DraftEditKeeps

(* and an edit of something else. *)
LEMMA OthersEdited ==
  ASSUME Orderly, NEW b, NEW c, NEW e,
         e = [old |-> change_draft.old, new |-> b, columns |-> change_draft.columns, constraints |-> c],
         ChangePart!Edit(e)
  PROVE  change_stale' = TRUE \/ Orderly'
<1>1. change_isSaving \in BOOLEAN /\ Drawn(change_draft.old, change_draft.columns)
  BY DEF Orderly
<1>2. Whole(e) /\ e.old = change_draft.old /\ e.columns = change_draft.columns
  BY DraftMade
<1>3. /\ change_draft' = e /\ change_isSaving = FALSE /\ UNCHANGED <<change_tables, change_isSaving,
           change_fetches, change_sent>>
      /\ change_stale' = (change_stale \/ change_sent # <<>> \/ change_fetches # <<>>)
  BY <1>1 DEF ChangePart!Edit
<1>4. QED
  BY <1>1, <1>2, <1>3, DraftEditKeeps

(* A column of which one part is replaced. *)
LEMMA ColumnExcept ==
  ASSUME NEW c \in ColumnT, NEW n \in ColumnNames, NEW h \in SUBSET ChangePart!Features
  PROVE  /\ [c EXCEPT !.name = n] \in ColumnT /\ [c EXCEPT !.name = n].has = c.has /\
              [c EXCEPT !.name = n].name = n
         /\ [c EXCEPT !.has = h] \in ColumnT /\ [c EXCEPT !.has = h].has = h /\
              [c EXCEPT !.has = h].name = c.name
  BY DEF ColumnT

(* The columns of a draft. *)
LEMMA DrawnColumns ==
  ASSUME NEW old, NEW cs, Drawn(old, cs)
  PROVE  /\ cs \in Seq(PairT) /\ DOMAIN cs = 1..Len(cs) /\ Len(cs) \in Nat
         /\ \A k \in DOMAIN cs :
              /\ cs[k].old \in Places /\ cs[k].new \in Places
              /\ cs[k].old # ChangePart!None \/ cs[k].new # ChangePart!None
              /\ cs[k].old # ChangePart!None => cs[k].old[1] \in ColumnT /\ old # ChangePart!Unnamed
              /\ cs[k].new # ChangePart!None => cs[k].new[1] \in ColumnT
              /\ cs[k].old # ChangePart!None /\ cs[k].new # ChangePart!None =>
                   cs[k].old[1].has = cs[k].new[1].has
<1>1. cs \in Seq(PairT) /\ DOMAIN cs = 1..Len(cs) /\ Len(cs) \in Nat
  BY DEF Drawn
<1>2. ASSUME NEW k \in DOMAIN cs
      PROVE  /\ cs[k].old \in Places /\ cs[k].new \in Places
             /\ cs[k].old # ChangePart!None => cs[k].old[1] \in ColumnT
             /\ cs[k].new # ChangePart!None => cs[k].new[1] \in ColumnT
  <2>1. cs[k] \in PairT
    BY <1>1
  <2>2. cs[k].old \in Places /\ cs[k].new \in Places
    BY <2>1, PairTyped
  <2>3. QED
    BY <2>2, PlaceTyped
<1>3. \A k \in DOMAIN cs :
        /\ cs[k].old # ChangePart!None \/ cs[k].new # ChangePart!None
        /\ old = ChangePart!Unnamed => cs[k].old = ChangePart!None
        /\ cs[k].old # ChangePart!None /\ cs[k].new # ChangePart!None => cs[k].old[1].has = cs[k].new[1].has
  BY DEF Drawn
<1>4. QED
  BY <1>1, <1>2, <1>3

(* The column of an index gets another column or none. *)
LEMMA IndexChanged ==
  ASSUME Orderly, NEW k \in DOMAIN change_draft.columns, NEW n \in Places,
         change_draft.columns[k].old # ChangePart!None \/ n # ChangePart!None,
         change_draft.columns[k].old # ChangePart!None /\ n # ChangePart!None =>
         change_draft.columns[k].old[1].has = n[1].has,
         ChangePart!Edit([change_draft EXCEPT !.columns = ChangePart!Changed(k, n)])
  PROVE  change_stale' = TRUE \/ Orderly'
<1>1. PICK cs : cs = change_draft.columns
  OBVIOUS
<1>2. PICK es : es = [cs EXCEPT ![k] = [old |-> cs[k].old, new |-> n]]
  OBVIOUS
<1>3. Drawn(change_draft.old, cs) /\ k \in DOMAIN cs
  BY <1>1 DEF Orderly
<1>4. Drawn(change_draft.old, es) /\ Olds(es) = Olds(cs)
  BY <1>1, <1>2, <1>3, ColumnChanged
<1>5. ChangePart!Changed(k, n) = es
  BY <1>1, <1>2 DEF ChangePart!Changed
<1>6. QED
  BY <1>1, <1>4, <1>5, ColumnsEdited

LEMMA OnAddColumnKeeps == ASSUME Orderly, ChangePart!OnAddColumn PROVE change_stale' = TRUE \/ Orderly'
<1>1. PICK cs : cs = change_draft.columns
  OBVIOUS
<1>2. PICK c \in ColumnT : c = IF cs = <<>> THEN [name |-> "id", has |-> {"pk"}]
                                ELSE [name |-> "column", has |-> {}]
  <2>1. "id" \in ColumnNames /\ "column" \in ColumnNames /\ {"pk"} \in SUBSET ChangePart!Features /\
            {} \in SUBSET ChangePart!Features
    BY DEF ColumnNames, ChangePart!Features
  <2>2. [name |-> "id", has |-> {"pk"}] \in ColumnT /\ [name |-> "column", has |-> {}] \in ColumnT
    BY <2>1, ColumnMade
  <2>3. QED
    BY <2>2
<1>3. PICK es : es = Append(cs, [old |-> ChangePart!None, new |-> <<c>>])
  OBVIOUS
<1>4. ChangePart!Edit([change_draft EXCEPT !.columns = es])
  BY <1>1, <1>2, <1>3, Zenon DEF ChangePart!OnAddColumn
<1>5. Drawn(change_draft.old, cs)
  BY <1>1 DEF Orderly
<1>6. Drawn(change_draft.old, es) /\ Olds(es) = Olds(cs)
  BY <1>3, <1>5, ColumnAppended
<1>7. QED
  BY <1>1, <1>4, <1>6, ColumnsEdited

(* A column that is shown gets other features, if it is new, or another name. *)
LEMMA ColumnOnIndex ==
  ASSUME Orderly, NEW k \in DOMAIN change_draft.columns, NEW c \in ColumnT,
         change_draft.columns[k].old # ChangePart!None => c.has = change_draft.columns[k].new[1].has,
         ChangePart!ChangeColumnOnIndex(k, c)
  PROVE  change_stale' = TRUE \/ Orderly'
<1>1. change_draft.columns[k].new # ChangePart!None /\
          ChangePart!Edit([change_draft EXCEPT !.columns = ChangePart!Changed(k, <<c>>)])
  BY DEF ChangePart!ChangeColumnOnIndex
<1>2. Drawn(change_draft.old, change_draft.columns)
  BY DEF Orderly
<1>3. change_draft.columns[k].old # ChangePart!None =>
          change_draft.columns[k].old[1].has = change_draft.columns[k].new[1].has
  BY <1>1, <1>2, DrawnColumns
<1>4. PICK n \in Places : n = <<c>> /\ n # ChangePart!None /\ n[1] = c
  BY PlaceMade
<1>5. ChangePart!Edit([change_draft EXCEPT !.columns = ChangePart!Changed(k, n)])
  BY <1>1, <1>4
<1>6. change_draft.columns[k].old # ChangePart!None /\ n # ChangePart!None =>
          change_draft.columns[k].old[1].has = n[1].has
  BY <1>3, <1>4
<1>7. QED
  BY <1>4, <1>5, <1>6, IndexChanged

LEMMA RenameKeeps ==
  ASSUME Orderly, NEW k \in DOMAIN change_draft.columns, NEW n \in NewNames, ChangePart!Rename(k, n)
  PROVE  change_stale' = TRUE \/ Orderly'
<1>1. change_draft.columns[k].new # ChangePart!None
  BY DEF ChangePart!Rename, ChangePart!ChangeColumnOnIndex
<1>2. PICK o \in ColumnT : o = change_draft.columns[k].new[1]
  BY <1>1, DrawnColumns DEF Orderly
<1>3. n \in ColumnNames /\ {} \in SUBSET ChangePart!Features
  BY DEF ColumnNames
<1>4. PICK c \in ColumnT : c = [o EXCEPT !.name = n] /\ c.has = o.has
  <2>1. [o EXCEPT !.name = n] \in ColumnT /\ [o EXCEPT !.name = n].has = o.has
    BY <1>3, ColumnExcept
  <2>2. QED
    BY <2>1
<1>5. ChangePart!ChangeColumnOnIndex(k, c)
  BY <1>2, <1>4 DEF ChangePart!Rename
<1>6. QED
  BY <1>2, <1>4, <1>5, ColumnOnIndex

LEMMA FeatureKeeps ==
  ASSUME Orderly, NEW k \in DOMAIN change_draft.columns, NEW f \in ChangePart!Features, ChangePart!Put(k,
      f) \/ ChangePart!Take(k, f)
  PROVE  change_stale' = TRUE \/ Orderly'
<1>1. change_draft.columns[k].new # ChangePart!None /\ change_draft.columns[k].old = ChangePart!None
  BY DEF ChangePart!Put, ChangePart!Take
<1>2. PICK o \in ColumnT : o = change_draft.columns[k].new[1]
  BY <1>1, DrawnColumns DEF Orderly
<1>3. o.name \in ColumnNames /\ o.has \in SUBSET ChangePart!Features
  BY ColumnTyped
<1>4. ChangePart!With(o.has, f) \in SUBSET ChangePart!Features /\ (o.has \ {f}) \in SUBSET ChangePart!Features
  <2>1. PICK h \in SUBSET ChangePart!Features : h = o.has
    BY <1>3
  <2>2. ChangePart!With(h, f) \in SUBSET ChangePart!Features
    BY DEF ChangePart!With
  <2>3. QED
    BY <2>1, <2>2
<1>5. PICK c \in ColumnT : ChangePart!ChangeColumnOnIndex(k, c)
  <2>1. CASE ChangePart!Put(k, f)
    <3>1. ChangePart!ChangeColumnOnIndex(k, [o EXCEPT !.has = ChangePart!With(o.has, f)])
      BY <1>2, <2>1 DEF ChangePart!Put
    <3>2. [o EXCEPT !.has = ChangePart!With(o.has, f)] \in ColumnT
      BY <1>3, <1>4, ColumnExcept
    <3>3. QED
      BY <3>1, <3>2
  <2>2. CASE ChangePart!Take(k, f)
    <3>1. ChangePart!ChangeColumnOnIndex(k, [o EXCEPT !.has = o.has \ {f}])
      BY <1>2, <2>2 DEF ChangePart!Take
    <3>2. [o EXCEPT !.has = o.has \ {f}] \in ColumnT
      BY <1>3, <1>4, ColumnExcept
    <3>3. QED
      BY <3>1, <3>2
  <2>3. QED
    BY <2>1, <2>2
<1>6. QED
  BY <1>1, <1>5, ColumnOnIndex
-----------------------------------------------------------------------------
(* Columns with the old places of others. *)
SameOlds(p, es, cs) ==
  /\ p \in [DOMAIN es -> DOMAIN cs]
  /\ \A i \in DOMAIN es : /\ es[i].old = cs[p[i]].old
                          /\ es[i].old # ChangePart!None \/ es[i].new # ChangePart!None
                          /\ es[i].old # ChangePart!None /\ es[i].new # ChangePart!None =>
                               es[i].old[1].has = es[i].new[1].has
  /\ \A i, j \in DOMAIN es : p[i] = p[j] => i = j
  /\ \A k \in DOMAIN cs : cs[k].old # ChangePart!None => \E i \in DOMAIN es : es[i].old = cs[k].old

(* Columns of a draft of which the old places stay. *)
LEMMA OldsStay ==
  ASSUME NEW old, NEW cs, Drawn(old, cs), NEW es \in Seq(PairT), NEW p, SameOlds(p, es, cs)
  PROVE  Drawn(old, es) /\ Olds(es) = Olds(cs)
<1> USE DEF SameOlds
<1>1. \A i \in DOMAIN es : p[i] \in DOMAIN cs
  OBVIOUS
<1>2. \A k \in DOMAIN cs : old = ChangePart!Unnamed => cs[k].old = ChangePart!None
  BY DEF Drawn
<1>3. \A j, k \in DOMAIN cs :
        cs[j].old # ChangePart!None /\ cs[k].old # ChangePart!None /\
        cs[j].old[1].name = cs[k].old[1].name => j = k
  BY DEF Drawn
<1>4. \A j, k \in DOMAIN es :
        es[j].old # ChangePart!None /\ es[k].old # ChangePart!None /\
        es[j].old[1].name = es[k].old[1].name => j = k
  <2>1. ASSUME NEW j \in DOMAIN es, NEW k \in DOMAIN es, es[j].old # ChangePart!None,
            es[k].old # ChangePart!None,
               es[j].old[1].name = es[k].old[1].name
        PROVE  j = k
    <3>1. p[j] = p[k]
      BY <1>1, <1>3, <2>1
    <3>2. QED
      BY <3>1
  <2>2. QED
    BY <2>1
<1>5. Drawn(old, es)
  BY <1>1, <1>2, <1>4 DEF Drawn
<1>6. \A x \in Olds(es) : x \in Olds(cs)
  BY <1>1 DEF Olds
<1>7. \A x \in Olds(cs) : x \in Olds(es)
  <2>1. ASSUME NEW k \in DOMAIN cs, cs[k].old # ChangePart!None PROVE cs[k].old[1] \in Olds(es)
    <3>1. PICK i \in DOMAIN es : es[i].old = cs[k].old
      BY <2>1
    <3>2. QED
      BY <2>1, <3>1 DEF Olds
  <2>2. QED
    BY <2>1 DEF Olds
<1>8. QED
  BY <1>5, <1>6, <1>7

(* A new column is taken out of a draft. *)
LEMMA ColumnTaken ==
  ASSUME NEW old, NEW cs, Drawn(old, cs), NEW k \in DOMAIN cs, cs[k].old = ChangePart!None
  PROVE  Drawn(old, ChangePart!RemoveAt(cs, k)) /\ Olds(ChangePart!RemoveAt(cs, k)) = Olds(cs)
<1>1. cs \in Seq(PairT) /\ DOMAIN cs = 1..Len(cs) /\ Len(cs) \in Nat
  BY DEF Drawn
<1>2. PICK es : es = ChangePart!RemoveAt(cs, k)
  OBVIOUS
<1>3. es \in Seq(PairT) /\ Len(es) = Len(cs) - 1 /\
          \A j \in 1..(Len(cs) - 1) : es[j] = IF j < k THEN cs[j] ELSE cs[j + 1]
  BY <1>1, <1>2, ColumnRemoval
<1>4. DOMAIN es = 1..(Len(cs) - 1)
  BY <1>3
<1> DEFINE p == [j \in DOMAIN es |-> IF j < k THEN j ELSE j + 1]
<1>5. p \in [DOMAIN es -> DOMAIN cs]
  BY <1>1, <1>4
<1>6. \A i \in DOMAIN es : es[i] = cs[p[i]]
  BY <1>3, <1>4
<1>7. \A i, j \in DOMAIN es : p[i] = p[j] => i = j
  BY <1>1, <1>4
<1>8. \A i \in DOMAIN cs : cs[i].old # ChangePart!None => \E j \in DOMAIN es : es[j] = cs[i]
  <2>1. ASSUME NEW i \in DOMAIN cs, i # k PROVE \E j \in DOMAIN es : es[j] = cs[i]
    <3>1. CASE i < k
      <4>1. i \in DOMAIN es /\ es[i] = cs[i]
        BY <1>1, <1>3, <1>4, <3>1
      <4>2. QED
        BY <4>1
    <3>2. CASE i > k
      <4>1. PICK j \in DOMAIN es : j = i - 1
        BY <1>1, <1>4, <3>2
      <4>2. j \in 1..(Len(cs) - 1) /\ ~(j < k) /\ j + 1 = i
        BY <1>1, <1>4, <3>2, <4>1
      <4>3. es[j] = cs[i]
        BY <1>3, <4>2
      <4>4. QED
        BY <4>3
    <3>3. QED
      BY <1>1, <2>1, <3>1, <3>2
  <2>2. QED
    BY <2>1
<1> HIDE DEF p
<1>9. Injects(p, es, cs) /\ AllOlds(es, cs)
  BY <1>5, <1>6, <1>7, <1>8 DEF Injects, AllOlds
<1>10. Drawn(old, es) /\ Olds(es) = Olds(cs)
  BY <1>3, <1>9, Rearranged
<1>11. QED
  BY <1>2, <1>10

LEMMA RemoveColumnKeeps ==
  ASSUME Orderly, NEW k \in DOMAIN change_draft.columns, ChangePart!RemoveColumn(k)
  PROVE  change_stale' = TRUE \/ Orderly'
<1>1. PICK cs : cs = change_draft.columns
  OBVIOUS
<1>2. Drawn(change_draft.old, cs)
  BY <1>1 DEF Orderly
<1>3. CASE cs[k].old = ChangePart!None
  <2>1. PICK es : es = ChangePart!RemoveAt(cs, k)
    OBVIOUS
  <2>2. ChangePart!Edit([change_draft EXCEPT !.columns = es])
    BY <1>1, <1>3, <2>1 DEF ChangePart!RemoveColumn
  <2>3. Drawn(change_draft.old, es) /\ Olds(es) = Olds(cs)
    BY <1>1, <1>2, <1>3, <2>1, ColumnTaken
  <2>4. QED
    BY <1>1, <2>2, <2>3, ColumnsEdited
<1>4. CASE cs[k].old # ChangePart!None
  <2>1. ChangePart!Edit([change_draft EXCEPT !.columns = ChangePart!Changed(k, ChangePart!None)])
    BY <1>1, <1>4 DEF ChangePart!RemoveColumn
  <2>2. PICK n \in Places : n = ChangePart!None
    BY NonePlace
  <2>3. QED
    BY <1>1, <1>4, <2>1, <2>2, IndexChanged
<1>5. QED
  BY <1>3, <1>4

(* The places after one element was moved. *)
LEMMA DraggedPlaces ==
  ASSUME NEW V, NEW s \in Seq(V), NEW i \in 1..Len(s), NEW j \in 1..Len(s)
  PROVE  LET t == ChangePart!InsertAt(ChangePart!RemoveAt(s, i), j, s[i]) IN
         \E p : Injects(p, t, s)
<1>1. PICK r : r = ChangePart!RemoveAt(s, i)
  OBVIOUS
<1>2. r \in Seq(V) /\ Len(r) = Len(s) - 1 /\
          \A n \in 1..(Len(s) - 1) : r[n] = IF n < i THEN s[n] ELSE s[n + 1]
  BY <1>1, ColumnRemoval
<1>3. PICK e \in V : e = s[i]
  OBVIOUS
<1>4. PICK t : t = ChangePart!InsertAt(r, j, e)
  OBVIOUS
<1>5. /\ t \in Seq(V) /\ Len(t) = Len(r) + 1 /\ t[j] = e
      /\ \A n \in 1..Len(r) : t[IF n < j THEN n ELSE n + 1] = r[n]
  <2>1. j \in 1..(Len(r) + 1)
    BY <1>2
  <2>2. /\ ChangePart!InsertAt(r, j, e) \in Seq(V) /\ Len(ChangePart!InsertAt(r, j, e)) = Len(r) + 1 /\
             ChangePart!InsertAt(r, j, e)[j] = e
        /\ \A n \in 1..Len(r) : ChangePart!InsertAt(r, j, e)[IF n < j THEN n ELSE n + 1] = r[n]
    BY <1>2, <2>1, ColumnInsertion
  <2>3. QED
    BY <1>4, <2>2
<1>6. PICK N \in Nat : N = Len(s) /\ Len(r) = N - 1
  BY <1>2
<1>7. DOMAIN t = 1..N /\ DOMAIN s = 1..N
  BY <1>5, <1>6
<1>8. \A n \in 1..(N - 1) : t[IF n < j THEN n ELSE n + 1] = IF n < i THEN s[n] ELSE s[n + 1]
  BY <1>2, <1>5, <1>6
<1> DEFINE q(m) == IF m < j THEN m ELSE m - 1
           p == [m \in 1..N |-> IF m = j THEN i ELSE IF q(m) < i THEN q(m) ELSE q(m) + 1]
<1>9. ASSUME NEW m \in 1..N, m # j PROVE q(m) \in 1..(N - 1) /\ (IF q(m) < j THEN q(m) ELSE q(m) + 1) = m
  BY <1>6, <1>9
<1>10. ASSUME NEW m \in 1..N, m # j PROVE t[m] = s[p[m]] /\ p[m] = IF q(m) < i THEN q(m) ELSE q(m) + 1
  <2>1. p[m] = IF q(m) < i THEN q(m) ELSE q(m) + 1
    BY <1>10
  <2>2. q(m) \in 1..(N - 1) /\ (IF q(m) < j THEN q(m) ELSE q(m) + 1) = m
    BY <1>9, <1>10
  <2> HIDE DEF p, q
  <2>3. t[m] = IF q(m) < i THEN s[q(m)] ELSE s[q(m) + 1]
    BY <1>8, <2>2
  <2>4. QED
    BY <2>1, <2>3
<1>11. p[j] = i /\ DOMAIN p = 1..N
  BY <1>6
<1>12. p \in [1..N -> 1..N]
  BY <1>6
<1>13. \A m, n \in 1..N : p[m] = p[n] => m = n
  BY <1>6
<1> HIDE DEF p, q
<1>14. \A m \in 1..N : t[m] = s[p[m]]
  BY <1>3, <1>5, <1>10, <1>11
<1>15. Injects(p, t, s)
  BY <1>7, <1>12, <1>13, <1>14 DEF Injects
<1>16. t = ChangePart!InsertAt(ChangePart!RemoveAt(s, i), j, s[i])
  BY <1>1, <1>3, <1>4
<1>17. QED
  BY <1>15, <1>16

LEMMA HandleDragEndKeeps ==
  ASSUME Orderly, NEW k \in DOMAIN change_draft.columns, NEW j \in DOMAIN change_draft.columns,
      ChangePart!HandleDragEnd(k, j)
  PROVE  change_stale' = TRUE \/ Orderly'
<1>1. PICK cs : cs = change_draft.columns
  OBVIOUS
<1>2. Drawn(change_draft.old, cs)
  BY <1>1 DEF Orderly
<1>3. cs \in Seq(PairT) /\ DOMAIN cs = 1..Len(cs) /\ Len(cs) \in Nat
  BY <1>2 DEF Drawn
<1>4. k \in 1..Len(cs) /\ j \in 1..Len(cs)
  BY <1>1, <1>3
<1>5. PICK es : es = ChangePart!InsertAt(ChangePart!RemoveAt(cs, k), j, cs[k])
  OBVIOUS
<1>6. /\ es \in Seq(PairT)
      /\ \A i \in 1..Len(cs) : \E m \in DOMAIN es : es[m] = cs[i]
  BY <1>3, <1>4, <1>5, ColumnDragged
<1>7. PICK p : Injects(p, es, cs)
  <2>1. \E p : Injects(p, ChangePart!InsertAt(ChangePart!RemoveAt(cs, k), j, cs[k]), cs)
    BY <1>3, <1>4, DraggedPlaces
  <2>2. QED
    BY <1>5, <2>1
<1>8. Drawn(change_draft.old, es) /\ Olds(es) = Olds(cs)
  <2>1. AllOlds(es, cs)
    BY <1>3, <1>6 DEF AllOlds
  <2>2. QED
    BY <1>2, <1>6, <1>7, <2>1, Rearranged
<1>9. ChangePart!Edit([change_draft EXCEPT !.columns = es])
  BY <1>1, <1>5 DEF ChangePart!HandleDragEnd
<1>10. QED
  BY <1>1, <1>8, <1>9, ColumnsEdited

(* A sequence is a function. *)
LEMMA FunctionIsSeq == ASSUME NEW S, NEW n \in Nat, NEW f \in [1..n -> S] PROVE f \in Seq(S)
  OBVIOUS

(* The old columns of a draft, as they were. *)
LEMMA ColumnsBack ==
  ASSUME NEW old, NEW cs, Drawn(old, cs)
  PROVE  LET kept == ChangePart!Without(cs, {c \in ChangePart!Range(cs) : c.old = ChangePart!None})
             es == [k \in DOMAIN kept |-> [old |-> kept[k].old, new |-> kept[k].old]]
         IN Drawn(old, es) /\ Olds(es) = Olds(cs)
<1>1. cs \in Seq(PairT) /\ DOMAIN cs = 1..Len(cs) /\ Len(cs) \in Nat
  BY DEF Drawn
<1>2. PICK S : S = {c \in ChangePart!Range(cs) : c.old = ChangePart!None}
  OBVIOUS
<1>3. PICK kept : kept = ChangePart!Without(cs, S)
  OBVIOUS
<1>4. PICK p : /\ kept \in Seq(PairT) /\ p \in [1..Len(kept) -> 1..Len(cs)]
               /\ \A i \in 1..Len(kept) : kept[i] = cs[p[i]] /\ cs[p[i]] \notin S
               /\ \A i, j \in 1..Len(kept) : p[i] = p[j] => i = j
               /\ \A k \in 1..Len(cs) : cs[k] \notin S => \E i \in 1..Len(kept) : p[i] = k
  <2>1. cs \in Seq(PairT)
    BY <1>1
  <2>2. \E p : /\ ChangePart!Without(cs, S) \in Seq(PairT) /\
                    p \in [1..Len(ChangePart!Without(cs, S)) -> 1..Len(cs)]
               /\ \A i \in 1..Len(ChangePart!Without(cs, S)) : ChangePart!Without(cs, S)[i] = cs[p[i]] /\
                    cs[p[i]] \notin S
               /\ \A i, j \in 1..Len(ChangePart!Without(cs, S)) : p[i] = p[j] => i = j
               /\ \A k \in 1..Len(cs) : cs[k] \notin S => \E i \in 1..Len(ChangePart!Without(cs,
                    S)) : p[i] = k
    BY <2>1, LeftPlaces
  <2>3. QED
    BY <1>3, <2>2
<1>5. \A k \in DOMAIN cs : cs[k] \in S <=> cs[k].old = ChangePart!None
  BY <1>2 DEF ChangePart!Range
<1>6. PICK n \in Nat : n = Len(kept) /\ DOMAIN kept = 1..n
  BY <1>4
<1>7. \A i \in 1..n : kept[i] = cs[p[i]] /\ p[i] \in DOMAIN cs /\ cs[p[i]].old # ChangePart!None
  BY <1>1, <1>4, <1>5, <1>6
<1>8. PICK es : es = [k \in DOMAIN kept |-> [old |-> kept[k].old, new |-> kept[k].old]]
  OBVIOUS
<1>9. \A i \in 1..n : es[i] \in PairT /\ es[i].old = cs[p[i]].old /\ es[i].new = es[i].old /\
          es[i].old # ChangePart!None
  <2>1. ASSUME NEW i \in 1..n
        PROVE  es[i] \in PairT /\ es[i].old = cs[p[i]].old /\ es[i].new = es[i].old /\
            es[i].old # ChangePart!None
    <3>1. PICK o : o = kept[i].old
      OBVIOUS
    <3>2. kept[i] = cs[p[i]] /\ p[i] \in DOMAIN cs /\ o # ChangePart!None
      BY <1>7, <3>1
    <3>3. o \in Places
      BY <1>1, <3>1, <3>2, PairTyped
    <3>4. es[i] = [old |-> o, new |-> o]
      BY <1>6, <1>8, <3>1
    <3>5. [old |-> o, new |-> o] \in PairT /\ [old |-> o, new |-> o].old = o /\ [old |-> o, new |-> o].new = o
      BY <3>3, PairMade
    <3>6. QED
      BY <3>1, <3>2, <3>4, <3>5
  <2>2. QED
    BY <2>1
<1>10. es = [i \in 1..n |-> es[i]] /\ DOMAIN es = 1..n
  BY <1>6, <1>8
<1>11. es \in Seq(PairT)
  <2>1. es \in [1..n -> PairT]
    BY <1>9, <1>10
  <2>2. QED
    BY <2>1, FunctionIsSeq
<1>12. p \in [DOMAIN es -> DOMAIN cs] /\ \A i, j \in DOMAIN es : p[i] = p[j] => i = j
  BY <1>1, <1>4, <1>6, <1>10
<1>13. \A k \in DOMAIN cs : cs[k].old # ChangePart!None => \E i \in DOMAIN es : es[i].old = cs[k].old
  <2>1. ASSUME NEW k \in DOMAIN cs,
            cs[k].old # ChangePart!None PROVE \E i \in DOMAIN es : es[i].old = cs[k].old
    <3>1. PICK i \in 1..n : p[i] = k
      BY <1>1, <1>4, <1>5, <1>6, <2>1
    <3>2. i \in DOMAIN es /\ es[i].old = cs[k].old
      BY <1>9, <1>10, <3>1
    <3>3. QED
      BY <3>2
  <2>2. QED
    BY <2>1
<1>14. SameOlds(p, es, cs)
  BY <1>9, <1>10, <1>12, <1>13 DEF SameOlds
<1>15. Drawn(old, es) /\ Olds(es) = Olds(cs)
  BY <1>11, <1>14, OldsStay
<1>16. QED
  BY <1>2, <1>3, <1>8, <1>15

LEMMA OnDiscardKeeps == ASSUME Orderly, ChangePart!OnDiscard PROVE change_stale' = TRUE \/ Orderly'
<1>1. PICK cs : cs = change_draft.columns
  OBVIOUS
<1>2. PICK kept : kept = ChangePart!Without(cs, {c \in ChangePart!Range(cs) : c.old = ChangePart!None})
  OBVIOUS
<1>3. PICK es : es = [k \in DOMAIN kept |-> [old |-> kept[k].old, new |-> kept[k].old]]
  OBVIOUS
<1>4. PICK x : x = [k \in DOMAIN change_draft.constraints |->
                     [old |-> change_draft.constraints[k].old, new |-> change_draft.constraints[k].old]]
  OBVIOUS
<1>5. /\ change_draft' = [old |-> change_draft.old, new |-> change_draft.old, columns |-> es, constraints |-> x]
      /\ change_isSaving = FALSE /\ UNCHANGED <<change_tables, change_isSaving, change_fetches, change_sent>>
      /\ change_stale' = (change_stale \/ change_sent # <<>> \/ change_fetches # <<>>)
  <2>1. change_isSaving \in BOOLEAN
    BY DEF Orderly
  <2>2. QED
    BY <1>1, <1>2, <1>3, <1>4, <2>1 DEF ChangePart!OnDiscard
<1>6. Drawn(change_draft.old, cs)
  BY <1>1 DEF Orderly
<1>7. Drawn(change_draft.old, es) /\ Olds(es) = Olds(cs)
  BY <1>2, <1>3, <1>6, ColumnsBack
<1>8. PICK e : e = [old |-> change_draft.old, new |-> change_draft.old, columns |-> es, constraints |-> x]
  OBVIOUS
<1>9. Whole(e) /\ e.old = change_draft.old /\ e.columns = es
  BY <1>8, DraftMade
<1>10. change_draft' = e
  BY <1>5, <1>8
<1>11. QED
  BY <1>1, <1>5, <1>7, <1>9, <1>10, DraftEditKeeps

LEMMA RenameTableKeeps == ASSUME Orderly, NEW t, ChangePart!RenameTable(t) PROVE change_stale' = TRUE \/
Orderly'
<1>1. Whole(change_draft)
  BY DEF Orderly, Lists
<1>2. PICK e : e = [change_draft EXCEPT !.new = t]
  OBVIOUS
<1>3. e = [old |-> change_draft.old, new |-> t, columns |-> change_draft.columns,
           constraints |-> change_draft.constraints]
  BY <1>1, <1>2, DraftExcept
<1>4. ChangePart!Edit(e)
  BY <1>2 DEF ChangePart!RenameTable
<1>5. QED
  BY <1>3, <1>4, OthersEdited

(* The constraints of a draft are edited. *)
LEMMA ConstraintsEdited ==
  ASSUME Orderly, NEW x, ChangePart!Edit([change_draft EXCEPT !.constraints = x])
  PROVE  change_stale' = TRUE \/ Orderly'
<1>1. Whole(change_draft)
  BY DEF Orderly, Lists
<1>2. PICK e : e = [change_draft EXCEPT !.constraints = x]
  OBVIOUS
<1>3. e = [old |-> change_draft.old, new |-> change_draft.new, columns |-> change_draft.columns, constraints |-> x]
  BY <1>1, <1>2, DraftExcept
<1>4. ChangePart!Edit(e)
  BY <1>2
<1>5. QED
  BY <1>3, <1>4, OthersEdited

LEMMA ConstraintsKeep ==
  ASSUME Orderly, NEW k, NEW names, NEW kind,
         ChangePart!NewConstraint(kind) \/ ChangePart!RemoveConstraint(k) \/
         ChangePart!OnConstraintChange(k, names)
  PROVE  change_stale' = TRUE \/ Orderly'
<1>1. PICK x : ChangePart!Edit([change_draft EXCEPT !.constraints = x])
  <2>1. CASE ChangePart!NewConstraint(kind)
    BY <2>1 DEF ChangePart!NewConstraint
  <2>2. CASE ChangePart!RemoveConstraint(k)
    BY <2>2 DEF ChangePart!RemoveConstraint
  <2>3. CASE ChangePart!OnConstraintChange(k, names)
    BY <2>3 DEF ChangePart!OnConstraintChange
  <2>4. QED
    BY <2>1, <2>2, <2>3
<1>2. QED
  BY <1>1, ConstraintsEdited
-----------------------------------------------------------------------------
(* What is sent for an existing table, from the column after the first m. *)
LEMMA RestOf ==
  ASSUME NEW d, Drawn(d.old, d.columns), d.old # ChangePart!Unnamed
  PROVE  LET N == Len(d.columns) IN
         /\ N \in Nat /\ ChangePart!GenerateSqlSchemaChange(d) = Rest(d, 0) /\ Rest(d, N) = After(d)
         /\ \A m \in 0..N : Rest(d, m) \in Seq(Statements(d))
         /\ \A m \in 0..(N - 1) : LET line == ChangePart!Line(d.columns[m + 1]) IN
              Rest(d, m) = IF line.do = "nothing" THEN Rest(d, m + 1) ELSE <<line>> \o Rest(d, m + 1)
<1>1. PICK cs, N : cs = d.columns /\ N = Len(cs)
  OBVIOUS
<1>2. N \in Nat /\ DOMAIN cs = 1..N
  BY <1>1, DrawnColumns
<1>3. PICK U : U = Statements(d)
  OBVIOUS
<1>4. PICK after : after = After(d)
  OBVIOUS
<1>5. after \in Seq(U)
  <2>1. U = {x \in Lines(d) : x.do # "nothing"} \cup {[do |-> "title", to |-> d.new]}
    BY <1>3 DEF Statements
  <2>2. PICK x : x = [do |-> "title", to |-> d.new]
    OBVIOUS
  <2>3. x \in U
    BY <2>1, <2>2
  <2>4. after = IF d.new = d.old THEN <<>> ELSE <<x>>
    BY <1>4, <2>2 DEF After
  <2>5. QED
    BY <2>3, <2>4
<1>6. Sendable(cs, N, U)
  <2>1. U = {x \in Lines(d) : x.do # "nothing"} \cup {[do |-> "title", to |-> d.new]}
    BY <1>3 DEF Statements
  <2>2. \A k \in 1..N : ChangePart!Line(cs[k]) \in Lines(d)
    BY <1>1, <1>2 DEF Lines
  <2>3. QED
    BY <2>1, <2>2 DEF Sendable
<1>7. PICK f : f = ChangePart!LinesOf(cs, after)
  OBVIOUS
<1>8. /\ f[0] = after
      /\ \A n \in 0..N : f[n] \in Seq(U)
      /\ \A m \in 0..(N - 1) : f[N - m] = IF ChangePart!Line(cs[m + 1]).do = "nothing" THEN f[N - (m + 1)]
                                          ELSE <<ChangePart!Line(cs[m + 1])>> \o f[N - (m + 1)]
  <2>1. Len(cs) = N
    BY <1>1
  <2>2. LinesRun(cs, N, U, after, f)
    BY <1>2, <1>5, <1>6, <1>7, <2>1, LinesOn
  <2>3. QED
    BY <2>2 DEF LinesRun
<1>9. \A m : Rest(d, m) = f[N - m]
  BY <1>1, <1>4, <1>7 DEF Rest
<1>10. ChangePart!GenerateSqlSchemaChange(d) = Rest(d, 0)
  <2>1. ChangePart!GenerateSqlSchemaChange(d) = ChangePart!LinesOf(d.columns, After(d))[Len(d.columns)]
    BY Zenon DEF ChangePart!GenerateSqlSchemaChange, After
  <2>2. ChangePart!GenerateSqlSchemaChange(d) = f[N]
    BY <1>1, <1>4, <1>7, <2>1
  <2>3. Rest(d, 0) = f[N - 0] /\ N - 0 = N
    BY <1>2, <1>9
  <2>4. QED
    BY <2>2, <2>3
<1>11. Rest(d, N) = after
  <2>1. N - N = 0
    BY <1>2
  <2>2. QED
    BY <1>8, <1>9, <2>1
<1>12. \A m \in 0..N : Rest(d, m) \in Seq(U)
  <2>1. \A m \in 0..N : N - m \in 0..N
    BY <1>2
  <2>2. QED
    BY <1>8, <1>9, <2>1
<1>13. \A m \in 0..(N - 1) : Rest(d, m) = IF ChangePart!Line(cs[m + 1]).do = "nothing" THEN Rest(d, m + 1)
                                          ELSE <<ChangePart!Line(cs[m + 1])>> \o Rest(d, m + 1)
  BY <1>8, <1>9
<1>14. QED
  BY <1>1, <1>2, <1>3, <1>4, <1>10, <1>11, <1>12, <1>13

(* What is sent for a new table. *)
LEMMA CreationOf ==
  ASSUME NEW d, d.old = ChangePart!Unnamed
  PROVE  /\ ChangePart!GenerateSqlSchemaChange(d) = <<Creation(d)>> /\ Statements(d) = {Creation(d)}
         /\ Creation(d).do = "create" /\ Creation(d).name = d.new /\ Creation(d).columns = Created(d)
<1>1. PICK columns : columns = Created(d)
  OBVIOUS
<1>2. PICK x : \E written : x = [k \in DOMAIN written |-> written[k].new[1]]
                 /\ written = ChangePart!Without(d.constraints,
                      {c \in ChangePart!Range(d.constraints) : c.new = ChangePart!None})
  OBVIOUS
<1>3. PICK c : c = [do |-> "create", name |-> d.new, columns |-> columns, constraints |-> x]
  OBVIOUS
<1>4. ChangePart!GenerateSqlSchemaChange(d) = <<c>>
  BY <1>1, <1>2, <1>3 DEF ChangePart!GenerateSqlSchemaChange, Created
<1>5. Creation(d) = c
  BY <1>4 DEF Creation
<1>6. c.do = "create" /\ c.name = d.new /\ c.columns = columns
  BY <1>3
<1>7. QED
  BY <1>1, <1>4, <1>5, <1>6 DEF Statements

(* What is sent for a draft. *)
LEMMA Generated ==
  ASSUME NEW d, Drawn(d.old, d.columns)
  PROVE  ChangePart!GenerateSqlSchemaChange(d) \in Seq(Statements(d))
<1>1. CASE d.old = ChangePart!Unnamed
  <2>1. PICK c : c = Creation(d)
    OBVIOUS
  <2>2. ChangePart!GenerateSqlSchemaChange(d) = <<c>> /\ Statements(d) = {c}
    BY <1>1, <2>1, CreationOf
  <2>3. QED
    BY <2>2
<1>2. CASE d.old # ChangePart!Unnamed
  <2>1. Len(d.columns) \in Nat /\ ChangePart!GenerateSqlSchemaChange(d) = Rest(d, 0)
        /\ \A m \in 0..Len(d.columns) : Rest(d, m) \in Seq(Statements(d))
    BY <1>2, RestOf
  <2>2. 0 \in 0..Len(d.columns)
    BY <2>1
  <2>3. QED
    BY <2>1, <2>2
<1>3. QED
  BY <1>1, <1>2

(* Nothing is sent for a draft that changes nothing. *)
LEMMA NothingSent ==
  ASSUME NEW d, Drawn(d.old, d.columns), d.old # ChangePart!Unnamed, Plain(d)
  PROVE  ChangePart!GenerateSqlSchemaChange(d) = <<>>
<1>1. PICK cs, N : cs = d.columns /\ N = Len(cs)
  OBVIOUS
<1>2. N \in Nat /\ DOMAIN cs = 1..N
  BY <1>1, DrawnColumns
<1>3. /\ ChangePart!GenerateSqlSchemaChange(d) = Rest(d, 0) /\ Rest(d, N) = After(d)
      /\ \A m \in 0..(N - 1) : Rest(d, m) = IF ChangePart!Line(cs[m + 1]).do = "nothing" THEN Rest(d, m + 1)
                                            ELSE <<ChangePart!Line(cs[m + 1])>> \o Rest(d, m + 1)
  BY <1>1, RestOf
<1>4. After(d) = <<>>
  BY DEF Plain, After
<1>5. \A k \in 1..N : ChangePart!Line(cs[k]).do = "nothing"
  <2>1. ASSUME NEW k \in 1..N PROVE ChangePart!Line(cs[k]).do = "nothing"
    <3>1. cs[k].old = cs[k].new
      BY <1>1, <1>2 DEF Plain
    <3>2. cs[k].old # ChangePart!None
      BY <1>1, <1>2, <3>1, DrawnColumns
    <3>3. ChangePart!Line(cs[k]) = [do |-> "nothing"]
      BY <3>1, <3>2 DEF ChangePart!Line
    <3>4. QED
      BY <3>3
  <2>2. QED
    BY <2>1
<1> DEFINE T == {n \in Nat : n <= N => Rest(d, N - n) = <<>>}
<1>6. 0 \in T
  <2>1. N - 0 = N
    BY <1>2
  <2>2. QED
    BY <1>3, <1>4, <2>1
<1>7. ASSUME NEW n \in T PROVE n + 1 \in T
  <2>1. SUFFICES ASSUME n + 1 <= N PROVE Rest(d, N - (n + 1)) = <<>>
    OBVIOUS
  <2>2. PICK m \in 0..(N - 1) : m = N - (n + 1) /\ m + 1 = N - n /\ m + 1 \in 1..N
    BY <1>2, <2>1
  <2>3. Rest(d, m) = Rest(d, m + 1)
    BY <1>3, <1>5, <2>2
  <2>4. n \in Nat /\ (n <= N => Rest(d, N - n) = <<>>)
    OBVIOUS
  <2>5. n <= N
    BY <1>2, <2>1, <2>4
  <2>6. QED
    BY <2>2, <2>3, <2>4, <2>5
<1>8. N \in T
  <2> HIDE DEF T
  <2>1. T \in SUBSET Nat
    BY DEF T
  <2>2. T = Nat
    BY <1>6, <1>7, <2>1, Induction
  <2>3. QED
    BY <1>2, <2>2
<1>9. N - N = 0 /\ N <= N
  BY <1>2
<1>10. Rest(d, 0) = <<>>
  <2>1. Rest(d, N - N) = <<>>
    BY <1>8, <1>9
  <2>2. QED
    BY <1>9, <2>1
<1>11. QED
  BY <1>3, <1>10
-----------------------------------------------------------------------------
(* Nothing that order is about changes. *)
LEMMA SameSynced == ASSUME UNCHANGED <<change_tables, change_draft>> PROVE Synced' = Synced
  BY DEF Synced, Stands, Olds

LEMMA SameProgress ==
  ASSUME NEW s, UNCHANGED change_tables, Progress(s)
  PROVE  Progress(s)'
  BY DEF Progress, Stands

(* With one save less, *)
LEMMA FewerSaves ==
  ASSUME Lists, NEW i \in DOMAIN change_sent
  PROVE  LET others == ChangePart!RemoveAt(change_sent, i) IN
         /\ IsList(others) /\ Len(others) = Len(change_sent) - 1 /\ DOMAIN others = 1..Len(others)
         /\ \A j \in DOMAIN others : \E k \in DOMAIN change_sent : others[j] = change_sent[k] /\ k # i
         /\ \A k \in DOMAIN change_sent : k # i => \E j \in DOMAIN others : others[j] = change_sent[k]
<1>1. PICK S : change_sent \in Seq(S)
  BY DEF Lists, IsList
<1>2. DOMAIN change_sent = 1..Len(change_sent) /\ Len(change_sent) \in Nat
  BY <1>1
<1>3. PICK r : r = ChangePart!RemoveAt(change_sent, i)
  OBVIOUS
<1>4. r \in Seq(S) /\ Len(r) = Len(change_sent) - 1 /\
          \A j \in 1..(Len(change_sent) - 1) : r[j] = IF j < i THEN change_sent[j] ELSE change_sent[j + 1]
  BY <1>1, <1>2, <1>3, ColumnRemoval
<1>5. DOMAIN r = 1..Len(r)
  BY <1>4
<1>6. \A j \in DOMAIN r : \E k \in DOMAIN change_sent : r[j] = change_sent[k] /\ k # i
  <2>1. ASSUME NEW j \in DOMAIN r PROVE \E k \in DOMAIN change_sent : r[j] = change_sent[k] /\ k # i
    <3>1. j \in 1..(Len(change_sent) - 1) /\ j \in DOMAIN change_sent /\ j + 1 \in DOMAIN change_sent /\
              i \in Nat
      BY <1>2, <1>4, <1>5
    <3>2. r[j] = IF j < i THEN change_sent[j] ELSE change_sent[j + 1]
      BY <1>4, <3>1
    <3>3. CASE j < i
      BY <3>1, <3>2, <3>3
    <3>4. CASE ~(j < i)
      <4>1. j + 1 # i
        BY <3>1, <3>4
      <4>2. QED
        BY <3>1, <3>2, <3>4, <4>1
    <3>5. QED
      BY <3>3, <3>4
  <2>2. QED
    BY <2>1
<1>7. \A k \in DOMAIN change_sent : k # i => \E j \in DOMAIN r : r[j] = change_sent[k]
  <2>1. ASSUME NEW k \in DOMAIN change_sent, k # i PROVE \E j \in DOMAIN r : r[j] = change_sent[k]
    <3>1. CASE k < i
      <4>1. k \in DOMAIN r /\ r[k] = change_sent[k]
        BY <1>2, <1>4, <1>5, <3>1
      <4>2. QED
        BY <4>1
    <3>2. CASE k > i
      <4>1. PICK j \in DOMAIN r : j = k - 1
        BY <1>2, <1>4, <1>5, <3>2
      <4>2. j \in 1..(Len(change_sent) - 1) /\ ~(j < i) /\ j + 1 = k
        BY <1>2, <1>4, <1>5, <3>2, <4>1
      <4>3. r[j] = change_sent[k]
        BY <1>4, <4>2
      <4>4. QED
        BY <4>3
    <3>3. QED
      BY <1>2, <2>1, <3>1, <3>2
  <2>2. QED
    BY <2>1
<1>8. IsList(r)
  BY <1>4 DEF IsList
<1>9. QED
  BY <1>3, <1>4, <1>5, <1>6, <1>7, <1>8

(* A save that is apart is the only one. *)
LEMMA ApartIsOnly ==
  ASSUME Orderly, NEW i \in DOMAIN change_sent, change_sent[i].apart = TRUE, NEW j \in DOMAIN change_sent
  PROVE  i = j /\ change_fetches = <<>>
<1>1. Alone(change_sent[i])
  BY DEF Orderly
<1>2. Len(change_sent) = 1 /\ change_fetches = <<>>
  BY <1>1 DEF Alone
<1>3. PICK S : change_sent \in Seq(S)
  BY DEF Orderly, Lists, IsList
<1>4. DOMAIN change_sent = 1..1
  BY <1>2, <1>3
<1>5. QED
  BY <1>2, <1>4

LEMMA OnSaveToggleKeeps == ASSUME Orderly, ChangePart!OnSaveToggle PROVE Orderly'
<1>1. /\ change_draft.new # ChangePart!Unnamed /\ change_isSaving' = TRUE
      /\ UNCHANGED <<change_tables, change_draft, change_fetches, change_sent>>
  BY DEF ChangePart!OnSaveToggle
<1>2. Lists' /\ Tabled' /\ OneDraft' /\ Drawn(change_draft.old, change_draft.columns)'
  BY <1>1 DEF Orderly, Lists, Tabled, OneDraft
<1>3. SameDraft' /\ Named' /\ (Synced \/ Coming)'
  BY <1>1, SameSynced DEF Orderly, SameDraft, Busy, Named, Coming
<1>4. ASSUME NEW i \in DOMAIN change_sent PROVE (OfDraft(change_sent[i]) /\
          (change_sent[i].apart = TRUE => Alone(change_sent[i])))'
  <2>1. OfDraft(change_sent[i]) /\ (change_sent[i].apart = TRUE => Alone(change_sent[i]))
    BY DEF Orderly
  <2>2. PICK s : s = change_sent[i]
    OBVIOUS
  <2>3. s = change_sent'[i]
    BY <1>1, <2>2
  <2>4. Alone(s) => Alone(s)'
    BY <1>1, SameSynced, SameProgress DEF Alone
  <2>5. QED
    BY <2>1, <2>2, <2>3, <2>4
<1>5. QED
  BY <1>1, <1>2, <1>3, <1>4 DEF Orderly
LEMMA CancelSaveKeeps == ASSUME Orderly, ChangePart!Cancel PROVE Orderly'
<1>1. change_isSaving' = FALSE /\ UNCHANGED <<change_tables, change_draft, change_fetches, change_sent>>
  BY DEF ChangePart!Cancel
<1>2. Lists' /\ Tabled' /\ OneDraft' /\ Drawn(change_draft.old, change_draft.columns)'
  BY <1>1 DEF Orderly, Lists, Tabled, OneDraft
<1>3. SameDraft' /\ Named' /\ (Synced \/ Coming)'
  BY <1>1, SameSynced DEF Orderly, SameDraft, Busy, Named, Coming
<1>4. ASSUME NEW i \in DOMAIN change_sent PROVE (OfDraft(change_sent[i]) /\
          (change_sent[i].apart = TRUE => Alone(change_sent[i])))'
  <2>1. OfDraft(change_sent[i]) /\ (change_sent[i].apart = TRUE => Alone(change_sent[i]))
    BY DEF Orderly
  <2>2. PICK s : s = change_sent[i]
    OBVIOUS
  <2>3. s = change_sent'[i]
    BY <1>1, <2>2
  <2>4. Alone(s) => Alone(s)'
    BY <1>1, SameSynced, SameProgress DEF Alone
  <2>5. QED
    BY <2>1, <2>2, <2>3, <2>4
<1>5. QED
  BY <1>1, <1>2, <1>3, <1>4 DEF Orderly

(* A save made of its parts. *)
LEMMA SaveMade ==
  ASSUME NEW d, NEW l, NEW f, NEW a, NEW g, NEW s,
      s = [draft |-> d, left |-> l, failed |-> f, apart |-> a, gone |-> g]
  PROVE  WholeSave(s) /\ s.draft = d /\ s.left = l /\ s.failed = f /\ s.apart = a /\ s.gone = g
<1>1. s.draft = d /\ s.left = l /\ s.failed = f /\ s.apart = a /\ s.gone = g
  OBVIOUS
<1>2. QED
  BY <1>1 DEF WholeSave

(* A save of which one part is replaced. *)
LEMMA SaveExcept ==
  ASSUME NEW s, WholeSave(s), NEW x
  PROVE  /\ [s EXCEPT !.apart = x] =
              [draft |-> s.draft, left |-> s.left, failed |-> s.failed, apart |-> x, gone |-> s.gone]
         /\ [s EXCEPT !.gone = x] =
              [draft |-> s.draft, left |-> s.left, failed |-> s.failed, apart |-> s.apart, gone |-> x]
         /\ [s EXCEPT !.failed = x] =
              [draft |-> s.draft, left |-> s.left, failed |-> x, apart |-> s.apart, gone |-> s.gone]
         /\ [s EXCEPT !.left = x] =
              [draft |-> s.draft, left |-> x, failed |-> s.failed, apart |-> s.apart, gone |-> s.gone]
<1>1. PICK d, l, f, a, g : d = s.draft /\ l = s.left /\ f = s.failed /\ a = s.apart /\ g = s.gone
  OBVIOUS
<1>2. s = [draft |-> d, left |-> l, failed |-> f, apart |-> a, gone |-> g]
  BY <1>1 DEF WholeSave
<1>3. [s EXCEPT !.apart = x] = [draft |-> d, left |-> l, failed |-> f, apart |-> x, gone |-> g]
  BY <1>2
<1>4. [s EXCEPT !.gone = x] = [draft |-> d, left |-> l, failed |-> f, apart |-> a, gone |-> x]
  BY <1>2
<1>5. [s EXCEPT !.failed = x] = [draft |-> d, left |-> l, failed |-> x, apart |-> a, gone |-> g]
  BY <1>2
<1>6. [s EXCEPT !.left = x] = [draft |-> d, left |-> x, failed |-> f, apart |-> a, gone |-> g]
  BY <1>2
<1>7. QED
  BY <1>1, <1>3, <1>4, <1>5, <1>6

(* A save of which only apart is other. *)
LEMMA ApartAway ==
  ASSUME NEW s, OfDraft(s)
  PROVE  LET r == [s EXCEPT !.apart = FALSE] IN
         OfDraft(r) /\ r.apart = FALSE /\ r.draft = s.draft /\ r.failed = s.failed /\ r.gone = s.gone
<1>1. WholeSave(s)
  BY DEF OfDraft
<1>2. PICK r : r = [s EXCEPT !.apart = FALSE]
  OBVIOUS
<1>3. r = [draft |-> s.draft, left |-> s.left, failed |-> s.failed, apart |-> FALSE, gone |-> s.gone]
  BY <1>1, <1>2, SaveExcept
<1>4. WholeSave(r) /\ r.draft = s.draft /\ r.left = s.left /\ r.failed = s.failed /\ r.apart = FALSE /\
          r.gone = s.gone
  BY <1>3, SaveMade
<1>5. OfDraft(r)
  BY <1>4 DEF OfDraft
<1>6. QED
  BY <1>2, <1>4, <1>5

(* Nothing of the columns is done at first. *)
LEMMA HalfwayAtFirst ==
  ASSUME NEW old, NEW cs, Drawn(old, cs)
  PROVE  Halfway(cs, 0) = Olds(cs) /\ KeptApart(cs, 0)
<1>1. DOMAIN cs = 1..Len(cs) /\ Len(cs) \in Nat
  BY DrawnColumns
<1>2. News(cs, 0) = {}
  BY <1>1 DEF News
<1>3. Waiting(cs, 0) = {j \in DOMAIN cs : cs[j].old # ChangePart!None}
  BY <1>1 DEF Waiting
<1>4. QED
  BY <1>2, <1>3 DEF Halfway, KeptApart, Olds

LEMMA OnSaveKeeps == ASSUME Orderly, ChangePart!OnSave PROVE Orderly'
<1>1. PICK was : was = [k \in DOMAIN change_sent |-> [change_sent[k] EXCEPT !.apart = FALSE]]
  OBVIOUS
<1>2. PICK apart \in BOOLEAN : apart = (change_sent = <<>> /\ change_fetches = <<>>)
  OBVIOUS
<1>3. PICK left : left = ChangePart!GenerateSqlSchemaChange(change_draft)
  OBVIOUS
<1>4. PICK n : n = [draft |-> change_draft, left |-> left, failed |-> FALSE, apart |-> apart, gone |-> FALSE]
  OBVIOUS
<1>5. change_sent' = Append(was, n) /\ change_isSaving = TRUE /\ UNCHANGED <<change_tables, change_draft,
          change_fetches, change_isSaving>>
  <2>1. change_isSaving \in BOOLEAN
    BY DEF Orderly
  <2>2. QED
    BY <1>1, <1>2, <1>3, <1>4, <2>1 DEF ChangePart!OnSave
<1>6. PICK S : change_sent \in Seq(S)
  BY DEF Orderly, Lists, IsList
<1>7. PICK L \in Nat : L = Len(change_sent) /\ DOMAIN change_sent = 1..L
  BY <1>6
<1>8. PICK W : was \in Seq(W) /\ n \in W
  <2> DEFINE W == {was[k] : k \in 1..L} \cup {n}
  <2>1. was = [k \in 1..L |-> was[k]]
    BY <1>1, <1>7
  <2>2. was \in [1..L -> W]
    BY <2>1
  <2> HIDE DEF W
  <2>3. was \in Seq(W)
    BY <2>2, FunctionIsSeq
  <2>4. n \in W
    BY DEF W
  <2>5. QED
    BY <2>3, <2>4
<1>9. Len(was) = L /\ \A k \in 1..L : was[k] = [change_sent[k] EXCEPT !.apart = FALSE]
  BY <1>1, <1>7, <1>8
<1>10. PICK r : r = Append(was, n)
  OBVIOUS
<1>11. r \in Seq(W) /\ Len(r) = L + 1 /\ r[L + 1] = n /\ \A k \in 1..L : r[k] = was[k]
  BY <1>8, <1>9, <1>10
<1>12. change_sent' = r /\ DOMAIN r = 1..(L + 1)
  BY <1>5, <1>10, <1>11
<1>13. \A k \in 1..L : /\ OfDraft(r[k]) /\ r[k].apart = FALSE /\ r[k].draft = change_sent[k].draft
                       /\ r[k].failed = change_sent[k].failed /\ r[k].gone = change_sent[k].gone
  <2>1. ASSUME NEW k \in 1..L
        PROVE  /\ OfDraft(r[k]) /\ r[k].apart = FALSE /\ r[k].draft = change_sent[k].draft
               /\ r[k].failed = change_sent[k].failed /\ r[k].gone = change_sent[k].gone
    <3>1. PICK s : s = change_sent[k] /\ OfDraft(s)
      BY <1>7 DEF Orderly
    <3>2. r[k] = [s EXCEPT !.apart = FALSE]
      BY <1>9, <1>11, <3>1
    <3>3. QED
      BY <3>1, <3>2, ApartAway
  <2>2. QED
    BY <2>1
<1>14. WholeSave(n) /\ n.draft = change_draft /\ n.left = left /\ n.failed = FALSE /\ n.apart = apart /\
           n.gone = FALSE
  BY <1>4, SaveMade
<1>15. Drawn(change_draft.old, change_draft.columns) /\ (change_draft.new # ChangePart!Unnamed \/
           Plain(change_draft))
  BY <1>5 DEF Orderly, Named
<1>16. left \in Seq(Statements(change_draft))
  BY <1>3, <1>15, Generated
<1>17. OfDraft(n)
  <2>1. Plain(change_draft) /\ change_draft.old # ChangePart!Unnamed => left = <<>>
    BY <1>3, <1>15, NothingSent
  <2>2. QED
    BY <1>3, <1>14, <1>15, <1>16, <2>1 DEF OfDraft
<1>18. Len(left) \in Nat
  BY <1>16
<1>19. ASSUME n.apart = TRUE PROVE Alone(n)'
  <2>1. change_sent = <<>> /\ change_fetches = <<>> /\ L = 0
    <3>1. apart = TRUE
      BY <1>14, <1>19
    <3>2. change_sent = <<>> /\ change_fetches = <<>>
      BY <1>2, <3>1
    <3>3. QED
      BY <1>7, <3>2
  <2>2. Len(change_sent') = 1 /\ change_fetches' = <<>> /\ n.draft = change_draft'
    BY <1>5, <1>11, <1>12, <1>14, <2>1
  <2>3. Synced
    BY <2>1 DEF Orderly, Coming
  <2>4. Synced'
    BY <1>5, <2>3, SameSynced
  <2>5. Len(n.left) <= Len(ChangePart!GenerateSqlSchemaChange(n.draft))
    BY <1>3, <1>14, <1>18
  <2>6. Progress(n)
    <3>1. CASE change_draft.old = ChangePart!Unnamed
      BY <1>3, <1>14, <3>1 DEF Progress
    <3>2. CASE change_draft.old # ChangePart!Unnamed
      <4>1. left = Rest(change_draft, 0) /\ Len(change_draft.columns) \in Nat
        BY <1>3, <1>15, <3>2, RestOf
      <4>2. Halfway(change_draft.columns, 0) = Olds(change_draft.columns) /\
                KeptApart(change_draft.columns, 0)
        BY <1>15, HalfwayAtFirst
      <4>3. Stands(change_draft.old, Halfway(change_draft.columns, 0))
        BY <2>3, <3>2, <4>2 DEF Synced
      <4>4. 0 \in 0..Len(change_draft.columns)
        BY <4>1
      <4>5. QED
        BY <1>14, <3>2, <4>1, <4>2, <4>3, <4>4 DEF Progress
    <3>3. QED
      BY <3>1, <3>2
  <2>7. Progress(n)'
    BY <1>5, <2>6, SameProgress
  <2>8. QED
    BY <2>2, <2>4, <2>5, <2>7 DEF Alone
<1>20. ASSUME NEW k \in 1..(L + 1) PROVE OfDraft(r[k]) /\ (r[k].apart = TRUE => Alone(r[k])')
  <2>1. CASE k \in 1..L
    <3>1. OfDraft(r[k]) /\ r[k].apart = FALSE
      BY <1>13, <2>1
    <3>2. QED
      BY <3>1
  <2>2. CASE k = L + 1
    <3>1. r[k] = n
      BY <1>11, <2>2
    <3>2. QED
      BY <1>17, <1>19, <3>1
  <2>3. k \in 1..L \/ k = L + 1
    OBVIOUS
  <2>4. QED
    BY <2>1, <2>2, <2>3
<1>21. \A k \in 1..(L + 1) : r[k].draft = change_draft \/
           \E j \in DOMAIN change_sent : r[k].draft = change_sent[j].draft
  BY <1>7, <1>11, <1>13, <1>14
<1>22. \A j \in DOMAIN change_sent : Plain(change_draft) \/ Plain(change_sent[j].draft) \/
           change_sent[j].draft = change_draft
  <2>1. ASSUME NEW j \in DOMAIN change_sent PROVE Plain(change_draft) \/ Plain(change_sent[j].draft) \/
            change_sent[j].draft = change_draft
    <3>1. Busy
      BY <1>6 DEF Busy
    <3>2. QED
      BY <3>1 DEF Orderly, SameDraft
  <2>2. QED
    BY <2>1
<1>23. OneDraft'
  <2>1. \A i, j \in DOMAIN change_sent : Plain(change_sent[i].draft) \/ Plain(change_sent[j].draft) \/
            change_sent[i].draft = change_sent[j].draft
    BY DEF Orderly, OneDraft
  <2>2. \A i, j \in 1..(L + 1) : Plain(r[i].draft) \/ Plain(r[j].draft) \/ r[i].draft = r[j].draft
    BY <1>21, <1>22, <2>1
  <2>3. QED
    BY <1>12, <2>2 DEF OneDraft
<1>24. SameDraft'
  <2>1. \A j \in 1..(L + 1) : Plain(change_draft) \/ Plain(r[j].draft) \/ r[j].draft = change_draft
    BY <1>21, <1>22
  <2>2. QED
    BY <1>5, <1>12, <2>1 DEF SameDraft
<1>25. Named'
  BY <1>5, <1>15 DEF Named
<1>26. (Synced \/ Coming)'
  <2>1. CASE Synced
    BY <1>5, <2>1, SameSynced
  <2>2. CASE change_fetches # <<>>
    BY <1>5, <2>2 DEF Coming
  <2>3. CASE \E i \in DOMAIN change_sent : Refreshes(change_sent[i])
    <3>1. PICK i \in 1..L : Refreshes(change_sent[i])
      BY <1>7, <2>3
    <3>2. Refreshes(r[i]) /\ i \in 1..(L + 1)
      BY <1>13, <3>1 DEF Refreshes
    <3>3. QED
      BY <1>12, <3>2 DEF Coming
  <2>4. QED
    BY <2>1, <2>2, <2>3 DEF Orderly, Coming
<1>27. Lists'
  BY <1>5, <1>11, <1>12 DEF Orderly, Lists, IsList
<1>28. Tabled' /\ change_isSaving' \in BOOLEAN /\ Drawn(change_draft.old, change_draft.columns)'
  BY <1>5 DEF Orderly, Tabled
<1>29. (\A i \in DOMAIN change_sent : OfDraft(change_sent[i]) /\ (change_sent[i].apart = TRUE =>
           Alone(change_sent[i])))'
  <2>1. ASSUME NEW k \in 1..(L + 1) PROVE (OfDraft(change_sent[k]) /\ (change_sent[k].apart = TRUE =>
            Alone(change_sent[k])))'
    <3>1. PICK s : s = r[k] /\ s = change_sent'[k]
      BY <1>12
    <3>2. OfDraft(s) /\ (s.apart = TRUE => Alone(s)')
      BY <1>20, <3>1
    <3>3. QED
      BY <3>1, <3>2
  <2>2. QED
    BY <1>12, <2>1
<1>30. QED
  BY <1>23, <1>24, <1>25, <1>26, <1>27, <1>28, <1>29 DEF Orderly
(* A save that would not have read the table again is over. *)
LEMMA SaveDropped ==
  ASSUME Orderly, NEW i \in DOMAIN change_sent, ~Refreshes(change_sent[i]),
      change_sent' = ChangePart!RemoveAt(change_sent, i),
         UNCHANGED <<change_tables, change_draft, change_isSaving, change_fetches>>
  PROVE  Orderly'
<1>1. PICK r : r = ChangePart!RemoveAt(change_sent, i)
  OBVIOUS
<1>2. /\ IsList(r) /\ DOMAIN r = 1..Len(r)
      /\ \A j \in DOMAIN r : \E k \in DOMAIN change_sent : r[j] = change_sent[k] /\ k # i
      /\ \A k \in DOMAIN change_sent : k # i => \E j \in DOMAIN r : r[j] = change_sent[k]
  BY <1>1, FewerSaves DEF Orderly
<1>3. change_sent' = r
  BY <1>1
<1>4. Lists' /\ Tabled' /\ change_isSaving' \in BOOLEAN /\ Drawn(change_draft.old, change_draft.columns)'
  BY <1>2, <1>3 DEF Orderly, Lists, Tabled
<1>5. (\A j \in DOMAIN change_sent : OfDraft(change_sent[j]) /\ (change_sent[j].apart = TRUE =>
          Alone(change_sent[j])))'
  <2>1. ASSUME NEW j \in DOMAIN r PROVE (OfDraft(change_sent[j]) /\ (change_sent[j].apart = TRUE =>
            Alone(change_sent[j])))'
    <3>1. PICK k \in DOMAIN change_sent : r[j] = change_sent[k] /\ k # i
      BY <1>2
    <3>2. OfDraft(change_sent[k]) /\ change_sent[k].apart # TRUE
      BY <3>1, ApartIsOnly DEF Orderly
    <3>3. PICK s : s = change_sent[k] /\ s = change_sent'[j]
      BY <1>3, <3>1
    <3>4. OfDraft(s) /\ s.apart # TRUE
      BY <3>2, <3>3
    <3>5. QED
      BY <3>3, <3>4
  <2>2. QED
    BY <1>3, <2>1
<1>6. OneDraft'
  <2>1. \A j, k \in DOMAIN change_sent : Plain(change_sent[j].draft) \/ Plain(change_sent[k].draft) \/
            change_sent[j].draft = change_sent[k].draft
    BY DEF Orderly, OneDraft
  <2>2. \A j, k \in DOMAIN r : Plain(r[j].draft) \/ Plain(r[k].draft) \/ r[j].draft = r[k].draft
    BY <1>2, <2>1
  <2>3. QED
    BY <1>3, <2>2 DEF OneDraft
<1>7. Busy
  <2>1. PICK S : change_sent \in Seq(S)
    BY DEF Orderly, Lists, IsList
  <2>2. QED
    BY <2>1 DEF Busy
<1>8. SameDraft'
  <2>1. \A j \in DOMAIN change_sent : Plain(change_draft) \/ Plain(change_sent[j].draft) \/
            change_sent[j].draft = change_draft
    BY <1>7 DEF Orderly, SameDraft
  <2>2. \A j \in DOMAIN r : Plain(change_draft) \/ Plain(r[j].draft) \/ r[j].draft = change_draft
    BY <1>2, <2>1
  <2>3. QED
    BY <1>3, <2>2 DEF SameDraft
<1>9. Named'
  BY <1>7 DEF Orderly, Named
<1>10. (Synced \/ Coming)'
  <2>1. CASE Synced
    BY <2>1, SameSynced
  <2>2. CASE change_fetches # <<>>
    BY <2>2 DEF Coming
  <2>3. CASE \E k \in DOMAIN change_sent : Refreshes(change_sent[k])
    <3>1. PICK k \in DOMAIN change_sent : Refreshes(change_sent[k])
      BY <2>3
    <3>2. PICK s : s = change_sent[k] /\ Refreshes(s)
      BY <3>1
    <3>3. k # i
      BY <3>1
    <3>4. PICK j \in DOMAIN r : r[j] = s
      BY <1>2, <3>2, <3>3
    <3>5. \E j_ \in DOMAIN change_sent' : Refreshes(change_sent'[j_])
      BY <1>3, <3>2, <3>4
    <3>6. QED
      BY <3>5 DEF Coming, Refreshes
  <2>4. QED
    BY <2>1, <2>2, <2>3 DEF Orderly, Coming
<1>11. QED
  BY <1>4, <1>5, <1>6, <1>8, <1>9, <1>10 DEF Orderly

LEMMA FailKeeps == ASSUME Orderly, NEW i \in DOMAIN change_sent, ChangePart!Fail(i) PROVE Orderly'
<1>1. change_sent' = ChangePart!RemoveAt(change_sent, i) /\ UNCHANGED <<change_tables, change_draft,
          change_isSaving, change_fetches>>
  BY DEF ChangePart!Fail
<1>2. change_sent[i].failed = TRUE
  BY DEF ChangePart!Fail, Orderly, OfDraft
<1>3. ~Refreshes(change_sent[i])
  BY <1>2 DEF Refreshes
<1>4. QED
  BY <1>1, <1>3, SaveDropped

(* The draft of a table as it is read. *)
LEMMA DraftRead ==
  ASSUME Tabled, NEW t \in DOMAIN change_tables, NEW d, d = ChangePart!DraftOf(t)
  PROVE  Whole(d) /\ Plain(d) /\ d.old = t /\ Drawn(d.old, d.columns) /\
      Olds(d.columns) = ChangePart!Range(change_tables[t].columns)
<1>1. PICK columns : columns = change_tables[t].columns /\ Stored(columns) /\ t # ChangePart!Unnamed
  BY DEF Tabled
<1>2. columns \in Seq(ColumnT) /\ ChangePart!Unique(columns) /\ DOMAIN columns = 1..Len(columns) /\
          Len(columns) \in Nat
  BY <1>1 DEF Stored
<1>3. PICK cs : cs = [k \in DOMAIN columns |-> ChangePart!Same(columns[k])]
  OBVIOUS
<1>4. PICK x : x = [k \in DOMAIN change_tables[t].constraints |-> ChangePart!Same(change_tables[t].constraints[k])]
  OBVIOUS
<1>5. d = [old |-> t, new |-> t, columns |-> cs, constraints |-> x]
  BY <1>1, <1>3, <1>4 DEF ChangePart!DraftOf
<1>6. Whole(d) /\ d.old = t /\ d.new = t /\ d.columns = cs
  BY <1>5, DraftMade
<1>7. \A k \in DOMAIN columns : /\ cs[k] \in PairT /\ cs[k].old = <<columns[k]>> /\ cs[k].new = <<columns[k]>>
                                /\ cs[k].old # ChangePart!None /\ cs[k].old[1] = columns[k]
  <2>1. ASSUME NEW k \in DOMAIN columns
        PROVE  /\ cs[k] \in PairT /\ cs[k].old = <<columns[k]>> /\ cs[k].new = <<columns[k]>>
               /\ cs[k].old # ChangePart!None /\ cs[k].old[1] = columns[k]
    <3>1. PICK c \in ColumnT : c = columns[k]
      BY <1>2
    <3>2. PICK p \in Places : p = <<c>> /\ p # ChangePart!None /\ p[1] = c
      BY PlaceMade
    <3>3. cs[k] = [old |-> p, new |-> p]
      BY <1>3, <3>1, <3>2 DEF ChangePart!Same
    <3>4. [old |-> p, new |-> p] \in PairT /\ [old |-> p, new |-> p].old = p /\ [old |-> p, new |-> p].new = p
      BY PairMade
    <3>5. QED
      BY <3>1, <3>2, <3>3, <3>4
  <2>2. QED
    BY <2>1
<1>8. DOMAIN cs = DOMAIN columns
  BY <1>3
<1>9. cs \in Seq(PairT)
  <2>1. cs = [k \in 1..Len(columns) |-> cs[k]]
    BY <1>2, <1>3
  <2>2. cs \in [1..Len(columns) -> PairT]
    BY <1>2, <1>7, <2>1
  <2>3. QED
    BY <1>2, <2>2, FunctionIsSeq
<1>10. \A j, k \in DOMAIN columns : columns[j].name = columns[k].name => j = k
  BY <1>2 DEF ChangePart!Unique
<1>11. Drawn(t, cs)
  BY <1>1, <1>7, <1>8, <1>9, <1>10 DEF Drawn
<1>12. Plain(d)
  BY <1>6, <1>7, <1>8 DEF Plain
<1>13. Olds(cs) = ChangePart!Range(columns)
  <2>1. \A x_ \in Olds(cs) : x_ \in ChangePart!Range(columns)
    BY <1>7, <1>8 DEF Olds, ChangePart!Range
  <2>2. \A k \in DOMAIN columns : columns[k] \in Olds(cs)
    BY <1>7, <1>8 DEF Olds
  <2>3. QED
    BY <2>1, <2>2 DEF ChangePart!Range
<1>14. QED
  BY <1>1, <1>6, <1>11, <1>12, <1>13

LEMMA EmptyDraft == Whole(ChangePart!Empty) /\ Plain(ChangePart!Empty) /\
ChangePart!Empty.old = ChangePart!Unnamed /\ Drawn(ChangePart!Empty.old, ChangePart!Empty.columns)
<1>1. PICK e : e = ChangePart!Empty
  OBVIOUS
<1>2. PICK l : l = <<>>
  OBVIOUS
<1>3. e = [old |-> ChangePart!Unnamed, new |-> ChangePart!Unnamed, columns |-> l, constraints |-> l]
  BY <1>1, <1>2 DEF ChangePart!Empty
<1>4. Whole(e) /\ e.old = ChangePart!Unnamed /\ e.new = ChangePart!Unnamed /\ e.columns = l
  BY <1>3, DraftMade
<1>5. DOMAIN l = {} /\ l \in Seq(PairT)
  BY <1>2
<1>6. QED
  BY <1>1, <1>4, <1>5 DEF Plain, Drawn

LEMMA FetchAnswerKeeps ==
  ASSUME Orderly, NEW i \in DOMAIN change_fetches, ChangePart!FetchAnswer(i)
  PROVE  change_stale' = TRUE \/ Orderly'
<1>1. SUFFICES ASSUME change_draft' = IF change_fetches[i] \in DOMAIN change_tables
                                       THEN ChangePart!DraftOf(change_fetches[i]) ELSE ChangePart!Empty
               PROVE  Orderly'
  BY DEF ChangePart!FetchAnswer
<1>2. change_fetches' = ChangePart!RemoveAt(change_fetches, i) /\ UNCHANGED <<change_tables,
          change_isSaving, change_sent>>
  BY DEF ChangePart!FetchAnswer
<1>3. PICK e : e = change_draft'
  OBVIOUS
<1>4. /\ Whole(e) /\ Plain(e) /\ Drawn(e.old, e.columns)
      /\ e.old # ChangePart!Unnamed => e.old \in DOMAIN change_tables /\
           Olds(e.columns) = ChangePart!Range(change_tables[e.old].columns)
  <2>1. CASE change_fetches[i] \in DOMAIN change_tables
    <3>1. e = ChangePart!DraftOf(change_fetches[i])
      BY <1>1, <1>3, <2>1
    <3>2. QED
      BY <2>1, <3>1, DraftRead DEF Orderly
  <2>2. CASE change_fetches[i] \notin DOMAIN change_tables
    <3>1. e = ChangePart!Empty
      BY <1>1, <1>3, <2>2
    <3>2. QED
      BY <3>1, EmptyDraft
  <2>3. QED
    BY <2>1, <2>2
<1>5. PICK S : change_fetches \in Seq(S)
  BY DEF Orderly, Lists, IsList
<1>6. change_fetches # <<>> /\ i \in 1..Len(change_fetches)
  BY <1>5
<1>7. IsList(change_fetches')
  BY <1>2, <1>5, <1>6, ColumnRemoval DEF IsList
<1>8. Lists'
  BY <1>2, <1>3, <1>4, <1>7 DEF Orderly, Lists, IsList, Whole
<1>9. Tabled' /\ OneDraft' /\ change_isSaving' \in BOOLEAN
  BY <1>2 DEF Orderly, Tabled, OneDraft
<1>10. Plain(change_draft') /\ Drawn(change_draft.old, change_draft.columns)'
  BY <1>3, <1>4
<1>11. SameDraft' /\ Named'
  BY <1>10 DEF SameDraft, Named
<1>12. Synced'
  BY <1>2, <1>3, <1>4 DEF Synced, Stands
<1>13. (\A j \in DOMAIN change_sent : OfDraft(change_sent[j]) /\ (change_sent[j].apart = TRUE =>
           Alone(change_sent[j])))'
  <2>1. ASSUME NEW j \in DOMAIN change_sent PROVE (OfDraft(change_sent[j]) /\
            (change_sent[j].apart = TRUE => Alone(change_sent[j])))'
    <3>1. PICK s : s = change_sent[j]
      OBVIOUS
    <3>2. OfDraft(s) /\ s.apart # TRUE
      BY <1>6, <3>1, ApartIsOnly DEF Orderly
    <3>3. s = change_sent'[j]
      BY <1>2, <3>1
    <3>4. QED
      BY <3>2, <3>3
  <2>2. QED
    BY <1>2, <2>1
<1>14. QED
  BY <1>8, <1>9, <1>10, <1>11, <1>12, <1>13 DEF Orderly
-----------------------------------------------------------------------------
(* The editor that sent a save is gone. *)
LEMMA EditorGone ==
  ASSUME NEW s, OfDraft(s), s.draft.new = s.draft.old => Plain(s.draft)
  PROVE  LET r == [s EXCEPT !.gone = TRUE] IN OfDraft(r) /\ r.draft = s.draft /\ r.apart = s.apart
<1>1. WholeSave(s)
  BY DEF OfDraft
<1>2. PICK r : r = [s EXCEPT !.gone = TRUE]
  OBVIOUS
<1>3. r = [draft |-> s.draft, left |-> s.left, failed |-> s.failed, apart |-> s.apart, gone |-> TRUE]
  BY <1>1, <1>2, SaveExcept
<1>4. WholeSave(r) /\ r.draft = s.draft /\ r.left = s.left /\ r.failed = s.failed /\ r.apart = s.apart /\
          r.gone = TRUE
  BY <1>3, SaveMade
<1>5. OfDraft(r)
  BY <1>4 DEF OfDraft
<1>6. QED
  BY <1>2, <1>4, <1>5

(* The saves have the drafts they had. *)
LEMMA StillOneDraft ==
  ASSUME OneDraft,
      \A j \in DOMAIN change_sent' : \E k \in DOMAIN change_sent : change_sent'[j].draft = change_sent[k].draft
  PROVE  OneDraft'
<1>1. \A j, k \in DOMAIN change_sent : Plain(change_sent[j].draft) \/ Plain(change_sent[k].draft) \/
          change_sent[j].draft = change_sent[k].draft
  BY DEF OneDraft
<1>2. \A j, k \in DOMAIN change_sent' : Plain(change_sent'[j].draft) \/ Plain(change_sent'[k].draft) \/
          change_sent'[j].draft = change_sent'[k].draft
  BY <1>1
<1>3. QED
  BY <1>2 DEF OneDraft

(* The tab is replaced by one for the new name. *)
LEMMA TabReplaced ==
  ASSUME Orderly, NEW i \in DOMAIN change_sent, change_sent[i].draft.new # change_sent[i].draft.old,
         change_draft' = ChangePart!Empty, change_isSaving' = FALSE,
         change_fetches' = <<change_sent[i].draft.new>>, UNCHANGED change_tables,
         change_sent' = [k \in DOMAIN ChangePart!RemoveAt(change_sent, i) |->
                        [ChangePart!RemoveAt(change_sent, i)[k] EXCEPT !.gone = TRUE]]
  PROVE  Orderly'
<1>1. PICK r : r = ChangePart!RemoveAt(change_sent, i)
  OBVIOUS
<1>2. /\ IsList(r) /\ DOMAIN r = 1..Len(r)
      /\ \A j \in DOMAIN r : \E k \in DOMAIN change_sent : r[j] = change_sent[k] /\ k # i
  BY <1>1, FewerSaves DEF Orderly
<1>3. PICK L \in Nat : DOMAIN r = 1..L
  <2>1. PICK S : r \in Seq(S)
    BY <1>2 DEF IsList
  <2>2. Len(r) \in Nat
    BY <2>1
  <2>3. QED
    BY <1>2, <2>2
<1>4. PICK q : q = [k \in 1..L |-> [r[k] EXCEPT !.gone = TRUE]]
  OBVIOUS
<1>5. change_sent' = q /\ DOMAIN q = 1..L
  BY <1>1, <1>3, <1>4
<1>6. \A j \in 1..L : OfDraft(q[j]) /\ q[j].apart # TRUE /\
          \E k \in DOMAIN change_sent : q[j].draft = change_sent[k].draft
  <2>1. ASSUME NEW j \in 1..L
        PROVE  OfDraft(q[j]) /\ q[j].apart # TRUE /\
            \E k \in DOMAIN change_sent : q[j].draft = change_sent[k].draft
    <3>1. PICK k \in DOMAIN change_sent : r[j] = change_sent[k] /\ k # i
      BY <1>2, <1>3
    <3>2. OfDraft(change_sent[k]) /\ change_sent[k].apart # TRUE
      BY <3>1, ApartIsOnly DEF Orderly
    <3>3. Plain(change_sent[i].draft) \/ Plain(change_sent[k].draft) \/
              change_sent[i].draft = change_sent[k].draft
      BY DEF Orderly, OneDraft
    <3>4. change_sent[k].draft.new = change_sent[k].draft.old => Plain(change_sent[k].draft)
      BY <3>3 DEF Plain
    <3>5. PICK s : s = change_sent[k]
      OBVIOUS
    <3>6. q[j] = [s EXCEPT !.gone = TRUE]
      BY <1>4, <3>1, <3>5
    <3>7. OfDraft(q[j]) /\ q[j].draft = s.draft /\ q[j].apart = s.apart
      BY <3>2, <3>4, <3>5, <3>6, EditorGone
    <3>8. QED
      BY <3>2, <3>5, <3>7
  <2>2. QED
    BY <2>1
<1>7. IsList(q)
  <2> DEFINE W == {q[k] : k \in 1..L}
  <2>1. q = [k \in 1..L |-> q[k]]
    BY <1>4
  <2>2. q \in [1..L -> W]
    BY <2>1
  <2> HIDE DEF W
  <2>3. q \in Seq(W)
    BY <2>2, FunctionIsSeq
  <2>4. QED
    BY <2>3 DEF IsList
<1>8. IsList(change_fetches')
  <2>1. PICK t : t = change_sent[i].draft.new
    OBVIOUS
  <2>2. <<t>> \in Seq({t})
    OBVIOUS
  <2>3. QED
    BY <2>1, <2>2 DEF IsList
<1>9. PICK e : e = change_draft'
  OBVIOUS
<1>10. Whole(e) /\ Plain(e) /\ e.old = ChangePart!Unnamed /\ Drawn(e.old, e.columns)
  BY <1>9, EmptyDraft
<1>11. Lists'
  BY <1>5, <1>7, <1>8, <1>9, <1>10 DEF Lists, IsList, Whole
<1>12. Plain(change_draft') /\ Drawn(change_draft.old, change_draft.columns)' /\ Synced'
  BY <1>9, <1>10 DEF Synced
<1>13. Tabled' /\ change_isSaving' \in BOOLEAN
  BY DEF Orderly, Tabled
<1>14. OneDraft'
  <2>1. OneDraft
    BY DEF Orderly
  <2>2. \A j \in DOMAIN change_sent' : \E k \in DOMAIN change_sent : change_sent'[j].draft = change_sent[k].draft
    <3>1. \A j \in 1..L : \E k \in DOMAIN change_sent : q[j].draft = change_sent[k].draft
      BY <1>6
    <3>2. QED
      BY <1>5, <3>1, Zenon
  <2>3. QED
    BY <2>1, <2>2, StillOneDraft
<1>15. SameDraft' /\ Named'
  BY <1>12 DEF SameDraft, Named
<1>16. (\A j \in DOMAIN change_sent : OfDraft(change_sent[j]) /\ (change_sent[j].apart = TRUE =>
           Alone(change_sent[j])))'
  <2>1. ASSUME NEW j \in 1..L PROVE (OfDraft(change_sent[j]) /\ (change_sent[j].apart = TRUE =>
            Alone(change_sent[j])))'
    <3>1. PICK s : s = q[j] /\ s = change_sent'[j]
      BY <1>5
    <3>2. OfDraft(s) /\ s.apart # TRUE
      BY <1>6, <3>1
    <3>3. QED
      BY <3>1, <3>2
  <2>2. QED
    BY <1>5, <2>1
<1>17. QED
  BY <1>11, <1>12, <1>13, <1>14, <1>15, <1>16 DEF Orderly

(* The table is read again. *)
LEMMA TableReread ==
  ASSUME Orderly, NEW i \in DOMAIN change_sent, NEW t, change_sent' = ChangePart!RemoveAt(change_sent, i),
      change_fetches' = Append(change_fetches, t),
         change_isSaving' = ~change_isSaving, UNCHANGED <<change_tables, change_draft>>
  PROVE  Orderly'
<1>1. PICK r : r = ChangePart!RemoveAt(change_sent, i)
  OBVIOUS
<1>2. /\ IsList(r) /\ DOMAIN r = 1..Len(r)
      /\ \A j \in DOMAIN r : \E k \in DOMAIN change_sent : r[j] = change_sent[k] /\ k # i
  BY <1>1, FewerSaves DEF Orderly
<1>3. change_sent' = r
  BY <1>1
<1>4. PICK S : change_fetches \in Seq(S)
  BY DEF Orderly, Lists, IsList
<1>5. IsList(change_fetches') /\ change_fetches' # <<>>
  <2>1. change_fetches \in Seq(S \cup {t})
    BY <1>4
  <2>2. Append(change_fetches, t) \in Seq(S \cup {t}) /\ Append(change_fetches, t) # <<>>
    BY <2>1
  <2>3. QED
    BY <2>2 DEF IsList
<1>6. Lists' /\ Tabled' /\ change_isSaving' \in BOOLEAN /\ Drawn(change_draft.old, change_draft.columns)'
  BY <1>2, <1>3, <1>5 DEF Orderly, Lists, Tabled, IsList
<1>7. (\A j \in DOMAIN change_sent : OfDraft(change_sent[j]) /\ (change_sent[j].apart = TRUE =>
          Alone(change_sent[j])))'
  <2>1. ASSUME NEW j \in DOMAIN r PROVE (OfDraft(change_sent[j]) /\ (change_sent[j].apart = TRUE =>
            Alone(change_sent[j])))'
    <3>1. PICK k \in DOMAIN change_sent : r[j] = change_sent[k] /\ k # i
      BY <1>2
    <3>2. OfDraft(change_sent[k]) /\ change_sent[k].apart # TRUE
      BY <3>1, ApartIsOnly DEF Orderly
    <3>3. PICK s : s = change_sent[k] /\ s = change_sent'[j]
      BY <1>3, <3>1
    <3>4. OfDraft(s) /\ s.apart # TRUE
      BY <3>2, <3>3
    <3>5. QED
      BY <3>3, <3>4
  <2>2. QED
    BY <1>3, <2>1
<1>8. OneDraft'
  <2>1. \A j, k \in DOMAIN change_sent : Plain(change_sent[j].draft) \/ Plain(change_sent[k].draft) \/
            change_sent[j].draft = change_sent[k].draft
    BY DEF Orderly, OneDraft
  <2>2. \A j, k \in DOMAIN r : Plain(r[j].draft) \/ Plain(r[k].draft) \/ r[j].draft = r[k].draft
    BY <1>2, <2>1
  <2>3. QED
    BY <1>3, <2>2 DEF OneDraft
<1>9. Busy
  <2>1. PICK T : change_sent \in Seq(T)
    BY DEF Orderly, Lists, IsList
  <2>2. QED
    BY <2>1 DEF Busy
<1>10. SameDraft'
  <2>1. \A j \in DOMAIN change_sent : Plain(change_draft) \/ Plain(change_sent[j].draft) \/
            change_sent[j].draft = change_draft
    BY <1>9 DEF Orderly, SameDraft
  <2>2. \A j \in DOMAIN r : Plain(change_draft) \/ Plain(r[j].draft) \/ r[j].draft = change_draft
    BY <1>2, <2>1
  <2>3. QED
    BY <1>3, <2>2 DEF SameDraft
<1>11. Named'
  BY <1>9 DEF Orderly, Named
<1>12. Coming'
  BY <1>5 DEF Coming
<1>13. QED
  BY <1>6, <1>7, <1>8, <1>10, <1>11, <1>12 DEF Orderly

LEMMA CompleteKeeps == ASSUME Orderly, NEW i \in DOMAIN change_sent, ChangePart!Complete(i) PROVE Orderly'
<1>1. UNCHANGED change_tables
  BY DEF ChangePart!Complete
<1>2. CASE /\ change_sent[i].draft.new # change_sent[i].draft.old
           /\ change_draft' = ChangePart!Empty /\ change_isSaving' = FALSE /\
                change_fetches' = <<change_sent[i].draft.new>>
           /\ change_sent' = [k \in DOMAIN ChangePart!RemoveAt(change_sent, i) |->
                             [ChangePart!RemoveAt(change_sent, i)[k] EXCEPT !.gone = TRUE]]
  BY <1>1, <1>2, TabReplaced
<1>3. CASE /\ change_sent[i].draft.new = change_sent[i].draft.old /\ ~change_sent[i].gone
           /\ change_fetches' = Append(change_fetches, change_sent[i].draft.new)
           /\ change_sent' = ChangePart!RemoveAt(change_sent, i) /\ change_isSaving' = ~change_isSaving
           /\ UNCHANGED <<change_tab, change_draft, change_loading>>
  BY <1>1, <1>3, TableReread
<1>4. CASE /\ change_sent[i].draft.new = change_sent[i].draft.old /\ change_sent[i].gone
           /\ change_sent' = ChangePart!RemoveAt(change_sent, i)
           /\ UNCHANGED <<change_tab, change_draft, change_loading, change_isSaving, change_fetches>>
  <2>1. change_sent[i].gone = TRUE
    BY <1>4 DEF Orderly, OfDraft
  <2>2. ~Refreshes(change_sent[i])
    BY <1>4, <2>1 DEF Refreshes
  <2>3. QED
    BY <1>1, <1>4, <2>2, SaveDropped
<1>5. QED
  BY <1>2, <1>3, <1>4 DEF ChangePart!Complete
-----------------------------------------------------------------------------
(* A column as it is written. *)
LEMMA WrittenColumn ==
  ASSUME NEW c \in ColumnT
  PROVE  ChangePart!Written(c) \in ColumnT /\ ChangePart!Written(c).name = c.name /\
      ChangePart!Written(c).has = ChangePart!GenerateCreateColumn(c.has)
<1>1. c.name \in ColumnNames /\ c.has \in SUBSET ChangePart!Features
  BY ColumnTyped
<1>2. PICK h \in SUBSET ChangePart!Features : h = ChangePart!GenerateCreateColumn(c.has)
  BY <1>1 DEF ChangePart!GenerateCreateColumn, ChangePart!Features
<1>3. ChangePart!Written(c) = [c EXCEPT !.has = h]
  BY <1>2 DEF ChangePart!Written
<1>4. QED
  <2>1. [c EXCEPT !.has = h] \in ColumnT /\ [c EXCEPT !.has = h].has = h /\ [c EXCEPT !.has = h].name = c.name
    BY <1>1, ColumnExcept
  <2>2. QED
    BY <1>2, <1>3, <2>1

(* The columns of a new table. *)
LEMMA CreatedColumns ==
  ASSUME NEW d, Drawn(d.old, d.columns), d.old = ChangePart!Unnamed
  PROVE  /\ Created(d) \in Seq(ColumnT) /\ DOMAIN Created(d) = DOMAIN d.columns
         /\ \A k \in DOMAIN d.columns : Created(d)[k] = ChangePart!Written(d.columns[k].new[1]) /\
              d.columns[k].new # ChangePart!None
<1>1. PICK cs : cs = d.columns
  OBVIOUS
<1>2. DOMAIN cs = 1..Len(cs) /\ Len(cs) \in Nat
  BY <1>1, DrawnColumns
<1>3. \A k \in DOMAIN cs : cs[k].new # ChangePart!None /\ cs[k].new[1] \in ColumnT
  BY <1>1, DrawnColumns
<1>4. PICK r : r = [k \in DOMAIN cs |-> ChangePart!Written(cs[k].new[1])]
  OBVIOUS
<1>5. \A k \in 1..Len(cs) : r[k] \in ColumnT
  BY <1>2, <1>3, <1>4, WrittenColumn
<1>6. r = [k \in 1..Len(cs) |-> r[k]]
  BY <1>2, <1>4
<1>7. r \in Seq(ColumnT)
  <2>1. r \in [1..Len(cs) -> ColumnT]
    BY <1>5, <1>6
  <2>2. QED
    BY <1>2, <2>1, FunctionIsSeq
<1>8. Created(d) = r
  BY <1>1, <1>4 DEF Created
<1>9. QED
  BY <1>1, <1>3, <1>4, <1>7, <1>8

(* What is sent for one column. *)
Dropped(c, x) == c.new = ChangePart!None /\ c.old # ChangePart!None /\
x = [do |-> "drop", column |-> c.old[1].name]
Added(c, x) == c.new # ChangePart!None /\ c.old = ChangePart!None /\
x = [do |-> "add", column |-> ChangePart!Written(c.new[1])]
Renamed(c, x) == /\ c.new # ChangePart!None /\ c.old # ChangePart!None /\ c.new[1].name # c.old[1].name
                 /\ x = [do |-> "rename", from |-> c.old[1].name, to |-> c.new[1].name]
Kept(c) == c.new # ChangePart!None /\ c.old # ChangePart!None /\ c.new[1].name = c.old[1].name

LEMMA LineKinds ==
  ASSUME NEW c, c.old # ChangePart!None \/ c.new # ChangePart!None
  PROVE  \/ Kept(c) /\ ChangePart!Line(c).do = "nothing"
         \/ ChangePart!Line(c).do # "nothing" /\ (Dropped(c, ChangePart!Line(c)) \/ Added(c,
              ChangePart!Line(c)) \/ Renamed(c, ChangePart!Line(c)))
<1>1. CASE c.new = ChangePart!None
  <2>1. ChangePart!Line(c) = [do |-> "drop", column |-> c.old[1].name]
    BY <1>1 DEF ChangePart!Line
  <2>2. ChangePart!Line(c).do = "drop"
    BY <2>1
  <2>3. QED
    BY <1>1, <2>1, <2>2 DEF Dropped
<1>2. CASE c.new # ChangePart!None /\ c.old = ChangePart!None
  <2>1. ChangePart!Line(c) = [do |-> "add", column |-> ChangePart!Written(c.new[1])]
    BY <1>2 DEF ChangePart!Line
  <2>2. ChangePart!Line(c).do = "add"
    BY <2>1
  <2>3. QED
    BY <1>2, <2>1, <2>2 DEF Added
<1>3. CASE c.new # ChangePart!None /\ c.old # ChangePart!None /\ c.new[1].name = c.old[1].name
  <2>1. ChangePart!Line(c) = [do |-> "nothing"]
    BY <1>3 DEF ChangePart!Line
  <2>2. QED
    BY <1>3, <2>1 DEF Kept
<1>4. CASE c.new # ChangePart!None /\ c.old # ChangePart!None /\ c.new[1].name # c.old[1].name
  <2>1. ChangePart!Line(c) = [do |-> "rename", from |-> c.old[1].name, to |-> c.new[1].name]
    BY <1>4 DEF ChangePart!Line
  <2>2. ChangePart!Line(c).do = "rename"
    BY <2>1
  <2>3. QED
    BY <1>4, <2>1, <2>2 DEF Renamed
<1>5. QED
  BY <1>1, <1>2, <1>3, <1>4

(* The columns of one table are replaced. *)
LEMMA ColumnsSet ==
  ASSUME Tabled, NEW t \in DOMAIN change_tables, NEW cs, Stored(cs),
         change_tables' = [change_tables EXCEPT ![t] =
                             [columns |-> cs, constraints |-> change_tables[t].constraints]]
  PROVE  Tabled' /\ DOMAIN change_tables' = DOMAIN change_tables /\ change_tables'[t].columns = cs
<1>1. DOMAIN change_tables' = DOMAIN change_tables
  OBVIOUS
<1>2. PICK r : r = [columns |-> cs, constraints |-> change_tables[t].constraints]
  OBVIOUS
<1>3. r.columns = cs
  BY <1>2
<1>4. change_tables'[t] = r /\ \A n \in DOMAIN change_tables : n # t => change_tables'[n] = change_tables[n]
  BY <1>2
<1>5. \A n \in DOMAIN change_tables : Stored(change_tables[n].columns)
  BY DEF Tabled
<1>6. ASSUME NEW n \in DOMAIN change_tables PROVE Stored(change_tables'[n].columns)
  <2>1. CASE n = t
    BY <1>3, <1>4, <2>1
  <2>2. CASE n # t
    BY <1>4, <1>5, <2>2
  <2>3. QED
    BY <2>1, <2>2
<1>7. Tabled'
  BY <1>1, <1>6 DEF Tabled, Stored
<1>8. QED
  BY <1>1, <1>3, <1>4, <1>7

(* A column is dropped, *)
LEMMA DropDone ==
  ASSUME Tabled, NEW t, NEW n, NEW x, x = [do |-> "drop", column |-> n], ChangePart!Legal(t, x),
      ChangePart!Execute(t, x)
  PROVE  /\ t \in DOMAIN change_tables /\ Tabled' /\ DOMAIN change_tables' = DOMAIN change_tables
         /\ \E c \in ChangePart!Range(change_tables[t].columns) : c.name = n /\
              ChangePart!Range(change_tables'[t].columns) = ChangePart!Range(change_tables[t].columns) \ {c}
<1>1. x.do = "drop" /\ x.column = n
  OBVIOUS
<1>2. t \in DOMAIN change_tables /\
          \E k \in DOMAIN change_tables[t].columns : change_tables[t].columns[k].name = n
  BY <1>1 DEF ChangePart!Legal
<1>3. PICK cs : cs = change_tables[t].columns /\ Stored(cs)
  BY <1>2 DEF Tabled
<1>4. PICK k \in DOMAIN cs : cs[k].name = n
  BY <1>2, <1>3
<1>5. PICK r : r = ChangePart!RemoveAt(cs, CHOOSE j \in DOMAIN cs : cs[j].name = n)
  OBVIOUS
<1>6. Stored(r) /\ ChangePart!Range(r) = ChangePart!Range(cs) \ {cs[k]}
  BY <1>3, <1>4, <1>5, DroppedColumns
<1>7. change_tables' = [change_tables EXCEPT ![t] = [columns |-> r, constraints |-> change_tables[t].constraints]]
  BY <1>1, <1>3, <1>5 DEF ChangePart!Execute
<1>8. Tabled' /\ DOMAIN change_tables' = DOMAIN change_tables /\ change_tables'[t].columns = r
  BY <1>2, <1>6, <1>7, ColumnsSet
<1>9. cs[k] \in ChangePart!Range(cs)
  BY DEF ChangePart!Range
<1>10. QED
  BY <1>2, <1>3, <1>4, <1>6, <1>8, <1>9

(* added, *)
LEMMA AddDone ==
  ASSUME Tabled, NEW t, NEW c \in ColumnT, NEW x, x = [do |-> "add", column |-> c], ChangePart!Legal(t,
      x), ChangePart!Execute(t, x)
  PROVE  /\ t \in DOMAIN change_tables /\ Tabled' /\ DOMAIN change_tables' = DOMAIN change_tables
         /\ \A e \in ChangePart!Range(change_tables[t].columns) : e.name # c.name
         /\ ChangePart!Range(change_tables'[t].columns) = ChangePart!Range(change_tables[t].columns) \cup {c}
<1>1. x.do = "add" /\ x.column = c
  OBVIOUS
<1>2. t \in DOMAIN change_tables /\ c.name \notin ChangePart!NamesOf(change_tables[t].columns)
  BY <1>1 DEF ChangePart!Legal
<1>3. PICK cs : cs = change_tables[t].columns /\ Stored(cs)
  BY <1>2 DEF Tabled
<1>4. PICK r : r = Append(cs, c)
  OBVIOUS
<1>5. Stored(r) /\ ChangePart!Range(r) = ChangePart!Range(cs) \cup {c}
  BY <1>2, <1>3, <1>4, AddedColumns
<1>6. change_tables' = [change_tables EXCEPT ![t] = [columns |-> r, constraints |-> change_tables[t].constraints]]
  BY <1>1, <1>3, <1>4 DEF ChangePart!Execute
<1>7. Tabled' /\ DOMAIN change_tables' = DOMAIN change_tables /\ change_tables'[t].columns = r
  BY <1>2, <1>5, <1>6, ColumnsSet
<1>8. \A e \in ChangePart!Range(cs) : e.name # c.name
  BY <1>2, <1>3 DEF ChangePart!NamesOf, ChangePart!Range
<1>9. QED
  BY <1>2, <1>3, <1>5, <1>7, <1>8

(* or renamed. *)
RenamedColumn(t, n, to) ==
  /\ \A e \in ChangePart!Range(change_tables[t].columns) : e.name # to
  /\ \E c \in ChangePart!Range(change_tables[t].columns) :
       /\ c.name = n
       /\ ChangePart!Range(change_tables'[t].columns) =
            (ChangePart!Range(change_tables[t].columns) \ {c}) \cup {[name |-> to, has |-> c.has]}
LEMMA RenameDone ==
  ASSUME Tabled, NEW t, NEW n, NEW to \in ColumnNames, NEW x, x = [do |-> "rename", from |-> n, to |-> to],
         ChangePart!Legal(t, x), ChangePart!Execute(t, x)
  PROVE  /\ t \in DOMAIN change_tables /\ Tabled' /\ DOMAIN change_tables' = DOMAIN change_tables
         /\ RenamedColumn(t, n, to)
<1>1. x.do = "rename" /\ x.from = n /\ x.to = to
  OBVIOUS
<1>2. t \in DOMAIN change_tables /\ n \in ChangePart!NamesOf(change_tables[t].columns) /\
          to \notin ChangePart!NamesOf(change_tables[t].columns)
  BY <1>1 DEF ChangePart!Legal
<1>3. PICK cs : cs = change_tables[t].columns /\ Stored(cs)
  BY <1>2 DEF Tabled
<1>4. PICK k \in DOMAIN cs : cs[k].name = n
  BY <1>2, <1>3 DEF ChangePart!NamesOf
<1>5. PICK r : r = [j \in DOMAIN cs |-> IF cs[j].name = n THEN [name |-> to, has |-> cs[j].has] ELSE cs[j]]
  OBVIOUS
<1>6. Stored(r) /\
          ChangePart!Range(r) = (ChangePart!Range(cs) \ {cs[k]}) \cup {[name |-> to, has |-> cs[k].has]}
  BY <1>2, <1>3, <1>4, <1>5, RenamedColumns
<1>7. change_tables' = [change_tables EXCEPT ![t] = [columns |-> r, constraints |-> change_tables[t].constraints]]
  BY <1>1, <1>3, <1>5 DEF ChangePart!Execute
<1>8. Tabled' /\ DOMAIN change_tables' = DOMAIN change_tables /\ change_tables'[t].columns = r
  BY <1>2, <1>6, <1>7, ColumnsSet
<1>9. cs[k] \in ChangePart!Range(cs) /\ \A e \in ChangePart!Range(cs) : e.name # to
  BY <1>2, <1>3 DEF ChangePart!Range, ChangePart!NamesOf
<1>10. RenamedColumn(t, n, to)
  BY <1>3, <1>4, <1>6, <1>8, <1>9 DEF RenamedColumn
<1>11. QED
  BY <1>2, <1>8, <1>10

(* A table gets another name, *)
LEMMA TitleDone ==
  ASSUME Tabled, NEW t, NEW to, to # ChangePart!Unnamed, NEW x, x = [do |-> "title", to |-> to],
      ChangePart!Legal(t, x), ChangePart!Execute(t, x)
  PROVE  t \in DOMAIN change_tables /\ Tabled' /\ to \in DOMAIN change_tables' /\
      change_tables'[to] = change_tables[t]
<1>1. x.do = "title" /\ x.to = to
  OBVIOUS
<1>2. t \in DOMAIN change_tables /\ to \notin DOMAIN change_tables
  BY <1>1 DEF ChangePart!Legal
<1>3. change_tables' = [n \in (DOMAIN change_tables \ {t}) \cup {to} |->
                         IF n = to THEN change_tables[t] ELSE change_tables[n]]
  BY <1>1 DEF ChangePart!Execute
<1>4. \A n \in DOMAIN change_tables : Stored(change_tables[n].columns)
  BY DEF Tabled
<1>5. DOMAIN change_tables' = (DOMAIN change_tables \ {t}) \cup {to} /\ change_tables'[to] = change_tables[t]
      /\ \A n \in DOMAIN change_tables : n # t => change_tables'[n] = change_tables[n]
  BY <1>2, <1>3
<1>6. \A n \in DOMAIN change_tables' : Stored(change_tables'[n].columns)
  BY <1>2, <1>4, <1>5
<1>7. Tabled'
  BY <1>5, <1>6 DEF Tabled, Stored
<1>8. QED
  BY <1>2, <1>5, <1>7

(* or is created. *)
LEMMA CreateDone ==
  ASSUME Tabled, NEW t, NEW x, x.do = "create", x.name # ChangePart!Unnamed, x.columns \in Seq(ColumnT),
      ChangePart!Legal(t, x), ChangePart!Execute(t, x)
  PROVE  Tabled' /\ x.columns # <<>> /\ x.name \in DOMAIN change_tables' /\
      change_tables'[x.name].columns = x.columns
<1>1. x.name \notin DOMAIN change_tables /\ x.columns # <<>> /\ ChangePart!Unique(x.columns)
  BY DEF ChangePart!Legal
<1>2. PICK r : r = [columns |-> x.columns, constraints |-> x.constraints]
  OBVIOUS
<1>3. r.columns = x.columns
  BY <1>2
<1>4. PICK name : name = x.name
  OBVIOUS
<1>5. change_tables' = [n \in DOMAIN change_tables \cup {name} |-> IF n = name THEN r ELSE change_tables[n]]
  BY <1>2, <1>4 DEF ChangePart!Execute
<1>6. DOMAIN change_tables' = DOMAIN change_tables \cup {name} /\ change_tables'[name] = r
      /\ \A n \in DOMAIN change_tables : n # name => change_tables'[n] = change_tables[n]
  BY <1>5
<1>7. Stored(r.columns) /\ \A n \in DOMAIN change_tables : Stored(change_tables[n].columns)
  BY <1>1, <1>3 DEF Tabled, Stored
<1>8. \A n \in DOMAIN change_tables' : Stored(change_tables'[n].columns)
  BY <1>6, <1>7
<1>9. Tabled'
  BY <1>4, <1>6, <1>8 DEF Tabled, Stored
<1>10. QED
  BY <1>1, <1>3, <1>4, <1>6, <1>9
-----------------------------------------------------------------------------
(* A statement of a draft. *)
LEMMA StatementKinds ==
  ASSUME NEW d, Drawn(d.old, d.columns), d.old # ChangePart!Unnamed, NEW x \in Statements(d)
  PROVE  \/ x = [do |-> "title", to |-> d.new]
         \/ \E k \in DOMAIN d.columns : LET c == d.columns[k] IN Dropped(c, x) \/ Added(c, x) \/ Renamed(c, x)
<1>1. x = [do |-> "title", to |-> d.new] \/ (x \in Lines(d) /\ x.do # "nothing")
  BY DEF Statements
<1>2. CASE x \in Lines(d) /\ x.do # "nothing"
  <2>1. PICK k \in DOMAIN d.columns : x = ChangePart!Line(d.columns[k])
    BY <1>2 DEF Lines
  <2>2. PICK c : c = d.columns[k]
    OBVIOUS
  <2>3. c.old # ChangePart!None \/ c.new # ChangePart!None
    BY <2>2, DrawnColumns
  <2>4. Dropped(c, x) \/ Added(c, x) \/ Renamed(c, x)
    BY <1>2, <2>1, <2>2, <2>3, LineKinds
  <2>5. QED
    BY <2>2, <2>4
<1>3. QED
  BY <1>1, <1>2

(* Tables stay sound, whatever is executed. *)
LEMMA TablesStay ==
  ASSUME Tabled, NEW d, Drawn(d.old, d.columns), d.new # ChangePart!Unnamed, NEW x \in Statements(d),
      ChangePart!Legal(d.old, x), ChangePart!Execute(d.old, x)
  PROVE  Tabled'
<1>1. CASE d.old = ChangePart!Unnamed
  <2>1. x = Creation(d)
    BY <1>1, CreationOf
  <2>2. x.do = "create" /\ x.name = d.new /\ x.columns = Created(d)
    BY <1>1, <2>1, CreationOf
  <2>3. Created(d) \in Seq(ColumnT)
    BY <1>1, CreatedColumns
  <2>4. x.columns \in Seq(ColumnT) /\ x.name # ChangePart!Unnamed
    BY <2>2, <2>3
  <2>5. QED
    BY <2>2, <2>4, CreateDone
<1>2. CASE d.old # ChangePart!Unnamed
  <2>1. CASE x = [do |-> "title", to |-> d.new]
    BY <2>1, TitleDone
  <2>2. ASSUME NEW k \in DOMAIN d.columns, NEW c, c = d.columns[k], Dropped(c, x) \/ Added(c, x) \/
            Renamed(c, x)
        PROVE  Tabled'
    <3>1. c.new # ChangePart!None => c.new[1] \in ColumnT
      BY <2>2, DrawnColumns
    <3>2. CASE Dropped(c, x)
      <4>1. PICK n : n = c.old[1].name
        OBVIOUS
      <4>2. x = [do |-> "drop", column |-> n]
        BY <3>2, <4>1 DEF Dropped
      <4>3. QED
        BY <4>2, DropDone
    <3>3. CASE Added(c, x)
      <4>1. PICK e \in ColumnT : e = ChangePart!Written(c.new[1])
        BY <3>1, <3>3, WrittenColumn DEF Added
      <4>2. x = [do |-> "add", column |-> e]
        BY <3>3, <4>1 DEF Added
      <4>3. QED
        BY <4>2, AddDone
    <3>4. CASE Renamed(c, x)
      <4>1. PICK n : n = c.old[1].name
        OBVIOUS
      <4>2. PICK to \in ColumnNames : to = c.new[1].name
        BY <3>1, <3>4, ColumnTyped DEF Renamed
      <4>3. x = [do |-> "rename", from |-> n, to |-> to]
        BY <3>4, <4>1, <4>2 DEF Renamed
      <4>4. QED
        BY <4>3, RenameDone
    <3>5. QED
      BY <2>2, <3>2, <3>3, <3>4
  <2>3. QED
    BY <1>2, <2>1, <2>2, StatementKinds
<1>3. QED
  BY <1>1, <1>2

-----------------------------------------------------------------------------
(* What stands besides the column after the first m. *)
Besides(cs, m) == {Done(cs[k]) : k \in News(cs, m)} \cup {cs[k].old[1] : k \in Waiting(cs, m + 1)}

LEMMA HalfwayOn ==
  ASSUME NEW old, NEW cs, Drawn(old, cs), NEW m \in 0..(Len(cs) - 1), NEW c, c = cs[m + 1], KeptApart(cs, m)
  PROVE  /\ Halfway(cs, m) = Besides(cs, m) \cup (IF c.old = ChangePart!None THEN {} ELSE {c.old[1]})
         /\ Halfway(cs, m + 1) = Besides(cs, m) \cup (IF c.new = ChangePart!None THEN {} ELSE {Done(c)})
         /\ c.old # ChangePart!None => \A e \in Besides(cs, m) : e.name # c.old[1].name
         /\ (c.new = ChangePart!None \/ \A k \in Waiting(cs, m + 1) : Done(c).name # cs[k].old[1].name) =>
              KeptApart(cs, m + 1)
<1>1. DOMAIN cs = 1..Len(cs) /\ Len(cs) \in Nat
  BY DrawnColumns
<1>2. PICK n \in DOMAIN cs : n = m + 1
  BY <1>1
<1>3. c = cs[n]
  BY <1>2
<1>4. News(cs, m + 1) = News(cs, m) \cup (IF c.new = ChangePart!None THEN {} ELSE {n})
  <2>1. \A k \in DOMAIN cs : k <= m + 1 <=> (k <= m \/ k = n)
    BY <1>1, <1>2
  <2>2. QED
    BY <1>3, <2>1 DEF News
<1>5. Waiting(cs, m) = Waiting(cs, m + 1) \cup (IF c.old = ChangePart!None THEN {} ELSE {n})
  <2>1. \A k \in DOMAIN cs : k > m <=> (k > m + 1 \/ k = n)
    BY <1>1, <1>2
  <2>2. QED
    BY <1>3, <2>1 DEF Waiting
<1>6. Halfway(cs, m) = Besides(cs, m) \cup (IF c.old = ChangePart!None THEN {} ELSE {c.old[1]})
  BY <1>3, <1>5 DEF Halfway, Besides
<1>7. Halfway(cs, m + 1) = Besides(cs, m) \cup (IF c.new = ChangePart!None THEN {} ELSE {Done(c)})
  BY <1>3, <1>4 DEF Halfway, Besides
<1>8. ASSUME c.old # ChangePart!None PROVE \A e \in Besides(cs, m) : e.name # c.old[1].name
  <2>1. n \in Waiting(cs, m)
    BY <1>5, <1>8
  <2>2. \A k \in News(cs, m) : Done(cs[k]).name # c.old[1].name
    BY <1>3, <2>1 DEF KeptApart
  <2>3. \A k \in Waiting(cs, m + 1) : cs[k].old[1].name # c.old[1].name
    <3>1. \A j, k \in DOMAIN cs : cs[j].old # ChangePart!None /\ cs[k].old # ChangePart!None /\
              cs[j].old[1].name = cs[k].old[1].name => j = k
      BY DEF Drawn
    <3>2. \A k \in Waiting(cs, m + 1) : k \in DOMAIN cs /\ cs[k].old # ChangePart!None /\ k # n
      BY <1>1, <1>2 DEF Waiting
    <3>3. QED
      BY <1>3, <1>8, <3>1, <3>2
  <2>4. QED
    BY <2>2, <2>3 DEF Besides
<1>9. ASSUME c.new = ChangePart!None \/ \A k \in Waiting(cs, m + 1) : Done(c).name # cs[k].old[1].name
      PROVE  KeptApart(cs, m + 1)
  <2>1. \A j \in News(cs, m), k \in Waiting(cs, m + 1) : Done(cs[j]).name # cs[k].old[1].name
    BY <1>5 DEF KeptApart
  <2>2. QED
    BY <1>3, <1>4, <1>9, <2>1 DEF KeptApart
<1>10. QED
  BY <1>6, <1>7, <1>8, <1>9

(* Two columns with the same name and features are the same. *)
LEMMA SameColumn == ASSUME NEW a \in ColumnT, NEW b \in ColumnT, a.name = b.name, a.has = b.has PROVE a = b
  BY DEF ColumnT

(* Nothing has to be done for a column that is kept. *)
LEMMA HalfwayPast ==
  ASSUME NEW old, NEW cs, Drawn(old, cs), NEW m \in 0..(Len(cs) - 1), Kept(cs[m + 1]), KeptApart(cs, m)
  PROVE  Halfway(cs, m + 1) = Halfway(cs, m) /\ KeptApart(cs, m + 1)
<1>1. DOMAIN cs = 1..Len(cs) /\ Len(cs) \in Nat
  BY DrawnColumns
<1>2. PICK n \in DOMAIN cs : n = m + 1
  BY <1>1
<1>3. PICK c : c = cs[n]
  OBVIOUS
<1>4. c.old # ChangePart!None /\ c.new # ChangePart!None /\ c.new[1].name = c.old[1].name
  BY <1>2, <1>3 DEF Kept
<1>5. c.new[1] \in ColumnT /\ c.old[1] \in ColumnT /\ c.old[1].has = c.new[1].has
  BY <1>3, <1>4, DrawnColumns
<1>6. Done(c) = c.old[1]
  <2>1. c.new[1] = c.old[1]
    BY <1>4, <1>5, SameColumn
  <2>2. QED
    BY <1>4, <2>1 DEF Done
<1>7. c = cs[m + 1]
  BY <1>2, <1>3
<1>8. /\ Halfway(cs, m) = Besides(cs, m) \cup (IF c.old = ChangePart!None THEN {} ELSE {c.old[1]})
      /\ Halfway(cs, m + 1) = Besides(cs, m) \cup (IF c.new = ChangePart!None THEN {} ELSE {Done(c)})
      /\ c.old # ChangePart!None => \A e \in Besides(cs, m) : e.name # c.old[1].name
      /\ (c.new = ChangePart!None \/ \A k \in Waiting(cs, m + 1) : Done(c).name # cs[k].old[1].name) =>
           KeptApart(cs, m + 1)
  BY <1>7, HalfwayOn
<1>9. \A k \in Waiting(cs, m + 1) : Done(c).name # cs[k].old[1].name
  <2>1. \A e \in Besides(cs, m) : e.name # c.old[1].name
    BY <1>4, <1>8
  <2>2. \A k \in Waiting(cs, m + 1) : cs[k].old[1] \in Besides(cs, m)
    BY DEF Besides
  <2>3. QED
    BY <1>6, <2>1, <2>2
<1>10. QED
  BY <1>4, <1>6, <1>8, <1>9

(* Where a save is. *)
At(d, left, m) == left = Rest(d, m) /\ Stands(d.old, Halfway(d.columns, m)) /\ KeptApart(d.columns, m)

LEMMA NextLine ==
  ASSUME NEW d, Drawn(d.old, d.columns), d.old # ChangePart!Unnamed, NEW left,
      NEW l \in 0..Len(d.columns), At(d, left, l)
  PROVE  \E m \in 0..Len(d.columns) : At(d, left, m) /\ (m = Len(d.columns) \/
      ChangePart!Line(d.columns[m + 1]).do # "nothing")
<1>1. PICK cs, N : cs = d.columns /\ N = Len(cs)
  OBVIOUS
<1>2. N \in Nat /\ DOMAIN cs = 1..N
  BY <1>1, DrawnColumns
<1>3. PICK T : T = {n \in Nat : n <= N /\ At(d, left, N - n)}
  OBVIOUS
<1>4. T \in SUBSET Nat /\ T # {}
  <2>1. N - l \in Nat /\ N - l <= N /\ N - (N - l) = l
    BY <1>1, <1>2
  <2>2. N - l \in T
    BY <1>3, <2>1
  <2>3. QED
    BY <1>3, <2>2
<1>5. PICK n \in T : \A k \in T : n <= k
  BY <1>4, Smallest
<1>6. PICK m \in 0..N : m = N - n /\ At(d, left, m)
  <2>1. n \in Nat /\ n <= N /\ At(d, left, N - n)
    BY <1>3
  <2>2. N - n \in 0..N
    BY <1>2, <2>1
  <2>3. QED
    BY <2>1, <2>2
<1>7. ASSUME m # N, ChangePart!Line(cs[m + 1]).do = "nothing" PROVE FALSE
  <2>1. m \in 0..(N - 1) /\ m + 1 \in 1..N
    BY <1>2, <1>7
  <2>2. cs[m + 1].old # ChangePart!None \/ cs[m + 1].new # ChangePart!None
    BY <1>1, <1>2, <2>1, DrawnColumns
  <2>3. Kept(cs[m + 1])
    BY <1>7, <2>2, LineKinds
  <2>4. Halfway(cs, m + 1) = Halfway(cs, m) /\ KeptApart(cs, m + 1)
    BY <1>1, <1>6, <2>1, <2>3, HalfwayPast DEF At
  <2>5. Rest(d, m) = Rest(d, m + 1)
    BY <1>1, <1>7, <2>1, RestOf
  <2>6. At(d, left, m + 1)
    BY <1>1, <1>6, <2>4, <2>5 DEF At
  <2>7. n - 1 \in Nat /\ n - 1 <= N /\ N - (n - 1) = m + 1 /\ ~(n <= n - 1)
    BY <1>2, <1>3, <1>6, <2>1
  <2>8. n - 1 \in T
    BY <1>3, <2>6, <2>7
  <2>9. QED
    BY <1>5, <2>7, <2>8
<1>8. QED
  BY <1>1, <1>6, <1>7
-----------------------------------------------------------------------------
(* The statement of a column is executed. *)
LEMMA LineDone ==
  ASSUME Tabled, NEW t, NEW old, NEW cs, Drawn(old, cs), NEW m \in 0..(Len(cs) - 1), NEW c, c = cs[m + 1],
      NEW x,
         Dropped(c, x) \/ Added(c, x) \/ Renamed(c, x), Stands(t, Halfway(cs, m)), KeptApart(cs, m),
         ChangePart!Legal(t, x), ChangePart!Execute(t, x)
  PROVE  Stands(t, Halfway(cs, m + 1))' /\ KeptApart(cs, m + 1)
<1>1. DOMAIN cs = 1..Len(cs) /\ Len(cs) \in Nat
  BY DrawnColumns
<1>2. m + 1 \in DOMAIN cs
  BY <1>1
<1>3. /\ c.old # ChangePart!None => c.old[1] \in ColumnT
      /\ c.new # ChangePart!None => c.new[1] \in ColumnT
      /\ c.old # ChangePart!None /\ c.new # ChangePart!None => c.old[1].has = c.new[1].has
  BY <1>2, DrawnColumns
<1>4. PICK B : B = Besides(cs, m)
  OBVIOUS
<1>5. /\ Halfway(cs, m) = B \cup (IF c.old = ChangePart!None THEN {} ELSE {c.old[1]})
      /\ Halfway(cs, m + 1) = B \cup (IF c.new = ChangePart!None THEN {} ELSE {Done(c)})
      /\ c.old # ChangePart!None => \A e \in B : e.name # c.old[1].name
      /\ (c.new = ChangePart!None \/ \A k \in Waiting(cs, m + 1) : Done(c).name # cs[k].old[1].name) =>
           KeptApart(cs, m + 1)
  <2>1. /\ Halfway(cs, m) = Besides(cs, m) \cup (IF c.old = ChangePart!None THEN {} ELSE {c.old[1]})
        /\ Halfway(cs, m + 1) = Besides(cs, m) \cup (IF c.new = ChangePart!None THEN {} ELSE {Done(c)})
        /\ c.old # ChangePart!None => \A e \in Besides(cs, m) : e.name # c.old[1].name
        /\ (c.new = ChangePart!None \/ \A k \in Waiting(cs, m + 1) : Done(c).name # cs[k].old[1].name) =>
             KeptApart(cs, m + 1)
    BY HalfwayOn
  <2>2. QED
    BY <1>4, <2>1
<1>6. \A k \in Waiting(cs, m + 1) : cs[k].old[1] \in B
  BY <1>4 DEF Besides
<1>7. PICK R : R = ChangePart!Range(change_tables[t].columns) /\ R = Halfway(cs, m)
  BY DEF Stands
<1>8. PICK G : G = ChangePart!Range(change_tables'[t].columns)
  OBVIOUS
<1>9. SUFFICES t \in DOMAIN change_tables' /\ G = Halfway(cs, m + 1) /\ KeptApart(cs, m + 1)
  BY <1>8 DEF Stands
<1>10. CASE Dropped(c, x)
  <2>1. PICK n : n = c.old[1].name
    OBVIOUS
  <2>2. x = [do |-> "drop", column |-> n] /\ c.new = ChangePart!None /\ c.old # ChangePart!None
    BY <1>10, <2>1 DEF Dropped
  <2>3. t \in DOMAIN change_tables' /\ \E e \in R : e.name = n /\ G = R \ {e}
    <3>1. /\ t \in DOMAIN change_tables /\ DOMAIN change_tables' = DOMAIN change_tables
          /\ \E e \in ChangePart!Range(change_tables[t].columns) : e.name = n /\
               ChangePart!Range(change_tables'[t].columns) = ChangePart!Range(change_tables[t].columns) \ {e}
      BY <2>2, DropDone
    <3>2. QED
      BY <1>7, <1>8, <3>1
  <2>4. R = B \cup {c.old[1]} /\ \A e \in B : e.name # n
    BY <1>5, <1>7, <2>1, <2>2
  <2>5. G = B
    BY <2>1, <2>3, <2>4
  <2>6. Halfway(cs, m + 1) = B /\ KeptApart(cs, m + 1)
    BY <1>5, <2>2
  <2>7. QED
    BY <2>3, <2>5, <2>6
<1>11. CASE Added(c, x)
  <2>1. PICK e \in ColumnT : e = ChangePart!Written(c.new[1])
    BY <1>3, <1>11, WrittenColumn DEF Added
  <2>2. x = [do |-> "add", column |-> e] /\ c.new # ChangePart!None /\ c.old = ChangePart!None
    BY <1>11, <2>1 DEF Added
  <2>3. t \in DOMAIN change_tables' /\ (\A b \in R : b.name # e.name) /\ G = R \cup {e}
    BY <1>7, <1>8, <2>2, AddDone
  <2>4. R = B /\ Done(c) = e
    BY <1>5, <1>7, <2>1, <2>2 DEF Done
  <2>5. G = Halfway(cs, m + 1)
    BY <1>5, <2>2, <2>3, <2>4
  <2>6. KeptApart(cs, m + 1)
    BY <1>5, <1>6, <2>3, <2>4
  <2>7. QED
    BY <2>3, <2>5, <2>6
<1>12. CASE Renamed(c, x)
  <2>1. PICK n : n = c.old[1].name
    OBVIOUS
  <2>2. PICK o \in ColumnT : o = c.old[1] /\ o.name = n
    BY <1>3, <1>12, <2>1 DEF Renamed
  <2>3. PICK e \in ColumnT : e = c.new[1] /\ e.has = o.has /\ c.new # ChangePart!None /\
            c.old # ChangePart!None
    BY <1>3, <1>12, <2>2 DEF Renamed
  <2>4. PICK to \in ColumnNames : to = e.name
    BY ColumnTyped
  <2>5. x = [do |-> "rename", from |-> n, to |-> to]
    BY <1>12, <2>1, <2>3, <2>4 DEF Renamed
  <2>6. /\ t \in DOMAIN change_tables' /\ \A b \in R : b.name # to
        /\ \E b \in R : b.name = n /\ G = (R \ {b}) \cup {[name |-> to, has |-> b.has]}
    <3>1. t \in DOMAIN change_tables /\ DOMAIN change_tables' = DOMAIN change_tables /\ RenamedColumn(t,
              n, to)
      BY <2>5, RenameDone
    <3>2. QED
      BY <1>7, <1>8, <3>1 DEF RenamedColumn
  <2>7. R = B \cup {o} /\ \A b \in B : b.name # n
    BY <1>5, <1>7, <2>1, <2>2, <2>3
  <2>8. G = B \cup {[name |-> to, has |-> o.has]}
    BY <2>2, <2>6, <2>7
  <2>9. [name |-> to, has |-> o.has] = e
    <3>1. o.has \in SUBSET ChangePart!Features
      BY ColumnTyped
    <3>2. /\ [name |-> to, has |-> o.has] \in ColumnT
          /\ [name |-> to, has |-> o.has].name = to /\ [name |-> to, has |-> o.has].has = o.has
      BY <3>1, ColumnMade
    <3>3. QED
      BY <2>3, <2>4, <3>2, SameColumn
  <2>10. Done(c) = e
    BY <2>3 DEF Done
  <2>11. G = Halfway(cs, m + 1)
    BY <1>5, <2>3, <2>8, <2>9, <2>10
  <2>12. KeptApart(cs, m + 1)
    BY <1>5, <1>6, <2>4, <2>6, <2>7, <2>10
  <2>13. QED
    BY <2>6, <2>11, <2>12
<1>13. QED
  BY <1>10, <1>11, <1>12

(* A statement of a save that is alone is executed. *)
LEMMA Progressed ==
  ASSUME Tabled, NEW s, OfDraft(s), Progress(s), s.left # <<>>, s.draft.new # ChangePart!Unnamed, NEW x,
      x = Head(s.left),
         ChangePart!Legal(s.draft.old, x), ChangePart!Execute(s.draft.old, x), NEW r, r.draft = s.draft,
         r.left = Tail(s.left)
  PROVE  Progress(r)'
<1>1. PICK d : d = s.draft /\ Drawn(d.old, d.columns) /\ d.new # ChangePart!Unnamed
  BY DEF OfDraft
<1>2. CASE d.old = ChangePart!Unnamed
  <2>1. s.left = ChangePart!GenerateSqlSchemaChange(d)
    BY <1>1, <1>2 DEF Progress
  <2>2. PICK c : c = Creation(d)
    OBVIOUS
  <2>3. s.left = <<c>> /\ c.do = "create" /\ c.name = d.new /\ c.columns = Created(d)
    BY <1>2, <2>1, <2>2, CreationOf
  <2>4. x = c /\ r.left = <<>>
    BY <2>3
  <2>5. c.columns \in Seq(ColumnT)
    BY <1>1, <1>2, <2>3, CreatedColumns
  <2>6. c.name \in DOMAIN change_tables' /\ change_tables'[c.name].columns = c.columns
    BY <1>1, <2>3, <2>4, <2>5, CreateDone
  <2>7. QED
    BY <1>1, <1>2, <2>3, <2>4, <2>6 DEF Progress
<1>3. CASE d.old # ChangePart!Unnamed
  <2>1. PICK cs, N : cs = d.columns /\ N = Len(cs)
    OBVIOUS
  <2>2. N \in Nat
    BY <1>1, <2>1, DrawnColumns
  <2>3. \E l \in 0..N : At(d, s.left, l)
    BY <1>1, <1>3, <2>1 DEF Progress, At
  <2>4. PICK m \in 0..N : At(d, s.left, m) /\ (m = N \/ ChangePart!Line(cs[m + 1]).do # "nothing")
    BY <1>1, <1>3, <2>1, <2>3, NextLine
  <2>5. /\ Rest(d, N) = After(d)
        /\ \A l \in 0..N : Rest(d, l) \in Seq(Statements(d))
        /\ \A l \in 0..(N - 1) : Rest(d, l) = IF ChangePart!Line(cs[l + 1]).do = "nothing" THEN Rest(d, l + 1)
                                              ELSE <<ChangePart!Line(cs[l + 1])>> \o Rest(d, l + 1)
    BY <1>1, <1>3, <2>1, RestOf
  <2>6. CASE m = N
    <3>1. PICK to : to = d.new /\ to # ChangePart!Unnamed
      BY <1>1
    <3>2. PICK e : e = [do |-> "title", to |-> to]
      OBVIOUS
    <3>3. s.left = After(d)
      BY <2>4, <2>5, <2>6 DEF At
    <3>4. s.left = <<e>>
      BY <3>1, <3>2, <3>3 DEF After
    <3>5. x = e /\ r.left = <<>>
      BY <3>4
    <3>6. d.old \in DOMAIN change_tables /\ to \in DOMAIN change_tables' /\
              change_tables'[to] = change_tables[d.old]
      BY <1>1, <3>1, <3>2, <3>5, TitleDone
    <3>7. ChangePart!Range(change_tables[d.old].columns) = Halfway(cs, N)
      BY <2>1, <2>4, <2>6 DEF At, Stands
    <3>8. Stands(d.new, Halfway(cs, N))'
      BY <3>1, <3>6, <3>7 DEF Stands
    <3>9. QED
      BY <1>1, <1>3, <2>1, <3>5, <3>8 DEF Progress
  <2>7. CASE m # N
    <3>1. m \in 0..(N - 1) /\ m + 1 \in 0..N /\ m + 1 \in 1..N
      BY <2>2, <2>7
    <3>2. PICK c : c = cs[m + 1]
      OBVIOUS
    <3>3. PICK line : line = ChangePart!Line(c) /\ line.do # "nothing"
      BY <2>4, <2>7, <3>2
    <3>4. s.left = <<line>> \o Rest(d, m + 1)
      BY <2>4, <2>5, <3>1, <3>2, <3>3 DEF At
    <3>5. PICK U : U = Statements(d) \cup {line}
      OBVIOUS
    <3>6. line \in U /\ Rest(d, m + 1) \in Seq(U)
      BY <2>5, <3>1, <3>5
    <3>7. Head(<<line>> \o Rest(d, m + 1)) = line /\ Tail(<<line>> \o Rest(d, m + 1)) = Rest(d, m + 1)
      BY <3>6, Begun
    <3>8. x = line /\ r.left = Rest(d, m + 1)
      BY <3>4, <3>7
    <3>9. c.old # ChangePart!None \/ c.new # ChangePart!None
      BY <1>1, <2>1, <3>1, <3>2, DrawnColumns
    <3>10. Dropped(c, x) \/ Added(c, x) \/ Renamed(c, x)
      BY <3>3, <3>8, <3>9, LineKinds
    <3>11. Stands(d.old, Halfway(cs, m)) /\ KeptApart(cs, m)
      BY <2>1, <2>4 DEF At
    <3>12. Stands(d.old, Halfway(cs, m + 1))' /\ KeptApart(cs, m + 1)
      <4>1. PICK t : t = d.old
        OBVIOUS
      <4>2. ChangePart!Legal(t, x) /\ ChangePart!Execute(t, x) /\ Stands(t, Halfway(cs, m)) /\ Drawn(t,
                cs) /\ m \in 0..(Len(cs) - 1)
        BY <1>1, <2>1, <3>1, <3>11, <4>1
      <4>3. Stands(t, Halfway(cs, m + 1))' /\ KeptApart(cs, m + 1)
        BY <3>2, <3>10, <3>11, <4>2, LineDone
      <4>4. QED
        BY <4>1, <4>3
    <3>13. QED
      BY <1>1, <1>3, <2>1, <3>1, <3>8, <3>12 DEF Progress
  <2>8. QED
    BY <2>6, <2>7
<1>4. QED
  BY <1>2, <1>3

(* One save goes on. *)
LEMMA SaveReplaced ==
  ASSUME Orderly, NEW i \in DOMAIN change_sent, NEW r, change_sent' = [change_sent EXCEPT ![i] = r],
      r.draft = change_sent[i].draft, OfDraft(r),
         r.apart = TRUE => Alone(r)', Tabled', UNCHANGED <<change_draft, change_isSaving,
         change_fetches>>, (Synced \/ Coming)'
  PROVE  Orderly'
<1>1. PICK S : change_sent \in Seq(S)
  BY DEF Orderly, Lists, IsList
<1>2. DOMAIN change_sent' = DOMAIN change_sent /\ change_sent'[i] = r /\
          \A j \in DOMAIN change_sent : j # i => change_sent'[j] = change_sent[j]
  BY <1>1
<1>3. IsList(change_sent')
  <2>1. change_sent \in Seq(S \cup {r}) /\ r \in S \cup {r}
    BY <1>1
  <2>2. [change_sent EXCEPT ![i] = r] \in Seq(S \cup {r})
    BY <2>1
  <2>3. QED
    BY <2>2 DEF IsList
<1>4. Lists' /\ change_isSaving' \in BOOLEAN /\ Drawn(change_draft.old, change_draft.columns)'
  BY <1>3 DEF Orderly, Lists, IsList
<1>5. \A j \in DOMAIN change_sent' : change_sent'[j].draft = change_sent[j].draft /\ j \in DOMAIN change_sent
  BY <1>2
<1>6. OneDraft'
  <2>1. OneDraft
    BY DEF Orderly
  <2>2. QED
    BY <1>5, <2>1, StillOneDraft
<1>7. Busy
  BY <1>1 DEF Busy
<1>8. SameDraft'
  <2>1. \A j \in DOMAIN change_sent : Plain(change_draft) \/ Plain(change_sent[j].draft) \/
            change_sent[j].draft = change_draft
    BY <1>7 DEF Orderly, SameDraft
  <2>2. \A j \in DOMAIN change_sent' : Plain(change_draft) \/ Plain(change_sent'[j].draft) \/
            change_sent'[j].draft = change_draft
    BY <1>5, <2>1
  <2>3. QED
    BY <2>2 DEF SameDraft
<1>9. Named'
  BY <1>7 DEF Orderly, Named
<1>10. (\A j \in DOMAIN change_sent : OfDraft(change_sent[j]) /\ (change_sent[j].apart = TRUE =>
           Alone(change_sent[j])))'
  <2>1. ASSUME NEW j \in DOMAIN change_sent PROVE (OfDraft(change_sent[j]) /\
            (change_sent[j].apart = TRUE => Alone(change_sent[j])))'
    <3>1. CASE j = i
      <4>1. r = change_sent'[j]
        BY <1>2, <3>1
      <4>2. QED
        BY <4>1
    <3>2. CASE j # i /\ change_sent[j].apart # TRUE
      <4>1. PICK s : s = change_sent[j] /\ s = change_sent'[j]
        BY <1>2, <3>2
      <4>2. OfDraft(s) /\ s.apart # TRUE
        BY <3>2, <4>1 DEF Orderly
      <4>3. QED
        BY <4>1, <4>2
    <3>3. j = i \/ change_sent[j].apart # TRUE
      BY ApartIsOnly
    <3>4. QED
      BY <3>1, <3>2, <3>3
  <2>2. QED
    BY <1>2, <2>1
<1>11. QED
  BY <1>4, <1>6, <1>8, <1>9, <1>10 DEF Orderly
-----------------------------------------------------------------------------
(* Nothing of a draft that changes nothing is executed. *)
LEMMA NothingExecuted ==
  ASSUME NEW s, OfDraft(s), s.left # <<>>, ChangePart!Legal(s.draft.old, Head(s.left))
  PROVE  ~Plain(s.draft)
<1>1. SUFFICES ASSUME Plain(s.draft) PROVE FALSE
  OBVIOUS
<1>2. PICK d : d = s.draft /\ Drawn(d.old, d.columns) /\ Plain(d)
  BY <1>1 DEF OfDraft
<1>3. d.old = ChangePart!Unnamed /\ s.left = ChangePart!GenerateSqlSchemaChange(d)
  BY <1>1, <1>2 DEF OfDraft
<1>4. PICK c : c = Creation(d)
  OBVIOUS
<1>5. s.left = <<c>> /\ c.do = "create" /\ c.columns = Created(d)
  BY <1>3, <1>4, CreationOf
<1>6. Head(s.left) = c
  BY <1>5
<1>7. c.columns # <<>>
  BY <1>5, <1>6 DEF ChangePart!Legal
<1>8. PICK k : k \in DOMAIN d.columns
  <2>1. Created(d) \in Seq(ColumnT) /\ DOMAIN Created(d) = DOMAIN d.columns
    BY <1>2, <1>3, CreatedColumns
  <2>2. 1 \in DOMAIN Created(d)
    BY <1>5, <1>7, <2>1
  <2>3. QED
    BY <2>1, <2>2
<1>9. d.columns[k].old = ChangePart!None /\ d.columns[k].new # ChangePart!None
  BY <1>2, <1>3, <1>8, DrawnColumns
<1>10. QED
  BY <1>2, <1>8, <1>9 DEF Plain

(* A statement is executed, *)
LEMMA StatementExecuted ==
  ASSUME Orderly, NEW i \in DOMAIN change_sent, change_sent[i].left # <<>>, change_sent[i].failed = FALSE,
         ChangePart!Legal(change_sent[i].draft.old, Head(change_sent[i].left)),
         ChangePart!Execute(change_sent[i].draft.old, Head(change_sent[i].left)),
         change_sent' = [change_sent EXCEPT ![i].left = Tail(@)], UNCHANGED <<change_draft,
         change_isSaving, change_fetches>>
  PROVE  Orderly'
<1>1. PICK s : s = change_sent[i] /\ OfDraft(s) /\ (s.apart = TRUE => Alone(s))
  BY DEF Orderly
<1>2. PICK d : d = s.draft /\ Drawn(d.old, d.columns)
  BY <1>1 DEF OfDraft
<1>3. PICK x : x = Head(s.left)
  OBVIOUS
<1>4. s.left # <<>> /\ s.failed = FALSE /\ ChangePart!Legal(d.old, x) /\ ChangePart!Execute(d.old, x)
  BY <1>1, <1>2, <1>3
<1>5. ~Plain(d) /\ d.new # ChangePart!Unnamed
  <2>1. ~Plain(s.draft)
    BY <1>1, <1>2, <1>3, <1>4, NothingExecuted
  <2>2. QED
    BY <1>1, <1>2, <2>1 DEF OfDraft
<1>6. PICK U : U = Statements(d) /\ s.left \in Seq(U)
  BY <1>1, <1>2 DEF OfDraft
<1>7. x \in U /\ Tail(s.left) \in Seq(U) /\ Len(Tail(s.left)) = Len(s.left) - 1 /\ Len(s.left) \in Nat
  BY <1>3, <1>4, <1>6
<1>8. Tabled'
  <2>1. Tabled
    BY DEF Orderly
  <2>2. QED
    BY <1>2, <1>4, <1>5, <1>6, <1>7, <2>1, TablesStay
<1>9. PICK r : r = [s EXCEPT !.left = Tail(s.left)]
  OBVIOUS
<1>10. WholeSave(r) /\ r.draft = d /\ r.left = Tail(s.left) /\ r.failed = FALSE /\ r.apart = s.apart /\
           r.gone = s.gone
  <2>1. WholeSave(s)
    BY <1>1 DEF OfDraft
  <2>2. r = [draft |-> s.draft, left |-> Tail(s.left), failed |-> s.failed, apart |-> s.apart, gone |-> s.gone]
    BY <1>9, <2>1, SaveExcept
  <2>3. QED
    BY <1>2, <1>4, <2>2, SaveMade
<1>11. OfDraft(r)
  <2>1. r.left \in Seq(Statements(r.draft))
    BY <1>6, <1>7, <1>10
  <2>2. QED
    BY <1>1, <1>2, <1>5, <1>10, <2>1 DEF OfDraft
<1>12. change_sent' = [change_sent EXCEPT ![i] = r]
  BY <1>1, <1>9
<1>13. Refreshes(r)
  BY <1>1, <1>2, <1>5, <1>10 DEF Refreshes, OfDraft
<1>14. DOMAIN change_sent' = DOMAIN change_sent /\ change_sent'[i] = r
  BY <1>12
<1>15. Coming'
  <2>1. \E j \in DOMAIN change_sent' : Refreshes(change_sent'[j])
    BY <1>13, <1>14
  <2>2. QED
    BY <2>1 DEF Coming, Refreshes
<1>16. ASSUME r.apart = TRUE PROVE Alone(r)'
  <2>1. /\ Len(change_sent) = 1 /\ change_fetches = <<>> /\ d = change_draft /\ Progress(s)
        /\ Len(s.left) <= Len(ChangePart!GenerateSqlSchemaChange(d))
    BY <1>1, <1>2, <1>10, <1>16 DEF Alone
  <2>2. Len(change_sent') = 1
    <3>1. PICK S : change_sent \in Seq(S)
      BY DEF Orderly, Lists, IsList
    <3>2. change_sent \in Seq(S \cup {r}) /\ r \in S \cup {r}
      BY <3>1
    <3>3. Len([change_sent EXCEPT ![i] = r]) = Len(change_sent)
      BY <3>2
    <3>4. QED
      BY <1>12, <2>1, <3>3
  <2>3. Progress(r)'
    <3>1. s.draft.new # ChangePart!Unnamed /\ ChangePart!Legal(s.draft.old, x) /\
              ChangePart!Execute(s.draft.old, x) /\ r.draft = s.draft
      BY <1>2, <1>4, <1>5, <1>10
    <3>2. Tabled
      BY DEF Orderly
    <3>3. QED
      BY <1>1, <1>3, <1>4, <1>10, <2>1, <3>1, <3>2, Progressed
  <2>4. Len(ChangePart!GenerateSqlSchemaChange(d)) \in Nat
    BY <1>2, Generated
  <2>5. Len(r.left) <= Len(ChangePart!GenerateSqlSchemaChange(r.draft)) /\
            Len(r.left) # Len(ChangePart!GenerateSqlSchemaChange(r.draft))
    BY <1>7, <1>10, <2>1, <2>4
  <2>6. change_fetches' = <<>> /\ r.draft = change_draft'
    BY <1>10, <2>1
  <2>7. QED
    BY <2>2, <2>3, <2>5, <2>6 DEF Alone
<1>17. r.draft = change_sent[i].draft
  BY <1>1, <1>2, <1>10
<1>18. QED
  BY <1>8, <1>11, <1>12, <1>15, <1>16, <1>17, SaveReplaced

(* or the first one is refused. *)
LEMMA StatementRefused ==
  ASSUME Orderly, NEW i \in DOMAIN change_sent, change_sent' = [change_sent EXCEPT ![i].failed = TRUE],
         change_sent[i].apart = TRUE,
         ~(Len(change_sent[i].left) < Len(ChangePart!GenerateSqlSchemaChange(change_sent[i].draft))),
         UNCHANGED <<change_tables, change_draft, change_isSaving, change_fetches>>
  PROVE  Orderly'
<1>1. PICK s : s = change_sent[i] /\ OfDraft(s) /\ Alone(s)
  BY DEF Orderly
<1>2. PICK d : d = s.draft /\ Drawn(d.old, d.columns) /\ d = change_draft
  BY <1>1 DEF OfDraft, Alone
<1>3. Synced
  <2>1. Len(s.left) <= Len(ChangePart!GenerateSqlSchemaChange(d)) /\
            ~(Len(s.left) < Len(ChangePart!GenerateSqlSchemaChange(d)))
    BY <1>1, <1>2 DEF Alone
  <2>2. Len(s.left) \in Nat /\ Len(ChangePart!GenerateSqlSchemaChange(d)) \in Nat
    BY <1>1, <1>2, Generated DEF OfDraft
  <2>3. Len(s.left) = Len(ChangePart!GenerateSqlSchemaChange(d))
    BY <2>1, <2>2
  <2>4. QED
    BY <1>1, <1>2, <2>3 DEF Alone
<1>4. Synced'
  BY <1>3, SameSynced
<1>5. PICK r : r = [s EXCEPT !.failed = TRUE]
  OBVIOUS
<1>6. WholeSave(r) /\ r.draft = d /\ r.left = s.left /\ r.failed = TRUE /\ r.apart = s.apart /\
          r.gone = s.gone
  <2>1. WholeSave(s)
    BY <1>1 DEF OfDraft
  <2>2. r = [draft |-> s.draft, left |-> s.left, failed |-> TRUE, apart |-> s.apart, gone |-> s.gone]
    BY <1>5, <2>1, SaveExcept
  <2>3. WholeSave(r) /\ r.draft = s.draft /\ r.left = s.left /\ r.failed = TRUE /\ r.apart = s.apart /\
            r.gone = s.gone
    BY <2>2, SaveMade
  <2>4. QED
    BY <1>2, <2>3
<1>7. OfDraft(r)
  BY <1>1, <1>2, <1>6 DEF OfDraft
<1>8. change_sent' = [change_sent EXCEPT ![i] = r]
  BY <1>1, <1>5
<1>9. Alone(r)'
  <2>1. Len(change_sent) = 1 /\ change_fetches = <<>> /\ Progress(s) /\
            Len(s.left) <= Len(ChangePart!GenerateSqlSchemaChange(d))
    BY <1>1, <1>2 DEF Alone
  <2>2. Len(change_sent') = 1
    <3>1. PICK S : change_sent \in Seq(S)
      BY DEF Orderly, Lists, IsList
    <3>2. change_sent \in Seq(S \cup {r}) /\ r \in S \cup {r}
      BY <3>1
    <3>3. Len([change_sent EXCEPT ![i] = r]) = Len(change_sent)
      BY <3>2
    <3>4. QED
      BY <1>8, <2>1, <3>3
  <2>3. Progress(r)
    BY <1>2, <1>6, <2>1 DEF Progress
  <2>4. Progress(r)'
    BY <2>3, SameProgress
  <2>5. change_fetches' = <<>> /\ r.draft = change_draft'
    BY <1>2, <1>6, <2>1
  <2>6. Len(r.left) <= Len(ChangePart!GenerateSqlSchemaChange(r.draft))
    BY <1>6, <2>1
  <2>7. QED
    BY <1>4, <2>2, <2>4, <2>5, <2>6 DEF Alone
<1>10. Tabled' /\ r.draft = change_sent[i].draft
  BY <1>1, <1>2, <1>6 DEF Orderly, Tabled
<1>11. QED
  BY <1>4, <1>7, <1>8, <1>9, <1>10, SaveReplaced

LEMMA StatementKeeps == ASSUME Orderly, change_torn \in BOOLEAN, NEW i \in DOMAIN change_sent,
ChangePart!Statement(i) PROVE change_torn' = TRUE \/ Orderly'
<1>1. PICK s : s = change_sent[i] /\ OfDraft(s)
  BY DEF Orderly
<1>2. s.left # <<>> /\ s.failed = FALSE /\ s.apart \in BOOLEAN
  BY <1>1 DEF OfDraft, ChangePart!Statement
<1>3. UNCHANGED <<change_draft, change_isSaving, change_fetches>>
  BY DEF ChangePart!Statement
<1>4. CASE /\ ChangePart!Legal(s.draft.old, Head(s.left)) /\ ChangePart!Execute(s.draft.old, Head(s.left))
           /\ change_sent' = [change_sent EXCEPT ![i].left = Tail(@)]
  BY <1>1, <1>2, <1>3, <1>4, StatementExecuted
<1>5. CASE change_torn' = TRUE
  BY <1>5
<1>6. CASE /\ change_sent' = [change_sent EXCEPT ![i].failed = TRUE] /\ UNCHANGED change_tables
           /\ change_torn' = (change_torn \/
                Len(s.left) < Len(ChangePart!GenerateSqlSchemaChange(s.draft)) \/ ~s.apart)
  <2>1. SUFFICES ASSUME change_torn' # TRUE PROVE Orderly'
    OBVIOUS
  <2>2. ~(Len(s.left) < Len(ChangePart!GenerateSqlSchemaChange(s.draft))) /\ s.apart = TRUE
    BY <1>2, <1>6, <2>1
  <2>3. QED
    BY <1>1, <1>3, <1>6, <2>2, StatementRefused
<1>7. QED
  BY <1>1, <1>4, <1>5, <1>6 DEF ChangePart!Statement

-----------------------------------------------------------------------------
LEMMA ChangeStarts == ASSUME ChangePart!Init PROVE ChangeInv
<1>1. /\ change_tables = [t \in {SavedTable} |-> [columns |-> SavedColumns, constraints |-> <<>>]]
      /\ change_draft = ChangePart!Empty /\ change_isSaving = FALSE /\ change_sent = <<>> /\
           change_torn = FALSE /\ change_stale = FALSE
      /\ change_fetches = <<>> \/ change_fetches = <<change_tab>>
  BY DEF ChangePart!Init
<1>2. IsList(change_sent)
  <2>1. <<>> \in Seq({})
    OBVIOUS
  <2>2. QED
    BY <1>1, <2>1 DEF IsList
<1>3. IsList(change_fetches)
  <2>1. <<>> \in Seq({}) /\ <<change_tab>> \in Seq({change_tab})
    OBVIOUS
  <2>2. QED
    BY <1>1, <2>1 DEF IsList
<1>4. Whole(change_draft) /\ Plain(change_draft) /\ change_draft.old = ChangePart!Unnamed /\
          Drawn(change_draft.old, change_draft.columns)
  BY <1>1, EmptyDraft
<1>5. Tabled
  <2>1. PICK r : r = [columns |-> SavedColumns, constraints |-> <<>>]
    OBVIOUS
  <2>2. r.columns = SavedColumns
    BY <2>1
  <2>3. DOMAIN change_tables = {SavedTable} /\ change_tables[SavedTable] = r
    BY <1>1, <2>1
  <2>4. QED
    BY <2>2, <2>3, ChangeAssumption DEF Tabled, Stored, ColumnT
<1>6. DOMAIN change_sent = {}
  BY <1>1
<1>7. OneDraft /\ SameDraft /\ Named /\ Synced
  BY <1>4, <1>6 DEF OneDraft, SameDraft, Named, Synced
<1>8. QED
  BY <1>1, <1>2, <1>3, <1>4, <1>5, <1>6, <1>7 DEF ChangeInv, Orderly, Lists

LEMMA ChangeGoesOn == ASSUME ChangeInv, ChangePart!Next \/ UNCHANGED change_vars PROVE ChangeInv'
<1>1. /\ change_torn' \in BOOLEAN /\ change_stale' \in BOOLEAN
      /\ change_torn = TRUE => change_torn' = TRUE
      /\ change_stale = TRUE => change_stale' = TRUE
  BY RecordsStay DEF ChangeInv
<1>2. SUFFICES ASSUME Orderly PROVE change_torn' = TRUE \/ change_stale' = TRUE \/ Orderly'
  BY <1>1 DEF ChangeInv
<1>3. CASE \E k \in DOMAIN change_draft.columns :
             \/ ChangePart!RemoveColumn(k)
             \/ \E n \in NewNames : ChangePart!Rename(k, n)
             \/ \E f \in ChangePart!Features : ChangePart!Put(k, f) \/ ChangePart!Take(k, f)
             \/ \E j \in DOMAIN change_draft.columns : ChangePart!HandleDragEnd(k, j)
  BY <1>2, <1>3, RemoveColumnKeeps, RenameKeeps, FeatureKeeps, HandleDragEndKeeps
<1>4. CASE ChangePart!OnAddColumn \/ ChangePart!OnDiscard \/ \E t \in NewTitles : ChangePart!RenameTable(t)
  BY <1>2, <1>4, OnAddColumnKeeps, OnDiscardKeeps, RenameTableKeeps
<1>5. CASE \/ \E kind \in ChangePart!Kinds : ChangePart!NewConstraint(kind)
           \/ \E k \in DOMAIN change_draft.constraints :
                ChangePart!RemoveConstraint(k) \/
                \E n \in ChangePart!ColumnList : ChangePart!OnConstraintChange(k, <<n>>)
  BY <1>2, <1>5, ConstraintsKeep
<1>6. CASE \E t \in DOMAIN change_tables : ChangePart!Elsewhere(t)
  BY <1>6 DEF ChangePart!Elsewhere
<1>7. CASE ChangePart!OnSaveToggle \/ ChangePart!Cancel \/ ChangePart!OnSave
  BY <1>2, <1>7, OnSaveToggleKeeps, CancelSaveKeeps, OnSaveKeeps
<1>8. CASE \E i \in DOMAIN change_sent : ChangePart!Statement(i) \/ ChangePart!Complete(i) \/
          ChangePart!Fail(i)
  BY <1>2, <1>8, StatementKeeps, CompleteKeeps, FailKeeps DEF ChangeInv
<1>9. CASE \E i \in DOMAIN change_fetches : ChangePart!FetchAnswer(i)
  BY <1>2, <1>9, FetchAnswerKeeps
<1>10. CASE UNCHANGED change_vars
  <2>1. UNCHANGED <<change_tables, change_draft, change_isSaving, change_fetches, change_sent,
            change_torn, change_stale>>
    BY <1>10 DEF change_vars
  <2>2. Lists' /\ Tabled' /\ OneDraft' /\ Drawn(change_draft.old, change_draft.columns)' /\
            change_isSaving' \in BOOLEAN
    BY <1>2, <2>1 DEF Orderly, Lists, Tabled, OneDraft
  <2>3. SameDraft' /\ Named' /\ (Synced \/ Coming)'
    BY <1>2, <2>1, SameSynced DEF Orderly, SameDraft, Busy, Named, Coming
  <2>4. ASSUME NEW i \in DOMAIN change_sent PROVE (OfDraft(change_sent[i]) /\
            (change_sent[i].apart = TRUE => Alone(change_sent[i])))'
    <3>1. PICK s : s = change_sent[i] /\ OfDraft(s) /\ (s.apart = TRUE => Alone(s))
      BY <1>2 DEF Orderly
    <3>2. s = change_sent'[i]
      BY <2>1, <3>1
    <3>3. Alone(s) => Alone(s)'
      BY <2>1, SameSynced, SameProgress DEF Alone
    <3>4. QED
      BY <3>1, <3>2, <3>3
  <2>5. QED
    BY <2>1, <2>2, <2>3, <2>4 DEF Orderly
<1>11. QED
  <2>1. ChangePart!Next \/ UNCHANGED change_vars
    OBVIOUS
  <2>2. QED
    BY <1>3, <1>4, <1>5, <1>6, <1>7, <1>8, <1>9, <1>10, <2>1 DEF ChangePart!Next
-----------------------------------------------------------------------------
(* A column that shows nothing that cannot be written is written as it is. *)
LEMMA WrittenAsShown ==
  ASSUME NEW c \in ColumnT, c.has \cap {"empty", "fk"} = {}, "auto" \in c.has => "pk" \in c.has
  PROVE  ChangePart!Written(c) = c
<1>1. PICK h \in SUBSET ChangePart!Features : h = c.has
  BY ColumnTyped
<1>2. ChangePart!GenerateCreateColumn(h) = h
  BY <1>1 DEF ChangePart!GenerateCreateColumn, ChangePart!Features
<1>3. QED
  BY <1>1, <1>2, WrittenColumn, SameColumn

(* What stands when a save is done. *)
Finished(d) == {Done(d.columns[k]) : k \in {j \in DOMAIN d.columns : d.columns[j].new # ChangePart!None}}

LEMMA StandsAtEnd ==
  ASSUME NEW s, OfDraft(s), Progress(s), s.left = <<>>
  PROVE  Stands(s.draft.new, Finished(s.draft))
<1>1. PICK d : d = s.draft /\ Drawn(d.old, d.columns)
  BY DEF OfDraft
<1>2. PICK cs, N : cs = d.columns /\ N = Len(cs)
  OBVIOUS
<1>3. N \in Nat /\ DOMAIN cs = 1..N
  BY <1>1, <1>2, DrawnColumns
<1>4. PICK shown : shown = {Done(cs[k]) : k \in {j \in DOMAIN cs : cs[j].new # ChangePart!None}}
  OBVIOUS
<1>5. Halfway(cs, N) = shown
  <2>1. News(cs, N) = {j \in DOMAIN cs : cs[j].new # ChangePart!None} /\ Waiting(cs, N) = {}
    BY <1>3 DEF News, Waiting
  <2>2. QED
    BY <1>4, <2>1 DEF Halfway
<1>6. ASSUME d.old = ChangePart!Unnamed PROVE Stands(d.new, shown)
  <2>1. PICK c : c = Creation(d)
    OBVIOUS
  <2>2. ChangePart!GenerateSqlSchemaChange(d) = <<c>>
    BY <1>6, <2>1, CreationOf
  <2>3. <<c>> # <<>>
    OBVIOUS
  <2>4. d.new \in DOMAIN change_tables /\ change_tables[d.new].columns = Created(d)
    BY <1>1, <1>6, <2>2, <2>3 DEF Progress
  <2>5. DOMAIN Created(d) = DOMAIN cs /\
            \A k \in DOMAIN cs : Created(d)[k] = ChangePart!Written(cs[k].new[1]) /\
            cs[k].new # ChangePart!None
    BY <1>1, <1>2, <1>6, CreatedColumns
  <2>6. \A k \in DOMAIN cs : Done(cs[k]) = Created(d)[k]
    <3>1. \A k \in DOMAIN cs : cs[k].old = ChangePart!None
      BY <1>1, <1>2, <1>6, DrawnColumns
    <3>2. QED
      BY <2>5, <3>1 DEF Done
  <2>7. ChangePart!Range(Created(d)) = shown
    BY <1>4, <2>5, <2>6 DEF ChangePart!Range
  <2>8. d.new \in DOMAIN change_tables /\ ChangePart!Range(change_tables[d.new].columns) = shown
    BY <2>4, <2>7
  <2>9. QED
    BY <2>8 DEF Stands
<1>7. ASSUME d.old # ChangePart!Unnamed PROVE Stands(d.new, shown)
  <2>1. Stands(d.new, shown)
    <3>1. CASE Stands(d.new, Halfway(cs, N))
      BY <1>5, <3>1
    <3>2. CASE \E l \in 0..N : At(d, s.left, l)
      <4>1. PICK m \in 0..N : At(d, s.left, m) /\ (m = N \/ ChangePart!Line(cs[m + 1]).do # "nothing")
        BY <1>1, <1>2, <1>7, <3>2, NextLine
      <4>2. /\ Rest(d, N) = After(d)
            /\ \A l \in 0..N : Rest(d, l) \in Seq(Statements(d))
            /\ \A l \in 0..(N - 1) : Rest(d,
                 l) = IF ChangePart!Line(cs[l + 1]).do = "nothing" THEN Rest(d, l + 1)
                                                  ELSE <<ChangePart!Line(cs[l + 1])>> \o Rest(d, l + 1)
        BY <1>1, <1>2, <1>7, RestOf
      <4>3. ASSUME m # N PROVE FALSE
        <5>1. m \in 0..(N - 1) /\ m + 1 \in 0..N
          BY <1>3, <4>3
        <5>2. PICK line : line = ChangePart!Line(cs[m + 1]) /\ line.do # "nothing"
          BY <4>1, <4>3
        <5>3. <<>> = <<line>> \o Rest(d, m + 1)
          BY <4>1, <4>2, <5>1, <5>2 DEF At
        <5>4. PICK U : U = Statements(d) \cup {line}
          OBVIOUS
        <5>5. line \in U /\ Rest(d, m + 1) \in Seq(U)
          BY <4>2, <5>1, <5>4
        <5>6. QED
          BY <5>3, <5>5, Begun
      <4>4. After(d) = <<>>
        BY <4>1, <4>2, <4>3 DEF At
      <4>5. d.new = d.old
        BY <4>4 DEF After
      <4>6. QED
        BY <1>2, <1>5, <4>1, <4>3, <4>5 DEF At
    <3>3. QED
      BY <1>1, <1>2, <1>7, <3>1, <3>2 DEF Progress, At
  <2>2. QED
    BY <2>1
<1>8. Stands(d.new, shown)
  BY <1>6, <1>7
<1>9. QED
  BY <1>1, <1>2, <1>4, <1>8 DEF Finished

LEMMA ChangesExecutedAsShown == ASSUME ChangeInv PROVE ChangePart!ExecutedAsShown
<1>1. ASSUME NEW i \in DOMAIN change_sent,
             \A c \in ChangePart!Shown(change_sent[i].draft) : /\ c.has \cap {"empty", "fk"} = {}
                                                               /\ "auto" \in c.has => "pk" \in c.has,
             change_sent[i].left = <<>>, change_sent[i].apart, ~change_torn, ~change_stale
      PROVE  change_sent[i].draft.new \in DOMAIN change_tables /\
          ChangePart!Range(change_tables[change_sent[i].draft.new].columns) = ChangePart!Shown(change_sent[i].draft)
  <2>1. Orderly
    BY <1>1 DEF ChangeInv
  <2>2. PICK s : s = change_sent[i] /\ OfDraft(s)
    BY <2>1 DEF Orderly
  <2>3. s.apart = TRUE
    BY <1>1, <2>2 DEF OfDraft
  <2>4. Progress(s)
    BY <2>1, <2>2, <2>3 DEF Orderly, Alone
  <2>5. PICK d : d = s.draft /\ Drawn(d.old, d.columns)
    BY <2>2 DEF OfDraft
  <2>6. PICK cs : cs = d.columns
    OBVIOUS
  <2>7. d.new \in DOMAIN change_tables
        /\ ChangePart!Range(change_tables[d.new].columns) =
             {Done(cs[k]) : k \in {j \in DOMAIN cs : cs[j].new # ChangePart!None}}
    <3>1. s.left = <<>>
      BY <1>1, <2>2
    <3>2. Stands(s.draft.new, Finished(s.draft))
      BY <2>2, <2>4, <3>1, StandsAtEnd
    <3>3. QED
      BY <2>5, <2>6, <3>2 DEF Stands, Finished
  <2>8. \A c \in ChangePart!Shown(d) : c.has \cap {"empty", "fk"} = {} /\ ("auto" \in c.has => "pk" \in c.has)
    BY <1>1, <2>2, <2>5
  <2>9. \A k \in DOMAIN cs : cs[k].new # ChangePart!None => Done(cs[k]) = cs[k].new[1]
    <3>1. ASSUME NEW k \in DOMAIN cs, cs[k].new # ChangePart!None PROVE Done(cs[k]) = cs[k].new[1]
      <4>1. PICK c \in ColumnT : c = cs[k].new[1]
        BY <2>5, <2>6, <3>1, DrawnColumns
      <4>2. c \in ChangePart!Shown(d)
        BY <2>6, <3>1, <4>1 DEF ChangePart!Shown
      <4>3. ChangePart!Written(c) = c
        BY <2>8, <4>2, WrittenAsShown
      <4>4. QED
        BY <4>1, <4>3 DEF Done
    <3>2. QED
      BY <3>1
  <2>10. ChangePart!Range(change_tables[d.new].columns) = ChangePart!Shown(d)
    BY <2>6, <2>7, <2>9 DEF ChangePart!Shown
  <2>11. QED
    BY <2>2, <2>5, <2>7, <2>10
<1>2. QED
  BY <1>1 DEF ChangePart!ExecutedAsShown

LEMMA ChangesUnchangedIsTrue == ASSUME ChangeInv PROVE ChangePart!UnchangedIsTrue
<1>1. ASSUME change_sent = <<>>, change_fetches = <<>>, ~change_torn, ~change_stale,
          change_draft.old # ChangePart!Unnamed
      PROVE  /\ change_draft.old \in DOMAIN change_tables
             /\ {change_draft.columns[k].old : k \in DOMAIN change_draft.columns} \ {ChangePart!None} =
                  {<<c>> : c \in ChangePart!Range(change_tables[change_draft.old].columns)}
  <2>1. Orderly
    BY <1>1 DEF ChangeInv
  <2>2. DOMAIN change_sent = {}
    BY <1>1
  <2>3. Synced
    BY <1>1, <2>1, <2>2 DEF Orderly, Coming
  <2>4. PICK cs : cs = change_draft.columns /\ Drawn(change_draft.old, cs)
    BY <2>1 DEF Orderly
  <2>5. change_draft.old \in DOMAIN change_tables /\
            ChangePart!Range(change_tables[change_draft.old].columns) = Olds(cs)
    BY <1>1, <2>3, <2>4 DEF Synced, Stands
  <2>6. \A k \in DOMAIN cs : cs[k].old # ChangePart!None => cs[k].old = <<cs[k].old[1]>>
    <3>1. ASSUME NEW k \in DOMAIN cs, cs[k].old # ChangePart!None PROVE cs[k].old = <<cs[k].old[1]>>
      <4>1. cs[k].old \in Places
        BY <2>4, DrawnColumns
      <4>2. PICK c \in ColumnT : cs[k].old = <<c>>
        BY <3>1, <4>1 DEF Places
      <4>3. <<c>>[1] = c
        OBVIOUS
      <4>4. QED
        BY <4>2, <4>3
    <3>2. QED
      BY <3>1
  <2>7. {cs[k].old : k \in DOMAIN cs} \ {ChangePart!None} = {<<c>> : c \in Olds(cs)}
    <3>1. \A x \in {cs[k].old : k \in DOMAIN cs} \ {ChangePart!None} : x \in {<<c>> : c \in Olds(cs)}
      BY <2>6 DEF Olds
    <3>2. \A x \in {<<c>> : c \in Olds(cs)} : x \in {cs[k].old : k \in DOMAIN cs} \ {ChangePart!None}
      <4>1. ASSUME NEW k \in DOMAIN cs,
                cs[k].old # ChangePart!None
          PROVE  <<cs[k].old[1]>> \in {cs[j].old : j \in DOMAIN cs} \ {ChangePart!None}
        BY <2>6, <4>1
      <4>2. QED
        BY <4>1 DEF Olds
    <3>3. QED
      BY <3>1, <3>2
  <2>8. QED
    BY <2>4, <2>5, <2>7
<1>2. QED
  BY <1>1 DEF ChangePart!UnchangedIsTrue

(* A table saved from the schema editor has the columns that were shown, with everything shown for *)
(* them that can be written, and what is shown as unchanged is what the database has, unless a     *)
(* save failed half way or somebody else changed the table: for any table, names and edits.        *)
THEOREM ChangesAreTrueHolds == Spec => []ChangesAreTrue
<1> DEFINE Inv == part = "change" => ChangeInv
<1>1. Init => Inv
  BY ChangeStarts DEF Init, OnlyAtFirst
<1>2. Inv /\ [Next]_vars => Inv'
  BY PartSteps, ChangeGoesOn
<1>3. Inv => ChangesAreTrue
  BY ChangesExecutedAsShown, ChangesUnchangedIsTrue DEF ChangesAreTrue
<1>4. QED
  BY <1>1, <1>2, <1>3, PTL DEF Spec

-----------------------------------------------------------------------------
(* The assistant in the SQL editor *)

LEMMA EditorTextTyped == EditorText \in Seq(Int)
<1>1. EditorText \in [1..EditorTokens -> Int]
  BY DEF EditorText
<1>2. QED
  BY <1>1, PromptAssumption

Texts == Seq(Int)
WidgetT == [from : Nat, to : Nat, orig : Texts, suggested : Texts, counter : Int]

(* Texts that are joined can be taken apart again. *)
LEMMA JoinTyped ==
  ASSUME NEW a \in Texts, NEW b \in Texts
  PROVE  a \o b \in Texts /\ Len(a \o b) = Len(a) + Len(b) /\ Len(a) \in Nat /\ Len(b) \in Nat
  BY DEF Texts

LEMMA FirstOfJoin ==
  ASSUME NEW a \in Texts, NEW b \in Texts, NEW n \in 0..Len(a)
  PROVE  SubSeq(a \o b, 1, n) = SubSeq(a, 1, n)
<1>1. a \in Seq(Int) /\ b \in Seq(Int) /\ Len(a) \in Nat
  BY DEF Texts
<1>2. CASE n = 0
  <2>1. SubSeq(a \o b, 1, 0) = <<>>
    BY SubSeqEmpty
  <2>2. SubSeq(a, 1, 0) = <<>>
    BY SubSeqEmpty
  <2>3. QED
    BY <1>2, <2>1, <2>2
<1>3. CASE n # 0
  <2>1. 1 \in 1..Len(a) /\ n \in 1..Len(a)
    BY <1>1, <1>3
  <2>2. QED
    BY <1>1, <2>1, SubSeqOfConcat1
<1>4. QED
  BY <1>2, <1>3

LEMMA LastOfJoin ==
  ASSUME NEW a \in Texts, NEW b \in Texts
  PROVE  SubSeq(a \o b, Len(a) + 1, Len(a \o b)) = b
<1>1. a \in Seq(Int) /\ b \in Seq(Int) /\ Len(a) \in Nat /\ Len(b) \in Nat
  BY DEF Texts
<1>2. PICK m, n : m = Len(a) + 1 /\ n = Len(a) + Len(b)
  OBVIOUS
<1>3. Len(a \o b) = n
  BY <1>2, JoinTyped
<1>4. CASE Len(b) = 0
  <2>1. b = <<>>
    BY <1>1, <1>4
  <2>2. m \in Int /\ n \in Int /\ n < m
    BY <1>1, <1>2, <1>4
  <2>3. SubSeq(a \o b, m, n) = <<>>
    BY <2>2, SubSeqEmpty
  <2>4. QED
    BY <1>2, <1>3, <2>1, <2>3
<1>5. CASE Len(b) # 0
  <2>1. m \in Len(a) + 1 .. Len(a) + Len(b) /\ n \in Len(a) + 1 .. Len(a) + Len(b)
    BY <1>1, <1>2, <1>5
  <2>2. SubSeq(a \o b, m, n) = SubSeq(b, m - Len(a), n - Len(a))
    BY <1>1, <2>1, SubSeqOfConcat2
  <2>3. m - Len(a) = 1 /\ n - Len(a) = Len(b)
    BY <1>1, <1>2
  <2>4. SubSeq(b, 1, Len(b)) = b
    BY <1>1, SubSeqFull
  <2>5. QED
    BY <1>2, <1>3, <2>2, <2>3, <2>4
<1>6. QED
  BY <1>4, <1>5

(* The text before a place, the one in it and the one behind it. *)
LEMMA PartsOfText ==
  ASSUME NEW text \in Texts, NEW from \in Nat, NEW to \in Nat, from <= to, to <= Len(text)
  PROVE  /\ SubSeq(text, 1, from) \in Texts /\ Len(SubSeq(text, 1, from)) = from
         /\ SubSeq(text, from + 1, to) \in Texts
         /\ SubSeq(text, to + 1, Len(text)) \in Texts
         /\ (SubSeq(text, 1, from) \o SubSeq(text, from + 1, to)) \o SubSeq(text, to + 1, Len(text)) = text
<1>1. text \in Seq(Int) /\ Len(text) \in Nat /\ \A k \in 1..Len(text) : text[k] \in Int
  BY DEF Texts
<1>2. SubSeq(text, 1, from) \in Texts /\ Len(SubSeq(text, 1, from)) = from
  <2>1. /\ 1 \in Int /\ from \in Int /\ (1 <= from \/ from = 0) /\ from - 1 + 1 = from
        /\ \A k \in 1..from : text[k] \in Int
    BY <1>1
  <2>2. /\ SubSeq(text, 1, from) \in Seq(Int)
        /\ Len(SubSeq(text, 1, from)) = IF 1 <= from THEN from - 1 + 1 ELSE 0
    BY <2>1, SubSeqProperties
  <2>3. QED
    BY <2>1, <2>2 DEF Texts
<1>3. SubSeq(text, from + 1, to) \in Texts
  <2>1. from + 1 \in Int /\ to \in Int /\ \A k \in from + 1 .. to : text[k] \in Int
    BY <1>1
  <2>2. QED
    BY <2>1, SubSeqProperties DEF Texts
<1>4. SubSeq(text, to + 1, Len(text)) \in Texts
  <2>1. to + 1 \in Int /\ Len(text) \in Int /\ \A k \in to + 1 .. Len(text) : text[k] \in Int
    BY <1>1
  <2>2. QED
    BY <2>1, SubSeqProperties DEF Texts
<1>5. SubSeq(text, 1, from) \o SubSeq(text, from + 1, to) = SubSeq(text, 1, to)
  <2>1. 1 \in 1 .. Len(text) + 1 /\ from \in 1 - 1 .. Len(text) /\ to \in from .. Len(text)
    BY <1>1
  <2>2. QED
    BY <1>1, <2>1, ConcatAdjacentSubSeq
<1>6. SubSeq(text, 1, to) \o SubSeq(text, to + 1, Len(text)) = SubSeq(text, 1, Len(text))
  <2>1. 1 \in 1 .. Len(text) + 1 /\ to \in 1 - 1 .. Len(text) /\ Len(text) \in to .. Len(text)
    BY <1>1
  <2>2. QED
    BY <1>1, <2>1, ConcatAdjacentSubSeq
<1>7. SubSeq(text, 1, Len(text)) = text
  BY <1>1, SubSeqFull
<1>8. QED
  BY <1>2, <1>3, <1>4, <1>5, <1>6, <1>7

LEMMA ReplacedTyped ==
  ASSUME NEW text \in Texts, NEW from \in Nat, NEW to \in Nat, from <= to, to <= Len(text),
         NEW with \in Texts
  PROVE  PromptPart!Replaced(text, from, to, with) \in Texts
<1>1. SubSeq(text, 1, from) \in Texts /\ SubSeq(text, to + 1, Len(text)) \in Texts
  BY PartsOfText
<1>2. SubSeq(text, 1, from) \o with \in Texts
  BY <1>1, JoinTyped
<1>3. QED
  BY <1>1, <1>2, JoinTyped DEF PromptPart!Replaced

(* What was put in a place is in the text, and another text can be put there instead of it. *)
LEMMA ReplacedAgain ==
  ASSUME NEW text \in Texts, NEW from \in Nat, NEW to \in Nat, from <= to, to <= Len(text),
         NEW with \in Texts, NEW other \in Texts
  PROVE  /\ from + Len(with) <= Len(PromptPart!Replaced(text, from, to, with))
         /\ PromptPart!Replaced(PromptPart!Replaced(text, from, to, with), from, from + Len(with), other)
              = PromptPart!Replaced(text, from, to, other)
<1>1. PICK a, c : a = SubSeq(text, 1, from) /\ c = SubSeq(text, to + 1, Len(text))
  OBVIOUS
<1>2. a \in Texts /\ c \in Texts /\ Len(a) = from
  BY <1>1, PartsOfText
<1>3. PICK x : x = PromptPart!Replaced(text, from, to, with)
  OBVIOUS
<1>4. x = (a \o with) \o c
  BY <1>1, <1>3 DEF PromptPart!Replaced
<1>5. a \o with \in Texts /\ Len(a \o with) = from + Len(with) /\ Len(with) \in Nat
  BY <1>2, JoinTyped
<1>6. Len(x) = from + Len(with) + Len(c) /\ Len(c) \in Nat
  <2>1. Len((a \o with) \o c) = Len(a \o with) + Len(c) /\ Len(c) \in Nat
    BY <1>2, <1>5, JoinTyped
  <2>2. QED
    BY <1>4, <1>5, <2>1
<1>7. SubSeq(x, from + Len(with) + 1, Len(x)) = c
  BY <1>2, <1>4, <1>5, LastOfJoin
<1>8. from \in 0..Len(a \o with) /\ from \in 0..Len(a)
  BY <1>2, <1>5
<1>9. SubSeq(x, 1, from) = a
  <2>1. SubSeq((a \o with) \o c, 1, from) = SubSeq(a \o with, 1, from)
    BY <1>2, <1>5, <1>8, FirstOfJoin
  <2>2. SubSeq(a \o with, 1, from) = SubSeq(a, 1, from)
    BY <1>2, <1>8, FirstOfJoin
  <2>3. SubSeq(a, 1, Len(a)) = a
    BY <1>2, SubSeqFull DEF Texts
  <2>4. QED
    BY <1>2, <1>4, <2>1, <2>2, <2>3
<1>10. PromptPart!Replaced(x, from, from + Len(with), other) = (a \o other) \o c
  BY <1>7, <1>9 DEF PromptPart!Replaced
<1>11. PromptPart!Replaced(text, from, to, other) = (a \o other) \o c
  BY <1>1 DEF PromptPart!Replaced
<1>12. from + Len(with) <= Len(x)
  BY <1>5, <1>6
<1>13. QED
  BY <1>3, <1>10, <1>11, <1>12

(* A part replaced by itself. *)
LEMMA ReplacedByItself ==
  ASSUME NEW text \in Texts, NEW from \in Nat, NEW to \in Nat, from <= to, to <= Len(text)
  PROVE  /\ SubSeq(text, from + 1, to) \in Texts
         /\ PromptPart!Replaced(text, from, to, SubSeq(text, from + 1, to)) = text
  BY PartsOfText DEF PromptPart!Replaced

-----------------------------------------------------------------------------
(* What makes the invariant inductive: while a prompt is on the screen the editor holds what   *)
(* was typed and accepted with the suggestion in the place the prompt was opened over, and the *)
(* closure of the prompt still has the text of that place.                                     *)
ItsPlace(w) ==
  /\ w \in WidgetT
  /\ w.from <= w.to /\ w.to <= Len(prompt_mine)
  /\ w.orig = SubSeq(prompt_mine, w.from + 1, w.to)
  /\ prompt_doc = PromptPart!Replaced(prompt_mine, w.from, w.to, w.suggested)

Questions ==
  /\ prompt_queries \in Nat
  /\ \A q \in prompt_asked : q.widget \in 1..Len(prompt_widget) /\ q.id \in Nat

InOrder ==
  /\ prompt_doc \in Texts /\ prompt_mine \in Texts /\ prompt_edits \in Nat
  /\ prompt_widget \in Seq(WidgetT) /\ Questions
  /\ prompt_top \in {0, Len(prompt_widget)}
  /\ prompt_isActive = (prompt_top # 0) /\ prompt_locked = (prompt_top # 0)
  /\ IF prompt_top = 0 THEN prompt_doc = prompt_mine ELSE ItsPlace(prompt_widget[prompt_top])

PromptInv ==
  /\ prompt_late \in BOOLEAN /\ prompt_doubled \in BOOLEAN
  /\ prompt_late \/ prompt_doubled \/ InOrder

LEMMA PromptImplied == PromptInv => PromptPart!EditorIsMine
  BY DEF PromptInv, InOrder, PromptPart!EditorIsMine

LEMMA PromptInit == PromptPart!Init => PromptInv
<1> SUFFICES ASSUME PromptPart!Init PROVE PromptInv
  OBVIOUS
<1>1. prompt_doc \in Texts /\ prompt_mine \in Texts /\ prompt_doc = prompt_mine
  BY EditorTextTyped DEF PromptPart!Init, Texts
<1>2. prompt_widget = <<>> /\ prompt_top = 0 /\ prompt_isActive = FALSE /\ prompt_locked = FALSE
  BY DEF PromptPart!Init
<1>3. prompt_widget \in Seq(WidgetT) /\ Len(prompt_widget) = 0
  BY <1>2
<1>4. prompt_edits \in Nat /\ Questions
  BY DEF PromptPart!Init, Questions
<1>5. InOrder
  BY <1>1, <1>2, <1>3, <1>4 DEF InOrder
<1>6. prompt_late \in BOOLEAN /\ prompt_doubled \in BOOLEAN
  BY DEF PromptPart!Init
<1>7. QED
  BY <1>5, <1>6 DEF PromptInv

(* An answer is a text. *)
LEMMA AnswerTyped ==
  ASSUME NEW id \in Nat
  PROVE  PromptPart!AnswerOf(id) \in Texts
<1>1. PICK n : n = 1 + (id % 2)
  OBVIOUS
<1>2. n \in Nat
  BY <1>1
<1>3. PromptPart!AnswerOf(id) = [k \in 1..n |-> 100 + id]
  BY <1>1 DEF PromptPart!AnswerOf
<1>4. [k \in 1..n |-> 100 + id] \in [1..n -> Int]
  OBVIOUS
<1>5. PromptPart!AnswerOf(id) \in Seq(Int)
  BY <1>2, <1>3, <1>4
<1>6. QED
  BY <1>5 DEF Texts

(* The place of the prompt on the screen is in the text, and reversing its suggestion gives *)
(* what was typed and accepted.                                                             *)
LEMMA ReversedIsMine ==
  ASSUME NEW w, prompt_mine \in Texts, ItsPlace(w)
  PROVE  /\ w.from \in Nat /\ w.to \in Nat /\ w.orig \in Texts /\ w.suggested \in Texts /\ w.counter \in Int
         /\ PromptPart!Replaced(prompt_mine, w.from, w.to, w.orig) = prompt_mine
         /\ PromptPart!Reversed(w, prompt_doc) = prompt_mine /\ PromptPart!InText(w, prompt_doc)
<1>1. /\ w.from \in Nat /\ w.to \in Nat /\ w.orig \in Texts /\ w.suggested \in Texts /\ w.counter \in Int
      /\ w.from <= w.to /\ w.to <= Len(prompt_mine)
      /\ w.orig = SubSeq(prompt_mine, w.from + 1, w.to)
      /\ prompt_doc = PromptPart!Replaced(prompt_mine, w.from, w.to, w.suggested)
  BY DEF ItsPlace, WidgetT
<1>2. PromptPart!Replaced(prompt_mine, w.from, w.to, w.orig) = prompt_mine
  BY <1>1, ReplacedByItself
<1>3. /\ w.from + Len(w.suggested) <= Len(prompt_doc)
      /\ PromptPart!Replaced(prompt_doc, w.from, w.from + Len(w.suggested), w.orig) = prompt_mine
  <2>1. PICK f, t, s, o : f = w.from /\ t = w.to /\ s = w.suggested /\ o = w.orig
    OBVIOUS
  <2>2. f \in Nat /\ t \in Nat /\ f <= t /\ t <= Len(prompt_mine) /\ s \in Texts /\ o \in Texts
    BY <1>1, <2>1
  <2>3. /\ f + Len(s) <= Len(PromptPart!Replaced(prompt_mine, f, t, s))
        /\ PromptPart!Replaced(PromptPart!Replaced(prompt_mine, f, t, s), f, f + Len(s),
             o) = PromptPart!Replaced(prompt_mine, f, t, o)
    BY <2>2, ReplacedAgain
  <2>4. PromptPart!Replaced(prompt_mine, f, t, s) = prompt_doc /\ PromptPart!Replaced(prompt_mine, f, t,
            o) = prompt_mine
    BY <1>1, <1>2, <2>1
  <2>5. QED
    BY <2>1, <2>3, <2>4
<1>4. PromptPart!Reversed(w, prompt_doc) = prompt_mine
  BY <1>1, <1>2, <1>3 DEF PromptPart!Reversed
<1>5. QED
  BY <1>1, <1>2, <1>3, <1>4 DEF PromptPart!InText

-----------------------------------------------------------------------------
(* The place of the prompt after a step that changed only its suggestion, with the text in it, *)
(* and its counter.                                                                            *)
LEMMA PlaceKept ==
  ASSUME NEW w, NEW v, prompt_mine \in Texts, ItsPlace(w), UNCHANGED prompt_mine,
         v.from = w.from, v.to = w.to, v.orig = w.orig, v \in WidgetT,
         prompt_doc' = PromptPart!Replaced(prompt_mine, w.from, w.to, v.suggested)
  PROVE  /\ v.from <= v.to /\ v.to <= Len(prompt_mine') /\ v.orig = SubSeq(prompt_mine', v.from + 1, v.to)
         /\ prompt_doc' = PromptPart!Replaced(prompt_mine', v.from, v.to, v.suggested)
         /\ prompt_doc' \in Texts
<1>1. /\ w.from \in Nat /\ w.to \in Nat /\ w.from <= w.to /\ w.to <= Len(prompt_mine)
      /\ w.orig = SubSeq(prompt_mine, w.from + 1, w.to)
  BY DEF ItsPlace, WidgetT
<1>2. v.suggested \in Texts
  BY DEF WidgetT
<1>3. prompt_doc' \in Texts
  <2>1. PICK f, t, s : f = w.from /\ t = w.to /\ s = v.suggested
    OBVIOUS
  <2>2. f \in Nat /\ t \in Nat /\ f <= t /\ t <= Len(prompt_mine) /\ s \in Texts
    BY <1>1, <1>2, <2>1
  <2>3. PromptPart!Replaced(prompt_mine, f, t, s) \in Texts
    BY <2>2, ReplacedTyped
  <2>4. QED
    BY <2>1, <2>3
<1>4. QED
  BY <1>1, <1>3

(* A list of prompts with one of them changed. *)
LEMMA WidgetChanged ==
  ASSUME NEW old \in Seq(WidgetT), NEW n \in 1..Len(old), NEW e \in WidgetT
  PROVE  /\ [old EXCEPT ![n] = e] \in Seq(WidgetT) /\ Len([old EXCEPT ![n] = e]) = Len(old)
         /\ [old EXCEPT ![n] = e][n] = e
         /\ \A k \in 1..Len(old) : k # n => [old EXCEPT ![n] = e][k] = old[k]
  BY ExceptSeq

LEMMA OpenPromptKeeps ==
  ASSUME PromptInv, NEW from \in 0..Len(prompt_doc), NEW to \in 0..Len(prompt_doc),
      PromptPart!OpenPrompt(from, to)
  PROVE  PromptInv'
<1>1. /\ to \in from..Len(prompt_doc) /\ prompt_widget' = Append(prompt_widget, PromptPart!NewWidget(from,
           to))
      /\ prompt_top' = Len(prompt_widget) + 1 /\ prompt_isActive' = (prompt_top = 0) /\
           prompt_locked' = (prompt_top = 0)
      /\ prompt_doubled' = (prompt_doubled \/ prompt_top # 0)
      /\ UNCHANGED <<prompt_doc, prompt_asked, prompt_queries, prompt_mine, prompt_edits, prompt_late>>
  BY DEF PromptPart!OpenPrompt
<1>2. prompt_late' \in BOOLEAN /\ prompt_doubled' \in BOOLEAN
  BY <1>1 DEF PromptInv
<1>3. CASE prompt_late \/ prompt_doubled \/ prompt_top # 0
  BY <1>1, <1>2, <1>3 DEF PromptInv
<1>4. CASE prompt_late = FALSE /\ prompt_doubled = FALSE /\ prompt_top = 0
  <2>1. /\ prompt_doc \in Texts /\ prompt_mine \in Texts /\ prompt_edits \in Nat /\ prompt_doc = prompt_mine
        /\ prompt_widget \in Seq(WidgetT) /\ Questions /\ Len(prompt_widget) \in Nat
    BY <1>4 DEF PromptInv, InOrder
  <2>2. from \in Nat /\ to \in Nat /\ from <= to /\ to <= Len(prompt_mine)
    BY <1>1, <2>1 DEF Texts
  <2>3. PICK orig : orig = SubSeq(prompt_doc, from + 1, to)
    OBVIOUS
  <2>4. orig \in Texts /\ PromptPart!Replaced(prompt_mine, from, to, orig) = prompt_mine
    BY <2>1, <2>2, <2>3, ReplacedByItself
  <2>5. PICK w : w = [from |-> from, to |-> to, orig |-> orig, suggested |-> orig, counter |-> 1]
    OBVIOUS
  <2>6. PromptPart!NewWidget(from, to) = w
    BY <2>3, <2>5 DEF PromptPart!NewWidget
  <2>7. w \in WidgetT /\ w.from = from /\ w.to = to /\ w.orig = orig /\ w.suggested = orig
    BY <2>2, <2>4, <2>5 DEF WidgetT
  <2>8. /\ prompt_widget' \in Seq(WidgetT) /\ Len(prompt_widget') = Len(prompt_widget) + 1 /\
             prompt_widget'[Len(prompt_widget) + 1] = w
    BY <1>1, <2>1, <2>6, <2>7, AppendProperties
  <2>9. ItsPlace(w)'
    BY <1>1, <2>1, <2>2, <2>3, <2>4, <2>7 DEF ItsPlace
  <2>10. Questions'
    BY <1>1, <2>1, <2>8 DEF Questions
  <2>11. prompt_top' # 0 /\ prompt_top' = Len(prompt_widget') /\ prompt_widget'[prompt_top'] = w
    BY <1>1, <2>1, <2>8
  <2>12. prompt_isActive' = (prompt_top' # 0) /\ prompt_locked' = (prompt_top' # 0)
    BY <1>1, <1>4, <2>11
  <2>13. InOrder'
    BY <1>1, <2>1, <2>8, <2>9, <2>10, <2>11, <2>12 DEF InOrder
  <2>14. QED
    BY <1>2, <2>13 DEF PromptInv
<1>5. QED
  BY <1>3, <1>4 DEF PromptInv

LEMMA SubmitKeeps ==
  ASSUME PromptInv, PromptPart!Submit
  PROVE  PromptInv'
<1>1. PICK q : q = [widget |-> prompt_top, expected |-> prompt_widget[prompt_top].counter,
                   prompt |-> prompt_form.prompt, id |-> prompt_queries + 1]
  OBVIOUS
<1>2. /\ prompt_top # 0 /\ prompt_queries' = prompt_queries + 1 /\ prompt_asked' = prompt_asked \cup {q}
      /\ UNCHANGED <<prompt_doc, prompt_widget, prompt_top, prompt_isActive, prompt_locked, prompt_mine,
           prompt_edits, prompt_late, prompt_doubled>>
  BY <1>1 DEF PromptPart!Submit, PromptPart!CanSubmit
<1>3. q.widget = prompt_top /\ q.id = prompt_queries + 1
  BY <1>1
<1>4. ASSUME InOrder PROVE InOrder'
  <2>1. Questions'
    <3>1. prompt_queries \in Nat /\ prompt_top \in 1..Len(prompt_widget) /\ Questions
      BY <1>2, <1>4 DEF InOrder, Questions
    <3>2. QED
      BY <1>2, <1>3, <3>1 DEF Questions
  <2>2. ItsPlace(prompt_widget[prompt_top])'
    BY <1>2, <1>4 DEF InOrder, ItsPlace
  <2>3. QED
    BY <1>2, <1>4, <2>1, <2>2 DEF InOrder
<1>5. QED
  BY <1>2, <1>4 DEF PromptInv

(* An answer is written by a prompt that is open; of another one than that on the screen it is *)
(* late, and nothing is said of it.                                                            *)
LEMMA AnswerKeeps ==
  ASSUME PromptInv, NEW q \in prompt_asked, NEW ok \in BOOLEAN, PromptPart!Answer(q, ok)
  PROVE  PromptInv'
<1>1. PICK n, w, answer : n = q.widget /\ w = prompt_widget[n] /\ answer = PromptPart!AnswerOf(q.id)
  OBVIOUS
<1>2. PICK use : use = (ok /\ PromptPart!Wanted(q, w))
  OBVIOUS
<1>3. PICK writes : writes = (use /\ PromptPart!InText(w, prompt_doc))
  OBVIOUS
<1>4. /\ prompt_asked' = prompt_asked \ {q}
      /\ prompt_doc' = IF writes THEN PromptPart!Write(w, answer, prompt_doc) ELSE prompt_doc
      /\ prompt_widget' = [prompt_widget EXCEPT ![n].counter = @ + 1,
                                               ![n].suggested = IF writes THEN answer ELSE @]
      /\ prompt_late' = (prompt_late \/ (use /\ n # prompt_top))
      /\ UNCHANGED <<prompt_top, prompt_isActive, prompt_locked, prompt_queries, prompt_mine,
           prompt_edits, prompt_doubled>>
  BY <1>1, <1>2, <1>3 DEF PromptPart!Answer
<1>5. prompt_late' \in BOOLEAN /\ prompt_doubled' \in BOOLEAN
  BY <1>4 DEF PromptInv
<1>6. CASE prompt_late \/ prompt_doubled \/ (use /\ n # prompt_top)
  BY <1>4, <1>5, <1>6 DEF PromptInv
<1>7. CASE prompt_late = FALSE /\ prompt_doubled = FALSE /\ (~use \/ n = prompt_top)
  <2>1. InOrder
    BY <1>7 DEF PromptInv
  <2>2. /\ prompt_doc \in Texts /\ prompt_mine \in Texts /\ prompt_edits \in Nat /\
             prompt_widget \in Seq(WidgetT) /\ Questions
        /\ n \in 1..Len(prompt_widget) /\ answer \in Texts /\ w \in WidgetT
    BY <1>1, <2>1, AnswerTyped DEF InOrder, Questions
  <2>3. PICK c : c = [w EXCEPT !.counter = @ + 1]
    OBVIOUS
  <2>4. c \in WidgetT /\ c.from = w.from /\ c.to = w.to /\ c.orig = w.orig /\ c.suggested = w.suggested
    <3>1. w \in WidgetT
      BY <2>2
    <3>2. PICK m : m = w.counter + 1
      OBVIOUS
    <3>3. c = [w EXCEPT !.counter = m] /\ m \in Int
      BY <2>3, <3>1, <3>2 DEF WidgetT
    <3>4. QED
      BY <3>1, <3>3 DEF WidgetT
  <2>5. PICK s : s = IF writes THEN answer ELSE w.suggested
    OBVIOUS
  <2>6. PICK v : v = [c EXCEPT !.suggested = s]
    OBVIOUS
  <2>7. v \in WidgetT /\ v.from = w.from /\ v.to = w.to /\ v.orig = w.orig /\ v.suggested = s
    <3>1. s \in Texts
      BY <2>2, <2>5 DEF WidgetT
    <3>2. QED
      BY <2>4, <2>6, <3>1 DEF WidgetT
  <2>8. prompt_widget' = [prompt_widget EXCEPT ![n] = v]
    <3>1. PICK mid : mid = [prompt_widget EXCEPT ![n] = c]
      OBVIOUS
    <3>2. mid = [prompt_widget EXCEPT ![n].counter = @ + 1] /\ mid[n] = c
      BY <1>1, <2>2, <2>3, <3>1
    <3>3. prompt_widget' = [mid EXCEPT ![n].suggested = IF writes THEN answer ELSE @]
      BY <1>4, <3>2
    <3>4. prompt_widget' = [mid EXCEPT ![n] = v]
      BY <2>4, <2>5, <2>6, <3>2, <3>3
    <3>5. QED
      BY <3>1, <3>4
  <2>9. /\ prompt_widget' \in Seq(WidgetT) /\ Len(prompt_widget') = Len(prompt_widget) /\
             prompt_widget'[n] = v
        /\ \A k \in 1..Len(prompt_widget) : k # n => prompt_widget'[k] = prompt_widget[k]
    BY <2>2, <2>7, <2>8, WidgetChanged
  <2>10. Questions'
    BY <1>4, <2>2, <2>9 DEF Questions
  <2>11. prompt_top' \in {0, Len(prompt_widget')} /\ prompt_isActive' = (prompt_top' # 0) /\
             prompt_locked' = (prompt_top' # 0)
    BY <1>4, <2>1, <2>9 DEF InOrder
  <2>12. CASE n # prompt_top
    <3>1. writes = FALSE
      BY <1>3, <1>7, <2>12
    <3>2. UNCHANGED <<prompt_doc, prompt_mine, prompt_top>>
      BY <1>4, <3>1
    <3>3. prompt_top # 0 => prompt_widget'[prompt_top] = prompt_widget[prompt_top]
      <4>1. prompt_top # 0 => prompt_top \in 1..Len(prompt_widget)
        BY <2>1 DEF InOrder
      <4>2. QED
        BY <2>9, <2>12, <4>1
    <3>4. ASSUME prompt_top # 0 PROVE ItsPlace(prompt_widget[prompt_top])'
      <4>1. PICK u : u = prompt_widget[prompt_top]
        OBVIOUS
      <4>2. ItsPlace(u)
        BY <2>1, <3>4, <4>1 DEF InOrder
      <4>3. ItsPlace(u)'
        BY <3>2, <4>2 DEF ItsPlace
      <4>4. prompt_widget'[prompt_top'] = u
        BY <3>2, <3>3, <3>4, <4>1
      <4>5. QED
        BY <4>3, <4>4
    <3>5. prompt_top = 0 => prompt_doc' = prompt_mine'
      BY <2>1, <3>2 DEF InOrder
    <3>6. QED
      BY <1>4, <1>5, <2>2, <2>9, <2>10, <2>11, <3>2, <3>4, <3>5 DEF InOrder, PromptInv
  <2>13. CASE n = prompt_top
    <3>1. ItsPlace(w) /\ prompt_top # 0
      BY <1>1, <2>1, <2>2, <2>13 DEF InOrder
    <3>2. PromptPart!Reversed(w, prompt_doc) = prompt_mine /\
              prompt_doc = PromptPart!Replaced(prompt_mine, w.from, w.to, w.suggested)
      BY <2>2, <3>1, ReversedIsMine DEF ItsPlace
    <3>3. prompt_doc' = PromptPart!Replaced(prompt_mine, w.from, w.to, v.suggested)
      BY <1>4, <2>5, <2>7, <3>2 DEF PromptPart!Write
    <3>4. UNCHANGED <<prompt_mine, prompt_top>>
      BY <1>4
    <3>5. /\ v.from <= v.to /\ v.to <= Len(prompt_mine') /\ v.orig = SubSeq(prompt_mine', v.from + 1, v.to)
          /\ prompt_doc' = PromptPart!Replaced(prompt_mine', v.from, v.to, v.suggested) /\
               prompt_doc' \in Texts
      BY <2>2, <2>7, <3>1, <3>3, <3>4, PlaceKept
    <3>6. ItsPlace(v)'
      BY <2>7, <3>5 DEF ItsPlace
    <3>7. prompt_widget'[prompt_top'] = v
      BY <2>9, <2>13, <3>4
    <3>8. ItsPlace(prompt_widget[prompt_top])'
      BY <3>6, <3>7
    <3>9. QED
      BY <1>4, <1>5, <2>2, <2>9, <2>10, <2>11, <3>1, <3>4, <3>5, <3>8 DEF InOrder, PromptInv
  <2>14. QED
    BY <2>12, <2>13
<1>8. QED
  BY <1>6, <1>7 DEF PromptInv

(* The steps of the prompt on the screen that leave its place: cancelling a question counts, and *)
(* rejecting a suggestion puts the original text back.                                           *)
LEMMA CancelPromptKeeps ==
  ASSUME PromptInv, PromptPart!Cancel
  PROVE  PromptInv'
<1>1. /\ prompt_top # 0 /\ prompt_widget' = [prompt_widget EXCEPT ![prompt_top].counter = @ + 1]
      /\ UNCHANGED <<prompt_doc, prompt_top, prompt_isActive, prompt_locked, prompt_asked, prompt_queries,
           prompt_mine, prompt_edits, prompt_late, prompt_doubled>>
  BY DEF PromptPart!Cancel
<1>2. ASSUME InOrder PROVE InOrder'
  <2>1. /\ prompt_doc \in Texts /\ prompt_mine \in Texts /\ prompt_edits \in Nat /\
             prompt_widget \in Seq(WidgetT) /\ Questions
        /\ prompt_top \in 1..Len(prompt_widget) /\ ItsPlace(prompt_widget[prompt_top])
    BY <1>1, <1>2 DEF InOrder
  <2>2. PICK n, w : n = prompt_top /\ w = prompt_widget[n]
    OBVIOUS
  <2>3. ItsPlace(w) /\ w \in WidgetT
    BY <2>1, <2>2 DEF ItsPlace
  <2>4. PICK m : m = w.counter + 1
    OBVIOUS
  <2>5. m \in Int
    BY <2>3, <2>4 DEF WidgetT
  <2>6. PICK v : v = [w EXCEPT !.counter = m]
    OBVIOUS
  <2>7. v \in WidgetT /\ v.from = w.from /\ v.to = w.to /\ v.orig = w.orig /\ v.suggested = w.suggested
    <3>1. w \in WidgetT
      BY <2>3
    <3>2. QED
      BY <2>5, <2>6, <3>1 DEF WidgetT
  <2>8. prompt_widget' = [prompt_widget EXCEPT ![n] = v]
    BY <1>1, <2>1, <2>2, <2>4, <2>6
  <2>9. prompt_widget' \in Seq(WidgetT) /\ Len(prompt_widget') = Len(prompt_widget) /\ prompt_widget'[n] = v
    BY <2>1, <2>2, <2>7, <2>8, WidgetChanged
  <2>10. prompt_doc' = PromptPart!Replaced(prompt_mine, w.from, w.to, v.suggested)
    BY <1>1, <2>3, <2>7 DEF ItsPlace
  <2>11. /\ v.from <= v.to /\ v.to <= Len(prompt_mine') /\ v.orig = SubSeq(prompt_mine', v.from + 1, v.to)
         /\ prompt_doc' = PromptPart!Replaced(prompt_mine', v.from, v.to, v.suggested)
    BY <1>1, <2>1, <2>3, <2>7, <2>10, PlaceKept
  <2>12. ItsPlace(v)'
    BY <2>7, <2>11 DEF ItsPlace
  <2>13. prompt_widget'[prompt_top'] = v
    BY <1>1, <2>2, <2>9
  <2>14. ItsPlace(prompt_widget[prompt_top])'
    BY <2>12, <2>13
  <2>15. Questions'
    BY <1>1, <2>1, <2>9 DEF Questions
  <2>16. QED
    BY <1>1, <1>2, <2>1, <2>9, <2>14, <2>15 DEF InOrder
<1>3. QED
  BY <1>1, <1>2 DEF PromptInv

LEMMA RejectKeeps ==
  ASSUME PromptInv, PromptPart!Reject
  PROVE  PromptInv'
<1>1. /\ prompt_top # 0 /\ prompt_doc' = PromptPart!Reversed(prompt_widget[prompt_top], prompt_doc)
      /\ prompt_widget' = [prompt_widget EXCEPT ![prompt_top].suggested = prompt_widget[prompt_top].orig]
      /\ UNCHANGED <<prompt_top, prompt_isActive, prompt_locked, prompt_asked, prompt_queries,
           prompt_mine, prompt_edits, prompt_late, prompt_doubled>>
  BY DEF PromptPart!Reject
<1>2. ASSUME InOrder PROVE InOrder'
  <2>1. /\ prompt_doc \in Texts /\ prompt_mine \in Texts /\ prompt_edits \in Nat /\
             prompt_widget \in Seq(WidgetT) /\ Questions
        /\ prompt_top \in 1..Len(prompt_widget) /\ ItsPlace(prompt_widget[prompt_top])
    BY <1>1, <1>2 DEF InOrder
  <2>2. PICK n, w : n = prompt_top /\ w = prompt_widget[n]
    OBVIOUS
  <2>3. ItsPlace(w) /\ w \in WidgetT
    BY <2>1, <2>2 DEF ItsPlace
  <2>4. PICK o : o = w.orig
    OBVIOUS
  <2>5. o \in Texts
    BY <2>3, <2>4 DEF WidgetT
  <2>6. PICK v : v = [w EXCEPT !.suggested = o]
    OBVIOUS
  <2>7. v \in WidgetT /\ v.from = w.from /\ v.to = w.to /\ v.orig = w.orig /\ v.suggested = w.orig
    <3>1. w \in WidgetT
      BY <2>3
    <3>2. QED
      BY <2>4, <2>5, <2>6, <3>1 DEF WidgetT
  <2>8. prompt_widget' = [prompt_widget EXCEPT ![n] = v]
    BY <1>1, <2>1, <2>2, <2>4, <2>6
  <2>9. prompt_widget' \in Seq(WidgetT) /\ Len(prompt_widget') = Len(prompt_widget) /\ prompt_widget'[n] = v
    BY <2>1, <2>2, <2>7, <2>8, WidgetChanged
  <2>10. prompt_doc' = PromptPart!Replaced(prompt_mine, w.from, w.to, v.suggested)
    BY <1>1, <2>1, <2>2, <2>3, <2>7, ReversedIsMine
  <2>11. /\ v.from <= v.to /\ v.to <= Len(prompt_mine') /\ v.orig = SubSeq(prompt_mine', v.from + 1, v.to)
         /\ prompt_doc' = PromptPart!Replaced(prompt_mine', v.from, v.to, v.suggested) /\
              prompt_doc' \in Texts
    BY <1>1, <2>1, <2>3, <2>7, <2>10, PlaceKept
  <2>12. ItsPlace(v)'
    BY <2>7, <2>11 DEF ItsPlace
  <2>13. prompt_widget'[prompt_top'] = v
    BY <1>1, <2>2, <2>9
  <2>14. ItsPlace(prompt_widget[prompt_top])'
    BY <2>12, <2>13
  <2>15. Questions'
    BY <1>1, <2>1, <2>9 DEF Questions
  <2>16. QED
    BY <1>1, <1>2, <2>1, <2>9, <2>11, <2>14, <2>15 DEF InOrder
<1>3. QED
  BY <1>1, <1>2 DEF PromptInv

(* Closing takes the suggestion out of the text, and accepting makes it the own text of the user. *)
LEMMA CloseKeeps ==
  ASSUME PromptInv, PromptPart!Close \/ PromptPart!Accept
  PROVE  PromptInv'
<1>1. /\ prompt_top # 0 /\ PromptPart!Hidden /\ UNCHANGED <<prompt_widget, prompt_asked, prompt_queries,
           prompt_edits, prompt_late, prompt_doubled>>
      /\ \/ prompt_doc' = PromptPart!Reversed(prompt_widget[prompt_top], prompt_doc) /\ UNCHANGED prompt_mine
         \/ UNCHANGED prompt_doc /\ prompt_mine' = prompt_doc
  BY DEF PromptPart!Close, PromptPart!Accept, PromptPart!CanAccept
<1>2. ASSUME InOrder PROVE InOrder'
  <2>1. /\ prompt_doc \in Texts /\ prompt_mine \in Texts /\ prompt_edits \in Nat /\
             prompt_widget \in Seq(WidgetT) /\ Questions
        /\ ItsPlace(prompt_widget[prompt_top])
    BY <1>1, <1>2 DEF InOrder
  <2>2. PromptPart!Reversed(prompt_widget[prompt_top], prompt_doc) = prompt_mine
    BY <2>1, ReversedIsMine
  <2>3. prompt_doc' = prompt_mine' /\ prompt_doc' \in Texts /\ prompt_mine' \in Texts
    BY <1>1, <2>1, <2>2
  <2>4. Questions'
    BY <1>1, <2>1 DEF Questions
  <2>5. prompt_top' = 0 /\ prompt_isActive' = FALSE /\ prompt_locked' = FALSE
    BY <1>1 DEF PromptPart!Hidden
  <2>6. QED
    BY <1>1, <2>1, <2>3, <2>4, <2>5 DEF InOrder
<1>3. QED
  BY <1>1, <1>2 DEF PromptInv

(* The editor is locked while a prompt is on the screen, so what is typed is in both texts. *)
LEMMA EditTextKeeps ==
  ASSUME PromptInv, NEW at \in 0..Len(prompt_doc), PromptPart!Edit(at)
  PROVE  PromptInv'
<1>1. /\ ~prompt_locked /\ prompt_edits' = prompt_edits + 1 /\
           prompt_doc' = PromptPart!Replaced(prompt_doc, at, at, <<prompt_edits>>)
      /\ prompt_mine' = IF at <= Len(prompt_mine) THEN PromptPart!Replaced(prompt_mine, at, at,
           <<prompt_edits>>) ELSE prompt_mine
      /\ UNCHANGED <<prompt_widget, prompt_top, prompt_isActive, prompt_locked, prompt_asked,
           prompt_queries, prompt_late, prompt_doubled>>
  BY DEF PromptPart!Edit
<1>2. ASSUME InOrder PROVE InOrder'
  <2>1. /\ prompt_doc \in Texts /\ prompt_edits \in Nat /\ prompt_widget \in Seq(WidgetT) /\ Questions
        /\ prompt_top = 0 /\ prompt_mine = prompt_doc /\ prompt_isActive = FALSE /\ prompt_locked = FALSE
    BY <1>1, <1>2 DEF InOrder
  <2>2. at \in Nat /\ at <= Len(prompt_doc)
    BY <2>1 DEF Texts
  <2>3. PICK typed : typed = <<prompt_edits>>
    OBVIOUS
  <2>4. typed \in Texts
    BY <2>1, <2>3 DEF Texts
  <2>5. PromptPart!Replaced(prompt_doc, at, at, typed) \in Texts
    BY <2>1, <2>2, <2>4, ReplacedTyped
  <2>6. prompt_doc' \in Texts /\ prompt_mine' = prompt_doc'
    BY <1>1, <2>1, <2>2, <2>3, <2>5
  <2>7. Questions'
    BY <1>1, <2>1 DEF Questions
  <2>8. /\ prompt_top' = 0 /\ prompt_isActive' = FALSE /\ prompt_locked' = FALSE /\ prompt_edits' \in Nat
        /\ prompt_widget' \in Seq(WidgetT) /\ prompt_mine' \in Texts
    BY <1>1, <2>1, <2>6
  <2>9. QED
    BY <2>6, <2>7, <2>8 DEF InOrder
<1>3. QED
  BY <1>1, <1>2 DEF PromptInv

LEMMA PromptStep == PromptInv /\ (PromptPart!Next \/ UNCHANGED prompt_vars) => PromptInv'
<1> SUFFICES ASSUME PromptInv, PromptPart!Next \/ UNCHANGED prompt_vars PROVE PromptInv'
  OBVIOUS
<1>1. ASSUME UNCHANGED <<prompt_doc, prompt_widget, prompt_top, prompt_isActive, prompt_locked,
          prompt_asked, prompt_queries, prompt_mine, prompt_edits, prompt_late, prompt_doubled>>
      PROVE  PromptInv'
  <2>1. InOrder => InOrder'
    BY <1>1 DEF InOrder, ItsPlace, Questions
  <2>2. QED
    BY <1>1, <2>1 DEF PromptInv
<1>2. CASE PromptPart!TypePrompt
  BY <1>1, <1>2 DEF PromptPart!TypePrompt
<1>3. CASE UNCHANGED prompt_vars
  BY <1>1, <1>3 DEF prompt_vars
<1>4. QED
  BY <1>2, <1>3, OpenPromptKeeps, SubmitKeeps, AnswerKeeps, CancelPromptKeeps, RejectKeeps, CloseKeeps,
      EditTextKeeps
  DEF PromptPart!Next

(* Between prompts the editor holds what was typed and accepted and nothing of a suggestion,   *)
(* unless an answer came for a prompt that was closed or a prompt was opened over another, for *)
(* any length of the text and however many prompts, questions and edits.                       *)
THEOREM PromptLeavesMineHolds == Spec => []PromptLeavesMine
<1> DEFINE Inv == part = "prompt" => PromptInv
<1>1. Init => Inv
  BY PromptInit DEF Init, OnlyAtFirst
<1>2. Inv /\ [Next]_vars => Inv'
  BY PartSteps, PromptStep
<1>3. Inv => PromptLeavesMine
  BY PromptImplied DEF PromptLeavesMine
<1>4. QED
  BY <1>1, <1>2, <1>3, PTL DEF Spec

-----------------------------------------------------------------------------
(* The selection of the grid *)

LEMMA GridInit == GridPart!Init => GridPart!ShiftSpans
  BY DEF GridPart!Init, GridPart!ShiftSpans

(* A click sets the focus and forgets the last move, or extends the selection by the mouse. *)
LEMMA ClickSpans ==
  ASSUME NEW range, NEW y, NEW x, GridPart!Click(range, y, x) \/ GridPart!CtrlClick(range, y, x)
  PROVE  GridPart!ShiftSpans'
  BY DEF GridPart!Click, GridPart!CtrlClick, GridPart!SetFocus, GridPart!ShiftSpans

LEMMA ShiftClickSpans ==
  ASSUME NEW range, GridPart!ShiftClick(range)
  PROVE  GridPart!ShiftSpans'
  BY DEF GridPart!ShiftClick, GridPart!ShiftSpans

LEMMA GridStep == GridPart!ShiftSpans /\ (GridPart!Next \/ UNCHANGED grid_vars) => GridPart!ShiftSpans'
<1> SUFFICES ASSUME GridPart!ShiftSpans, GridPart!Next \/ UNCHANGED grid_vars PROVE GridPart!ShiftSpans'
  OBVIOUS
<1>1. ASSUME NEW y \in GridPart!Ys, NEW x \in GridPart!Xs, GridPart!ClickCell(y, x) \/
          GridPart!ShiftCell(y, x) \/ GridPart!CtrlCell(y, x)
      PROVE  GridPart!ShiftSpans'
  <2>1. CASE GridPart!CtrlCell(y, x)
    BY <2>1 DEF GridPart!CtrlCell, GridPart!ShiftSpans
  <2>2. QED
    BY <1>1, <2>1, ClickSpans, ShiftClickSpans DEF GridPart!ClickCell, GridPart!ShiftCell
<1>2. ASSUME NEW y \in GridPart!Ys, GridPart!ClickRow(y) \/ GridPart!CtrlRow(y) \/
          GridPart!ShiftRow(y) PROVE GridPart!ShiftSpans'
  BY <1>2, ClickSpans, ShiftClickSpans DEF GridPart!ClickRow, GridPart!CtrlRow, GridPart!ShiftRow
<1>3. ASSUME NEW x \in GridPart!Xs, GridPart!ClickCol(x) \/ GridPart!CtrlCol(x) \/
          GridPart!ShiftCol(x) PROVE GridPart!ShiftSpans'
  BY <1>3, ClickSpans, ShiftClickSpans DEF GridPart!ClickCol, GridPart!CtrlCol, GridPart!ShiftCol
<1>4. ASSUME NEW d \in GridPart!Arrows, GridPart!Arrow(d) PROVE GridPart!ShiftSpans'
  BY <1>4 DEF GridPart!Arrow, GridPart!SetFocus, GridPart!ShiftSpans
<1>5. ASSUME NEW d \in GridPart!Arrows, GridPart!ShiftArrow(d) PROVE GridPart!ShiftSpans'
  <2>1. PICK y, x : grid_ranges' = <<GridPart!Span(grid_focus[1], grid_focus[2], y, x)>> /\
            grid_move' = <<y, x>> /\ UNCHANGED grid_focus
    BY <1>5 DEF GridPart!ShiftArrow
  <2>2. grid_move'[1] = y /\ grid_move'[2] = x
    BY <2>1
  <2>3. QED
    BY <2>1, <2>2 DEF GridPart!ShiftSpans
<1>6. CASE GridPart!Tab
  BY <1>6 DEF GridPart!Tab, GridPart!SetFocus, GridPart!ShiftSpans
<1>7. CASE GridPart!EnterEditMode \/ GridPart!ExitEditMode
  BY <1>7 DEF GridPart!EnterEditMode, GridPart!ExitEditMode, GridPart!ShiftSpans
<1>8. CASE GridPart!InsertNewRow
  BY <1>8 DEF GridPart!InsertNewRow, GridPart!SetFocus, GridPart!ShiftSpans
<1>9. CASE GridPart!DropRow \/ GridPart!SavedWithoutRow
  BY <1>9 DEF GridPart!DropRow, GridPart!SavedWithoutRow, GridPart!ShiftSpans
<1>10. CASE UNCHANGED grid_vars
  BY <1>10 DEF grid_vars, GridPart!ShiftSpans
<1>11. QED
  BY <1>1, <1>2, <1>3, <1>4, <1>5, <1>6, <1>7, <1>8, <1>9, <1>10 DEF GridPart!Next

(* Shift and an arrow select the rectangle from the focus to the cell reached, for any grid. *)
THEOREM ShiftSelectsRectangleHolds == Spec => []ShiftSelectsRectangle
<1> DEFINE Inv == part = "grid" => GridPart!ShiftSpans
<1>1. Init => Inv
  BY GridInit DEF Init, OnlyAtFirst
<1>2. Inv /\ [Next]_vars => Inv'
  BY PartSteps, GridStep
<1>3. Inv => ShiftSelectsRectangle
  BY DEF ShiftSelectsRectangle
<1>4. QED
  BY <1>1, <1>2, <1>3, PTL DEF Spec

-----------------------------------------------------------------------------
(* The buttons under a result: what the Aggregate button was told *)

(* What makes the invariant inductive: the total is never of a page that was not read yet, and *)
(* the id of a timer that was cleared stays only after a discard that came too soon.           *)
PanelInv ==
  /\ panel_page \in Nat /\ panel_total.page \in Nat /\ panel_total.page <= panel_page
  /\ panel_tapped \in BOOLEAN
  /\ panel_tapped \/ panel_timer \in {"none", "armed"}
  /\ PanelPart!TotalIsOfSelection

LEMMA PanelInit == PanelPart!Init => PanelInv
<1> SUFFICES ASSUME PanelPart!Init PROVE PanelInv
  OBVIOUS
<1>1. panel_page = 1 /\ panel_ranges = <<>> /\ panel_edits = 0 /\ panel_timer = "none" /\ panel_tapped = FALSE
  BY DEF PanelPart!Init
<1>2. panel_total.page = 0
  BY DEF PanelPart!Init
<1>3. panel_total.page # panel_page /\ panel_ranges = <<>> /\ panel_edits = 0
  BY <1>1, <1>2
<1>4. PanelPart!TotalIsOfSelection
  BY <1>3 DEF PanelPart!TotalIsOfSelection
<1>5. panel_page \in Nat /\ panel_total.page \in Nat /\ panel_total.page <= panel_page
  BY <1>1, <1>2
<1>6. panel_tapped \in BOOLEAN /\ panel_timer \in {"none", "armed"}
  BY <1>1
<1>7. QED
  BY <1>4, <1>5, <1>6 DEF PanelInv

(* The listeners compute the total of the table on the screen. *)
LEMMA ToldTotals ==
  ASSUME PanelInv, PanelPart!Told, UNCHANGED panel_page, panel_tapped' \in BOOLEAN, panel_tapped' \/
      panel_timer' \in {"none", "armed"}
  PROVE  PanelInv'
<1>1. panel_total' = [page |-> panel_page, edits |-> panel_edits', ranges |-> panel_ranges']
  BY DEF PanelPart!Told
<1>2. panel_total'.page = panel_page
  BY <1>1
<1>3. QED
  BY <1>1, <1>2 DEF PanelInv, PanelPart!TotalIsOfSelection

(* A change of the table on the screen arms the timer. *)
LEMMA BroadcastArms ==
  ASSUME PanelInv, PanelPart!Broadcast, UNCHANGED <<panel_page, panel_total, panel_tapped>>
  PROVE  PanelInv'
<1>1. panel_tapped \/ panel_timer' = "armed"
  BY DEF PanelInv, PanelPart!Broadcast
<1>2. QED
  BY <1>1 DEF PanelInv, PanelPart!TotalIsOfSelection

LEMMA PanelStep == PanelInv /\ (PanelPart!Next \/ UNCHANGED panel_vars) => PanelInv'
<1> SUFFICES ASSUME PanelInv, PanelPart!Next \/ UNCHANGED panel_vars PROVE PanelInv'
  OBVIOUS
<1> USE DEF PanelPart!Unheard
<1>1. ASSUME UNCHANGED <<panel_page, panel_edits, panel_ranges, panel_timer, panel_total,
          panel_tapped>> PROVE PanelInv'
  BY <1>1 DEF PanelInv, PanelPart!TotalIsOfSelection
<1>2. CASE PanelPart!Fire
  <2>1. PanelPart!Told /\ UNCHANGED <<panel_page, panel_tapped>> /\ panel_timer' = "none"
    BY <1>2 DEF PanelPart!Fire
  <2>2. QED
    BY <2>1, ToldTotals DEF PanelInv
<1>3. CASE PanelPart!Edit
  BY <1>3, BroadcastArms DEF PanelPart!Edit
<1>4. CASE PanelPart!Discard
  <2>1. /\ PanelPart!Told /\ UNCHANGED panel_page
        /\ panel_timer' = IF panel_timer = "none" THEN "armed" ELSE "dead"
        /\ panel_tapped' = (panel_tapped \/ panel_timer # "none")
    BY <1>4 DEF PanelPart!Discard
  <2>2. panel_tapped' \in BOOLEAN /\ (panel_tapped' \/ panel_timer' \in {"none", "armed"})
    BY <2>1 DEF PanelInv
  <2>3. QED
    BY <2>1, <2>2, ToldTotals
<1>5. CASE PanelPart!Reload
  <2>1. /\ panel_page' = panel_page + 1 /\ panel_edits' = 0 /\ panel_ranges' = <<>> /\ panel_timer' = "none"
        /\ UNCHANGED <<panel_total, panel_tapped>>
    BY <1>5 DEF PanelPart!Reload
  <2>2. panel_total'.page # panel_page'
    BY <2>1 DEF PanelInv
  <2>3. QED
    BY <2>1, <2>2 DEF PanelInv, PanelPart!TotalIsOfSelection
<1>6. CASE PanelPart!OpenPopover
  BY <1>1, <1>6 DEF PanelPart!OpenPopover, PanelPart!grid
<1>7. CASE PanelPart!ChangeSetting
  BY <1>1, <1>7 DEF PanelPart!ChangeSetting, PanelPart!grid
<1>8. CASE PanelPart!Export
  BY <1>1, <1>8 DEF PanelPart!Export, PanelPart!grid
<1>9. ASSUME NEW s \in Selections, PanelPart!Select(s) PROVE PanelInv'
  BY <1>9, BroadcastArms DEF PanelPart!Select
<1>10. ASSUME NEW c \in PanelPart!Choices, PanelPart!Choose(c) PROVE PanelInv'
  BY <1>1, <1>10 DEF PanelPart!Choose, PanelPart!grid
<1>11. ASSUME NEW k \in 1..2, PanelPart!PickRange(k) PROVE PanelInv'
  BY <1>1, <1>11 DEF PanelPart!PickRange, PanelPart!grid
<1>12. CASE UNCHANGED panel_vars
  BY <1>1, <1>12 DEF panel_vars
<1>13. QED
  BY <1>2, <1>3, <1>4, <1>5, <1>6, <1>7, <1>8, <1>9, <1>10, <1>11, <1>12 DEF PanelPart!Next

LEMMA PanelImplied == PanelInv => PanelPart!TotalIsOfSelection
  BY DEF PanelInv

-----------------------------------------------------------------------------
(* The settings of the Export buttons *)

(* A copy of the settings that knows the options last typed for each format. *)
UpToDate(s) ==
  \A f \in ExportFormats \ settings_clash :
    SettingsPart!TemplateOr(s.template, f, SettingsPart!Default) = settings_last[f]

(* A complete copy: the options it shows are those of its template. *)
Complete(s) ==
  /\ s = [format |-> s.format, options |-> s.options, template |-> s.template]
  /\ s.format \in ExportFormats
  /\ s.format \in DOMAIN s.template /\ s.options = s.template[s.format]

SettingsInv ==
  /\ DOMAIN settings_setting = ExportButtons /\
       settings_setting = [b \in ExportButtons |-> settings_setting[b]]
  /\ DOMAIN settings_last = ExportFormats /\ settings_last = [f \in ExportFormats |-> settings_last[f]]
  /\ \A b \in SettingsPart!Mounted : Complete(settings_setting[b]) /\ UpToDate(settings_setting[b])
  /\ settings_stored = SettingsPart!Absent \/ Complete(settings_stored)
  /\ UpToDate(settings_stored)

(* Nothing was typed yet. *)
LEMMA SettingsInit == ASSUME SettingsPart!Init PROVE SettingsInv
BY DEF SettingsPart!Init, SettingsInv, SettingsPart!Mounted, UpToDate, SettingsPart!Absent,
    SettingsPart!TemplateOr

(* What is saved is complete, and as recent as what is known of every format but its own. *)
LEMMA SavedIsComplete ==
  ASSUME NEW s, NEW f \in ExportFormats, NEW o, NEW t, s = [format |-> f, options |-> o, template |-> t],
         NEW full, full = [s EXCEPT !.template = SettingsPart!With(@, s.format, s.options)]
  PROVE  /\ Complete(full) /\ full # SettingsPart!Absent
         /\ full.format = f /\ full.options = o
         /\ \A g \in ExportFormats : SettingsPart!TemplateOr(full.template, g, SettingsPart!Default)
                                 = IF g = f THEN o ELSE SettingsPart!TemplateOr(t, g, SettingsPart!Default)
<1>1. full = [format |-> f, options |-> o, template |-> SettingsPart!With(t, f, o)]
  OBVIOUS
<1>2. full # SettingsPart!Absent
  BY <1>1, SettingsAssumption DEF SettingsPart!Absent
<1>3. /\ DOMAIN SettingsPart!With(t, f, o) = DOMAIN t \cup {f} /\ SettingsPart!With(t, f, o)[f] = o
      /\ \A g \in DOMAIN t : g # f => SettingsPart!With(t, f, o)[g] = t[g]
  BY DEF SettingsPart!With
<1>4. Complete(full)
  BY <1>1, <1>3 DEF Complete
<1>5. \A g \in ExportFormats : SettingsPart!TemplateOr(SettingsPart!With(t, f, o), g, SettingsPart!Default)
                           = IF g = f THEN o ELSE SettingsPart!TemplateOr(t, g, SettingsPart!Default)
  BY <1>3 DEF SettingsPart!TemplateOr
<1>6. QED
  BY <1>1, <1>2, <1>4, <1>5

(* A button that saves settings in which only what nobody else has seen is new. *)
LEMMA SaveKeeps ==
  ASSUME SettingsInv, NEW b \in ExportButtons, NEW f \in ExportFormats, NEW o, NEW t,
         SettingsPart!SaveSettingToStorage(b, [format |-> f, options |-> o, template |-> t]),
         DOMAIN settings_last' = ExportFormats,
         settings_last' = [g \in ExportFormats |-> settings_last'[g]],
         settings_clash \subseteq settings_clash',
         \A g \in ExportFormats \ settings_clash' : (IF g = f THEN o ELSE SettingsPart!TemplateOr(t, g,
         SettingsPart!Default)) = settings_last'[g],
         \A g \in ExportFormats \ settings_clash' : settings_last'[g] = settings_last[g] \/
         SettingsPart!Mounted \subseteq {b}
  PROVE  SettingsInv'
<1> DEFINE s == [format |-> f, options |-> o, template |-> t]
           full == [s EXCEPT !.template = SettingsPart!With(@, s.format, s.options)]
<1>1. /\ Complete(full) /\ full # SettingsPart!Absent
      /\ full.format = f /\ full.options = o
      /\ \A g \in ExportFormats : SettingsPart!TemplateOr(full.template, g, SettingsPart!Default)
                              = IF g = f THEN o ELSE SettingsPart!TemplateOr(t, g, SettingsPart!Default)
  BY SavedIsComplete
<1>2. settings_setting' = [settings_setting EXCEPT ![b] = full] /\ settings_stored' = full
  BY DEF SettingsPart!SaveSettingToStorage
<1> HIDE DEF full, s
<1>3. UpToDate(full)'
  BY <1>1, <1>2 DEF UpToDate
<1>4. ASSUME NEW c \in SettingsPart!Mounted', NEW m, m = settings_setting'[c] PROVE Complete(m) /\
          UpToDate(m)'
  <2>1. CASE c = b
    <3>1. m = full
      BY <1>2, <1>4, <2>1 DEF SettingsInv
    <3>2. QED
      BY <1>1, <1>3, <3>1
  <2>2. CASE c # b
    <3>1. c \in SettingsPart!Mounted /\ m = settings_setting[c]
      BY <1>2, <1>4, <2>2 DEF SettingsInv, SettingsPart!Mounted
    <3>2. \A g \in ExportFormats \ settings_clash' : settings_last'[g] = settings_last[g]
      BY <2>2, <3>1
    <3>3. Complete(m) /\ UpToDate(m)
      BY <3>1 DEF SettingsInv
    <3>4. QED
      BY <3>2, <3>3 DEF UpToDate
  <2>3. QED
    BY <2>1, <2>2
<1>5. DOMAIN settings_setting' = ExportButtons /\
          settings_setting' = [c \in ExportButtons |-> settings_setting'[c]]
  BY <1>2 DEF SettingsInv
<1>6. settings_stored' = full /\ Complete(settings_stored)' /\ UpToDate(settings_stored)'
  BY <1>1, <1>2, <1>3
<1>7. \A c \in SettingsPart!Mounted' : Complete(settings_setting[c])' /\ UpToDate(settings_setting[c])'
  BY <1>4
<1>8. QED
  BY <1>5, <1>6, <1>7 DEF SettingsInv

(* Every change of a setting or a place keeps what the copies know. *)
LEMMA SettingsStep == ASSUME SettingsInv, SettingsPart!Next \/ UNCHANGED settings_vars PROVE SettingsInv'
<1>1. ASSUME NEW b \in ExportButtons, SettingsPart!Mount(b) PROVE SettingsInv'
  <2>1. CASE settings_stored = SettingsPart!Absent
    <3>1. SettingsPart!GetSettingFromStorage
            = [format |-> "csv", options |-> SettingsPart!Default, template |-> <<>>]
      BY <2>1 DEF SettingsPart!GetSettingFromStorage
    <3>2. \A g \in ExportFormats : SettingsPart!TemplateOr(<<>>, g,
              SettingsPart!Default) = SettingsPart!Default
      BY DEF SettingsPart!TemplateOr
    <3>3. \A g \in ExportFormats \ settings_clash : settings_last[g] = SettingsPart!Default
      BY <2>1, <3>2 DEF SettingsInv, UpToDate, SettingsPart!Absent
    <3>4. QED
      BY <1>1, <3>1, <3>2, <3>3, SaveKeeps, SettingsAssumption DEF SettingsPart!Mount, SettingsInv
  <2>2. CASE settings_stored # SettingsPart!Absent
    <3>1. Complete(settings_stored) /\ UpToDate(settings_stored)
      BY <2>2 DEF SettingsInv
    <3>2. SettingsPart!GetSettingFromStorage
            = [format |-> settings_stored.format, options |-> settings_stored.options,
               template |-> settings_stored.template]
      BY <2>2, <3>1 DEF SettingsPart!GetSettingFromStorage, Complete, SettingsPart!TemplateOr
    <3>3. \A g \in ExportFormats \ settings_clash :
            (IF g = settings_stored.format THEN settings_stored.options
             ELSE SettingsPart!TemplateOr(settings_stored.template, g, SettingsPart!Default)) = settings_last[g]
      BY <3>1 DEF Complete, UpToDate, SettingsPart!TemplateOr
    <3>4. QED
      BY <1>1, <3>1, <3>2, <3>3, SaveKeeps DEF SettingsPart!Mount, Complete, SettingsInv
  <2>3. QED
    BY <2>1, <2>2
<1>2. ASSUME NEW b \in ExportButtons, SettingsPart!Unmount(b) PROVE SettingsInv'
  <2>1. /\ SettingsPart!Mounted' \subseteq SettingsPart!Mounted /\
             \A c \in SettingsPart!Mounted' : settings_setting'[c] = settings_setting[c]
        /\ DOMAIN settings_setting' = ExportButtons /\
             settings_setting' = [c \in ExportButtons |-> settings_setting'[c]]
    BY <1>2 DEF SettingsPart!Unmount, SettingsPart!Mounted, SettingsInv
  <2>2. QED
    BY <1>2, <2>1 DEF SettingsInv, SettingsPart!Unmount, UpToDate
<1>3. ASSUME NEW b \in ExportButtons, NEW f \in ExportFormats, SettingsPart!ChooseFormat(b,
          f) PROVE SettingsInv'
  <2>1. Complete(settings_setting[b]) /\ UpToDate(settings_setting[b])
    BY <1>3 DEF SettingsInv, SettingsPart!ChooseFormat
  <2> DEFINE o == SettingsPart!TemplateOr(settings_setting[b].template, f, SettingsPart!Default)
  <2>2. [settings_setting[b] EXCEPT
          !.format = f,
          !.options = SettingsPart!TemplateOr(settings_setting[b].template, f, SettingsPart!Default)]
          = [format |-> f, options |-> o, template |-> settings_setting[b].template]
    <3>1. PICK m : m = settings_setting[b]
      OBVIOUS
    <3>2. m = [format |-> m.format, options |-> m.options, template |-> m.template]
      BY <2>1, <3>1 DEF Complete
    <3>3. [m EXCEPT !.format = f] = [format |-> f, options |-> m.options, template |-> m.template]
      BY <3>2
    <3>4. PICK n : n = [m EXCEPT !.format = f]
      OBVIOUS
    <3>5. n = [format |-> f, options |-> m.options, template |-> m.template]
      BY <3>3, <3>4
    <3>6. [n EXCEPT !.options = o] = [format |-> f, options |-> o, template |-> m.template]
      BY <3>5
    <3>7. QED
      BY <3>1, <3>4, <3>6
  <2>3. \A g \in ExportFormats \ settings_clash :
          (IF g = f THEN o ELSE SettingsPart!TemplateOr(settings_setting[b].template, g, SettingsPart!Default))
            = settings_last[g]
    BY <2>1 DEF UpToDate
  <2> HIDE DEF o
  <2>4. SettingsPart!SaveSettingToStorage(b,
            [format |-> f, options |-> o, template |-> settings_setting[b].template])
    BY <1>3, <2>2 DEF SettingsPart!ChooseFormat
  <2>5. settings_last' = settings_last /\ settings_clash' = settings_clash
    BY <1>3 DEF SettingsPart!ChooseFormat
  <2>6. QED
    BY <2>3, <2>4, <2>5, SaveKeeps DEF SettingsInv
<1>4. ASSUME NEW b \in ExportButtons, NEW o \in OptionTexts, SettingsPart!TypeOptions(b, o) PROVE SettingsInv'
  <2> DEFINE f == settings_setting[b].format
  <2>1. Complete(settings_setting[b]) /\ UpToDate(settings_setting[b])
    BY <1>4 DEF SettingsInv, SettingsPart!TypeOptions
  <2>2. f \in ExportFormats
    BY <2>1 DEF Complete
  <2>3. [settings_setting[b] EXCEPT !.options = o]
          = [format |-> f, options |-> o, template |-> settings_setting[b].template]
    BY <2>1 DEF Complete
  <2>4. SettingsPart!SaveSettingToStorage(b,
            [format |-> f, options |-> o, template |-> settings_setting[b].template])
    BY <1>4, <2>3 DEF SettingsPart!TypeOptions
  <2>5. /\ settings_last' = [settings_last EXCEPT ![f] = o]
        /\ settings_clash' = IF SettingsPart!Mounted # {b} THEN settings_clash \cup {f} ELSE settings_clash
    BY <1>4 DEF SettingsPart!TypeOptions
  <2> HIDE DEF f
  <2>6. /\ DOMAIN settings_last' = ExportFormats /\
             settings_last' = [g \in ExportFormats |-> settings_last'[g]]
        /\ settings_last'[f] = o /\ \A g \in ExportFormats : g # f => settings_last'[g] = settings_last[g]
    BY <2>2, <2>5 DEF SettingsInv
  <2>7. \A g \in ExportFormats \ settings_clash' :
          (IF g = f THEN o ELSE SettingsPart!TemplateOr(settings_setting[b].template, g, SettingsPart!Default))
            = settings_last'[g]
    BY <2>1, <2>5, <2>6 DEF UpToDate
  <2>8. \A g \in ExportFormats \ settings_clash' : settings_last'[g] = settings_last[g] \/
            SettingsPart!Mounted \subseteq {b}
    BY <2>5, <2>6
  <2>9. settings_clash \subseteq settings_clash'
    BY <2>5
  <2>10. QED
    BY <2>2, <2>4, <2>6, <2>7, <2>8, <2>9, SaveKeeps
<1>5. CASE UNCHANGED settings_vars
  BY <1>5 DEF settings_vars, SettingsInv, SettingsPart!Mounted, UpToDate
<1>6. QED
  BY <1>1, <1>2, <1>3, <1>4, <1>5 DEF SettingsPart!Next

(* A button shows what was last typed for its format. *)
LEMMA SettingsImplied == ASSUME SettingsInv PROVE SettingsPart!OptionsAreRemembered
<1>1. ASSUME NEW b \in SettingsPart!Mounted, settings_setting[b].format \notin settings_clash
      PROVE  settings_setting[b].options = settings_last[settings_setting[b].format]
  <2>1. settings_setting[b].format \in ExportFormats \ settings_clash /\ Complete(settings_setting[b]) /\
            UpToDate(settings_setting[b])
    BY <1>1 DEF SettingsInv, Complete
  <2>2. SettingsPart!TemplateOr(settings_setting[b].template, settings_setting[b].format,
            SettingsPart!Default) = settings_last[settings_setting[b].format]
    BY <2>1 DEF UpToDate
  <2>3. QED
    BY <2>1, <2>2 DEF Complete, SettingsPart!TemplateOr
<1>2. QED
  BY <1>1 DEF SettingsPart!OptionsAreRemembered

(* The total is that of the selection or about to be, and options typed for an export are used  *)
(* for it, for any number of buttons, formats and changes.                                      *)
THEOREM ButtonsFollowTableHolds == Spec => []ButtonsFollowTable
<1> DEFINE Inv == (part = "panel" => PanelInv) /\ (part = "settings" => SettingsInv)
<1>1. Init => Inv
  BY PanelInit, SettingsInit DEF Init, OnlyAtFirst
<1>2. Inv /\ [Next]_vars => Inv'
  BY PartSteps, PanelStep, SettingsStep
<1>3. Inv => ButtonsFollowTable
  BY PanelImplied, SettingsImplied DEF ButtonsFollowTable
<1>4. QED
  BY <1>1, <1>2, <1>3, PTL DEF Spec
=============================================================================
