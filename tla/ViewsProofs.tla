------------------------------ MODULE ViewsProofs ------------------------------
(***************************************************************************)
(* What the tree, the history and the board show and select, for any data, *)
(* folding, filters, queries, window heights and number of refreshes.  The *)
(* invariant has a part for each view:                                     *)
(*                                                                         *)
(*   BoardInv    the cursor of each column is on one of its cards, and the *)
(*               matches are those of the query on the cards of now;       *)
(*   TreeInv     the rows are the visible nodes, the tree is that of the   *)
(*               data or project of now (HashHolds says what the hash by   *)
(*               which a refresh decides is worth), what is open was saved *)
(*               (SavedIn) and the cursor is drawn (Follows);              *)
(*   HistoryInv  outside a search the list is that of the report and the   *)
(*               filters, and the cursors are on it (ListFits, GitFits).   *)
(*                                                                         *)
(* A listing is a sequence in the order of a relation; the lemmas about    *)
(* InOrder and Thinned say that it has each element once, which is what    *)
(* finding a selected issue, bead or card again rests on.                  *)
(***************************************************************************)
EXTENDS Views, FiniteSetTheorems, TLAPS

-----------------------------------------------------------------------------
(* Numbers and listings.                                                   *)

\* The elements that R puts before x.
Below(S, R, x) == {y \in S : <<y, x>> \in R}

TotalOrder(S, R) ==
  /\ \A x \in S : <<x, x>> \notin R
  /\ \A x, y, z \in S : <<x, y>> \in R /\ <<y, z>> \in R => <<x, z>> \in R
  /\ \A x, y \in S : x = y \/ <<x, y>> \in R \/ <<y, x>> \in R

\* In a finite total order the number of smaller elements tells elements apart.
LEMMA Ranks ==
  ASSUME NEW S, IsFiniteSet(S), NEW R, TotalOrder(S, R)
  PROVE  /\ Cardinality(S) \in Nat
         /\ \A x \in S : Cardinality(Below(S, R, x)) \in 0..(Cardinality(S) - 1)
         /\ \A x, y \in S : Cardinality(Below(S, R, x)) = Cardinality(Below(S, R, y)) => x = y
<1> DEFINE n == Cardinality(S)
<1>1. n \in Nat
  BY FS_CardinalityType
<1>2. ASSUME NEW x \in S
      PROVE  /\ Below(S, R, x) \in SUBSET (S \ {x}) /\ IsFiniteSet(Below(S, R, x))
             /\ Cardinality(Below(S, R, x)) \in Nat
             /\ Cardinality(Below(S, R, x)) <= n - 1
  <2>1. Below(S, R, x) \in SUBSET (S \ {x})
    BY DEF Below, TotalOrder
  <2>2. IsFiniteSet(S \ {x}) /\ Cardinality(S \ {x}) = n - 1
    BY FS_RemoveElement
  <2>3. IsFiniteSet(Below(S, R, x)) /\ Cardinality(Below(S, R, x)) <= n - 1
    BY <2>1, <2>2, FS_Subset
  <2> QED
    BY <2>1, <2>3, FS_CardinalityType
<1>3. ASSUME NEW x \in S, NEW y \in S, <<x, y>> \in R
      PROVE  Cardinality(Below(S, R, x)) < Cardinality(Below(S, R, y))
  <2>1. Below(S, R, x) \cup {x} \in SUBSET Below(S, R, y)
    BY <1>3 DEF Below, TotalOrder
  <2>2. x \notin Below(S, R, x)
    BY <1>2
  <2>3. Cardinality(Below(S, R, x) \cup {x}) = Cardinality(Below(S, R, x)) + 1
    BY <1>2, <2>2, FS_AddElement
  <2>4. Cardinality(Below(S, R, x) \cup {x}) <= Cardinality(Below(S, R, y))
    BY <1>2, <2>1, FS_Subset
  <2>5. /\ Cardinality(Below(S, R, x)) \in Nat /\ Cardinality(Below(S, R, y)) \in Nat
    BY <1>2
  <2> QED
    BY <2>3, <2>4, <2>5
<1>4. ASSUME NEW x \in S, NEW y \in S,
             Cardinality(Below(S, R, x)) = Cardinality(Below(S, R, y))
      PROVE  x = y
  <2>1. /\ Cardinality(Below(S, R, x)) \in Nat /\ Cardinality(Below(S, R, y)) \in Nat
    BY <1>2
  <2>2. x = y \/ <<x, y>> \in R \/ <<y, x>> \in R
    BY DEF TotalOrder
  <2>3. ~(<<x, y>> \in R)
    BY <1>3, <1>4, <2>1
  <2>4. ~(<<y, x>> \in R)
    BY <1>3, <1>4, <2>1
  <2> QED
    BY <2>2, <2>3, <2>4
<1>5. \A x \in S : Cardinality(Below(S, R, x)) \in 0..(n - 1)
  <2> TAKE x \in S
  <2> HIDE DEF n
  <2> QED
    BY <1>1, <1>2
<1> QED
  BY <1>1, <1>4, <1>5

\* A strict total order lists a finite set: each element once, behind as many as are before it.
LEMMA Ranked ==
  ASSUME NEW S, IsFiniteSet(S), NEW R, TotalOrder(S, R)
  PROVE  /\ InOrder(S, R) \in Seq(S)
         /\ Len(InOrder(S, R)) = Cardinality(S)
         /\ Cardinality(S) \in Nat
         /\ Range(InOrder(S, R)) = S
         /\ \A k \in 1..Cardinality(S) :
              InOrder(S, R)[k] \in S /\ Cardinality(Below(S, R, InOrder(S, R)[k])) = k - 1
<1> DEFINE n == Cardinality(S)
           rank == [x \in S |-> Cardinality(Below(S, R, x))]
           f == InOrder(S, R)
<1>1. /\ n \in Nat
      /\ \A x \in S : Cardinality(Below(S, R, x)) \in 0..(n - 1)
      /\ \A x, y \in S : Cardinality(Below(S, R, x)) = Cardinality(Below(S, R, y)) => x = y
  BY Ranks
<1>2. rank \in Surjection(S, 0..(n - 1))
  <2>1. IsFiniteSet(0..(n - 1)) /\ Cardinality(0..(n - 1)) = n
    <3> HIDE DEF n
    <3>1. n - 1 \in Int /\ 0 \in Int
      BY <1>1
    <3> QED
      BY <1>1, <3>1, FS_Interval
  <2>2. rank \in Injection(S, 0..(n - 1))
    BY <1>1 DEF Injection, IsInjective
  <2> HIDE DEF rank
  <2> QED
    BY <2>1, <2>2, FS_Injection
<1> DEFINE at(k) == CHOOSE x \in S : Cardinality({y \in S : <<y, x>> \in R}) = k - 1
<1>3. f = [k \in 1..n |-> at(k)]
  BY DEF InOrder
<1>4. ASSUME NEW k \in 1..n
      PROVE  at(k) \in S /\ Cardinality(Below(S, R, at(k))) = k - 1
  <2>1. k - 1 \in 0..(n - 1)
    BY <1>1
  <2>2. \E x \in S : rank[x] = k - 1
    BY <1>2, <2>1 DEF Surjection
  <2>3. \E x \in S : Cardinality(Below(S, R, x)) = k - 1
    BY <2>2
  <2>4. at(k) = CHOOSE x \in S : Cardinality(Below(S, R, x)) = k - 1
    BY DEF Below
  <2> HIDE DEF at
  <2> QED
    BY <2>3, <2>4
<1> HIDE DEF at, f, n
<1>5. f \in Seq(S) /\ Len(f) = n /\ DOMAIN f = 1..n /\ \A k \in 1..n : f[k] = at(k)
  BY <1>1, <1>3, <1>4
<1>6. \A x \in S : \E k \in 1..n : f[k] = x
  <2> TAKE x \in S
  <2> DEFINE k == Cardinality(Below(S, R, x)) + 1
  <2>1. k \in 1..n /\ k - 1 = Cardinality(Below(S, R, x))
    BY <1>1
  <2>2. f[k] \in S /\ Cardinality(Below(S, R, f[k])) = Cardinality(Below(S, R, x))
    BY <1>4, <1>5, <2>1
  <2>3. f[k] = x
    <3> HIDE DEF k
    <3> QED
      BY <1>1, <2>2
  <2> QED
    BY <2>1, <2>3
<1>7. Range(f) = S
  BY <1>4, <1>5, <1>6, SMTT(30) DEF Range
<1>8. \A k \in 1..n : f[k] \in S /\ Cardinality(Below(S, R, f[k])) = k - 1
  BY <1>4, <1>5
<1> QED
  BY <1>5, <1>7, <1>8 DEF f, n

\* And then there is a first one.
LEMMA FirstOf ==
  ASSUME NEW S, IsFiniteSet(S), S # {}, NEW R, TotalOrder(S, R)
  PROVE  \E x \in S : \A y \in S : x = y \/ <<x, y>> \in R
<1>1. Cardinality(S) \in Nat /\ Cardinality(S) # 0
  BY FS_CardinalityType, FS_EmptySet
<1> DEFINE x == InOrder(S, R)[1]
<1>2. x \in S /\ Cardinality(Below(S, R, x)) = 0
  <2>1. 1 \in 1..Cardinality(S) /\ 1 - 1 = 0
    BY <1>1
  <2> QED
    BY <2>1, Ranked
<1> HIDE DEF x
<1>3. Below(S, R, x) = {}
  <2>1. Below(S, R, x) \in SUBSET S
    BY DEF Below
  <2> QED
    BY <1>2, <2>1, FS_Subset, FS_EmptySet
<1> QED
  BY <1>2, <1>3 DEF Below, TotalOrder

\* A set of naturals with a member has a least one.
LEMMA LeastNatural ==
  ASSUME NEW S \in SUBSET Nat, S # {}
  PROVE  Min(S) \in S /\ \A y \in S : Min(S) <= y
<1> PICK n \in S : TRUE
  OBVIOUS
<1> DEFINE T == {y \in S : y <= n}
           R == {pair \in T \X T : pair[1] < pair[2]}
<1>1. IsFiniteSet(T) /\ T \in SUBSET Nat /\ n \in T
  <2>1. n \in Nat /\ n <= n
    OBVIOUS
  <2>2. T \in SUBSET Nat /\ \A y \in T : y <= n
    OBVIOUS
  <2>3. n \in T
    BY <2>1
  <2> HIDE DEF T, R
  <2> QED
    BY <2>1, <2>2, <2>3, FS_BoundedSetOfNaturals
<1>2. \A x, y \in T : <<x, y>> \in R <=> x < y
  OBVIOUS
<1>3. \A y \in S : y \in T \/ (y \in Nat /\ n \in Nat /\ y > n)
  OBVIOUS
<1> HIDE DEF R, T
<1>4. TotalOrder(T, R)
  BY <1>1, <1>2 DEF TotalOrder
<1>5. PICK x \in T : \A y \in T : x = y \/ <<x, y>> \in R
  BY <1>1, <1>4, FirstOf
<1>6. x \in S /\ \A y \in S : x <= y
  <2> x \in Nat
    BY <1>1
  <2>1. ASSUME NEW y \in T PROVE x <= y
    <3>1. x = y \/ x < y
      BY <1>2, <1>5
    <3> QED
      BY <1>1, <3>1
  <2> QED
    BY <1>1, <1>3, <2>1 DEF T
<1> QED
  BY <1>6 DEF Min

\* A finite set of naturals with a member has a greatest one.
LEMMA GreatestNatural ==
  ASSUME NEW S \in SUBSET Nat, IsFiniteSet(S), S # {}
  PROVE  Max(S) \in S /\ \A y \in S : Max(S) >= y
<1> DEFINE R == {pair \in S \X S : pair[1] > pair[2]}
<1>1. \A x, y \in S : <<x, y>> \in R <=> x > y
  OBVIOUS
<1> HIDE DEF R
<1>2. TotalOrder(S, R)
  BY <1>1 DEF TotalOrder
<1>3. PICK x \in S : \A y \in S : x = y \/ <<x, y>> \in R
  BY <1>2, FirstOf
<1>4. ASSUME NEW y \in S PROVE x >= y
  <2>1. x = y \/ x > y
    BY <1>1, <1>3
  <2> QED
    BY <2>1
<1> QED
  BY <1>4 DEF Max

\* The members of a finite set of numbers, in their order.
LEMMA AscendingLists ==
  ASSUME NEW S \in SUBSET Int, IsFiniteSet(S)
  PROVE  /\ Ascending(S) \in Seq(S) /\ Len(Ascending(S)) = Cardinality(S)
         /\ Cardinality(S) \in Nat /\ Range(Ascending(S)) = S
<1> DEFINE R == {pair \in S \X S : pair[1] < pair[2]}
<1>1. \A x, y \in S : <<x, y>> \in R <=> x < y
  OBVIOUS
<1>2. Ascending(S) = InOrder(S, R)
  BY DEF Ascending
<1> HIDE DEF R
<1>3. TotalOrder(S, R)
  BY <1>1 DEF TotalOrder
<1> QED
  BY <1>2, <1>3, Ranked

\* What is left of a list are its elements at the positions that stay.
LEMMA ThinnedLists ==
  ASSUME NEW T, NEW s \in Seq(T), NEW K \in SUBSET (DOMAIN s)
  PROVE  /\ Thinned(s, K) \in Seq(T) /\ Len(Thinned(s, K)) = Cardinality(K)
         /\ Cardinality(K) \in Nat /\ Cardinality(K) <= Len(s)
         /\ Range(Thinned(s, K)) = {s[k] : k \in K}
<1> DEFINE at == Ascending(K)
           n == Cardinality(K)
           m == Len(s)
<1>1. DOMAIN s = 1..m /\ m \in Nat /\ K \in SUBSET Int
  OBVIOUS
<1>2. IsFiniteSet(K) /\ n <= m
  <2> HIDE DEF m
  <2>1. IsFiniteSet(1..m) /\ Cardinality(1..m) = m
    BY <1>1, FS_Interval
  <2> QED
    BY <1>1, <2>1, FS_Subset
<1>3. at \in Seq(K) /\ Len(at) = n /\ n \in Nat /\ Range(at) = K
  BY <1>1, <1>2, AscendingLists
<1>4. Thinned(s, K) = [k \in DOMAIN at |-> s[at[k]]]
  BY DEF Thinned
<1> HIDE DEF at, n
<1>5. DOMAIN at = 1..n /\ \A k \in 1..n : at[k] \in K /\ s[at[k]] \in T
  BY <1>3
<1>6. Thinned(s, K) \in Seq(T) /\ Len(Thinned(s, K)) = n
  <2>1. Thinned(s, K) = [k \in 1..n |-> s[at[k]]]
    BY <1>4, <1>5
  <2> HIDE DEF m
  <2> QED
    BY <1>3, <1>5, <2>1
<1>7. Range(Thinned(s, K)) = {s[k] : k \in K}
  BY <1>3, <1>4 DEF Range
<1> QED
  BY <1>2, <1>3, <1>6, <1>7 DEF n

\* A sequence is empty if its length is 0.
LEMMA NotEmpty ==
  ASSUME NEW T, NEW s \in Seq(T)
  PROVE  /\ Len(s) \in Nat /\ DOMAIN s = 1..Len(s)
         /\ s # <<>> <=> Len(s) # 0
OBVIOUS

\* The greater of two.
LEMMA MaxOfTwo ==
  ASSUME NEW n \in Nat
  PROVE  Max({1, n}) = IF n > 1 THEN n ELSE 1
<1>1. IsFiniteSet({1, n}) /\ {1, n} \in SUBSET Nat /\ {1, n} # {}
  <2>1. IsFiniteSet({1} \cup {n}) /\ {1} \cup {n} = {1, n}
    BY FS_Singleton, FS_AddElement
  <2> QED
    BY <2>1
<1>2. Max({1, n}) \in {1, n} /\ \A y \in {1, n} : Max({1, n}) >= y
  BY <1>1, GreatestNatural
<1> QED
  BY <1>2

-----------------------------------------------------------------------------
(* The board.                                                              *)

Rows1 == Nat \ {0}
Boards ==
  [columns : [Columns -> Seq(Nat)], active : Seq(Columns), focused : Rows1,
   row : [Columns -> Rows1], lane : SwimLanes, empty : {"auto", "shown", "hidden"},
   searching : BOOLEAN, query : {NoQuery} \cup CardQueries, matches : Seq(Columns \X Rows1),
   match : Rows1]
BoardUIs ==
  [load : DOMAIN Cards, filter : CardFilters \cup {DOMAIN Cards[d] : d \in DOMAIN Cards},
   worker : BOOLEAN, focus : BOOLEAN, left : Nat]

\* A board before it has columns.
Blanks ==
  [columns : [Columns -> Seq(Nat)] \cup {<<>>}, active : Seq(Columns), focused : Rows1,
   row : [Columns -> Rows1], lane : SwimLanes, empty : {"auto", "shown", "hidden"},
   searching : BOOLEAN, query : {NoQuery} \cup CardQueries, matches : Seq(Columns \X Rows1),
   match : Rows1]

\* A board whose focus and rows fit, and one that is also honest about its search.
Fits(b) ==
  /\ b \in Boards /\ b.focused \in DOMAIN b.active
  /\ \A c \in Columns : b.row[c] \in 1..Max({1, Len(b.columns[c])})
BoardHonest(b) == Fits(b) /\ Range(b.matches) = PlacesOf(b, b.query)

BoardInv == boardUI \in BoardUIs /\ BoardHonest(board)

\* A row is no further than the last card, or the first without any.
LEMMA RowFits ==
  ASSUME NEW s \in Seq(Nat), NEW k \in Rows1
  PROVE  k \in 1..Max({1, Len(s)}) <=> k = 1 \/ k <= Len(s)
<1> DEFINE n == Len(s)
<1>1. n \in Nat
  OBVIOUS
<1>2. Max({1, n}) = IF n > 1 THEN n ELSE 1
  BY <1>1, MaxOfTwo
<1> HIDE DEF n
<1>3. k \in 1..Max({1, n}) <=> k = 1 \/ k <= n
  BY <1>1, <1>2 DEF Rows1
<1> QED
  BY <1>3 DEF n

\* Some columns are shown, those with cards among them.
LEMMA ActiveShown ==
  ASSUME NEW b, b.columns \in [Columns -> Seq(Nat)]
  PROVE  /\ ActiveColumns(b) \in Seq(Columns) /\ Len(ActiveColumns(b)) \in Rows1
         /\ \A c \in Columns : b.columns[c] # <<>> => c \in Range(ActiveColumns(b))
<1> DEFINE K == {c \in Columns : b.columns[c] # <<>> \/ shouldShowEmptyColumns(b)}
           some == Ascending(K)
<1>1. K \in SUBSET Int /\ K \in SUBSET Columns /\ IsFiniteSet(K)
  <2>1. IsFiniteSet(1..4)
    BY 1 \in Int, 4 \in Int, FS_Interval
  <2>2. 1..4 \in SUBSET Int
    OBVIOUS
  <2> QED
    BY <2>1, <2>2, FS_Subset DEF Columns
<1>2. some \in Seq(K) /\ Range(some) = K /\ Len(some) \in Nat
  <2> HIDE DEF K
  <2> QED
    BY <1>1, AscendingLists
<1>3. ActiveColumns(b) = IF some = <<>> THEN <<1, 2, 3, 4>> ELSE some
  BY DEF ActiveColumns
<1>4. \A c \in Columns : b.columns[c] # <<>> => c \in K
  OBVIOUS
<1> HIDE DEF K, some
<1>5. CASE some = <<>>
  <2>1. ActiveColumns(b) = <<1, 2, 3, 4>>
    BY <1>3, <1>5
  <2>2. <<1, 2, 3, 4>> \in Seq(1..4) /\ Len(<<1, 2, 3, 4>>) = 4
        /\ \A c \in 1..4 : <<1, 2, 3, 4>>[c] = c
    OBVIOUS
  <2>3. \A c \in Columns : c \in Range(<<1, 2, 3, 4>>)
    BY <2>2 DEF Range, Columns
  <2> QED
    BY <2>1, <2>2, <2>3 DEF Columns, Rows1
<1>6. CASE some # <<>>
  <2>1. some \in Seq(Columns)
    <3>1. K \in SUBSET Columns
      BY <1>1
    <3> QED
      BY <1>2, <3>1
  <2>2. Len(some) # 0
    BY <1>6, <2>1, NotEmpty
  <2> QED
    BY <1>2, <1>3, <1>4, <1>6, <2>1, <2>2 DEF Rows1
<1> QED
  BY <1>5, <1>6

\* updateActiveColumns brings the focus back to a column that is shown.
LEMMA Updated ==
  ASSUME NEW b \in Boards,
         \A c \in Columns : b.row[c] \in 1..Max({1, Len(b.columns[c])})
  PROVE  /\ Fits(updateActiveColumns(b))
         /\ updateActiveColumns(b) = [b EXCEPT !.active = updateActiveColumns(b).active,
                                              !.focused = updateActiveColumns(b).focused]
         /\ updateActiveColumns(b).active = ActiveColumns(b)
<1> DEFINE active == ActiveColumns(b)
           focused == IF b.focused > Len(active) THEN Len(active) ELSE b.focused
           u == [b EXCEPT !.active = active, !.focused = focused]
<1>1. active \in Seq(Columns) /\ Len(active) \in Rows1
  BY ActiveShown DEF Boards
<1>2. u = updateActiveColumns(b)
  BY DEF updateActiveColumns, Boards
<1> HIDE DEF active
<1>3. focused \in Rows1 /\ focused \in DOMAIN active
  BY <1>1 DEF Boards, Rows1
<1> HIDE DEF focused
<1>4. u \in Boards /\ u.active = active /\ u.focused = focused /\ u.row = b.row /\ u.columns = b.columns
  BY <1>1, <1>3 DEF Boards
<1> HIDE DEF u
<1>5. Fits(u)
  BY <1>3, <1>4 DEF Fits
<1> QED
  BY <1>2, <1>4, <1>5 DEF active, u

\* The cards of a column.
LEMMA Grouped ==
  ASSUME NEW d \in DOMAIN Cards, NEW f, NEW lane
  PROVE  groupIssuesByMode(d, f, lane) \in [Columns -> Seq(Nat)]
<1> DEFINE K(c) == {i \in DOMAIN Cards[d] \cap f : Cards[d][i][lane] = c}
<1>1. IsFiniteSet(DOMAIN Cards[d]) /\ DOMAIN Cards[d] \subseteq Nat
  BY BoardAssumption DEF Range
<1>2. ASSUME NEW c \in Columns
      PROVE  Ascending(K(c)) \in Seq(Nat)
  <2>1. K(c) \in SUBSET DOMAIN Cards[d]
    OBVIOUS
  <2> HIDE DEF K
  <2>2. IsFiniteSet(K(c)) /\ K(c) \in SUBSET Int /\ K(c) \in SUBSET Nat
    BY <1>1, <2>1, FS_Subset
  <2>3. Ascending(K(c)) \in Seq(K(c))
    BY <2>2, AscendingLists
  <2> QED
    BY <2>2, <2>3
<1>3. groupIssuesByMode(d, f, lane) = [c \in Columns |-> Ascending(K(c))]
  BY DEF groupIssuesByMode
<1> HIDE DEF K
<1> QED
  BY <1>2, <1>3

\* Rows that are clamped fit.
LEMMA Clamped ==
  ASSUME NEW s \in Seq(Nat), NEW row \in Rows1
  PROVE  ClampedRow(row, s) \in 1..Max({1, Len(s)}) /\ ClampedRow(row, s) \in Rows1
<1>1. Len(s) \in Nat /\ (s # <<>> <=> Len(s) # 0)
  BY NotEmpty
<1>2. ClampedRow(row, s) \in Rows1 /\ (ClampedRow(row, s) = 1 \/ ClampedRow(row, s) <= Len(s))
  BY <1>1 DEF ClampedRow, Rows1
<1> QED
  BY <1>2, RowFits

\* The search is ended; columns and selection stay.
LEMMA Cancelled ==
  ASSUME NEW b \in Blanks
  PROVE  LET w == CancelBoardSearch(b)
         IN /\ w \in Blanks /\ w.matches = <<>> /\ w.query = NoQuery
            /\ w.columns = b.columns /\ w.active = b.active /\ w.focused = b.focused /\ w.row = b.row
<1>1. <<>> \in Seq(Columns \X Rows1) /\ 1 \in Rows1
  BY DEF Rows1
<1> QED
  BY <1>1 DEF CancelBoardSearch, Blanks

\* New cards end the search and bring focus and rows back to them.
LEMMA RegroupedFits ==
  ASSUME NEW b \in Blanks, NEW columns \in [Columns -> Seq(Nat)]
  PROVE  /\ BoardHonest(Regrouped(b, columns))
         /\ Regrouped(b, columns).columns = columns
         /\ Regrouped(b, columns).active = ActiveColumns(Regrouped(b, columns))
<1> DEFINE w == CancelBoardSearch(b)
           row == [c \in Columns |-> ClampedRow(w.row[c], columns[c])]
           u == [w EXCEPT !.columns = columns, !.row = row]
           v == updateActiveColumns(u)
<1>1. /\ w \in Blanks /\ w.row = b.row
      /\ w.matches = <<>> /\ w.query = NoQuery
  BY Cancelled
<1>2. Regrouped(b, columns) = v
  BY DEF Regrouped
<1> HIDE DEF w
<1>3. ASSUME NEW c \in Columns
      PROVE  row[c] \in 1..Max({1, Len(columns[c])}) /\ row[c] \in Rows1
  BY <1>1, Clamped DEF Blanks
<1>4. row \in [Columns -> Rows1]
  BY <1>3
<1> HIDE DEF row
<1>5. u \in Boards /\ u.columns = columns /\ u.row = row /\ u.matches = <<>> /\ u.query = {}
  BY <1>1, <1>4 DEF Boards, Blanks, NoQuery
<1>6. \A c \in Columns : u.row[c] \in 1..Max({1, Len(u.columns[c])})
  BY <1>3, <1>5
<1> HIDE DEF u
<1>8. Fits(v) /\ v = [u EXCEPT !.active = v.active, !.focused = v.focused] /\ v.active = ActiveColumns(u)
  BY <1>5, <1>6, Updated
<1> HIDE DEF v
<1>9. v.columns = columns /\ v.matches = <<>> /\ v.query = {} /\ v.lane = u.lane /\ v.empty = u.empty
  BY <1>5, <1>8 DEF Boards
<1>10. ActiveColumns(v) = ActiveColumns(u)
  BY <1>5, <1>9 DEF ActiveColumns, shouldShowEmptyColumns
<1>11. Range(v.matches) = {} /\ PlacesOf(v, v.query) = {}
  BY <1>9 DEF Range, PlacesOf
<1> QED
  BY <1>2, <1>8, <1>9, <1>10, <1>11 DEF BoardHonest

\* The places of a board are finitely many pairs of a column and a row.
LEMMA PlacesFinite ==
  ASSUME NEW b, b.columns \in [Columns -> Seq(Nat)], NEW S
  PROVE  /\ PlacesOf(b, S) \in SUBSET (Columns \X Rows1) /\ IsFiniteSet(PlacesOf(b, S))
         /\ \A p \in PlacesOf(b, S) :
              /\ p[1] \in Columns /\ p[2] \in DOMAIN b.columns[p[1]]
              /\ b.columns[p[1]][p[2]] \in S
<1> DEFINE D(c) == {c} \X DOMAIN b.columns[c]
<1>1. ASSUME NEW c \in Columns
      PROVE  /\ IsFiniteSet(D(c)) /\ D(c) \in SUBSET (Columns \X Rows1)
             /\ \A p \in D(c) : p[1] = c /\ p[2] \in DOMAIN b.columns[c]
  <2> DEFINE n == Len(b.columns[c])
  <2>1. n \in Nat /\ DOMAIN b.columns[c] = 1..n
    OBVIOUS
  <2> HIDE DEF n
  <2>2. IsFiniteSet({c})
    BY FS_Singleton
  <2>3. IsFiniteSet(1..n)
    BY <2>1, FS_Interval
  <2>4. IsFiniteSet({c} \X (1..n))
    BY <2>2, <2>3, FS_Product
  <2> QED
    BY <2>1, <2>4 DEF Rows1
<1>2. Places(b) = D(1) \cup D(2) \cup D(3) \cup D(4)
  BY DEF Places, Columns
<1> HIDE DEF D
<1>3. IsFiniteSet(D(1) \cup D(2) \cup D(3) \cup D(4))
  <2>1. IsFiniteSet(D(1)) /\ IsFiniteSet(D(2)) /\ IsFiniteSet(D(3)) /\ IsFiniteSet(D(4))
    BY <1>1 DEF Columns
  <2>2. IsFiniteSet(D(1) \cup D(2))
    BY <2>1, FS_Union
  <2>3. IsFiniteSet(D(1) \cup D(2) \cup D(3))
    BY <2>1, <2>2, FS_Union
  <2> QED
    BY <2>1, <2>3, FS_Union
<1>4. \A p \in Places(b) : \E c \in Columns : p \in D(c)
  BY <1>2 DEF Columns
<1>5. PlacesOf(b, S) \in SUBSET Places(b)
  BY DEF PlacesOf
<1>6. IsFiniteSet(PlacesOf(b, S))
  BY <1>2, <1>3, <1>5, FS_Subset
<1>7. \A p \in PlacesOf(b, S) :
        /\ p \in Columns \X Rows1 /\ p[1] \in Columns /\ p[2] \in DOMAIN b.columns[p[1]]
        /\ b.columns[p[1]][p[2]] \in S
  BY <1>1, <1>4, <1>5 DEF PlacesOf
<1> QED
  BY <1>6, <1>7

\* What a search finds.
LEMMA FoundPlaces ==
  ASSUME NEW S, IsFiniteSet(S), S \in SUBSET (Columns \X Rows1)
  PROVE  LET found == InOrder(S, {pair \in S \X S : Before2(pair[1], pair[2])})
         IN found \in Seq(S) /\ Range(found) = S
<1> DEFINE R == {pair \in S \X S : Before2(pair[1], pair[2])}
<1>1. \A p, q \in S : <<p, q>> \in R <=> p[1] < q[1] \/ (p[1] = q[1] /\ p[2] < q[2])
  BY DEF Before2
<1>2. \A p \in S : p[1] \in Int /\ p[2] \in Int /\ p = <<p[1], p[2]>>
  BY DEF Columns, Rows1
<1> HIDE DEF R
<1>3. TotalOrder(S, R)
  <2>1. \A x \in S : <<x, x>> \notin R
    BY <1>1, <1>2
  <2>2. \A x, y, z \in S : <<x, y>> \in R /\ <<y, z>> \in R => <<x, z>> \in R
    BY <1>1, <1>2
  <2>3. \A x, y \in S : x = y \/ <<x, y>> \in R \/ <<y, x>> \in R
    <3> SUFFICES ASSUME NEW x \in S, NEW y \in S
                 PROVE  x = y \/ <<x, y>> \in R \/ <<y, x>> \in R
      OBVIOUS
    <3>1. x[1] = y[1] /\ x[2] = y[2] => x = y
      BY <1>2
    <3> QED
      BY <1>1, <1>2, <3>1
  <2> QED
    BY <2>1, <2>2, <2>3 DEF TotalOrder
<1> QED
  BY <1>3, Ranked DEF R

\* A jump to a place.
LEMMA AtPlaceFits ==
  ASSUME NEW b, Fits(b), NEW c \in Columns, NEW k \in DOMAIN b.columns[c]
  PROVE  LET u == AtPlace(b, c, k)
         IN /\ Fits(u) /\ u.columns = b.columns /\ u.active = b.active
            /\ u.matches = b.matches /\ u.query = b.query
            /\ c \in Range(b.active) => u.active[u.focused] = c /\ u.row[c] = k
<1> DEFINE shown == {j \in DOMAIN b.active : b.active[j] = c}
           focused == IF shown = {} THEN b.focused ELSE Min(shown)
           u == [b EXCEPT !.focused = focused, !.row[c] = k]
<1>1. u = AtPlace(b, c, k)
  BY DEF AtPlace, Fits, Boards
<1>2. focused \in DOMAIN b.active /\ (c \in Range(b.active) => b.active[focused] = c)
  <2>1. shown \in SUBSET Nat /\ shown \in SUBSET DOMAIN b.active
    BY DEF Fits, Boards
  <2>2. shown # {} => Min(shown) \in shown
    BY <2>1, LeastNatural
  <2>3. c \in Range(b.active) => shown # {}
    BY DEF Range
  <2> QED
    BY <2>1, <2>2, <2>3 DEF Fits
<1> HIDE DEF focused
<1>3. k \in Rows1 /\ k <= Len(b.columns[c]) /\ focused \in Rows1
  <2>1. b.columns[c] \in Seq(Nat) /\ b.active \in Seq(Columns)
    BY DEF Fits, Boards
  <2> QED
    BY <1>2, <2>1 DEF Rows1
<1>4. u \in Boards /\ u.focused = focused /\ u.columns = b.columns /\ u.active = b.active
      /\ u.matches = b.matches /\ u.query = b.query
  BY <1>3 DEF Fits, Boards
<1>5. u.row = [b.row EXCEPT ![c] = k] /\ b.row \in [Columns -> Rows1]
  BY DEF Fits, Boards
<1> HIDE DEF u
<1>6. \A e \in Columns : u.row[e] \in 1..Max({1, Len(u.columns[e])})
  <2> TAKE e \in Columns
  <2>1. CASE e = c
    <3>1. u.row[e] = k /\ b.columns[c] \in Seq(Nat)
      BY <1>5, <2>1 DEF Fits, Boards
    <3> QED
      BY <1>3, <1>4, <2>1, <3>1, RowFits
  <2>2. CASE e # c
    BY <1>4, <1>5, <2>2 DEF Fits
  <2> QED
    BY <2>1, <2>2
<1>7. u.row[c] = k
  BY <1>5
<1>8. Fits(u)
  BY <1>2, <1>4, <1>6 DEF Fits
<1> QED
  BY <1>1, <1>2, <1>4, <1>7, <1>8

\* Where cards and search stay, the search stays honest.
LEMMA SameSearch ==
  ASSUME NEW b, BoardHonest(b), NEW u, Fits(u),
         u.columns = b.columns, u.matches = b.matches, u.query = b.query
  PROVE  BoardHonest(u)
BY DEF BoardHonest, PlacesOf, Places

\* A move inside the column that has the focus.
LEMMA AtRowKeeps ==
  ASSUME NEW b, BoardHonest(b), NEW k \in Rows1, k = 1 \/ k <= Len(FocusedColumn(b))
  PROVE  BoardHonest(AtRow(b, k))
<1> DEFINE c == actualFocusedCol(b)
           u == [b EXCEPT !.row[c] = k]
<1>1. u = AtRow(b, k)
  BY DEF AtRow
<1>2. b \in Boards /\ Fits(b)
  BY DEF BoardHonest, Fits
<1>3. c \in Columns /\ b.columns[c] \in Seq(Nat) /\ b.columns[c] = FocusedColumn(b)
  BY <1>2 DEF Fits, Boards, actualFocusedCol, FocusedColumn
<1> HIDE DEF c
<1>4. u \in Boards /\ u.columns = b.columns /\ u.active = b.active /\ u.focused = b.focused
      /\ u.matches = b.matches /\ u.query = b.query /\ u.row = [b.row EXCEPT ![c] = k]
  BY <1>2, <1>3 DEF Boards
<1> HIDE DEF u
<1>5. \A e \in Columns : u.row[e] \in 1..Max({1, Len(u.columns[e])})
  <2> TAKE e \in Columns
  <2>1. CASE e = c
    <3>1. u.row[e] = k
      BY <1>2, <1>4, <2>1 DEF Boards
    <3> QED
      BY <1>3, <1>4, <2>1, <3>1, RowFits
  <2>2. CASE e # c
    BY <1>2, <1>4, <2>2 DEF Fits, Boards
  <2> QED
    BY <2>1, <2>2
<1>6. Fits(u)
  BY <1>2, <1>4, <1>5 DEF Fits
<1> QED
  BY <1>1, <1>4, <1>6, SameSearch

\* A move to another column.
LEMMA FocusedKeeps ==
  ASSUME NEW b, BoardHonest(b), NEW k \in DOMAIN b.active
  PROVE  BoardHonest([b EXCEPT !.focused = k])
<1> DEFINE u == [b EXCEPT !.focused = k]
<1>1. b \in Boards /\ Fits(b)
  BY DEF BoardHonest, Fits
<1>2. k \in Rows1
  <2>1. b.active \in Seq(Columns)
    BY <1>1 DEF Boards
  <2> QED
    BY <2>1 DEF Rows1
<1>3. u \in Boards /\ u.columns = b.columns /\ u.active = b.active /\ u.focused = k
      /\ u.matches = b.matches /\ u.query = b.query /\ u.row = b.row
  BY <1>1, <1>2 DEF Boards
<1> HIDE DEF u
<1>4. Fits(u)
  BY <1>1, <1>3 DEF Fits
<1> QED
  BY <1>3, <1>4, SameSearch DEF u

\* A new query finds the cards it matches.
LEMMA SearchedBoard ==
  ASSUME NEW b, Fits(b)
  PROVE  BoardHonest(updateSearchMatches(b))
<1> DEFINE places == PlacesOf(b, b.query)
           found == InOrder(places, {pair \in places \X places : Before2(pair[1], pair[2])})
           u == [b EXCEPT !.matches = found, !.match = 1]
<1>1. /\ places \in SUBSET (Columns \X Rows1) /\ IsFiniteSet(places)
      /\ \A p \in places : p[1] \in Columns /\ p[2] \in DOMAIN b.columns[p[1]]
  BY PlacesFinite DEF Fits, Boards
<1>2. updateSearchMatches(b) = IF found = <<>> THEN u ELSE jumpToMatch(u, 1)
  BY DEF updateSearchMatches
<1>3. PlacesOf(u, b.query) = places
  BY DEF PlacesOf, Places, Fits, Boards
<1> HIDE DEF places
<1>4. found \in Seq(places) /\ Range(found) = places
  BY <1>1, FoundPlaces
<1>5. found \in Seq(Columns \X Rows1) /\ 1 \in Rows1
  BY <1>1, <1>4 DEF Rows1
<1> HIDE DEF found
<1>6. u \in Boards /\ u.columns = b.columns /\ u.active = b.active /\ u.focused = b.focused
      /\ u.row = b.row /\ u.query = b.query /\ u.matches = found /\ u.match = 1
  BY <1>5 DEF Fits, Boards
<1> HIDE DEF u
<1>7. Fits(u)
  BY <1>6 DEF Fits
<1>8. BoardHonest(u)
  BY <1>3, <1>4, <1>6, <1>7 DEF BoardHonest
<1>9. CASE found = <<>>
  BY <1>2, <1>8, <1>9
<1>10. CASE found # <<>>
  <2>1. found[1] \in places
    BY <1>4, <1>10, NotEmpty
  <2>2. found[1][1] \in Columns /\ found[1][2] \in DOMAIN b.columns[found[1][1]]
    BY <1>1, <2>1
  <2>3. updateSearchMatches(b) = jumpToMatch(u, 1)
    BY <1>2, <1>10
  <2>4. [u EXCEPT !.match = 1] = u
    BY <1>6 DEF Boards
  <2>5. jumpToMatch(u, 1) = AtPlace(u, found[1][1], found[1][2])
    BY <1>6, <2>4 DEF jumpToMatch
  <2>6. LET v == AtPlace(u, found[1][1], found[1][2])
        IN Fits(v) /\ v.columns = u.columns /\ v.matches = u.matches /\ v.query = u.query
    BY <1>6, <1>7, <2>2, AtPlaceFits
  <2> QED
    BY <1>8, <2>3, <2>5, <2>6, SameSearch
<1> QED
  BY <1>9, <1>10

\* A board with its types has the shape the helpers of SetIssues expect.
LEMMA BoardsAreBlanks == Boards \subseteq Blanks
BY DEF Boards, Blanks

\* The columns and rows a key finds.
LEMMA FocusedColumnFits ==
  ASSUME NEW b, Fits(b)
  PROVE  LET c == actualFocusedCol(b)
         IN /\ c \in Columns /\ FocusedColumn(b) \in Seq(Nat) /\ Len(FocusedColumn(b)) \in Nat
            /\ b.row[c] \in Rows1 /\ (b.row[c] = 1 \/ b.row[c] <= Len(FocusedColumn(b)))
<1> DEFINE c == actualFocusedCol(b)
<1>1. c \in Columns /\ FocusedColumn(b) = b.columns[c]
  BY DEF Fits, Boards, actualFocusedCol, FocusedColumn
<1> HIDE DEF c
<1>2. b.columns[c] \in Seq(Nat) /\ b.row[c] \in Rows1 /\ b.row[c] \in 1..Max({1, Len(b.columns[c])})
  BY <1>1 DEF Fits, Boards
<1>3. b.row[c] = 1 \/ b.row[c] <= Len(b.columns[c])
  BY <1>2, RowFits
<1> QED
  BY <1>1, <1>2, <1>3 DEF c

\* Among the columns that are shown some are nearest.
LEMMA NearestShown ==
  ASSUME NEW b, Fits(b), NEW c \in Columns
  PROVE  LET Far(k) == IF b.active[k] < c THEN c - b.active[k] ELSE b.active[k] - c
             near == {k \in DOMAIN b.active : \A j \in DOMAIN b.active : Far(k) <= Far(j)}
         IN Min(near) \in DOMAIN b.active
<1> DEFINE Far(k) == IF b.active[k] < c THEN c - b.active[k] ELSE b.active[k] - c
           near == {k \in DOMAIN b.active : \A j \in DOMAIN b.active : Far(k) <= Far(j)}
           S == {Far(k) : k \in DOMAIN b.active}
<1>1. b.active \in Seq(Columns) /\ DOMAIN b.active \in SUBSET Nat /\ b.focused \in DOMAIN b.active
  BY DEF Fits, Boards
<1>2. \A k \in DOMAIN b.active : Far(k) \in Nat
  <2> TAKE k \in DOMAIN b.active
  <2>1. b.active[k] \in 1..4 /\ c \in 1..4
    BY <1>1 DEF Columns
  <2> QED
    BY <2>1
<1> HIDE DEF Far
<1>3. S \in SUBSET Nat /\ S # {}
  BY <1>1, <1>2
<1>4. Min(S) \in S /\ \A y \in S : Min(S) <= y
  BY <1>3, LeastNatural
<1>5. near # {}
  <2>1. PICK k \in DOMAIN b.active : Far(k) = Min(S)
    BY <1>4
  <2>2. \A j \in DOMAIN b.active : Far(k) <= Far(j)
    BY <1>4, <2>1
  <2> QED
    BY <2>2
<1>6. near \in SUBSET Nat /\ near \in SUBSET DOMAIN b.active
  BY <1>1
<1>7. Min(near) \in near
  BY <1>5, <1>6, LeastNatural
<1> QED
  BY <1>6, <1>7 DEF Far

\* A key that moves the focus, filters the columns or jumps to a match keeps the board honest.
LEMMA BoardKeyKeeps ==
  ASSUME BoardInv, BoardKey
  PROVE  BoardHonest(board')
<1>1. BoardHonest(board) /\ Fits(board) /\ board \in Boards /\ boardUI \in BoardUIs
  BY DEF BoardInv, BoardHonest, Fits
<1>2. /\ board.active \in Seq(Columns) /\ board.focused \in DOMAIN board.active
      /\ DOMAIN board.active = 1..Len(board.active) /\ Len(board.active) \in Nat
  BY <1>1 DEF Fits, Boards
<1> DEFINE n == Len(FocusedColumn(board))
           r == board.row[actualFocusedCol(board)]
<1>3. /\ FocusedColumn(board) \in Seq(Nat) /\ n \in Nat /\ r \in Rows1 /\ (r = 1 \/ r <= n)
  BY <1>1, FocusedColumnFits
<1>4. FocusedColumn(board) # <<>> <=> n # 0
  BY <1>3, NotEmpty
<1>5. PageRows \in Nat
  BY BoardAssumption
<1>6. CASE MoveColumn
  <2>1. \/ board.focused + 1 \in DOMAIN board.active /\ board' = [board EXCEPT !.focused = board.focused + 1]
        \/ board.focused - 1 \in DOMAIN board.active /\ board' = [board EXCEPT !.focused = board.focused - 1]
    BY <1>2, <1>6 DEF MoveColumn
  <2> QED
    BY <1>1, <2>1, FocusedKeeps
<1>7. CASE MoveToTop
  BY <1>1, <1>7, 1 \in Rows1, AtRowKeeps DEF MoveToTop, Rows1
<1>8. CASE MoveToBottom
  <2>1. n \in Rows1 /\ n <= n /\ board' = AtRow(board, n)
    BY <1>3, <1>4, <1>8 DEF MoveToBottom, Rows1
  <2> QED
    BY <1>1, <2>1, AtRowKeeps
<1>9. CASE BoardPageDown
  <2> DEFINE k == IF r + PageRows > n THEN n ELSE r + PageRows
  <2>1. board' = AtRow(board, k) /\ n # 0
    BY <1>4, <1>9 DEF BoardPageDown
  <2>2. k \in Rows1 /\ k <= n
    <3> HIDE DEF n, r
    <3> QED
      BY <1>3, <1>5, <2>1 DEF Rows1
  <2> QED
    BY <1>1, <2>1, <2>2, AtRowKeeps
<1>10. CASE BoardPageUp
  <2> DEFINE k == IF r - PageRows < 1 THEN 1 ELSE r - PageRows
  <2>1. board' = AtRow(board, k)
    BY <1>10 DEF BoardPageUp
  <2>2. k \in Rows1 /\ (k = 1 \/ k <= n)
    <3> HIDE DEF n, r
    <3> QED
      BY <1>3, <1>5 DEF Rows1
  <2> QED
    BY <1>1, <2>1, <2>2, AtRowKeeps
<1>11. CASE JumpToColumn
  <2> DEFINE Far(c, k) == IF board.active[k] < c THEN c - board.active[k] ELSE board.active[k] - c
             near(c) == {k \in DOMAIN board.active :
                           \A j \in DOMAIN board.active : Far(c, k) <= Far(c, j)}
  <2>1. PICK c \in Columns : board' = [board EXCEPT !.focused = Min(near(c))]
    BY <1>11 DEF JumpToColumn
  <2>2. Min(near(c)) \in DOMAIN board.active
    BY <1>1, NearestShown
  <2> HIDE DEF near
  <2> QED
    BY <1>1, <2>1, <2>2, FocusedKeeps
<1>12. CASE JumpToEdge
  <2>1. 1 \in DOMAIN board.active /\ Len(board.active) \in DOMAIN board.active
    BY <1>2
  <2> QED
    BY <1>1, <1>12, <2>1, FocusedKeeps DEF JumpToEdge
<1>13. CASE CycleSwimLaneMode
  <2> DEFINE lane == (board.lane % 3) + 1
             b == [board EXCEPT !.lane = lane]
             columns == groupIssuesByMode(boardUI.load, boardUI.filter, lane)
  <2>1. board' = Regrouped(b, columns)
    BY <1>13 DEF CycleSwimLaneMode
  <2>2. lane \in SwimLanes
    <3>1. board.lane \in 1..3
      BY <1>1 DEF Boards, SwimLanes
    <3> QED
      BY <3>1 DEF SwimLanes
  <2> HIDE DEF lane
  <2>3. b \in Blanks
    BY <1>1, <2>2 DEF Boards, Blanks
  <2>4. boardUI.load \in DOMAIN Cards
    BY <1>1 DEF BoardUIs
  <2>5. columns \in [Columns -> Seq(Nat)]
    BY <2>4, Grouped
  <2> QED
    BY <2>1, <2>3, <2>5, RegroupedFits
<1>14. CASE ToggleEmptyColumns
  <2> DEFINE b == [board EXCEPT !.empty = NextEmpty[board.empty]]
             u == updateActiveColumns(b)
  <2>1. board' = u
    BY <1>14 DEF ToggleEmptyColumns
  <2>2. NextEmpty[board.empty] \in {"auto", "shown", "hidden"}
    BY <1>1 DEF Boards, NextEmpty
  <2>3. b \in Boards /\ b.row = board.row /\ b.columns = board.columns
        /\ b.matches = board.matches /\ b.query = board.query
    BY <1>1, <2>2 DEF Boards
  <2> HIDE DEF b
  <2>4. Fits(u) /\ u = [b EXCEPT !.active = u.active, !.focused = u.focused]
    BY <1>1, <2>3, Updated DEF Fits
  <2> HIDE DEF u
  <2>5. u.columns = b.columns /\ u.matches = b.matches /\ u.query = b.query
    BY <2>3, <2>4 DEF Boards
  <2> QED
    BY <1>1, <2>1, <2>3, <2>4, <2>5, SameSearch
<1> QED
  BY <1>6, <1>7, <1>8, <1>9, <1>10, <1>11, <1>12, <1>13, <1>14 DEF BoardKey

\* So does a search: its matches are those of the query on the cards of now.
LEMMA BoardSearchKeeps ==
  ASSUME BoardInv, BoardSearch
  PROVE  BoardHonest(board')
<1>1. BoardHonest(board) /\ Fits(board) /\ board \in Boards /\ board \in Blanks
  BY BoardsAreBlanks DEF BoardInv, BoardHonest, Fits
<1> DEFINE w == CancelBoardSearch(board)
<1>2. BoardHonest(w) /\ w \in Boards
  <2>1. /\ w \in Blanks /\ w.matches = <<>> /\ w.query = NoQuery
        /\ w.columns = board.columns /\ w.active = board.active /\ w.focused = board.focused
        /\ w.row = board.row
    BY <1>1, Cancelled
  <2> HIDE DEF w
  <2>2. w \in Boards
    BY <1>1, <2>1 DEF Boards, Blanks
  <2>3. Fits(w)
    BY <1>1, <2>1, <2>2 DEF Fits
  <2>4. Range(w.matches) = {} /\ PlacesOf(w, w.query) = {}
    BY <2>1 DEF Range, PlacesOf, NoQuery
  <2> QED
    BY <2>2, <2>3, <2>4 DEF BoardHonest
<1>3. ASSUME NEW b \in Boards, BoardHonest(b), NEW v \in BOOLEAN
      PROVE  BoardHonest([b EXCEPT !.searching = v])
  <2> DEFINE u == [b EXCEPT !.searching = v]
  <2>1. u \in Boards /\ u.columns = b.columns /\ u.active = b.active /\ u.focused = b.focused
        /\ u.matches = b.matches /\ u.query = b.query /\ u.row = b.row
    BY DEF Boards
  <2> HIDE DEF u
  <2>2. Fits(b)
    BY <1>3 DEF BoardHonest
  <2>3. Fits(u)
    BY <2>1, <2>2 DEF Fits
  <2>4. BoardHonest(u)
    BY <1>3, <2>1, <2>3, SameSearch
  <2> QED
    BY <2>4 DEF u
<1> HIDE DEF w
<1>4. CASE StartBoardSearch
  <2>1. board' = [w EXCEPT !.searching = TRUE]
    BY <1>4 DEF StartBoardSearch, w
  <2> QED
    BY <1>2, <1>3, <2>1
<1>5. CASE TypeBoardQuery
  <2>1. PICK q \in CardQueries \cup {NoQuery} :
          board' = updateSearchMatches([board EXCEPT !.query = q])
    BY <1>5 DEF TypeBoardQuery
  <2> DEFINE u == [board EXCEPT !.query = q]
  <2>2. u \in Boards /\ u.columns = board.columns /\ u.active = board.active
        /\ u.focused = board.focused /\ u.row = board.row
    BY <1>1 DEF Boards
  <2> HIDE DEF u
  <2>3. Fits(u)
    BY <1>1, <2>2 DEF Fits
  <2>4. BoardHonest(updateSearchMatches(u))
    BY <2>3, SearchedBoard
  <2> QED
    BY <2>1, <2>4 DEF u
<1>6. CASE EndBoardSearch
  <2>1. board' = [board EXCEPT !.searching = FALSE] \/ board' = w
    BY <1>6 DEF EndBoardSearch, w
  <2> QED
    BY <1>1, <1>2, <1>3, <2>1
<1>7. CASE NextMatch
  <2> DEFINE n == Len(board.matches)
  <2>1. n \in Nat /\ n # 0 /\ board.matches \in Seq(Columns \X Rows1)
    BY <1>1, <1>7, NotEmpty DEF NextMatch, Boards
  <2>2. PICK by \in {1, n - 1} : board' = jumpToMatch(board, ((board.match - 1 + by) % n) + 1)
    BY <1>7 DEF NextMatch
  <2> DEFINE k == ((board.match - 1 + by) % n) + 1
  <2>3. k \in 1..n
    <3>1. board.match - 1 + by \in Int
      BY <1>1, <2>1, <2>2 DEF Boards, Rows1
    <3> DEFINE m == board.match - 1 + by
    <3>2. m % n \in 0..(n - 1)
      <4> HIDE DEF m, n
      <4> QED
        BY <2>1, <3>1 DEF m
    <3> QED
      BY <2>1, <3>2
  <2> HIDE DEF k
  <2> DEFINE p == board.matches[k]
             u == [board EXCEPT !.match = k]
  <2>4. p \in Range(board.matches) /\ p \in Columns \X Rows1
    BY <2>1, <2>3 DEF Range
  <2>5. p \in PlacesOf(board, board.query)
    BY <1>1, <2>4 DEF BoardHonest
  <2>6. p[1] \in Columns /\ p[2] \in DOMAIN board.columns[p[1]]
    BY <1>1, <2>5, PlacesFinite DEF Boards
  <2>7. u \in Boards /\ u.columns = board.columns /\ u.active = board.active
        /\ u.focused = board.focused /\ u.row = board.row /\ u.matches = board.matches
        /\ u.query = board.query
    <3>1. k \in Rows1
      BY <2>1, <2>3 DEF Rows1
    <3> QED
      BY <1>1, <3>1 DEF Boards
  <2>8. board' = AtPlace(u, p[1], p[2])
    BY <2>2, <2>7 DEF jumpToMatch, k
  <2> HIDE DEF u, p
  <2>9. Fits(u)
    BY <1>1, <2>7 DEF Fits
  <2>10. LET v == AtPlace(u, p[1], p[2])
         IN Fits(v) /\ v.columns = u.columns /\ v.matches = u.matches /\ v.query = u.query
    BY <2>6, <2>7, <2>9, AtPlaceFits
  <2> QED
    BY <1>1, <2>7, <2>8, <2>10, SameSearch
<1> QED
  BY <1>4, <1>5, <1>6, <1>7 DEF BoardSearch

\* So does the movement of the cursor within its column.
LEMMA BoardMoveKeeps ==
  ASSUME BoardInv, BoardMove
  PROVE  BoardHonest(board')
<1>1. BoardHonest(board) /\ Fits(board)
  BY DEF BoardInv, BoardHonest
<1> DEFINE n == Len(FocusedColumn(board))
           r == board.row[actualFocusedCol(board)]
<1>2. n \in Nat /\ r \in Rows1 /\ (r = 1 \/ r <= n)
  BY <1>1, FocusedColumnFits
<1>3. \/ r < n /\ board' = AtRow(board, r + 1)
      \/ r > 1 /\ board' = AtRow(board, r - 1)
  BY DEF BoardMove
<1> HIDE DEF n, r
<1>4. CASE r < n /\ board' = AtRow(board, r + 1)
  <2>1. r + 1 \in Rows1 /\ r + 1 <= n
    BY <1>2, <1>4 DEF Rows1
  <2> QED
    BY <1>1, <1>4, <2>1, AtRowKeeps DEF n
<1>5. CASE r > 1 /\ board' = AtRow(board, r - 1)
  <2>1. r - 1 \in Rows1 /\ r - 1 <= n
    BY <1>2, <1>5 DEF Rows1
  <2> QED
    BY <1>1, <1>5, <2>1, AtRowKeeps DEF n
<1> QED
  BY <1>3, <1>4, <1>5

\* Other cards are set.
LEMMA IssuesSet ==
  ASSUME NEW b \in Blanks, NEW d \in DOMAIN Cards, NEW f
  PROVE  LET u == SetIssues(b, d, f)
         IN BoardHonest(u) /\ u.active = ActiveColumns(u)
BY Grouped, RegroupedFits DEF SetIssues

\* An issue that has a place is selected.
LEMMA IssueSelected ==
  ASSUME NEW b, BoardHonest(b), b.active = ActiveColumns(b), NEW i
  PROVE  LET u == SelectIssueByID(b, i)
         IN /\ BoardHonest(u) /\ PlacesOf(u, {i}) = PlacesOf(b, {i})
            /\ PlacesOf(b, {i}) # {} => HasCard(u) /\ SelectedCard(u) = i
<1>1. Fits(b) /\ b.columns \in [Columns -> Seq(Nat)]
  BY DEF BoardHonest, Fits, Boards
<1>2. CASE PlacesOf(b, {i}) = {}
  BY <1>2 DEF SelectIssueByID
<1>3. CASE PlacesOf(b, {i}) # {}
  <2> DEFINE p == CHOOSE p \in PlacesOf(b, {i}) : TRUE
             u == AtPlace(b, p[1], p[2])
  <2>1. SelectIssueByID(b, i) = u
    BY <1>3 DEF SelectIssueByID
  <2>2. p \in PlacesOf(b, {i})
    BY <1>3
  <2> HIDE DEF p
  <2>3. p[1] \in Columns /\ p[2] \in DOMAIN b.columns[p[1]] /\ b.columns[p[1]][p[2]] = i
    BY <1>1, <2>2, PlacesFinite
  <2>4. p[1] \in Range(b.active)
    <3>1. b.columns[p[1]] # <<>>
      BY <1>1, <2>3, NotEmpty
    <3> QED
      BY <1>1, <2>3, <3>1, ActiveShown
  <2>5. /\ Fits(u) /\ u.columns = b.columns /\ u.active = b.active
        /\ u.matches = b.matches /\ u.query = b.query
        /\ u.active[u.focused] = p[1] /\ u.row[p[1]] = p[2]
    BY <1>1, <2>3, <2>4, AtPlaceFits
  <2> HIDE DEF u
  <2>6. BoardHonest(u)
    BY <2>5, SameSearch
  <2>7. PlacesOf(u, {i}) = PlacesOf(b, {i})
    BY <2>5 DEF PlacesOf, Places
  <2>8. HasCard(u) /\ SelectedCard(u) = i
    <3>1. p[2] <= Len(b.columns[p[1]])
      BY <1>1, <2>3
    <3> QED
      BY <2>3, <2>5, <3>1 DEF HasCard, SelectedCard, actualFocusedCol, FocusedColumn
  <2> QED
    BY <2>1, <2>6, <2>7, <2>8
<1> QED
  BY <1>2, <1>3

\* The board a session starts with is honest.
LEMMA BoardInitHolds ==
  ASSUME BoardInit
  PROVE  BoardInv
<1>1. PICK d \in DOMAIN Cards, w \in BOOLEAN :
        /\ boardUI = [load |-> d, filter |-> DOMAIN Cards[d], worker |-> w, focus |-> FALSE,
                      left |-> MaxCardLoads]
        /\ board = SetIssues([columns |-> <<>>, active |-> <<>>, focused |-> 1,
                              row |-> [c \in Columns |-> 1], lane |-> 1, empty |-> "auto",
                              searching |-> FALSE, query |-> NoQuery, matches |-> <<>>,
                              match |-> 1], d, DOMAIN Cards[d])
  BY DEF BoardInit
<1> DEFINE b == [columns |-> <<>>, active |-> <<>>, focused |-> 1,
                 row |-> [c \in Columns |-> 1], lane |-> 1, empty |-> "auto",
                 searching |-> FALSE, query |-> NoQuery, matches |-> <<>>, match |-> 1]
<1>2. b \in Blanks
  BY DEF Blanks, Rows1, SwimLanes
<1> HIDE DEF b
<1>3. BoardHonest(SetIssues(b, d, DOMAIN Cards[d]))
  BY <1>2, IssuesSet
<1>4. boardUI \in BoardUIs
  BY <1>1, BoardAssumption DEF BoardUIs
<1> QED
  BY <1>1, <1>3, <1>4 DEF BoardInv, b

\* What a reload does to the board.
LEMMA BoardReloads ==
  ASSUME BoardInv, BoardReload
  PROVE  /\ boardUI' \in BoardUIs /\ BoardHonest(board')
         /\ boardUI.worker /\ boardUI.focus /\ HasCard(board)
              /\ PlacesOf(board', {SelectedCard(board)}) # {}
            => HasCard(board') /\ SelectedCard(board') = SelectedCard(board)
<1>1. boardUI \in BoardUIs /\ board \in Blanks
  BY BoardsAreBlanks DEF BoardInv, BoardHonest, Fits
<1>2. PICK d \in DOMAIN Cards :
        boardUI' = [boardUI EXCEPT !.load = d, !.left = @ - 1] /\ board' = Reloaded(d)
  BY DEF BoardReload
<1>3. boardUI' \in BoardUIs
  <2>1. boardUI.left - 1 \in Nat
    BY <1>1 DEF BoardReload, BoardUIs
  <2> QED
    BY <1>1, <1>2, <2>1 DEF BoardUIs
<1> DEFINE b == SetIssues(board, d, boardUI.filter)
           i == SelectedCard(board)
           u == SelectIssueByID(b, i)
           kept == boardUI.worker /\ boardUI.focus /\ HasCard(board)
<1>4. board' = IF kept THEN u ELSE b
  BY <1>2 DEF Reloaded
<1>5. BoardHonest(b) /\ b.active = ActiveColumns(b)
  BY <1>1, IssuesSet
<1> HIDE DEF b, i
<1>6. /\ BoardHonest(u) /\ PlacesOf(u, {i}) = PlacesOf(b, {i})
      /\ PlacesOf(b, {i}) # {} => HasCard(u) /\ SelectedCard(u) = i
  BY <1>5, IssueSelected
<1> QED
  BY <1>3, <1>4, <1>5, <1>6 DEF i

\* Every step of the board.
LEMMA BoardNextKeeps ==
  ASSUME BoardInv, [BoardNext]_boardVars
  PROVE  BoardInv'
<1>1. boardUI \in BoardUIs /\ BoardHonest(board) /\ board \in Blanks
  BY BoardsAreBlanks DEF BoardInv, BoardHonest, Fits
<1>2. CASE boardUI.focus /\ (BoardKey \/ BoardSearch \/ BoardMove) /\ UNCHANGED boardUI
  BY <1>1, <1>2, BoardKeyKeeps, BoardSearchKeeps, BoardMoveKeeps DEF BoardInv
<1>3. CASE RefreshBoard
  <2>1. PICK f \in CardFilters, focus \in BOOLEAN :
          /\ boardUI' = [boardUI EXCEPT !.filter = f, !.focus = focus]
          /\ board' = SetIssues(board, boardUI.load, f)
    BY <1>3 DEF RefreshBoard
  <2>2. boardUI' \in BoardUIs /\ boardUI.load \in DOMAIN Cards
    BY <1>1, <2>1 DEF BoardUIs
  <2>3. BoardHonest(board')
    BY <1>1, <2>1, <2>2, IssuesSet
  <2> QED
    BY <2>2, <2>3 DEF BoardInv
<1>4. CASE LeaveBoard
  BY <1>1, <1>4 DEF LeaveBoard, BoardInv, BoardUIs
<1>5. CASE ReturnToBoard
  BY <1>1, <1>5 DEF ReturnToBoard, BoardInv, BoardUIs
<1>6. CASE BoardReload
  BY <1>6, BoardReloads DEF BoardInv
<1>7. CASE UNCHANGED boardVars
  BY <1>1, <1>7 DEF boardVars, BoardInv
<1> QED
  BY <1>2, <1>3, <1>4, <1>5, <1>6, <1>7 DEF BoardNext

\* Only a reload changes what is loaded.
LEMMA BoardLoads ==
  ASSUME BoardInv, [BoardNext]_boardVars, boardUI'.load # boardUI.load
  PROVE  BoardReload
<1>1. boardUI \in BoardUIs
  BY DEF BoardInv
<1>2. ~(UNCHANGED boardUI)
  OBVIOUS
<1>3. ~RefreshBoard /\ ~LeaveBoard /\ ~ReturnToBoard
  BY <1>1 DEF RefreshBoard, LeaveBoard, ReturnToBoard, BoardUIs
<1> QED
  BY <1>2, <1>3 DEF BoardNext, boardVars

-----------------------------------------------------------------------------
(* The nodes of a tree.                                                    *)

\* A function tabulated for TLC is the function.
LEMMA TableIs ==
  ASSUME NEW f
  PROVE  Table(f) = f
BY DEF Table

\* What stands where in the concatenation of two sequences.
LEMMA Concatenated ==
  ASSUME NEW T, NEW s \in Seq(T), NEW u \in Seq(T)
  PROVE  /\ s \o u \in Seq(T) /\ Len(s \o u) = Len(s) + Len(u)
         /\ \A k \in 1..Len(s) : (s \o u)[k] = s[k]
         /\ Len(u) = 1 => (s \o u)[Len(s) + 1] = u[1]
OBVIOUS

\* What there may be to show: the loads, each once more for the project, and nothing.
LEMMA DataFacts ==
  /\ Len(TreeLoads) \in Nat /\ DOMAIN Data = 1..NoData /\ NoData \in Nat
  /\ \A d \in Loads : d \in DOMAIN Data /\ OfProject(d) \in DOMAIN Data /\ d # NoData
                      /\ issues(OfProject(d)) \subseteq Here
  /\ NoData \in DOMAIN Data /\ issues(NoData) = {}
  /\ \A d \in DOMAIN Data : issues(d) \in SUBSET Nat /\ IsFiniteSet(issues(d))
<1> DEFINE n == Len(TreeLoads)
           T == [issues : SUBSET Nat, parents : SUBSET (Nat \X Nat)]
           own == [d \in Loads |-> [TreeLoads[d] EXCEPT !.issues = @ \cap Here]]
           none == <<[issues |-> {}, parents |-> {}]>>
<1>1. TreeLoads \in Seq(T) /\ n \in Nat
  BY TreeAssumption
<1>2. ASSUME NEW d \in 1..n
      PROVE  TreeLoads[d] \in T /\ IsFiniteSet(TreeLoads[d].issues)
  <2>1. TreeLoads[d] \in T /\ d \in DOMAIN TreeLoads
    <3> HIDE DEF T
    <3> QED
      BY <1>1
  <2> QED
    BY <2>1, TreeAssumption DEF Range
<1>3. own \in Seq(T) /\ Len(own) = n /\ \A d \in 1..n : own[d].issues = TreeLoads[d].issues \cap Here
  BY <1>1, <1>2 DEF Loads
<1>4. none \in Seq(T) /\ Len(none) = 1 /\ none[1].issues = {}
  OBVIOUS
<1>5. Data = TreeLoads \o own \o none
  BY DEF Data
<1> HIDE DEF own, none, T
<1>6. /\ Data \in Seq(T) /\ Len(Data) = 2 * n + 1
      /\ \A d \in 1..n : Data[d] = TreeLoads[d] /\ Data[d + n] = own[d]
      /\ Data[2 * n + 1] = none[1]
  <2>1. TreeLoads \o own \in Seq(T) /\ Len(TreeLoads \o own) = 2 * n
    BY <1>1, <1>3
  <2>2. \A d \in 1..n : (TreeLoads \o own)[d] = TreeLoads[d] /\ (TreeLoads \o own)[d + n] = own[d]
    BY <1>1, <1>3
  <2> DEFINE both == TreeLoads \o own
  <2> HIDE DEF both
  <2>3. Data = both \o none /\ both \in Seq(T) /\ Len(both) = 2 * n
    BY <1>5, <2>1 DEF both
  <2> DEFINE m == 2 * n
  <2>4. m \in Nat /\ Len(both) = m /\ \A d \in 1..n : d \in 1..m /\ d + n \in 1..m
    BY <1>1, <2>3
  <2> HIDE DEF m, n
  <2>5. Data \in Seq(T) /\ Len(Data) = m + 1 /\ Data[m + 1] = none[1]
    <3>1. both \in Seq(T) /\ none \in Seq(T) /\ Len(none) = 1
      BY <1>4, <2>3
    <3>2. both \o none \in Seq(T)
      BY <3>1, Concatenated
    <3>3. Len(both \o none) = Len(both) + Len(none)
      BY <3>1, Concatenated
    <3>4. (both \o none)[Len(both) + 1] = none[1]
      BY <3>1, Concatenated
    <3>5. Data = both \o none
      BY <2>3
    <3> QED
      BY <2>4, <3>1, <3>2, <3>3, <3>4, <3>5
  <2>6. \A d \in 1..m : Data[d] = both[d]
    BY <1>4, <2>3, <2>4, Concatenated
  <2>7. \A d \in 1..n : both[d] = TreeLoads[d] /\ both[d + n] = own[d]
    BY <2>2 DEF both, n
  <2>8. \A d \in 1..n : Data[d] = TreeLoads[d] /\ Data[d + n] = own[d]
    BY <2>4, <2>6, <2>7
  <2> QED
    BY <2>5, <2>8 DEF m, n
<1>7. \A d \in 1..n : issues(d) = TreeLoads[d].issues /\ issues(d + n) = TreeLoads[d].issues \cap Here
  BY <1>3, <1>6 DEF issues
<1>8. issues(2 * n + 1) = {}
  BY <1>4, <1>6 DEF issues
<1>9. \A d \in 1..n : /\ issues(d) \in SUBSET Nat /\ issues(d + n) \in SUBSET Nat
                      /\ IsFiniteSet(issues(d)) /\ IsFiniteSet(issues(d + n))
  <2> TAKE d \in 1..n
  <2>1. TreeLoads[d].issues \in SUBSET Nat /\ IsFiniteSet(TreeLoads[d].issues)
    BY <1>2 DEF T
  <2>2. IsFiniteSet(TreeLoads[d].issues \cap Here)
    BY <2>1, FS_Intersection
  <2> QED
    BY <1>7, <2>1, <2>2
<1>10. DOMAIN Data = 1..(2 * n + 1)
  BY <1>1, <1>6
<1>11. ASSUME NEW d \in DOMAIN Data
       PROVE  issues(d) \in SUBSET Nat /\ IsFiniteSet(issues(d))
  <2>1. d \in 1..n \/ d - n \in 1..n \/ d = 2 * n + 1
    BY <1>1, <1>10
  <2>2. CASE d \in 1..n
    BY <1>9, <2>2
  <2>3. CASE d - n \in 1..n
    <3>1. d = (d - n) + n
      BY <1>1, <1>10
    <3> QED
      BY <1>9, <2>3, <3>1
  <2>4. CASE d = 2 * n + 1
    BY <1>8, <2>4, FS_EmptySet
  <2> QED
    BY <2>1, <2>2, <2>3, <2>4
<1>12. \A d \in Loads : d \in DOMAIN Data /\ OfProject(d) \in DOMAIN Data /\ d # 2 * n + 1
                        /\ issues(OfProject(d)) \subseteq Here
  BY <1>1, <1>7, <1>10 DEF Loads, OfProject
<1> QED
  BY <1>1, <1>8, <1>10, <1>11, <1>12 DEF NoData

\* What a node is.
LEMMA NodeFacts ==
  ASSUME NEW d \in DOMAIN Data, NEW p
  PROVE  p \in NodesFrom(d) <=>
           /\ p \in Seq(issues(d)) /\ Len(p) \in 1..(Cardinality(issues(d)) + 1)
           /\ p[1] \in Roots(d)
           /\ \A k \in 1..(Len(p) - 1) : p[k + 1] \in Children(d, p[k])
           /\ \A j, k \in 1..(Len(p) - 1) : p[j] = p[k] => j = k
<1> DEFINE N == Cardinality(issues(d)) + 1
           S == issues(d)
<1>1. N \in Nat
  BY DataFacts, FS_CardinalityType
<1> HIDE DEF N, S
<1>2. p \in UNION {[1..n -> S] : n \in 1..N} <=> p \in Seq(S) /\ Len(p) \in 1..N
  <2>1. ASSUME NEW n \in 1..N, p \in [1..n -> S]
        PROVE  p \in Seq(S) /\ Len(p) \in 1..N
    BY <1>1, <2>1
  <2>2. ASSUME p \in Seq(S), Len(p) \in 1..N
        PROVE  p \in [1..Len(p) -> S]
    BY <2>2
  <2> QED
    BY <2>1, <2>2
<1>3. ASSUME p \in Seq(S), Len(p) \in 1..N
      PROVE  IsInjective(Front(p)) <=> \A j, k \in 1..(Len(p) - 1) : p[j] = p[k] => j = k
  <2>1. /\ DOMAIN Front(p) = 1..(Len(p) - 1)
        /\ \A k \in 1..(Len(p) - 1) : Front(p)[k] = p[k]
    BY <1>1, <1>3 DEF Front
  <2> QED
    BY <2>1 DEF IsInjective
<1> QED
  BY <1>2, <1>3 DEF NodesFrom, Paths, N, S

\* The nodes are finitely many: a path is a set of numbered issues.
LEMMA NodesFinite ==
  ASSUME NEW d \in DOMAIN Data
  PROVE  IsFiniteSet(NodesFrom(d))
<1> DEFINE N == Cardinality(issues(d)) + 1
           S == issues(d)
           T == SUBSET ((1..N) \X S)
           graph == [p \in NodesFrom(d) |-> {<<k, p[k]>> : k \in 1..Len(p)}]
<1>1. N \in Nat /\ IsFiniteSet(S)
  BY DataFacts, FS_CardinalityType
<1>2. \A p \in NodesFrom(d) : p \in Seq(S) /\ Len(p) \in 1..N
  BY NodeFacts
<1> HIDE DEF N, S
<1>3. IsFiniteSet(T)
  <2>1. IsFiniteSet(1..N)
    BY <1>1, FS_Interval
  <2>2. IsFiniteSet((1..N) \X S)
    BY <1>1, <2>1, FS_Product
  <2> QED
    BY <2>2, FS_SUBSET
<1>4. graph \in [NodesFrom(d) -> T]
  <2>1. ASSUME NEW p \in NodesFrom(d)
        PROVE  {<<k, p[k]>> : k \in 1..Len(p)} \in T
    <3>1. p \in Seq(S) /\ Len(p) \in 1..N
      BY <1>2
    <3>2. \A k \in 1..Len(p) : k \in 1..N /\ p[k] \in S
      BY <1>1, <3>1
    <3> QED
      BY <3>2
  <2> HIDE DEF T
  <2> QED
    BY <2>1
<1>5. \A p, q \in NodesFrom(d) : graph[p] = graph[q] => p = q
  <2> SUFFICES ASSUME NEW p \in NodesFrom(d), NEW q \in NodesFrom(d), graph[p] = graph[q]
               PROVE  p = q
    OBVIOUS
  <2>1. \A x : x \in {<<k, p[k]>> : k \in 1..Len(p)} <=> x \in {<<k, q[k]>> : k \in 1..Len(q)}
    OBVIOUS
  <2>2. \A k \in 1..Len(p) : k \in 1..Len(q) /\ p[k] = q[k]
    <3> TAKE k \in 1..Len(p)
    <3>1. <<k, p[k]>> \in {<<j, q[j]>> : j \in 1..Len(q)}
      BY <2>1
    <3> QED
      BY <3>1
  <2>3. \A k \in 1..Len(q) : k \in 1..Len(p)
    <3> TAKE k \in 1..Len(q)
    <3>1. <<k, q[k]>> \in {<<j, p[j]>> : j \in 1..Len(p)}
      BY <2>1
    <3> QED
      BY <3>1
  <2>4. p \in Seq(S) /\ q \in Seq(S) /\ Len(p) \in Nat /\ Len(q) \in Nat /\ Len(p) >= 1 /\ Len(q) >= 1
    BY <1>1, <1>2
  <2>5. Len(p) = Len(q)
    <3>1. Len(p) \in 1..Len(q) /\ Len(q) \in 1..Len(p)
      BY <2>2, <2>3, <2>4
    <3> QED
      BY <2>4, <3>1
  <2> QED
    BY <2>2, <2>4, <2>5
<1> HIDE DEF graph, T
<1>6. graph \in Injection(NodesFrom(d), T)
  BY <1>4, <1>5 DEF Injection, IsInjective
<1> QED
  BY <1>3, <1>6, FS_Injection

\* The first place where two lists of numbers differ, or the end of one of them.
LEMMA FirstDifference ==
  ASSUME NEW p \in Seq(Nat), NEW q \in Seq(Nat), p # q
  PROVE  \E k \in Nat \ {0} :
           /\ \A j \in 1..(k - 1) : j \in DOMAIN p /\ j \in DOMAIN q /\ p[j] = q[j]
           /\ ~(k \in DOMAIN p /\ k \in DOMAIN q /\ p[k] = q[k])
           /\ k \in DOMAIN p \/ k \in DOMAIN q
<1> DEFINE D == {k \in Nat \ {0} : ~(k \in DOMAIN p /\ k \in DOMAIN q /\ p[k] = q[k])}
           m == Len(p)
           n == Len(q)
<1>1. m \in Nat /\ n \in Nat /\ DOMAIN p = 1..m /\ DOMAIN q = 1..n
  OBVIOUS
<1>2. \E k \in D : k \in DOMAIN p \/ k \in DOMAIN q
  <2>1. CASE m = n
    <3>1. \E k \in 1..m : p[k] # q[k]
      <4> SUFFICES ASSUME \A k \in 1..m : p[k] = q[k]
                   PROVE  p = q
        OBVIOUS
      <4> QED
        BY <1>1, <2>1
    <3> HIDE DEF m, n
    <3> QED
      BY <1>1, <2>1, <3>1
  <2>2. CASE m < n
    <3> HIDE DEF m, n
    <3>1. n \in D /\ n \in DOMAIN q
      BY <1>1, <2>2
    <3> QED
      BY <3>1
  <2>3. CASE n < m
    <3> HIDE DEF m, n
    <3>1. m \in D /\ m \in DOMAIN p
      BY <1>1, <2>3
    <3> QED
      BY <3>1
  <2> HIDE DEF m, n
  <2> QED
    BY <1>1, <2>1, <2>2, <2>3
<1> HIDE DEF m, n
<1> DEFINE k == Min(D)
<1>3. D \in SUBSET Nat /\ D # {}
  BY <1>2
<1>4. k \in D /\ \A y \in D : k <= y
  BY <1>3, LeastNatural
<1> HIDE DEF k
<1>5. \A j \in 1..(k - 1) : j \in DOMAIN p /\ j \in DOMAIN q /\ p[j] = q[j]
  <2> TAKE j \in 1..(k - 1)
  <2>1. j \in Nat \ {0} /\ j < k
    BY <1>3, <1>4
  <2> QED
    BY <1>3, <1>4, <2>1
<1>6. k \in DOMAIN p \/ k \in DOMAIN q
  <2>1. PICK x \in D : x \in DOMAIN p \/ x \in DOMAIN q
    BY <1>2
  <2>2. k <= x /\ k \in Nat \ {0}
    BY <1>4, <2>1
  <2> QED
    BY <1>1, <2>1, <2>2
<1> QED
  BY <1>4, <1>5, <1>6

\* The order of rows is one.
LEMMA BeforeOrders ==
  ASSUME NEW S \in SUBSET Seq(Nat)
  PROVE  TotalOrder(S, {pair \in S \X S : Before(pair[1], pair[2])})
<1> DEFINE R == {pair \in S \X S : Before(pair[1], pair[2])}
<1>1. \A p, q \in S : <<p, q>> \in R <=> Before(p, q)
  OBVIOUS
<1>2. ASSUME NEW p \in S PROVE ~Before(p, p)
  BY DEF Before
<1>3. ASSUME NEW p \in S, NEW q \in S, NEW r \in S, Before(p, q), Before(q, r)
      PROVE  Before(p, r)
  <2> p \in Seq(Nat) /\ q \in Seq(Nat) /\ r \in Seq(Nat)
    OBVIOUS
  <2>1. PICK k \in DOMAIN q : /\ \A j \in 1..(k - 1) : j \in DOMAIN p /\ p[j] = q[j]
                              /\ k \in DOMAIN p => p[k] < q[k]
    BY <1>3 DEF Before
  <2>2. PICK l \in DOMAIN r : /\ \A j \in 1..(l - 1) : j \in DOMAIN q /\ q[j] = r[j]
                              /\ l \in DOMAIN q => q[l] < r[l]
    BY <1>3 DEF Before
  <2>3. k \in 1..Len(q) /\ l \in 1..Len(r) /\ Len(q) \in Nat /\ Len(r) \in Nat /\ Len(p) \in Nat
        /\ DOMAIN p = 1..Len(p) /\ DOMAIN q = 1..Len(q) /\ DOMAIN r = 1..Len(r)
    OBVIOUS
  <2>4. CASE k < l
    <3>1. k \in 1..(l - 1) /\ k \in DOMAIN r
      BY <2>3, <2>4
    <3>2. \A j \in 1..(k - 1) : j \in DOMAIN p /\ p[j] = r[j]
      <4> TAKE j \in 1..(k - 1)
      <4>1. j \in 1..(l - 1)
        BY <2>3, <2>4
      <4> QED
        BY <2>1, <2>2, <4>1
    <3>3. k \in DOMAIN p => p[k] < r[k]
      BY <2>1, <2>2, <3>1
    <3> QED
      BY <3>1, <3>2, <3>3 DEF Before
  <2>5. CASE k >= l
    <3>1. \A j \in 1..(l - 1) : j \in DOMAIN p /\ p[j] = r[j]
      <4> TAKE j \in 1..(l - 1)
      <4>1. j \in 1..(k - 1)
        BY <2>3, <2>5
      <4> QED
        BY <2>1, <2>2, <4>1
    <3>2. l \in DOMAIN q
      BY <2>3, <2>5
    <3>3. l \in DOMAIN p => p[l] < r[l]
      <4> HAVE l \in DOMAIN p
      <4>1. p[l] \in Nat /\ q[l] \in Nat /\ r[l] \in Nat /\ q[l] < r[l]
        BY <2>2, <3>2
      <4>2. CASE l = k
        BY <2>1, <4>1, <4>2
      <4>3. CASE l # k
        <5>1. l \in 1..(k - 1)
          BY <2>3, <2>5, <4>3
        <5> QED
          BY <2>1, <4>1, <5>1
      <4> QED
        BY <4>2, <4>3
    <3> QED
      BY <3>1, <3>3 DEF Before
  <2> QED
    BY <2>3, <2>4, <2>5
<1>4. ASSUME NEW p \in S, NEW q \in S, p # q
      PROVE  Before(p, q) \/ Before(q, p)
  <2>1. PICK k \in Nat \ {0} :
          /\ \A j \in 1..(k - 1) : j \in DOMAIN p /\ j \in DOMAIN q /\ p[j] = q[j]
          /\ ~(k \in DOMAIN p /\ k \in DOMAIN q /\ p[k] = q[k])
          /\ k \in DOMAIN p \/ k \in DOMAIN q
    BY <1>4, FirstDifference
  <2>2. CASE k \in DOMAIN p /\ k \in DOMAIN q
    <3>1. p[k] \in Nat /\ q[k] \in Nat /\ p[k] # q[k]
      BY <2>1, <2>2
    <3>2. p[k] < q[k] \/ q[k] < p[k]
      BY <3>1
    <3> QED
      BY <2>1, <2>2, <3>2 DEF Before
  <2>3. CASE k \notin DOMAIN p
    BY <2>1, <2>3 DEF Before
  <2>4. CASE k \notin DOMAIN q
    BY <2>1, <2>4 DEF Before
  <2> QED
    BY <2>2, <2>3, <2>4
<1> HIDE DEF R
<1>5. TotalOrder(S, R)
  BY <1>1, <1>2, <1>3, <1>4 DEF TotalOrder
<1> QED
  BY <1>5 DEF R

\* The rows in their order are the nodes.
LEMMA NodesAre ==
  ASSUME NEW d \in DOMAIN Data
  PROVE  /\ Preorder[d] \in Seq(NodesFrom(d)) /\ Nodes(d) = NodesFrom(d)
         /\ IsFiniteSet(DOMAIN Preorder[d])
<1> DEFINE S == NodesFrom(d)
           R == {pair \in S \X S : Before(pair[1], pair[2])}
<1>1. Preorder[d] = Table(InOrder(S, R))
  <2>1. Preorder = [e \in DOMAIN Data |->
           LET Q == NodesFrom(e) IN Table(InOrder(Q, {pair \in Q \X Q : Before(pair[1], pair[2])}))]
    BY TableIs DEF Preorder
  <2> QED
    BY <2>1
<1>2. ASSUME NEW p \in S PROVE p \in Seq(Nat)
  <2>1. p \in Seq(issues(d)) /\ issues(d) \in SUBSET Nat
    BY NodeFacts, DataFacts
  <2> QED
    BY <2>1
<1>3. IsFiniteSet(S)
  BY NodesFinite
<1> HIDE DEF S
<1>4. TotalOrder(S, R)
  <2>1. S \in SUBSET Seq(Nat)
    BY <1>2
  <2> QED
    BY <2>1, BeforeOrders
<1> HIDE DEF R
<1>5. /\ InOrder(S, R) \in Seq(S) /\ Range(InOrder(S, R)) = S
      /\ Len(InOrder(S, R)) \in Nat
  BY <1>3, <1>4, Ranked
<1>6. Preorder[d] = InOrder(S, R)
  BY <1>1, TableIs
<1>7. IsFiniteSet(DOMAIN Preorder[d])
  <2>1. DOMAIN Preorder[d] = 1..Len(InOrder(S, R))
    BY <1>5, <1>6
  <2> QED
    BY <1>5, <2>1, FS_Interval
<1> QED
  BY <1>5, <1>6, <1>7 DEF Nodes, S

\* Above each node are nodes.
LEMMA NodesAbove ==
  ASSUME NEW d \in DOMAIN Data, NEW p \in NodesFrom(d), NEW k \in 1..Len(p)
  PROVE  /\ SubSeq(p, 1, k) \in NodesFrom(d) /\ Len(SubSeq(p, 1, k)) = k
         /\ Last(SubSeq(p, 1, k)) = p[k] /\ \A j \in 1..k : SubSeq(p, 1, k)[j] = p[j]
<1> DEFINE q == SubSeq(p, 1, k)
           S == issues(d)
           n == Len(p)
<1>1. /\ p \in Seq(S) /\ n \in 1..(Cardinality(S) + 1) /\ p[1] \in Roots(d)
      /\ \A j \in 1..(n - 1) : p[j + 1] \in Children(d, p[j])
      /\ \A i, j \in 1..(n - 1) : p[i] = p[j] => i = j
  BY NodeFacts
<1>2. Cardinality(S) \in Nat
  BY DataFacts, FS_CardinalityType
<1> HIDE DEF S
<1>3. q \in Seq(S) /\ Len(q) = k /\ \A j \in 1..k : q[j] = p[j]
  BY <1>1
<1> HIDE DEF q, n
<1>4. n \in Nat /\ k \in Nat /\ 1 <= k /\ k <= n
  BY <1>1, <1>2 DEF n
<1>5. Len(q) \in 1..(Cardinality(S) + 1) /\ q[1] \in Roots(d)
  <2>1. 1 \in 1..k
    BY <1>4
  <2> QED
    BY <1>1, <1>2, <1>3, <1>4, <2>1
<1>6. \A j \in 1..(k - 1) : q[j + 1] \in Children(d, q[j])
  <2> TAKE j \in 1..(k - 1)
  <2>1. j \in 1..(n - 1) /\ j \in 1..k /\ j + 1 \in 1..k
    BY <1>4
  <2> QED
    BY <1>1, <1>3, <2>1
<1>7. \A i, j \in 1..(k - 1) : q[i] = q[j] => i = j
  <2> TAKE i, j \in 1..(k - 1)
  <2>1. i \in 1..(n - 1) /\ j \in 1..(n - 1) /\ i \in 1..k /\ j \in 1..k
    BY <1>4
  <2> QED
    BY <1>1, <1>3, <2>1
<1>8. q \in NodesFrom(d)
  BY <1>3, <1>5, <1>6, <1>7, NodeFacts DEF S
<1>9. Last(q) = p[k]
  <2>1. k \in 1..k
    BY <1>4
  <2> QED
    BY <1>3, <2>1 DEF Last
<1> QED
  BY <1>3, <1>8, <1>9 DEF q

\* The only node of an issue does not come below it.
LEMMA OnlyNode ==
  ASSUME NEW d \in DOMAIN Data, NEW p \in Nodes(d), NodesOf(d, Last(p)) = {p}
  PROVE  IsInjective(p)
<1> DEFINE n == Len(p)
<1>1. p \in NodesFrom(d)
  BY NodesAre
<1>2. /\ p \in Seq(issues(d)) /\ n \in Nat /\ DOMAIN p = 1..n
      /\ \A i, j \in 1..(n - 1) : p[i] = p[j] => i = j
  BY <1>1, NodeFacts
<1>3. ASSUME NEW k \in 1..(n - 1)
      PROVE  p[k] # p[n]
  <2>1. k \in 1..n /\ k # n
    <3> HIDE DEF n
    <3> QED
      BY <1>2
  <2> DEFINE q == SubSeq(p, 1, k)
  <2>2. q \in NodesFrom(d) /\ Len(q) = k /\ Last(q) = p[k]
    BY <1>1, <2>1, NodesAbove
  <2> HIDE DEF q
  <2>3. q \in Nodes(d) /\ q # p
    BY <2>1, <2>2, NodesAre
  <2> QED
    BY <2>2, <2>3 DEF NodesOf, Last
<1> HIDE DEF n
<1>4. ASSUME NEW i \in 1..n, NEW j \in 1..n, p[i] = p[j]
      PROVE  i = j
  <2>1. i \in 1..(n - 1) \/ i = n
    BY <1>2
  <2>2. j \in 1..(n - 1) \/ j = n
    BY <1>2
  <2> QED
    BY <1>2, <1>3, <1>4, <2>1, <2>2
<1> QED
  BY <1>2, <1>4 DEF IsInjective

\* A child below a node is one.
LEMMA ChildNode ==
  ASSUME NEW d \in DOMAIN Data, NEW p \in Nodes(d), IsInjective(p), NEW c \in Children(d, Last(p))
  PROVE  /\ Append(p, c) \in Nodes(d)
         /\ Above(Append(p, c)) \subseteq Above(p) \cup {p}
<1> DEFINE n == Len(p)
           S == issues(d)
           q == Append(p, c)
<1>1. p \in NodesFrom(d) /\ c \in S
  BY NodesAre DEF Children
<1>2. /\ p \in Seq(S) /\ n \in Nat /\ n >= 1 /\ p[1] \in Roots(d)
      /\ \A j \in 1..(n - 1) : p[j + 1] \in Children(d, p[j])
  <2>1. Cardinality(S) \in Nat
    BY DataFacts, FS_CardinalityType
  <2> QED
    BY <1>1, <2>1, NodeFacts
<1>3. n <= Cardinality(S) /\ Cardinality(S) \in Nat
  <2>1. IsFiniteSet(S) /\ Cardinality(S) \in Nat
    BY DataFacts, FS_CardinalityType
  <2>2. p \in Injection(1..n, S)
    BY <1>2 DEF Injection, IsInjective
  <2>3. Cardinality(1..n) = n
    <3> HIDE DEF n
    <3> QED
      BY <1>2, FS_Interval
  <2>4. Cardinality(1..n) <= Cardinality(S)
    BY <2>1, <2>2, FS_Injection
  <2> QED
    BY <2>1, <2>3, <2>4
<1> HIDE DEF S
<1>4. q \in Seq(S) /\ Len(q) = n + 1 /\ q[n + 1] = c /\ \A k \in 1..n : q[k] = p[k]
  BY <1>1, <1>2
<1>5. DOMAIN p = 1..n /\ p = SubSeq(q, 1, n)
  BY <1>1, <1>2, <1>4
<1>6. p[n] = Last(p)
  BY DEF Last
<1> HIDE DEF q, n
<1>7. Len(q) \in 1..(Cardinality(S) + 1) /\ q[1] \in Roots(d)
  <2>1. 1 \in 1..n
    BY <1>2
  <2> QED
    BY <1>2, <1>3, <1>4, <2>1
<1>8. \A k \in 1..n : q[k + 1] \in Children(d, q[k])
  <2> TAKE k \in 1..n
  <2>1. CASE k = n
    BY <1>4, <1>6, <2>1
  <2>2. CASE k # n
    <3>1. k \in 1..(n - 1) /\ k + 1 \in 1..n
      BY <1>2, <2>2
    <3> QED
      BY <1>2, <1>4, <3>1
  <2> QED
    BY <2>1, <2>2
<1>9. \A i, j \in 1..n : q[i] = q[j] => i = j
  BY <1>4, <1>5 DEF IsInjective
<1>10. q \in NodesFrom(d)
  <2>1. Len(q) - 1 = n
    BY <1>2, <1>4
  <2> QED
    BY <1>4, <1>7, <1>8, <1>9, <2>1, NodeFacts DEF S
<1>11. ASSUME NEW k \in 1..(Len(q) - 1)
       PROVE  SubSeq(q, 1, k) \in Above(p) \cup {p}
  <2>1. k \in 1..n
    BY <1>2, <1>4
  <2>2. CASE k = n
    BY <1>5, <2>2
  <2>3. CASE k # n
    <3>1. k \in 1..(n - 1) /\ k \in Nat /\ k <= n
      BY <1>2, <2>1, <2>3
    <3>2. SubSeq(q, 1, k) = SubSeq(p, 1, k)
      <4>1. \A j \in 1..k : j \in 1..n
        BY <1>2, <3>1
      <4>2. SubSeq(q, 1, k) = [j \in 1..k |-> q[j]] /\ SubSeq(p, 1, k) = [j \in 1..k |-> p[j]]
        BY <1>2, <1>4, <3>1
      <4> QED
        BY <1>4, <4>1, <4>2
    <3> QED
      BY <3>1, <3>2 DEF Above, n
  <2> QED
    BY <2>2, <2>3
<1> QED
  BY <1>10, <1>11, NodesAre DEF Above, q

\* The last of some nodes is one of them.
LEMMA LastOfSome ==
  ASSUME NEW d \in DOMAIN Data, NEW S, S \cap Nodes(d) # {}
  PROVE  LastOf(d, S) \in S \cap Nodes(d)
<1> DEFINE K == {k \in DOMAIN Preorder[d] : Preorder[d][k] \in S}
<1>1. /\ Preorder[d] \in Seq(NodesFrom(d)) /\ IsFiniteSet(DOMAIN Preorder[d])
      /\ Nodes(d) = Range(Preorder[d])
  BY NodesAre DEF Nodes
<1>2. K \in SUBSET Nat /\ K \in SUBSET DOMAIN Preorder[d]
  BY <1>1
<1>3. K # {}
  BY <1>1 DEF Range
<1> HIDE DEF K
<1>4. IsFiniteSet(K)
  BY <1>1, <1>2, FS_Subset
<1>5. Max(K) \in K
  BY <1>2, <1>3, <1>4, GreatestNatural
<1>6. LastOf(d, S) = Preorder[d][Max(K)]
  BY DEF LastOf, K
<1> QED
  BY <1>1, <1>5, <1>6 DEF Range, K

\* The rows are the nodes with nothing folded above.
Visible(d, open) == {p \in Nodes(d) : Above(p) \subseteq open}

\* The rows of the tree are the visible nodes, each in one row.
LEMMA RowsAre ==
  ASSUME NEW d \in DOMAIN Data, NEW open
  PROVE  /\ Rows(d, open) \in Seq(Nodes(d)) /\ Len(Rows(d, open)) \in Nat
         /\ Range(Rows(d, open)) = Visible(d, open)
<1> DEFINE s == Preorder[d]
           K == {k \in DOMAIN s : Above(s[k]) \subseteq open}
<1>1. s \in Seq(Nodes(d)) /\ Nodes(d) = Range(s)
  BY NodesAre DEF Nodes
<1>2. K \in SUBSET (DOMAIN s)
  OBVIOUS
<1>3. Rows(d, open) = Thinned(s, K)
  BY DEF Rows
<1>4. {s[k] : k \in K} = Visible(d, open)
  BY <1>1 DEF Visible, Range
<1> HIDE DEF s, K
<1>5. /\ Thinned(s, K) \in Seq(Nodes(d)) /\ Len(Thinned(s, K)) \in Nat
      /\ Range(Thinned(s, K)) = {s[k] : k \in K}
  BY <1>1, <1>2, ThinnedLists
<1> QED
  BY <1>3, <1>4, <1>5

-----------------------------------------------------------------------------
(* What the operations on a tree keep.                                     *)

AllNodes == UNION {NodesFrom(d) : d \in DOMAIN Data}
Trees ==
  [built : DOMAIN Data, open : SUBSET AllNodes, flat : Seq(AllNodes), cursor : Int, top : Nat,
   height : Nat, hash : DOMAIN Data]
TreeUIs ==
  [data : Loads, here : BOOLEAN, worker : BOOLEAN, rows : Heights, shown : BOOLEAN,
   focus : BOOLEAN, moved : BOOLEAN, missed : BOOLEAN, left : Nat]

\* The rows are those of what is open, and the cursor is on one of them if there are any.
TreeFits(u) ==
  /\ u \in Trees /\ Range(u.flat) = Visible(u.built, u.open)
  /\ u.cursor \in Nat /\ (u.cursor < Len(u.flat) \/ u.cursor = 0)

\* The cursor is drawn in every window that is not smaller than the tree.
Follows(u) ==
  HasRows(u) => \A r \in Nat : r >= u.height => u.cursor - FirstShown(u, r + 1) \in 0..r

\* What FoldingSaved says of the tree u, the file f and the issues k opened and not saved.
SavedIn(u, f, k) ==
  \A p \in Nodes(u.built) :
    NodesOf(u.built, Last(p)) = {p} /\ Last(p) \notin k =>
      (p \in u.open) = (IF Last(p) \in DOMAIN f THEN f[Last(p)] ELSE Len(p) <= 2)

\* A number brought within bounds is within them, or at the lower one if they cross.
LEMMA WithinIs ==
  ASSUME NEW k \in Int, NEW low \in Int, NEW high \in Int
  PROVE  /\ Within(k, low, high) \in Int /\ Within(k, low, high) >= low
         /\ Within(k, low, high) <= high \/ Within(k, low, high) = low
         /\ Within(k, low, high) <= k \/ Within(k, low, high) = low
         /\ Within(k, low, high) >= k \/ Within(k, low, high) = low \/ Within(k, low, high) = high
BY DEF Within

\* rebuildFlatList makes rows and a cursor that fit.
LEMMA RebuiltRows ==
  ASSUME NEW u \in Trees
  PROVE  /\ TreeFits(rebuildFlatList(u))
         /\ rebuildFlatList(u).built = u.built /\ rebuildFlatList(u).open = u.open
         /\ rebuildFlatList(u).hash = u.hash /\ rebuildFlatList(u).height = u.height
         /\ rebuildFlatList(u).top = u.top
         /\ u.cursor = 0 => rebuildFlatList(u).cursor = 0
<1> DEFINE rows == Rows(u.built, u.open)
           k == Within(u.cursor, 0, Len(rows) - 1)
           v == [u EXCEPT !.flat = rows, !.cursor = k]
<1>1. u.built \in DOMAIN Data /\ u.cursor \in Int
  BY DEF Trees
<1>2. rows \in Seq(Nodes(u.built)) /\ Len(rows) \in Nat /\ Range(rows) = Visible(u.built, u.open)
  BY <1>1, RowsAre
<1>3. rows \in Seq(AllNodes)
  <2>1. Nodes(u.built) \in SUBSET AllNodes
    BY <1>1, NodesAre DEF AllNodes
  <2> QED
    BY <1>2, <2>1
<1>4. v = rebuildFlatList(u)
  BY DEF rebuildFlatList, Trees
<1> HIDE DEF rows
<1>5. k \in Int /\ k >= 0 /\ (k <= Len(rows) - 1 \/ k = 0)
  <2>1. Len(rows) - 1 \in Int /\ 0 \in Int
    BY <1>2
  <2> QED
    BY <1>1, <2>1, WithinIs
<1>6. u.cursor = 0 => k = 0
  BY <1>2 DEF Within
<1> HIDE DEF k
<1>7. /\ v \in Trees /\ v.flat = rows /\ v.cursor = k /\ v.built = u.built /\ v.open = u.open
      /\ v.hash = u.hash /\ v.height = u.height /\ v.top = u.top
  BY <1>3, <1>5 DEF Trees
<1> HIDE DEF v
<1>8. TreeFits(v)
  BY <1>2, <1>5, <1>7 DEF TreeFits
<1> QED
  BY <1>4, <1>6, <1>7, <1>8

\* The window that is as large as the tree, or larger, has the cursor.
LEMMA Draws ==
  ASSUME NEW c \in Nat, NEW n \in Nat, c < n, NEW h \in Nat \ {0}, NEW top \in Int,
         NEW r \in Nat, r >= h
  PROVE  LET u == Within(Within(top, c - h + 1, c), 0, n - h)
         IN u \in Nat /\ c - Within(u, 0, n - (r + 1)) \in 0..r
<1> DEFINE a == Within(top, c - h + 1, c)
           u == Within(a, 0, n - h)
           w == Within(u, 0, n - (r + 1))
<1>1. a \in Int /\ c - h + 1 <= a /\ a <= c
  BY DEF Within
<1> HIDE DEF a
<1>2. u \in Nat /\ u <= c /\ c - h + 1 <= u
  BY <1>1 DEF Within
<1> HIDE DEF u
<1>3. w \in Nat /\ w <= c /\ c - r <= w
  BY <1>2 DEF Within
<1> HIDE DEF w
<1> QED
  BY <1>2, <1>3 DEF w, u, a

\* ensureCursorVisible changes the window, so that it has the cursor.
LEMMA Ensured ==
  ASSUME NEW u, TreeFits(u)
  PROVE  /\ TreeFits(ensureCursorVisible(u))
         /\ ensureCursorVisible(u).built = u.built /\ ensureCursorVisible(u).open = u.open
         /\ ensureCursorVisible(u).hash = u.hash /\ ensureCursorVisible(u).height = u.height
         /\ ensureCursorVisible(u).flat = u.flat /\ ensureCursorVisible(u).cursor = u.cursor
         /\ u.height # 0 => Follows(ensureCursorVisible(u))
<1>1. CASE ~HasRows(u)
  BY <1>1 DEF ensureCursorVisible, Follows
<1>2. CASE HasRows(u)
  <2> DEFINE h == Window(u.height)
             n == Len(u.flat)
             top == Within(Within(u.top, u.cursor - h + 1, u.cursor), 0, n - h)
             v == [u EXCEPT !.top = top]
  <2>1. u.flat \in Seq(AllNodes) /\ u.cursor \in Nat /\ u.top \in Int /\ u.height \in Nat /\ u \in Trees
    BY DEF TreeFits, Trees
  <2>2. n \in Nat /\ u.cursor < n
    <3>1. n \in Nat /\ n # 0
      BY <1>2, <2>1, NotEmpty DEF HasRows
    <3> HIDE DEF n
    <3> QED
      BY <3>1 DEF TreeFits, n
  <2>3. v = ensureCursorVisible(u)
    BY <1>2, <2>1 DEF ensureCursorVisible, Trees
  <2>4. h \in Nat \ {0} /\ (u.height # 0 => h = u.height)
    BY <2>1 DEF Window
  <2> HIDE DEF h, n
  <2>5. \A r \in Nat : r >= h => top \in Nat /\ u.cursor - Within(top, 0, n - (r + 1)) \in 0..r
    BY <2>1, <2>2, <2>4, Draws
  <2>6. top \in Nat
    <3>1. h \in Nat /\ h >= h
      BY <2>4
    <3> HIDE DEF top
    <3> QED
      BY <2>5, <3>1
  <2> HIDE DEF top
  <2>7. /\ v \in Trees /\ v.top = top /\ v.built = u.built /\ v.open = u.open /\ v.hash = u.hash
        /\ v.height = u.height /\ v.flat = u.flat /\ v.cursor = u.cursor
    BY <2>1, <2>6 DEF Trees
  <2> HIDE DEF v
  <2>8. TreeFits(v)
    BY <2>7 DEF TreeFits
  <2>9. u.height # 0 => Follows(v)
    BY <2>4, <2>5, <2>7 DEF Follows, FirstShown, n
  <2> QED
    BY <2>3, <2>7, <2>8, <2>9
<1> QED
  BY <1>1, <1>2

\* SelectByID goes to a row of the issue, if it has one.
LEMMA Selects ==
  ASSUME NEW u, TreeFits(u), NEW i
  PROVE  /\ TreeFits(SelectByID(u, i))
         /\ SelectByID(u, i).built = u.built /\ SelectByID(u, i).open = u.open
         /\ SelectByID(u, i).hash = u.hash /\ SelectByID(u, i).height = u.height
         /\ SelectByID(u, i).flat = u.flat
         /\ (\E k \in DOMAIN u.flat : Last(u.flat[k]) = i)
              => Last(SelectedNode(SelectByID(u, i))) = i
<1> DEFINE found == {k \in DOMAIN u.flat : Last(u.flat[k]) = i}
           n == Len(u.flat)
<1>1. u \in Trees /\ DOMAIN u.flat = 1..n /\ n \in Nat
  BY DEF TreeFits, Trees
<1>2. found \in SUBSET (1..n) /\ \A k \in found : Last(u.flat[k]) = i
  BY <1>1
<1>3. SelectByID(u, i) = IF found = {} THEN u ELSE ensureCursorVisible([u EXCEPT !.cursor = Min(found) - 1])
  BY DEF SelectByID
<1>4. (\E k \in DOMAIN u.flat : Last(u.flat[k]) = i) => found # {}
  OBVIOUS
<1>5. CASE found = {}
  BY <1>3, <1>4, <1>5
<1>6. CASE found # {}
  <2> HIDE DEF found, n
  <2> DEFINE k == Min(found)
             v == [u EXCEPT !.cursor = k - 1]
  <2>1. k \in found /\ k \in 1..n /\ Last(u.flat[k]) = i
    <3>1. found \in SUBSET Nat
      BY <1>2
    <3>2. k \in found
      BY <1>6, <3>1, LeastNatural
    <3> HIDE DEF k
    <3> QED
      BY <1>2, <3>2
  <2> HIDE DEF k
  <2>2. k - 1 \in Nat /\ k - 1 < n /\ (k - 1) + 1 = k
    BY <1>1, <2>1
  <2>3. /\ v \in Trees /\ v.cursor = k - 1 /\ v.built = u.built /\ v.open = u.open
        /\ v.hash = u.hash /\ v.height = u.height /\ v.flat = u.flat
    BY <1>1, <2>2 DEF Trees
  <2> HIDE DEF v
  <2>4. TreeFits(v)
    BY <2>2, <2>3 DEF TreeFits, n
  <2>5. SelectByID(u, i) = ensureCursorVisible(v)
    BY <1>3, <1>6 DEF v, k
  <2>6. /\ TreeFits(ensureCursorVisible(v))
        /\ ensureCursorVisible(v).built = v.built /\ ensureCursorVisible(v).open = v.open
        /\ ensureCursorVisible(v).hash = v.hash /\ ensureCursorVisible(v).height = v.height
        /\ ensureCursorVisible(v).flat = v.flat /\ ensureCursorVisible(v).cursor = v.cursor
    BY <2>4, Ensured
  <2>7. SelectedNode(SelectByID(u, i)) = u.flat[k]
    BY <2>2, <2>3, <2>5, <2>6 DEF SelectedNode
  <2> QED
    BY <2>1, <2>3, <2>5, <2>6, <2>7
<1> QED
  BY <1>5, <1>6

\* Every issue that has a node has one that does not repeat an issue.
LEMMA KnownNode ==
  ASSUME NEW d \in DOMAIN Data, NEW i \in Known(d)
  PROVE  issueMap[d][i] \in Nodes(d) /\ Last(issueMap[d][i]) = i
<1> DEFINE S == {p \in NodesOf(d, i) : IsInjective(p)}
<1>1. issueMap[d][i] = LastOf(d, S)
  <2>1. issueMap = [e \in DOMAIN Data |->
          Table([j \in Known(e) |-> LastOf(e, {p \in NodesOf(e, j) : IsInjective(p)})])]
    BY TableIs DEF issueMap
  <2>2. issueMap[d] = [j \in Known(d) |-> LastOf(d, {p \in NodesOf(d, j) : IsInjective(p)})]
    BY <2>1, TableIs
  <2> QED
    BY <2>2
<1>2. PICK q \in Nodes(d) : Last(q) = i
  BY DEF Known
<1> DEFINE n == Len(q)
<1>3. q \in NodesFrom(d)
  BY NodesAre
<1>4. n \in Nat /\ DOMAIN q = 1..n /\ \A j, k \in 1..(n - 1) : q[j] = q[k] => j = k
  BY <1>3, NodeFacts
<1>5. S \cap Nodes(d) # {}
  <2>1. CASE IsInjective(q)
    BY <1>2, <2>1 DEF NodesOf
  <2>2. CASE ~IsInjective(q)
    <3> HIDE DEF n
    <3>1. PICK j \in 1..n, k \in 1..n : q[j] = q[k] /\ j # k
      BY <1>4, <2>2 DEF IsInjective
    <3>2. j = n \/ k = n
      BY <1>4, <3>1
    <3>3. PICK l \in 1..(n - 1) : q[l] = q[n]
      BY <1>4, <3>1, <3>2
    <3>4. l \in 1..n /\ l \in Nat
      BY <1>4
    <3> DEFINE r == SubSeq(q, 1, l)
    <3>5. r \in NodesFrom(d) /\ Len(r) = l /\ Last(r) = q[l] /\ \A m \in 1..l : r[m] = q[m]
      BY <1>3, <3>4, NodesAbove DEF n
    <3>6. DOMAIN r = 1..l
      <4>1. r \in Seq(issues(d))
        BY <3>5, NodeFacts
      <4> HIDE DEF r
      <4> QED
        BY <3>5, <4>1
    <3> HIDE DEF r
    <3>7. IsInjective(r)
      <4>1. \A m \in 1..l : m \in 1..(n - 1)
        BY <1>4
      <4> QED
        BY <1>4, <3>5, <3>6, <4>1 DEF IsInjective
    <3>8. Last(r) = i
      BY <1>2, <3>3, <3>5 DEF Last, n
    <3>9. r \in Nodes(d)
      BY <3>5, NodesAre
    <3> QED
      BY <3>7, <3>8, <3>9 DEF NodesOf
  <2> QED
    BY <2>1, <2>2
<1>6. LastOf(d, S) \in S
  <2> HIDE DEF S
  <2> QED
    BY <1>5, LastOfSome
<1> QED
  BY <1>1, <1>6 DEF NodesOf

\* The entry of an issue with one node is for that node.
LEMMA MapOfOnlyNode ==
  ASSUME NEW d \in DOMAIN Data, NEW p \in Nodes(d), NodesOf(d, Last(p)) = {p}
  PROVE  issueMap[d][Last(p)] = p
<1>1. Last(p) \in Known(d)
  BY DEF Known
<1>2. issueMap[d][Last(p)] \in Nodes(d) /\ Last(issueMap[d][Last(p)]) = Last(p)
  BY <1>1, KnownNode
<1> QED
  BY <1>2 DEF NodesOf

\* What is read from the file is what it says.
LEMMA LoadedIsSaved ==
  ASSUME NEW u \in Trees, u.open = Loaded(u.built), NEW k,
         \A i \in DOMAIN treeFile : treeFile[i] \in BOOLEAN
  PROVE  SavedIn(u, treeFile, k)
<1> SUFFICES ASSUME NEW p \in Nodes(u.built), NodesOf(u.built, Last(p)) = {p}
             PROVE  (p \in u.open) = (IF Last(p) \in DOMAIN treeFile THEN treeFile[Last(p)]
                                                                     ELSE Len(p) <= 2)
  BY DEF SavedIn
<1>1. u.built \in DOMAIN Data
  BY DEF Trees
<1>2. p = issueMap[u.built][Last(p)] /\ IsInjective(p)
  BY <1>1, MapOfOnlyNode, OnlyNode
<1>3. p \in u.open <=> (IF Last(p) \in DOMAIN treeFile THEN treeFile[Last(p)] ELSE Len(p) <= 2)
  BY <1>2 DEF Loaded, OpenByDefault
<1>4. CASE Last(p) \in DOMAIN treeFile
  BY <1>3, <1>4
<1>5. CASE Last(p) \notin DOMAIN treeFile
  BY <1>3, <1>5
<1> QED
  BY <1>4, <1>5

\* What is written to the file is what is open, of an issue with one node.
LEMMA SavedIsSaved ==
  ASSUME NEW u \in Trees
  PROVE  /\ SavedIn(u, Saved(u), {})
         /\ \A i \in DOMAIN Saved(u) : Saved(u)[i] \in BOOLEAN
<1> DEFINE odd == {p \in Nodes(u.built) : (p \in u.open) # (Len(p) <= 2)}
           f == Saved(u)
<1>1. u.built \in DOMAIN Data
  BY DEF Trees
<1>2. /\ DOMAIN f = {Last(p) : p \in odd}
      /\ \A i \in DOMAIN f : f[i] = (LastOf(u.built, {p \in odd : Last(p) = i}) \in u.open)
  BY DEF Saved
<1> HIDE DEF f
<1>3. ASSUME NEW p \in Nodes(u.built), NodesOf(u.built, Last(p)) = {p}
      PROVE  (p \in u.open) = (IF Last(p) \in DOMAIN f THEN f[Last(p)] ELSE Len(p) <= 2)
  <2>1. \A q \in odd : Last(q) = Last(p) => q = p
    BY <1>3 DEF NodesOf
  <2>2. CASE p \in odd
    <3>1. Last(p) \in DOMAIN f
      BY <1>2, <2>2
    <3>2. {q \in odd : Last(q) = Last(p)} = {p}
      BY <2>1, <2>2
    <3>3. {p} \cap Nodes(u.built) # {}
      OBVIOUS
    <3>4. LastOf(u.built, {p}) = p
      BY <1>1, <3>3, LastOfSome
    <3>5. f[Last(p)] = (p \in u.open)
      BY <1>2, <3>1, <3>2, <3>4
    <3> QED
      BY <3>1, <3>5
  <2>3. CASE p \notin odd
    <3>1. Last(p) \notin DOMAIN f
      BY <1>2, <2>1, <2>3
    <3> QED
      BY <2>3, <3>1
  <2> QED
    BY <2>2, <2>3
<1>4. \A i \in DOMAIN f : f[i] \in BOOLEAN
  <2> TAKE i \in DOMAIN f
  <2> DEFINE p == LastOf(u.built, {q \in odd : Last(q) = i})
  <2>1. f[i] = (p \in u.open)
    BY <1>2
  <2> HIDE DEF p
  <2>2. CASE p \in u.open
    BY <2>1, <2>2
  <2>3. CASE p \notin u.open
    BY <2>1, <2>3
  <2> QED
    BY <2>2, <2>3
<1> QED
  BY <1>3, <1>4 DEF SavedIn, f

\* Nothing more need be said where the tree, the file and the unsaved are the same.
LEMMA SavedAgain ==
  ASSUME NEW u, NEW v, NEW f, NEW k, SavedIn(u, f, k), u.built = v.built, u.open = v.open
  PROVE  SavedIn(v, f, k)
BY DEF SavedIn

-----------------------------------------------------------------------------
(* Building the tree.                                                      *)

\* A tree that is built fits, with the folding that was saved; it keeps the hash and the height.
LEMMA BuildIs ==
  ASSUME NEW u \in Trees, NEW d \in DOMAIN Data
  PROVE  /\ TreeFits(BuildKeepingRow(u, d)) /\ BuildKeepingRow(u, d).built = d
         /\ BuildKeepingRow(u, d).open = Loaded(d)
         /\ BuildKeepingRow(u, d).hash = u.hash /\ BuildKeepingRow(u, d).height = u.height
         /\ TreeFits(Build(u, d)) /\ Build(u, d).built = d
         /\ Build(u, d).open = Loaded(d)
         /\ Build(u, d).hash = u.hash /\ Build(u, d).height = u.height
<1>1. Loaded(d) \in SUBSET AllNodes
  <2>1. Loaded(d) \in SUBSET Nodes(d)
    BY DEF Loaded
  <2> QED
    BY <2>1, NodesAre DEF AllNodes
<1>2. ASSUME NEW w \in Trees
      PROVE  /\ TreeFits(BuildKeepingRow(w, d)) /\ BuildKeepingRow(w, d).built = d
             /\ BuildKeepingRow(w, d).open = Loaded(d)
             /\ BuildKeepingRow(w, d).hash = w.hash /\ BuildKeepingRow(w, d).height = w.height
  <2> DEFINE v == [w EXCEPT !.built = d, !.open = Loaded(d)]
  <2>1. /\ v \in Trees /\ v.built = d /\ v.open = Loaded(d)
        /\ v.hash = w.hash /\ v.height = w.height
    BY <1>1, <1>2 DEF Trees
  <2>2. BuildKeepingRow(w, d) = rebuildFlatList(v)
    BY DEF BuildKeepingRow
  <2> HIDE DEF v
  <2> QED
    BY <2>1, <2>2, RebuiltRows
<1>3. [u EXCEPT !.cursor = 0] \in Trees /\ [u EXCEPT !.cursor = 0].hash = u.hash
      /\ [u EXCEPT !.cursor = 0].height = u.height
  BY DEF Trees
<1>4. Build(u, d) = BuildKeepingRow([u EXCEPT !.cursor = 0], d)
  BY DEF Build
<1> QED
  BY <1>2, <1>3, <1>4

\* Without roots there are no rows.
LEMMA NoRoots ==
  ASSUME NEW d \in DOMAIN Data, Roots(d) = {}
  PROVE  Nodes(d) = {}
BY NodeFacts, NodesAre

\* A snapshot is built, or was already; a selected issue that still has a row stays selected.
LEMMA BuildFromSnapshotIs ==
  ASSUME NEW u, TreeFits(u), NEW d \in DOMAIN Data
  PROVE  LET v == BuildFromSnapshot(u, d)
         IN /\ TreeFits(v) /\ v.height = u.height /\ v.hash = d
            /\ IF u.hash = d THEN v = u ELSE v.built = d /\ v.open = Loaded(d)
            /\ HasRows(u) /\ (\E k \in DOMAIN v.flat : Last(v.flat[k]) = Last(SelectedNode(u)))
                 => Last(SelectedNode(v)) = Last(SelectedNode(u))
<1> DEFINE w == [u EXCEPT !.hash = d]
           v == BuildFromSnapshot(u, d)
           x == BuildKeepingRow(w, d)
<1>1. u \in Trees
  BY DEF TreeFits
<1>2. w \in Trees /\ w.hash = d /\ w.height = u.height
  BY <1>1 DEF Trees
<1>3. CASE u.hash = d
  <2>1. v = u
    BY <1>3 DEF BuildFromSnapshot
  <2> QED
    BY <1>3, <2>1
<1>4. CASE u.hash # d /\ Roots(d) = {}
  <2> DEFINE y == Build(u, d)
  <2>1. TreeFits(y) /\ y.built = d /\ y.open = Loaded(d) /\ y.height = u.height
    BY <1>1, BuildIs
  <2>2. v = [y EXCEPT !.hash = d]
    BY <1>4 DEF BuildFromSnapshot
  <2> HIDE DEF y, v
  <2>3. /\ v \in Trees /\ v.built = d /\ v.open = Loaded(d) /\ v.height = u.height /\ v.hash = d
        /\ v.flat = y.flat /\ v.cursor = y.cursor
    BY <2>1, <2>2 DEF TreeFits, Trees
  <2>4. TreeFits(v)
    BY <2>1, <2>3 DEF TreeFits
  <2>5. DOMAIN v.flat = {}
    <3>1. Nodes(v.built) = {}
      BY <1>4, <2>3, NoRoots
    <3>2. Range(v.flat) = {}
      BY <2>4, <3>1 DEF TreeFits, Visible
    <3> QED
      BY <3>2 DEF Range
  <2> QED
    BY <1>4, <2>3, <2>4, <2>5 DEF v
<1>5. CASE u.hash # d /\ Roots(d) # {}
  <2>1. TreeFits(x) /\ x.built = d /\ x.open = Loaded(d) /\ x.height = u.height /\ x.hash = d
    BY <1>2, BuildIs
  <2> HIDE DEF x
  <2>2. v = IF HasRows(u) THEN SelectByID(x, Last(SelectedNode(u))) ELSE x
    BY <1>5 DEF BuildFromSnapshot, x
  <2> HIDE DEF v
  <2>3. CASE HasRows(u)
    <3> DEFINE i == Last(SelectedNode(u))
    <3> HIDE DEF i
    <3>1. v = SelectByID(x, i)
      BY <2>2, <2>3 DEF i
    <3>2. /\ TreeFits(v) /\ v.built = d /\ v.open = Loaded(d) /\ v.hash = d
          /\ v.height = u.height /\ v.flat = x.flat
      BY <2>1, <3>1, Selects
    <3>3. (\E k \in DOMAIN x.flat : Last(x.flat[k]) = i) => Last(SelectedNode(v)) = i
      BY <2>1, <3>1, Selects
    <3> QED
      BY <1>5, <3>2, <3>3 DEF v, i
  <2>4. CASE ~HasRows(u)
    BY <1>5, <2>1, <2>2, <2>4 DEF v
  <2> QED
    BY <2>3, <2>4
<1> QED
  BY <1>3, <1>4, <1>5

\* What the hash says: without a worker there is none, and the tree of a hash is that of its data
\* or a project's.
HashHolds(u, ui) ==
  /\ ~ui.worker => u.hash = NoData
  /\ u.hash # NoData => u.built = u.hash \/ issues(u.built) \subseteq Here

\* The tree is that of the data and the project, or overlooked.
Current(u, ui) ==
  \/ u.built = Filtered(ui)
  \/ ~ui.here /\ u.hash = ui.data /\ issues(u.built) \subseteq Here

\* What a refresh makes of the tree is current, and so is its hash.
LEMMA RebuiltIs ==
  ASSUME NEW u, TreeFits(u), NEW ui \in TreeUIs, HashHolds(u, ui)
  PROVE  /\ TreeFits(Rebuilt(u, ui)) /\ Rebuilt(u, ui).height = u.height
         /\ HashHolds(Rebuilt(u, ui), ui)
         /\ Rebuilt(u, ui) = u \/ Rebuilt(u, ui).open = Loaded(Rebuilt(u, ui).built)
         /\ ui.shown => Current(Rebuilt(u, ui), ui)
<1> DEFINE v == Rebuilt(u, ui)
           d == Filtered(ui)
<1>1. ui.data \in Loads /\ ui.data \in DOMAIN Data /\ ui.data # NoData /\ d \in DOMAIN Data
      /\ (ui.here => issues(d) \subseteq Here) /\ (~ui.here => d = ui.data)
  BY DataFacts DEF TreeUIs, Filtered
<1>2. u \in Trees
  BY DEF TreeFits
<1> HIDE DEF d
<1>3. CASE ~ui.shown
  BY <1>3 DEF Rebuilt
<1>4. CASE ui.shown /\ (ui.here \/ ~ui.worker)
  <2>1. v = Build(u, d)
    BY <1>4 DEF Rebuilt, d
  <2>2. TreeFits(v) /\ v.built = d /\ v.open = Loaded(d) /\ v.hash = u.hash /\ v.height = u.height
    BY <1>1, <1>2, <2>1, BuildIs
  <2> HIDE DEF v
  <2>3. HashHolds(v, ui)
    BY <1>1, <1>4, <2>2 DEF HashHolds
  <2>4. Current(v, ui)
    BY <2>2 DEF Current, d
  <2> QED
    BY <2>2, <2>3, <2>4 DEF v
<1>5. CASE ui.shown /\ ~(ui.here \/ ~ui.worker)
  <2>1. v = BuildFromSnapshot(u, ui.data)
    BY <1>5 DEF Rebuilt
  <2>2. /\ TreeFits(v) /\ v.height = u.height /\ v.hash = ui.data
        /\ IF u.hash = ui.data THEN v = u ELSE v.built = ui.data /\ v.open = Loaded(ui.data)
    BY <1>1, <2>1, BuildFromSnapshotIs
  <2> HIDE DEF v
  <2>3. v.built = ui.data \/ issues(v.built) \subseteq Here
    BY <1>1, <2>2 DEF HashHolds
  <2>4. HashHolds(v, ui)
    BY <1>5, <2>2, <2>3 DEF HashHolds
  <2>5. Current(v, ui)
    BY <1>1, <1>5, <2>2, <2>3 DEF Current, d
  <2>6. v = u \/ v.open = Loaded(v.built)
    BY <2>2
  <2> QED
    BY <2>2, <2>4, <2>5, <2>6 DEF v
<1> QED
  BY <1>3, <1>4, <1>5

-----------------------------------------------------------------------------
(* What a session in the tree keeps.                                       *)

FileFits(f) == \A i \in DOMAIN f : f[i] \in BOOLEAN

TreeInv ==
  /\ treeUI \in TreeUIs
  /\ TreeFits(t) /\ FileFits(treeFile)
  /\ HashHolds(t, treeUI)
  /\ treeUI.focus => treeUI.shown
  /\ treeUI.shown => t.height # 0
  /\ treeUI.shown => Current(t, treeUI) \/ treeUI.missed
  /\ SavedIn(t, treeFile, peeked)
  /\ treeUI.moved => t.height # 0 /\ Follows(t)

\* The invariant of the tree implies its properties.
LEMMA TreeInvMeans ==
  ASSUME TreeInv
  PROVE  TreeIsCurrent /\ FoldingSaved /\ CursorFollows
<1>1. TreeIsCurrent
  BY DEF TreeInv, TreeIsCurrent, Current, Overlooked
<1>2. FoldingSaved
  BY DEF TreeInv, FoldingSaved, SavedIn
<1>3. CursorFollows
  <2> SUFFICES ASSUME treeUI.moved, ~(treeUI.rows < t.height), HasRows(t)
               PROVE  OnScreen(t, treeUI)
    BY DEF CursorFollows
  <2> DEFINE r == treeUI.rows
  <2>1. r \in Nat /\ t.height \in Nat
    BY TreeAssumption DEF TreeInv, TreeUIs, TreeFits, Trees
  <2>2. t.cursor - FirstShown(t, r + 1) \in 0..r
    BY <2>1 DEF TreeInv, Follows
  <2>3. (r + 1) - 1 = r
    BY <2>1
  <2> HIDE DEF r
  <2> QED
    BY <2>2, <2>3 DEF OnScreen, r
<1> QED
  BY <1>1, <1>2, <1>3

\* A session starts with an empty tree that has not been shown.
LEMMA TreeInitHolds ==
  ASSUME TreeInit
  PROVE  TreeInv
<1>1. NoData \in DOMAIN Data /\ issues(NoData) = {}
  BY DataFacts
<1>2. Nodes(NoData) = {}
  BY <1>1, NoRoots DEF Roots
<1>3. /\ t \in Trees /\ t.flat = <<>> /\ t.cursor = 0 /\ t.built = NoData /\ t.hash = NoData
  BY <1>1 DEF TreeInit, Trees
<1>4. TreeFits(t)
  BY <1>2, <1>3 DEF TreeFits, Visible, Range
<1>5. treeUI \in TreeUIs /\ ~treeUI.shown /\ ~treeUI.focus /\ ~treeUI.moved
  BY TreeAssumption DEF TreeInit, TreeUIs
<1>6. FileFits(treeFile)
  BY DEF TreeInit, FileFits
<1>7. SavedIn(t, treeFile, peeked)
  BY <1>2, <1>3 DEF SavedIn
<1>8. HashHolds(t, treeUI)
  BY <1>3 DEF HashHolds
<1> QED
  BY <1>4, <1>5, <1>6, <1>7, <1>8 DEF TreeInv

\* What a key or a click does to the tree.
TreeActed ==
  /\ TreeFits(t') /\ t'.built = t.built /\ t'.hash = t.hash /\ t'.height = t.height
  /\ t.height # 0 => Follows(t')
  /\ FileFits(treeFile') /\ SavedIn(t', treeFile', peeked')

\* A movement that ends in ensureCursorVisible leaves the cursor drawn.
LEMMA MovesAct ==
  ASSUME TreeInv, NEW u, TreeFits(u), u.built = t.built, u.open = t.open, u.hash = t.hash,
         u.height = t.height, t' = ensureCursorVisible(u), UNCHANGED <<treeFile, peeked>>
  PROVE  TreeActed
<1> DEFINE v == ensureCursorVisible(u)
<1>1. /\ TreeFits(v) /\ v.built = t.built /\ v.open = t.open /\ v.hash = t.hash
      /\ v.height = t.height /\ (t.height # 0 => Follows(v))
  BY Ensured
<1> HIDE DEF v
<1>2. SavedIn(v, treeFile, peeked)
  BY <1>1, SavedAgain DEF TreeInv
<1> QED
  BY <1>1, <1>2 DEF TreeActed, TreeInv, v

\* A key that folds or unfolds saves what is open now.
LEMMA FoldingActs ==
  ASSUME TreeInv, NEW u, TreeFits(u), u.built = t.built, u.hash = t.hash, u.height = t.height,
         NEW open \in SUBSET AllNodes, Folding(u, open)
  PROVE  TreeActed
<1> DEFINE v == [u EXCEPT !.open = open]
           w == rebuildFlatList(v)
           x == ensureCursorVisible(w)
<1>1. v \in Trees /\ v.built = t.built /\ v.hash = t.hash /\ v.height = t.height
  BY DEF TreeFits, Trees
<1> HIDE DEF v
<1>2. TreeFits(w) /\ w.built = t.built /\ w.hash = t.hash /\ w.height = t.height
  BY <1>1, RebuiltRows
<1> HIDE DEF w
<1>3. /\ TreeFits(x) /\ x.built = t.built /\ x.hash = t.hash /\ x.height = t.height
      /\ (t.height # 0 => Follows(x))
  BY <1>2, Ensured
<1>4. t' = x /\ treeFile' = Saved(t') /\ peeked' = {}
  BY DEF Folding, v, w
<1> HIDE DEF x
<1>5. SavedIn(x, Saved(x), {}) /\ FileFits(Saved(x))
  BY <1>3, SavedIsSaved DEF TreeFits, FileFits
<1> QED
  BY <1>3, <1>4, <1>5 DEF TreeActed

\* The cursor at another row.
LEMMA AtFits ==
  ASSUME TreeFits(t), NEW k \in Nat, k < Len(t.flat) \/ k = 0
  PROVE  /\ TreeFits(At(k)) /\ At(k).built = t.built /\ At(k).open = t.open /\ At(k).hash = t.hash
         /\ At(k).height = t.height /\ At(k).flat = t.flat /\ At(k).cursor = k
<1>1. /\ At(k) \in Trees /\ At(k).built = t.built /\ At(k).open = t.open /\ At(k).hash = t.hash
      /\ At(k).height = t.height /\ At(k).flat = t.flat /\ At(k).cursor = k
  BY DEF At, TreeFits, Trees
<1> QED
  BY <1>1 DEF TreeFits

\* Moving to a row that is there, or to the first, is such a movement.
LEMMA MovesToRow ==
  ASSUME TreeInv, NEW k \in Nat, k < Len(t.flat) \/ k = 0, Moves(At(k))
  PROVE  TreeActed
<1> TreeFits(t)
  BY DEF TreeInv
<1>1. /\ TreeFits(At(k)) /\ At(k).built = t.built /\ At(k).open = t.open /\ At(k).hash = t.hash
      /\ At(k).height = t.height
  BY AtFits
<1> QED
  BY <1>1, MovesAct DEF Moves

\* Any row that is asked for is brought within the list.
LEMMA WithinRows ==
  ASSUME TreeFits(t), NEW k \in Int
  PROVE  /\ Within(k, 0, LastRow) \in Nat
         /\ Within(k, 0, LastRow) < Len(t.flat) \/ Within(k, 0, LastRow) = 0
         /\ Len(t.flat) \in Nat /\ LastRow \in Int
         /\ HasRows(t) => LastRow \in Nat /\ LastRow < Len(t.flat)
<1> DEFINE n == Len(t.flat)
           k0 == Within(k, 0, LastRow)
<1>1. n \in Nat /\ LastRow = n - 1 /\ (HasRows(t) => n # 0)
  BY NotEmpty DEF TreeFits, Trees, LastRow, HasRows
<1> HIDE DEF n
<1>2. k0 \in Int /\ k0 >= 0 /\ (k0 <= LastRow \/ k0 = 0)
  BY <1>1, WithinIs
<1> HIDE DEF k0
<1> QED
  BY <1>1, <1>2 DEF n, k0

\* The selected row is a node under what is open.
LEMMA SelectedIs ==
  ASSUME NEW u, TreeFits(u), HasRows(u)
  PROVE  SelectedNode(u) \in Visible(u.built, u.open) /\ SelectedNode(u) \in Nodes(u.built)
<1> DEFINE n == Len(u.flat)
<1>1. n \in Nat /\ n # 0 /\ DOMAIN u.flat = 1..n /\ u.cursor \in Nat /\ (u.cursor < n \/ u.cursor = 0)
  BY NotEmpty DEF TreeFits, Trees, HasRows
<1> HIDE DEF n
<1>2. u.cursor + 1 \in DOMAIN u.flat
  BY <1>1
<1>3. SelectedNode(u) \in Range(u.flat)
  BY <1>2 DEF SelectedNode, Range
<1> QED
  BY <1>3 DEF TreeFits, Visible

\* A node under what is open has a row.
LEMMA RowOfIs ==
  ASSUME TreeFits(t), NEW p \in Visible(t.built, t.open)
  PROVE  RowOf(p) \in Nat /\ RowOf(p) < Len(t.flat)
<1> DEFINE n == Len(t.flat)
           at(k) == k \in DOMAIN t.flat /\ t.flat[k] = p
<1>1. n \in Nat /\ DOMAIN t.flat = 1..n /\ p \in Range(t.flat)
  BY NotEmpty DEF TreeFits, Trees
<1>2. \E k \in DOMAIN t.flat : t.flat[k] = p
  BY <1>1 DEF Range
<1> DEFINE l == CHOOSE k \in DOMAIN t.flat : t.flat[k] = p
<1>3. l \in DOMAIN t.flat
  BY <1>2
<1> HIDE DEF l, n
<1>4. l - 1 \in Nat /\ l - 1 < n
  BY <1>1, <1>3
<1> QED
  BY <1>4 DEF RowOf, l, n

\* The parent's row is there.
LEMMA ParentShown ==
  ASSUME NEW d \in DOMAIN Data, NEW open, NEW p \in Visible(d, open), Len(p) > 1
  PROVE  Front(p) \in Visible(d, open)
<1> DEFINE n == Len(p)
           q == Front(p)
<1>1. p \in NodesFrom(d) /\ Above(p) \subseteq open
  BY NodesAre DEF Visible
<1>2. p \in Seq(issues(d)) /\ n \in Nat /\ n > 1
  BY <1>1, NodeFacts
<1>3. n - 1 \in 1..n /\ n - 1 \in 1..(n - 1) /\ n - 1 \in Nat
  <2> HIDE DEF n
  <2> QED
    BY <1>2
<1>4. q = SubSeq(p, 1, n - 1)
  BY <1>2 DEF Front
<1> HIDE DEF q
<1>5. q \in NodesFrom(d) /\ Len(q) = n - 1 /\ \A j \in 1..(n - 1) : q[j] = p[j]
  BY <1>1, <1>3, <1>4, NodesAbove
<1>6. Above(q) \subseteq Above(p)
  <2> SUFFICES ASSUME NEW k \in 1..(Len(q) - 1)
               PROVE  SubSeq(q, 1, k) \in Above(p)
    BY DEF Above
  <2> HIDE DEF n
  <2>1. k \in 1..(n - 1) /\ k \in Nat /\ \A j \in 1..k : j \in 1..(n - 1)
    BY <1>2, <1>5
  <2>2. SubSeq(q, 1, k) = [j \in 1..k |-> q[j]] /\ SubSeq(p, 1, k) = [j \in 1..k |-> p[j]]
    <3>1. q \in Seq(issues(d))
      BY <1>5, NodeFacts
    <3> QED
      BY <1>2, <1>5, <2>1, <3>1 DEF n
  <2>3. SubSeq(q, 1, k) = SubSeq(p, 1, k)
    BY <1>5, <2>1, <2>2
  <2> QED
    BY <2>1, <2>3 DEF Above, n
<1> QED
  BY <1>1, <1>5, <1>6, NodesAre DEF Visible, q

\* Folding or unfolding a node leaves nodes open.
LEMMA TogglesNodes ==
  ASSUME NEW u, TreeFits(u), HasRows(u)
  PROVE  /\ Toggled(u) \in SUBSET AllNodes
         /\ u.open \cup {SelectedNode(u)} \in SUBSET AllNodes
<1>1. u.open \in SUBSET AllNodes /\ u.built \in DOMAIN Data
  BY DEF TreeFits, Trees
<1>2. SelectedNode(u) \in AllNodes
  BY <1>1, SelectedIs, NodesAre DEF AllNodes
<1> QED
  BY <1>1, <1>2 DEF Toggled

\* So is the jump to the parent, which has a row because its child has one.
LEMMA JumpActs ==
  ASSUME TreeInv, HasRows(t), JumpToParent
  PROVE  TreeActed
<1> DEFINE p == SelectedNode(t)
           k == RowOf(Front(p))
<1>1. TreeFits(t) /\ t.built \in DOMAIN Data
  BY DEF TreeInv, TreeFits, Trees
<1>2. p \in Visible(t.built, t.open) /\ Len(p) > 1
  BY <1>1, SelectedIs DEF JumpToParent
<1> HIDE DEF p
<1>3. Front(p) \in Visible(t.built, t.open)
  BY <1>1, <1>2, ParentShown
<1>4. k \in Nat /\ k < Len(t.flat)
  BY <1>1, <1>3, RowOfIs
<1>5. Moves(At(k))
  BY DEF JumpToParent, p
<1> HIDE DEF k
<1> QED
  BY <1>4, <1>5, MovesToRow

\* Unfolding, or moving on to the first child, keeps the cursor drawn and what is open saved.
LEMMA ExpandActs ==
  ASSUME TreeInv, ExpandOrMoveToChild
  PROVE  TreeActed
<1> DEFINE p == SelectedNode(t)
           C == Children(t.built, Last(p))
           first == Append(p, Min(C))
<1>1. TreeFits(t) /\ t.built \in DOMAIN Data /\ HasRows(t)
  BY DEF TreeInv, TreeFits, Trees, ExpandOrMoveToChild
<1>2. p \in Visible(t.built, t.open) /\ p \in Nodes(t.built)
  BY <1>1, SelectedIs
<1>3. IsInjective(p) /\ C # {}
  BY DEF ExpandOrMoveToChild, Parental
<1>4. Min(C) \in C
  <2>1. C \in SUBSET Nat
    BY <1>1, DataFacts DEF Children
  <2> HIDE DEF C
  <2> QED
    BY <1>3, <2>1, LeastNatural
<1>5. first \in Nodes(t.built) /\ Above(first) \subseteq Above(p) \cup {p}
  <2> DEFINE c == Min(C)
  <2> HIDE DEF p
  <2>1. c \in Children(t.built, Last(p))
    BY <1>4
  <2> HIDE DEF c
  <2>2. Append(p, c) \in Nodes(t.built) /\ Above(Append(p, c)) \subseteq Above(p) \cup {p}
    BY <1>1, <1>2, <1>3, <2>1, ChildNode
  <2> QED
    BY <2>2 DEF c
<1>6. CASE p \in t.open
  <2> DEFINE k == RowOf(first)
  <2>1. Moves(At(k))
    BY <1>6 DEF ExpandOrMoveToChild
  <2> HIDE DEF first, p
  <2>2. first \in Visible(t.built, t.open)
    BY <1>2, <1>5, <1>6 DEF Visible
  <2>3. k \in Nat /\ k < Len(t.flat)
    BY <1>1, <2>2, RowOfIs
  <2> HIDE DEF k
  <2> QED
    BY <2>1, <2>3, MovesToRow
<1>7. CASE p \notin t.open
  <2>1. Folding(t, t.open \cup {p})
    BY <1>7 DEF ExpandOrMoveToChild
  <2>2. t.open \cup {p} \in SUBSET AllNodes
    BY <1>1, TogglesNodes
  <2> QED
    BY <1>1, <2>1, <2>2, FoldingActs
<1> QED
  BY <1>6, <1>7

\* Every key of the tree does one of the two.
LEMMA TreeKeysAct ==
  ASSUME TreeInv, TreeKeys
  PROVE  TreeActed
<1>1. /\ TreeFits(t) /\ t.cursor \in Nat /\ Len(t.flat) \in Nat /\ LastRow = Len(t.flat) - 1
      /\ t.height \in Nat /\ t.built \in DOMAIN Data
  BY WithinRows DEF TreeInv, TreeFits, Trees, LastRow
<1>2. CASE TreeDown
  <2>1. t.cursor + 1 \in Nat /\ t.cursor + 1 < Len(t.flat)
    BY <1>1, <1>2 DEF TreeDown
  <2> QED
    BY <1>2, <2>1, MovesToRow DEF TreeDown
<1>3. CASE TreeUp
  <2>1. t.cursor - 1 \in Nat /\ (t.cursor - 1 < Len(t.flat))
    BY <1>1, <1>3 DEF TreeUp, TreeFits
  <2> QED
    BY <1>3, <2>1, MovesToRow DEF TreeUp
<1>4. CASE JumpToTop
  BY <1>4, MovesToRow DEF JumpToTop
<1>5. CASE JumpToBottom
  <2>1. HasRows(t) /\ Moves(At(LastRow))
    BY <1>5 DEF JumpToBottom
  <2>2. LastRow \in Nat /\ LastRow < Len(t.flat)
    BY <1>1, <2>1, WithinRows
  <2> QED
    BY <2>1, <2>2, MovesToRow
<1>6. HalfPage \in Int
  BY <1>1 DEF HalfPage
<1>7. CASE TreePageDown
  <2> DEFINE k == Within(t.cursor + HalfPage, 0, LastRow)
  <2>1. k \in Nat /\ (k < Len(t.flat) \/ k = 0)
    <3>1. t.cursor + HalfPage \in Int
      BY <1>1, <1>6
    <3> QED
      BY <1>1, <3>1, WithinRows
  <2>2. Moves(At(k))
    BY <1>7 DEF TreePageDown
  <2> HIDE DEF k
  <2> QED
    BY <2>1, <2>2, MovesToRow
<1>8. CASE TreePageUp
  <2> DEFINE k == Within(t.cursor - HalfPage, 0, LastRow)
  <2>1. k \in Nat /\ (k < Len(t.flat) \/ k = 0)
    <3>1. t.cursor - HalfPage \in Int
      BY <1>1, <1>6
    <3> QED
      BY <1>1, <3>1, WithinRows
  <2>2. Moves(At(k))
    BY <1>8 DEF TreePageUp
  <2> HIDE DEF k
  <2> QED
    BY <2>1, <2>2, MovesToRow
<1>9. CASE TreeToggle
  BY <1>1, <1>9, TogglesNodes, FoldingActs DEF TreeToggle
<1>10. CASE FoldAll
  <2>1. PICK open \in {Nodes(t.built), {}} : Folding(t, open)
    BY <1>10 DEF FoldAll
  <2>2. Nodes(t.built) \in SUBSET AllNodes
    BY <1>1, NodesAre DEF AllNodes
  <2> QED
    BY <1>1, <2>1, <2>2, FoldingActs
<1>11. CASE ExpandOrMoveToChild
  BY <1>11, ExpandActs
<1>12. CASE CollapseOrJumpToParent
  <2>1. HasRows(t) /\ (Folding(t, Toggled(t)) \/ JumpToParent)
    BY <1>12 DEF CollapseOrJumpToParent
  <2> QED
    BY <1>1, <2>1, TogglesNodes, FoldingActs, JumpActs
<1>13. CASE TreeWheel
  <2>1. PICK by \in {-2, -1, 1, 2} : t' = MoveTo(t.cursor + by) /\ UNCHANGED <<treeFile, peeked>>
    BY <1>13 DEF TreeWheel
  <2> DEFINE k == Within(t.cursor + by, 0, LastRow)
  <2>2. t.cursor + by \in Int
    BY <1>1
  <2>3. k \in Nat /\ (k < Len(t.flat) \/ k = 0)
    BY <1>1, <2>2, WithinRows
  <2>4. Moves(At(k))
    BY <2>1 DEF MoveTo, Moves
  <2> HIDE DEF k
  <2> QED
    BY <2>3, <2>4, MovesToRow
<1> QED
  BY <1>2, <1>3, <1>4, <1>5, <1>7, <1>8, <1>9, <1>10, <1>11, <1>12, <1>13 DEF TreeKeys

\* So does a click: it selects the row it hits, or folds the one selected.
LEMMA TreeClickActs ==
  ASSUME TreeInv, TreeClick
  PROVE  TreeActed
<1>1. PICK y \in 0..(t.height - 1) :
        /\ Hit(y) <= LastRow
        /\ \E u \in {MoveTo(Hit(y))} :
             \/ t' = u /\ UNCHANGED <<treeFile, peeked>>
             \/ Parental(u.built, SelectedNode(u)) /\ Folding(u, Toggled(u))
  BY DEF TreeClick
<1> DEFINE k == Within(Hit(y), 0, LastRow)
           u == MoveTo(Hit(y))
<1>2. \/ Moves(At(k))
      \/ Folding(u, Toggled(u))
  BY <1>1 DEF MoveTo, Moves
<1>3. TreeFits(t) /\ Hit(y) \in Int
  BY <1>1 DEF TreeInv, TreeFits, Trees, Hit
<1>4. k \in Nat /\ (k < Len(t.flat) \/ k = 0)
  BY <1>3, WithinRows
<1>5. u = ensureCursorVisible(At(k))
  BY DEF MoveTo
<1> HIDE DEF k, u
<1>6. CASE Moves(At(k))
  BY <1>4, <1>6, MovesToRow
<1>7. CASE Folding(u, Toggled(u)) /\ HasRows(t)
  <2>1. /\ TreeFits(At(k)) /\ At(k).built = t.built /\ At(k).hash = t.hash
        /\ At(k).height = t.height /\ At(k).flat = t.flat
    BY <1>3, <1>4, AtFits
  <2> DEFINE v == At(k)
  <2>2. TreeFits(v) /\ u = ensureCursorVisible(v)
    BY <1>5, <2>1
  <2>3. /\ v.built = t.built /\ v.hash = t.hash /\ v.height = t.height /\ v.flat = t.flat
    BY <2>1
  <2> HIDE DEF v
  <2>4. /\ TreeFits(u) /\ u.built = t.built /\ u.hash = t.hash /\ u.height = t.height
        /\ u.flat = t.flat
    BY <2>2, <2>3, Ensured
  <2>5. HasRows(u)
    BY <1>7, <2>4 DEF HasRows
  <2>6. Toggled(u) \in SUBSET AllNodes
    BY <2>4, <2>5, TogglesNodes
  <2> QED
    BY <1>7, <2>4, <2>6, FoldingActs
<1>8. CASE ~HasRows(t)
  <2>1. LastRow = -1 /\ t.top \in Nat /\ t.height \in Nat
    BY <1>3, <1>8 DEF HasRows, LastRow, TreeFits, Trees
  <2> QED
    BY <1>1, <2>1 DEF Hit
<1> QED
  BY <1>2, <1>6, <1>7, <1>8

\* What is opened on the way to an issue are nodes.
LEMMA PathNodes ==
  ASSUME NEW d \in DOMAIN Data, NEW p \in Nodes(d)
  PROVE  Above(p) \cup {p} \in SUBSET AllNodes
<1>1. p \in NodesFrom(d)
  BY NodesAre
<1>2. ASSUME NEW k \in 1..(Len(p) - 1)
      PROVE  SubSeq(p, 1, k) \in NodesFrom(d)
  <2>1. Len(p) \in Nat
    BY <1>1, NodeFacts
  <2>2. k \in 1..Len(p)
    BY <2>1
  <2> QED
    BY <1>1, <2>2, NodesAbove
<1> QED
  BY <1>1, <1>2 DEF Above, AllNodes

\* A rebuild, or none, forgets what was opened unsaved as the file is read again.
LEMMA RebuiltSaved ==
  ASSUME TreeInv, NEW u, TreeFits(u),
         \/ u.hash = t.hash /\ u.built = t.built /\ u.open = t.open
         \/ u.open = Loaded(u.built)
  PROVE  SavedIn(u, treeFile, StillPeeked(u))
<1>1. u \in Trees
  BY DEF TreeFits
<1>2. CASE u.open = Loaded(u.built)
  BY <1>1, <1>2, LoadedIsSaved DEF TreeInv, FileFits
<1>3. CASE u.hash = t.hash /\ u.built = t.built /\ u.open = t.open
  <2>1. SavedIn(u, treeFile, peeked)
    BY <1>3, SavedAgain DEF TreeInv
  <2> QED
    BY <1>3, <2>1 DEF StillPeeked
<1> QED
  BY <1>2, <1>3

\* The tree at another height.
LEMMA HeightFits ==
  ASSUME NEW u, TreeFits(u), NEW h \in Nat
  PROVE  LET v == [u EXCEPT !.height = h]
         IN /\ TreeFits(v) /\ v.height = h /\ v.built = u.built /\ v.open = u.open
            /\ v.hash = u.hash /\ v.flat = u.flat /\ v.cursor = u.cursor
<1> DEFINE v == [u EXCEPT !.height = h]
<1>1. /\ v \in Trees /\ v.height = h /\ v.built = u.built /\ v.open = u.open
      /\ v.hash = u.hash /\ v.flat = u.flat /\ v.cursor = u.cursor
  BY DEF TreeFits, Trees
<1> HIDE DEF v
<1>2. TreeFits(v)
  BY <1>1 DEF TreeFits
<1> QED
  BY <1>1, <1>2 DEF v

\* Entering the view builds the tree of now, unless a hash says it is there.
LEMMA EnterKeeps ==
  ASSUME TreeInv, EnterTree
  PROVE  TreeInv'
<1> DEFINE ui == treeUI'
           b == Rebuilt(t, ui)
           u == [b EXCEPT !.height = treeUI.rows]
<1>1. /\ ui \in TreeUIs /\ ui.shown /\ ui.focus /\ ~ui.moved
      /\ ui.worker = treeUI.worker /\ ui.here = treeUI.here /\ ui.data = treeUI.data
      /\ treeUI.rows \in Nat /\ treeUI.rows # 0
  BY TreeAssumption DEF TreeInv, TreeUIs, EnterTree
<1>2. treeFile' = treeFile
  BY DEF EnterTree
<1>3. \/ t' = u /\ peeked' = StillPeeked(u)
      \/ \E i \in issues(Filtered(treeUI)) \cap Known(u.built) :
           \E path \in {Above(issueMap[u.built][i]) \cup {issueMap[u.built][i]}} :
             /\ t' = SelectByID(rebuildFlatList([u EXCEPT !.open = @ \cup path]), i)
             /\ peeked' = StillPeeked(u) \cup {Last(p) : p \in path \ u.open}
  BY DEF EnterTree
<1> HIDE DEF ui
<1>4. TreeFits(t) /\ HashHolds(t, ui)
  BY <1>1 DEF TreeInv, HashHolds
<1>5. /\ TreeFits(b) /\ HashHolds(b, ui) /\ (b = t \/ b.open = Loaded(b.built)) /\ Current(b, ui)
  BY <1>1, <1>4, RebuiltIs
<1> HIDE DEF b
<1>6. /\ TreeFits(u) /\ u.height = treeUI.rows /\ u.built = b.built /\ u.open = b.open
      /\ u.hash = b.hash
  BY <1>1, <1>5, HeightFits
<1> HIDE DEF u
<1>7. HashHolds(u, ui) /\ Current(u, ui)
  BY <1>5, <1>6 DEF HashHolds, Current
<1>8. SavedIn(u, treeFile, StillPeeked(u))
  <2>1. \/ u.hash = t.hash /\ u.built = t.built /\ u.open = t.open
        \/ u.open = Loaded(u.built)
    BY <1>5, <1>6
  <2> QED
    BY <1>6, <2>1, RebuiltSaved
<1>9. \E v, k : /\ t' = v /\ peeked' = k /\ TreeFits(v) /\ v.height = u.height /\ v.built = u.built
                /\ v.hash = u.hash /\ SavedIn(v, treeFile, k)
  <2>1. CASE t' = u /\ peeked' = StillPeeked(u)
    BY <1>6, <1>8, <2>1
  <2>2. CASE \E i \in issues(Filtered(treeUI)) \cap Known(u.built) :
               \E path \in {Above(issueMap[u.built][i]) \cup {issueMap[u.built][i]}} :
                 /\ t' = SelectByID(rebuildFlatList([u EXCEPT !.open = @ \cup path]), i)
                 /\ peeked' = StillPeeked(u) \cup {Last(p) : p \in path \ u.open}
    <3>1. PICK i \in Known(u.built) :
            \E path \in {Above(issueMap[u.built][i]) \cup {issueMap[u.built][i]}} :
              /\ t' = SelectByID(rebuildFlatList([u EXCEPT !.open = @ \cup path]), i)
              /\ peeked' = StillPeeked(u) \cup {Last(p) : p \in path \ u.open}
      BY <2>2
    <3> DEFINE path == Above(issueMap[u.built][i]) \cup {issueMap[u.built][i]}
               w == [u EXCEPT !.open = @ \cup path]
               x == rebuildFlatList(w)
               v == SelectByID(x, i)
               k == StillPeeked(u) \cup {Last(p) : p \in path \ u.open}
    <3>2. t' = v /\ peeked' = k
      BY <3>1
    <3>3. u.built \in DOMAIN Data /\ u \in Trees
      BY <1>6 DEF TreeFits, Trees
    <3>4. path \in SUBSET AllNodes
      BY <3>3, KnownNode, PathNodes
    <3> HIDE DEF path
    <3>5. /\ w \in Trees /\ w.open = u.open \cup path /\ w.built = u.built /\ w.hash = u.hash
          /\ w.height = u.height
      BY <3>3, <3>4 DEF Trees
    <3> HIDE DEF w
    <3>6. /\ TreeFits(x) /\ x.open = u.open \cup path /\ x.built = u.built /\ x.hash = u.hash
          /\ x.height = u.height
      BY <3>5, RebuiltRows
    <3> HIDE DEF x
    <3>7. /\ TreeFits(v) /\ v.open = u.open \cup path /\ v.built = u.built /\ v.hash = u.hash
          /\ v.height = u.height
      BY <3>6, Selects
    <3> HIDE DEF v
    <3>8. SavedIn(v, treeFile, k)
      <4> SUFFICES ASSUME NEW p \in Nodes(u.built), NodesOf(u.built, Last(p)) = {p},
                          Last(p) \notin k
                   PROVE  (p \in v.open) = (IF Last(p) \in DOMAIN treeFile THEN treeFile[Last(p)]
                                                                          ELSE Len(p) <= 2)
        BY <3>7 DEF SavedIn
      <4>1. Last(p) \notin StillPeeked(u) /\ p \notin path \ u.open
        OBVIOUS
      <4>2. (p \in v.open) = (p \in u.open)
        BY <3>7, <4>1
      <4>3. (p \in u.open) = (IF Last(p) \in DOMAIN treeFile THEN treeFile[Last(p)]
                                                              ELSE Len(p) <= 2)
        BY <1>8, <4>1 DEF SavedIn
      <4> QED
        BY <4>2, <4>3
    <3> QED
      BY <3>2, <3>7, <3>8
  <2> QED
    BY <1>3, <2>1, <2>2
<1>10. /\ TreeFits(t') /\ t'.height # 0 /\ SavedIn(t', treeFile', peeked')
       /\ HashHolds(t', ui) /\ Current(t', ui)
  BY <1>1, <1>2, <1>6, <1>7, <1>9 DEF HashHolds, Current
<1>11. FileFits(treeFile')
  BY <1>2 DEF TreeInv
<1> QED
  BY <1>1, <1>10, <1>11 DEF TreeInv, ui, TreeFits, FileFits, HashHolds, Current, SavedIn

\* A rebuild, with or without a new height, while no key came last.
LEMMA RebuildKeeps ==
  ASSUME TreeInv, treeUI' \in TreeUIs, treeUI'.worker = treeUI.worker, ~treeUI'.moved,
         treeUI'.shown = treeUI.shown, treeUI'.focus => treeUI'.shown,
         treeFile' = treeFile, peeked' = StillPeeked(t'),
         \/ t' = t /\ (treeUI'.shown => treeUI'.missed)
         \/ t' = Rebuilt(t, treeUI')
         \/ treeUI.rows # 0 /\ treeUI.rows \in Nat
            /\ t' = [Rebuilt(t, treeUI') EXCEPT !.height = treeUI.rows]
  PROVE  TreeInv'
<1> DEFINE ui == treeUI'
           b == Rebuilt(t, ui)
<1>1. ui \in TreeUIs /\ ui.worker = treeUI.worker
  OBVIOUS
<1> HIDE DEF ui
<1>2. TreeFits(t) /\ HashHolds(t, ui)
  BY <1>1 DEF TreeInv, HashHolds
<1>3. /\ TreeFits(b) /\ HashHolds(b, ui) /\ b.height = t.height
      /\ (b = t \/ b.open = Loaded(b.built)) /\ (ui.shown => Current(b, ui))
  BY <1>1, <1>2, RebuiltIs
<1>4. \/ t' = t /\ (ui.shown => ui.missed)
      \/ t' = b
      \/ treeUI.rows # 0 /\ treeUI.rows \in Nat /\ t' = [b EXCEPT !.height = treeUI.rows]
  BY DEF ui
<1> HIDE DEF b
<1>5. \E v : /\ t' = v /\ TreeFits(v) /\ HashHolds(v, ui) /\ (v.height = t.height \/ v.height # 0)
             /\ (\/ v.hash = t.hash /\ v.built = t.built /\ v.open = t.open
                 \/ v.open = Loaded(v.built))
             /\ (ui.shown => Current(v, ui) \/ ui.missed)
  <2>1. CASE t' = t /\ (ui.shown => ui.missed)
    BY <1>2, <2>1
  <2>2. CASE t' = b
    BY <1>3, <2>2
  <2>3. CASE treeUI.rows # 0 /\ treeUI.rows \in Nat /\ t' = [b EXCEPT !.height = treeUI.rows]
    <3> DEFINE v == [b EXCEPT !.height = treeUI.rows]
    <3>1. /\ TreeFits(v) /\ v.height = treeUI.rows /\ v.built = b.built /\ v.open = b.open
          /\ v.hash = b.hash
      BY <1>3, <2>3, HeightFits
    <3>2. t' = v
      BY <2>3
    <3> HIDE DEF v
    <3>3. HashHolds(v, ui) /\ (ui.shown => Current(v, ui))
      BY <1>3, <3>1 DEF HashHolds, Current
    <3> QED
      BY <1>3, <2>3, <3>1, <3>2, <3>3
  <2> QED
    BY <1>4, <2>1, <2>2, <2>3
<1>6. SavedIn(t', treeFile', peeked')
  <2>1. PICK v : /\ t' = v /\ TreeFits(v)
                 /\ (\/ v.hash = t.hash /\ v.built = t.built /\ v.open = t.open
                     \/ v.open = Loaded(v.built))
    BY <1>5
  <2>2. SavedIn(v, treeFile, StillPeeked(v))
    BY <2>1, RebuiltSaved
  <2>3. peeked' = StillPeeked(v) /\ treeFile' = treeFile
    BY <2>1
  <2> QED
    BY <2>1, <2>2, <2>3
<1>7. /\ TreeFits(t') /\ HashHolds(t', ui) /\ (t'.height = t.height \/ t'.height # 0)
      /\ (ui.shown => Current(t', ui) \/ ui.missed)
  BY <1>5
<1>8. FileFits(treeFile') /\ (ui.shown => t'.height # 0)
  BY <1>7 DEF TreeInv, ui
<1> QED
  BY <1>6, <1>7, <1>8 DEF TreeInv, ui, TreeFits, FileFits, HashHolds, Current, SavedIn

\* Every step of a session in the tree keeps its invariant.
LEMMA TreeNextKeeps ==
  ASSUME TreeInv, [TreeNext]_treeVars
  PROVE  TreeInv'
<1>1. treeUI \in TreeUIs /\ treeUI.rows \in Nat /\ treeUI.rows # 0
  BY TreeAssumption DEF TreeInv, TreeUIs
<1>2. ASSUME TreeActed, treeUI' \in TreeUIs, treeUI'.worker = treeUI.worker,
             treeUI'.here = treeUI.here, treeUI'.data = treeUI.data, t.height # 0,
             treeUI'.shown = treeUI.shown, treeUI'.missed = treeUI.missed, treeUI.shown
      PROVE  TreeInv'
  <2>1. HashHolds(t', treeUI')
    BY <1>2 DEF TreeInv, TreeActed, HashHolds
  <2>2. treeUI'.shown => Current(t', treeUI') \/ treeUI'.missed
    BY <1>2 DEF TreeInv, TreeActed, Current, Filtered
  <2> QED
    BY <1>2, <2>1, <2>2
       DEF TreeInv, TreeActed, TreeFits, FileFits, HashHolds, Current, SavedIn, Follows
<1>3. CASE treeUI.focus /\ TreeKeys /\ Moved
  <2>1. TreeActed
    BY <1>3, TreeKeysAct
  <2>2. treeUI.shown /\ t.height # 0
    BY <1>3 DEF TreeInv
  <2>3. treeUI' = [treeUI EXCEPT !.moved = TRUE]
    BY <1>3 DEF Moved
  <2>4. /\ treeUI' \in TreeUIs /\ treeUI'.worker = treeUI.worker
        /\ treeUI'.here = treeUI.here /\ treeUI'.data = treeUI.data
        /\ treeUI'.shown = treeUI.shown /\ treeUI'.missed = treeUI.missed
    BY <1>1, <2>3 DEF TreeUIs
  <2> QED
    BY <1>2, <2>1, <2>2, <2>4
<1>4. CASE TreeClick
  <2>1. TreeActed
    BY <1>4, TreeClickActs
  <2>2. treeUI.shown /\ t.height # 0
    BY <1>4 DEF TreeInv, TreeClick
  <2>3. treeUI' = [treeUI EXCEPT !.focus = TRUE, !.moved = TRUE]
    BY <1>4 DEF TreeClick
  <2>4. /\ treeUI' \in TreeUIs /\ treeUI'.worker = treeUI.worker
        /\ treeUI'.here = treeUI.here /\ treeUI'.data = treeUI.data
        /\ treeUI'.shown = treeUI.shown /\ treeUI'.missed = treeUI.missed
    BY <1>1, <2>3 DEF TreeUIs
  <2> QED
    BY <1>2, <2>1, <2>2, <2>4
<1>5. CASE EnterTree
  BY <1>5, EnterKeeps
<1>6. ASSUME UNCHANGED <<t, treeFile, peeked>>, treeUI' \in TreeUIs,
             treeUI'.worker = treeUI.worker, treeUI'.here = treeUI.here,
             treeUI'.data = treeUI.data, treeUI'.missed = treeUI.missed,
             treeUI'.shown => treeUI.shown, treeUI'.focus => treeUI'.shown,
             treeUI'.moved => treeUI.moved
      PROVE  TreeInv'
  BY <1>6
     DEF TreeInv, TreeFits, FileFits, HashHolds, Current, Filtered, SavedIn, Follows
<1>7. CASE LeaveTree
  <2>1. treeUI' = [treeUI EXCEPT !.shown = FALSE, !.focus = FALSE, !.moved = FALSE]
    BY <1>7 DEF LeaveTree
  <2>2. /\ treeUI' \in TreeUIs /\ treeUI'.worker = treeUI.worker
        /\ treeUI'.here = treeUI.here /\ treeUI'.data = treeUI.data
        /\ treeUI'.missed = treeUI.missed /\ ~treeUI'.shown /\ ~treeUI'.focus /\ ~treeUI'.moved
    BY <1>1, <2>1 DEF TreeUIs
  <2> QED
    BY <1>6, <1>7, <2>2 DEF LeaveTree
<1>8. CASE LoseFocus
  <2>1. treeUI' = [treeUI EXCEPT !.focus = FALSE]
    BY <1>8 DEF LoseFocus
  <2>2. /\ treeUI' \in TreeUIs /\ treeUI'.worker = treeUI.worker
        /\ treeUI'.here = treeUI.here /\ treeUI'.data = treeUI.data
        /\ treeUI'.missed = treeUI.missed /\ treeUI'.shown = treeUI.shown
        /\ ~treeUI'.focus /\ treeUI'.moved = treeUI.moved
    BY <1>1, <2>1 DEF TreeUIs
  <2> QED
    BY <1>6, <1>8, <2>2 DEF LoseFocus
<1>9. CASE TreeResize
  <2>1. PICK h \in Heights : treeUI' = [treeUI EXCEPT !.rows = h, !.moved = FALSE]
    BY <1>9 DEF TreeResize
  <2>2. /\ treeUI' \in TreeUIs /\ treeUI'.worker = treeUI.worker
        /\ treeUI'.here = treeUI.here /\ treeUI'.data = treeUI.data
        /\ treeUI'.missed = treeUI.missed /\ treeUI'.shown = treeUI.shown
        /\ treeUI'.focus = treeUI.focus /\ ~treeUI'.moved
    BY <1>1, <2>1 DEF TreeUIs
  <2>3. treeUI.focus => treeUI.shown
    BY DEF TreeInv
  <2> QED
    BY <1>6, <1>9, <2>2, <2>3 DEF TreeResize
<1>10. CASE Refilter
  <2>1. PICK h \in BOOLEAN, f \in BOOLEAN :
          treeUI' = [treeUI EXCEPT !.here = h, !.focus = @ /\ f, !.moved = FALSE,
                                   !.missed = @ /\ ~treeUI.shown]
    BY <1>10 DEF Refilter
  <2> DEFINE g == treeUI.focus /\ f
             e == treeUI.missed /\ ~treeUI.shown
  <2>5. treeUI' = [treeUI EXCEPT !.here = h, !.focus = g, !.moved = FALSE, !.missed = e]
    BY <2>1
  <2>6. g \in BOOLEAN /\ e \in BOOLEAN /\ (g => treeUI.focus)
    OBVIOUS
  <2> HIDE DEF g, e
  <2>7. treeUI' \in TreeUIs
    <3> DEFINE x == [treeUI EXCEPT !.here = h, !.focus = g]
    <3>1. x \in TreeUIs
      BY <1>1, <2>6 DEF TreeUIs
    <3>2. treeUI' = [x EXCEPT !.moved = FALSE, !.missed = e]
      BY <1>1, <2>5 DEF TreeUIs
    <3> HIDE DEF x
    <3> QED
      BY <2>6, <3>1, <3>2 DEF TreeUIs
  <2>8. treeUI'.focus = g /\ treeUI'.moved = FALSE
    BY <1>1, <2>5 DEF TreeUIs
  <2>9. treeUI'.worker = treeUI.worker /\ treeUI'.shown = treeUI.shown
    BY <1>1, <2>5 DEF TreeUIs
  <2>2. /\ treeUI' \in TreeUIs /\ treeUI'.worker = treeUI.worker /\ ~treeUI'.moved
        /\ treeUI'.shown = treeUI.shown /\ (treeUI'.focus => treeUI.focus)
    BY <2>6, <2>7, <2>8, <2>9
  <2>3. treeUI.focus => treeUI.shown
    BY DEF TreeInv
  <2>4. t' = Rebuilt(t, treeUI') /\ peeked' = StillPeeked(t') /\ treeFile' = treeFile
    BY <1>10 DEF Refilter
  <2> QED
    BY <2>2, <2>3, <2>4, RebuildKeeps
<1>11. CASE TreeReload
  <2>1. PICK d \in Loads :
          treeUI' = [treeUI EXCEPT !.data = d, !.left = @ - 1, !.moved = FALSE,
                                   !.missed = treeUI.worker /\ treeUI.shown /\ ~treeUI.focus]
    BY <1>11 DEF TreeReload
  <2>2. treeUI.left \in Nat /\ treeUI.left > 0
    BY <1>1, <1>11 DEF TreeReload, TreeUIs
  <2>3. /\ treeUI' \in TreeUIs /\ treeUI'.worker = treeUI.worker /\ ~treeUI'.moved
        /\ treeUI'.shown = treeUI.shown /\ treeUI'.focus = treeUI.focus
        /\ treeUI'.missed = (treeUI.worker /\ treeUI.shown /\ ~treeUI.focus)
    <3> DEFINE m == treeUI.worker /\ treeUI.shown /\ ~treeUI.focus
    <3>1. m \in BOOLEAN /\ treeUI.left - 1 \in Nat
      BY <2>2
    <3>2. treeUI' = [treeUI EXCEPT !.data = d, !.left = @ - 1, !.moved = FALSE, !.missed = m]
      BY <2>1
    <3> HIDE DEF m
    <3>3. /\ treeUI' \in TreeUIs /\ treeUI'.worker = treeUI.worker /\ ~treeUI'.moved
          /\ treeUI'.shown = treeUI.shown /\ treeUI'.focus = treeUI.focus /\ treeUI'.missed = m
      BY <1>1, <3>1, <3>2 DEF TreeUIs
    <3> QED
      BY <3>3 DEF m
  <2>4. treeUI.focus => treeUI.shown
    BY DEF TreeInv
  <2>5. peeked' = StillPeeked(t') /\ treeFile' = treeFile
    BY <1>11 DEF TreeReload
  <2>6. t' = IF ~treeUI.worker THEN Rebuilt(t, treeUI')
             ELSE IF treeUI.focus THEN [Rebuilt(t, treeUI') EXCEPT !.height = treeUI.rows]
             ELSE t
    BY <1>11 DEF TreeReload
  <2>7. \/ t' = t /\ (treeUI'.shown => treeUI'.missed)
        \/ t' = Rebuilt(t, treeUI')
        \/ treeUI.rows # 0 /\ treeUI.rows \in Nat
           /\ t' = [Rebuilt(t, treeUI') EXCEPT !.height = treeUI.rows]
    BY <1>1, <2>3, <2>6
  <2> QED
    BY <2>3, <2>4, <2>5, <2>7, RebuildKeeps
<1>12. CASE UNCHANGED treeVars
  BY <1>12
     DEF treeVars, TreeInv, TreeFits, FileFits, HashHolds, Current, Filtered, SavedIn, Follows
<1> QED
  BY <1>3, <1>4, <1>5, <1>7, <1>8, <1>9, <1>10, <1>11, <1>12 DEF TreeNext

\* A snapshot in the view of all projects keeps the selection.
LEMMA TreeReloads ==
  ASSUME TreeInv, TreeNext, treeUI'.data # treeUI.data, treeUI.worker, ~treeUI.here, HasRows(t),
         \E k \in DOMAIN t'.flat : Last(t'.flat[k]) = Last(SelectedNode(t))
  PROVE  Last(SelectedNode(t')) = Last(SelectedNode(t))
<1>1. treeUI \in TreeUIs /\ TreeFits(t)
  BY DEF TreeInv
<1>2. TreeReload
  BY <1>1 DEF TreeNext, Moved, TreeClick, EnterTree, LeaveTree, LoseFocus, TreeResize, Refilter,
              TreeUIs
<1>3. PICK d \in Loads :
        treeUI' = [treeUI EXCEPT !.data = d, !.left = @ - 1, !.moved = FALSE,
                                 !.missed = treeUI.worker /\ treeUI.shown /\ ~treeUI.focus]
  BY <1>2 DEF TreeReload
<1>4. treeUI'.shown = treeUI.shown /\ treeUI'.here = treeUI.here /\ treeUI'.data = d
      /\ treeUI'.worker = treeUI.worker
  BY <1>1, <1>3 DEF TreeUIs
<1>5. CASE ~treeUI.focus
  BY <1>2, <1>5 DEF TreeReload
<1>6. CASE treeUI.focus
  <2> DEFINE v == BuildFromSnapshot(t, d)
  <2>1. Rebuilt(t, treeUI') = v
    BY <1>4, <1>6 DEF Rebuilt, TreeInv
  <2>2. t' = [v EXCEPT !.height = treeUI.rows]
    BY <1>2, <1>6, <2>1 DEF TreeReload
  <2>3. d \in DOMAIN Data
    BY DataFacts
  <2>4. /\ TreeFits(v)
        /\ (\E k \in DOMAIN v.flat : Last(v.flat[k]) = Last(SelectedNode(t)))
             => Last(SelectedNode(v)) = Last(SelectedNode(t))
    BY <1>1, <2>3, BuildFromSnapshotIs
  <2> HIDE DEF v
  <2>5. t'.flat = v.flat /\ t'.cursor = v.cursor
    BY <2>2, <2>4 DEF TreeFits, Trees
  <2>6. SelectedNode(t') = SelectedNode(v)
    BY <2>5 DEF SelectedNode
  <2> QED
    BY <2>4, <2>5, <2>6
<1> QED
  BY <1>5, <1>6

-----------------------------------------------------------------------------
(* The history: what its lists are made of.                                *)

Entries == [bead : Nat, commits : Seq(Commits)]
GitRows == [sha : Nat, beads : Seq(Nat)]
Histories ==
  [report : {Nil} \cup DOMAIN Reports, list : Seq(Entries), bead : Nat, commit : Nat,
   focus : {"list", "middle", "detail"}, git : BOOLEAN, commits : Seq(GitRows),
   found : Seq(GitRows), gitCommit : Nat, related : Nat, conf : DOMAIN Thresholds,
   file : {None} \cup Files, tree : BOOLEAN, treeFocus : BOOLEAN, row : Nat, open : SUBSET Nat,
   searching : BOOLEAN, query : Queries \cup {Everything}, panes : Panes]

\* What the assumption says of one report.
LEMMA ReportFacts ==
  ASSUME NEW r \in DOMAIN Reports
  PROVE  /\ r \in Nat /\ r # Nil /\ Beads(r) \in SUBSET Nat /\ IsFiniteSet(Beads(r))
         /\ \A b \in Beads(r) : /\ Reports[r][b].commits \in Seq(Commits)
                                /\ Reports[r][b].events \in Nat
<1>1. r \in Nat \ {Nil} /\ DOMAIN Reports[r] \in SUBSET Nat /\ IsFiniteSet(DOMAIN Reports[r])
  BY HistoryAssumption
<1>2. \A b \in DOMAIN Reports[r] : Reports[r][b] \in [commits : Seq(Commits), events : Nat]
  BY HistoryAssumption
<1> QED
  BY <1>1, <1>2 DEF Beads

\* The commits that pass the filters are a list of commits.
LEMMA KeptIs ==
  ASSUME NEW h, h.report \in DOMAIN Reports, NEW b \in Beads(h.report)
  PROVE  Kept(h, b) \in Seq(Commits) /\ Len(Kept(h, b)) \in Nat
<1> DEFINE all == Reports[h.report][b].commits
           K == {k \in DOMAIN all : Passes(all[k], h)}
<1>1. all \in Seq(Commits)
  BY ReportFacts
<1>2. K \in SUBSET (DOMAIN all) /\ Kept(h, b) = Thinned(all, K)
  BY DEF Kept
<1> HIDE DEF all, K
<1> QED
  BY <1>1, <1>2, ThinnedLists

\* The list of the filters is a list of beads of the report.
LEMMA SortedByIs ==
  ASSUME NEW h, h.report \in DOMAIN Reports
  PROVE  SortedBy(h) \in Seq([bead : Beads(h.report), commits : Seq(Commits)])
<1> DEFINE S == Listed(h)
           R == {pair \in S \X S : Ahead(h, pair[1], pair[2])}
           beads == InOrder(S, R)
<1>1. Beads(h.report) \in SUBSET Nat /\ IsFiniteSet(Beads(h.report))
  BY ReportFacts
<1>2. S \in SUBSET Beads(h.report) /\ IsFiniteSet(S)
  <2>1. S \in SUBSET Beads(h.report)
    BY DEF Listed
  <2> QED
    BY <1>1, <2>1, FS_Subset
<1>3. \A a, b \in S : <<a, b>> \in R <=> Ahead(h, a, b)
  OBVIOUS
<1>4. \A b \in S : /\ b \in Nat /\ Kept(h, b) \in Seq(Commits) /\ Len(Kept(h, b)) \in Nat
                   /\ Reports[h.report][b].events \in Nat
  BY <1>1, <1>2, KeptIs, ReportFacts
<1>5. SortedBy(h) = [k \in DOMAIN beads |-> [bead |-> beads[k], commits |-> Kept(h, beads[k])]]
  BY DEF SortedBy
<1> HIDE DEF S, R
<1>6. TotalOrder(S, R)
  <2> DEFINE m(b) == Len(Kept(h, b))
             e(b) == Reports[h.report][b].events
  <2>1. \A a, b \in S : Ahead(h, a, b) <=> m(a) > m(b) \/ (m(a) = m(b) /\ (e(a) > e(b) \/ (e(a) = e(b) /\ a < b)))
    BY DEF Ahead
  <2>2. \A b \in S : b \in Nat /\ m(b) \in Nat /\ e(b) \in Nat
    BY <1>4
  <2> HIDE DEF m, e
  <2>3. \A a \in S : ~Ahead(h, a, a)
    BY <2>1, <2>2
  <2>4. ASSUME NEW a \in S, NEW b \in S, NEW c \in S, Ahead(h, a, b), Ahead(h, b, c)
        PROVE  Ahead(h, a, c)
    BY <2>1, <2>2, <2>4
  <2>5. ASSUME NEW a \in S, NEW b \in S
        PROVE  a = b \/ Ahead(h, a, b) \/ Ahead(h, b, a)
    BY <2>1, <2>2
  <2> QED
    BY <1>3, <2>3, <2>4, <2>5 DEF TotalOrder
<1>7. beads \in Seq(S)
  BY <1>2, <1>6, Ranked
<1> HIDE DEF beads
<1>8. ASSUME NEW k \in DOMAIN beads
      PROVE  [bead |-> beads[k], commits |-> Kept(h, beads[k])]
               \in [bead : Beads(h.report), commits : Seq(Commits)]
  BY <1>2, <1>4, <1>7
<1> DEFINE T == [bead : Beads(h.report), commits : Seq(Commits)]
<1>9. DOMAIN beads = 1..Len(beads) /\ Len(beads) \in Nat
  BY <1>7
<1>10. SortedBy(h) \in [1..Len(beads) -> T]
  <2>1. \A k \in 1..Len(beads) : [bead |-> beads[k], commits |-> Kept(h, beads[k])] \in T
    BY <1>8, <1>9
  <2> HIDE DEF T
  <2> QED
    BY <1>5, <1>9, <2>1
<1> HIDE DEF T
<1>11. SortedBy(h) \in Seq(T)
  BY <1>9, <1>10
<1> QED
  BY <1>11 DEF T

\* The lists of the table are sorted lists.
LEMMA SortedIs ==
  ASSUME NEW h, h.report \in DOMAIN Reports, h.conf \in DOMAIN Thresholds,
         h.file \in {None} \cup Files
  PROVE  /\ Sorted(h) \in Seq([bead : Beads(h.report), commits : Seq(Commits)])
         /\ Sorted(h) \in Seq(Entries)
<1> DEFINE r == h.report
           g == [report |-> r, conf |-> h.conf, file |-> h.file]
<1>1. Sorted(h) = SortedBy(g)
  <2>1. Lists = [q \in DOMAIN Reports |->
          Table([k \in DOMAIN Thresholds |->
            Table([f \in {None} \cup Files |->
              Table(SortedBy([report |-> q, conf |-> k, file |-> f]))])])]
    BY TableIs DEF Lists
  <2>2. Lists[r] = [k \in DOMAIN Thresholds |->
            Table([f \in {None} \cup Files |->
              Table(SortedBy([report |-> r, conf |-> k, file |-> f]))])]
    BY <2>1, TableIs
  <2>3. Lists[r][h.conf] = [f \in {None} \cup Files |->
              Table(SortedBy([report |-> r, conf |-> h.conf, file |-> f]))]
    BY <2>2, TableIs
  <2>4. Lists[r][h.conf][h.file] = SortedBy(g)
    BY <2>3, TableIs
  <2> QED
    BY <2>4 DEF Sorted
<1>2. g.report = r
  OBVIOUS
<1> HIDE DEF g
<1>3. SortedBy(g) \in Seq([bead : Beads(r), commits : Seq(Commits)])
  BY <1>2, SortedByIs
<1>4. [bead : Beads(r), commits : Seq(Commits)] \subseteq Entries
  BY ReportFacts DEF Entries
<1> DEFINE T == [bead : Beads(r), commits : Seq(Commits)]
<1>5. SortedBy(g) \in Seq(T) /\ T \subseteq Entries
  BY <1>3, <1>4
<1> HIDE DEF T, r
<1>6. SortedBy(g) \in Seq(Entries)
  BY <1>5
<1> QED
  BY <1>1, <1>5, <1>6 DEF T, r

\* The commits of a report are as many in every order of its beads.
Total(r) == IF r = Nil THEN 0 ELSE Cardinality(Shas(r))

\* A report has finitely many commits.
LEMMA ShasFacts ==
  ASSUME NEW r \in DOMAIN Reports
  PROVE  Shas(r) \in SUBSET Nat /\ IsFiniteSet(Shas(r))
<1> DEFINE of(b) == {c.sha : c \in Range(Reports[r][b].commits)}
           sets == {of(b) : b \in Beads(r)}
<1>1. IsFiniteSet(Beads(r)) /\ \A b \in Beads(r) : Reports[r][b].commits \in Seq(Commits)
  BY ReportFacts
<1>2. ASSUME NEW b \in Beads(r)
      PROVE  of(b) \in SUBSET Nat /\ IsFiniteSet(of(b))
  <2> DEFINE s == Reports[r][b].commits
             f == [k \in 1..Len(s) |-> s[k].sha]
             n == Len(s)
  <2>1. s \in Seq(Commits)
    BY <1>1
  <2>2. of(b) = {s[k].sha : k \in DOMAIN s}
    BY DEF Range
  <2> HIDE DEF of, s
  <2>3. n \in Nat /\ DOMAIN s = 1..n /\ \A k \in 1..n : s[k].sha \in Nat
    <3>1. n \in Nat /\ DOMAIN s = 1..n /\ \A k \in 1..n : s[k] \in Commits
      BY <2>1
    <3> QED
      BY <3>1 DEF Commits
  <2>4. IsFiniteSet(1..n)
    <3> HIDE DEF n
    <3> QED
      BY <2>3, FS_Interval
  <2>5. of(b) = {s[k].sha : k \in 1..n}
    BY <2>2, <2>3
  <2> HIDE DEF n
  <2>6. IsFiniteSet({f[k] : k \in 1..n})
    <3>1. f \in Surjection(1..n, {f[k] : k \in 1..n})
      BY <2>3 DEF Surjection, n
    <3> QED
      BY <2>4, <3>1, FS_Surjection
  <2>7. of(b) = {f[k] : k \in 1..n}
    BY <2>5 DEF n
  <2> QED
    BY <2>3, <2>5, <2>6, <2>7
<1>3. Shas(r) = UNION sets
  BY DEF Shas
<1> HIDE DEF of
<1>4. IsFiniteSet(sets)
  <2> DEFINE f == [b \in Beads(r) |-> of(b)]
  <2>1. f \in Surjection(Beads(r), sets)
    BY DEF Surjection
  <2> QED
    BY <1>1, <2>1, FS_Surjection
<1>5. \A T \in sets : IsFiniteSet(T) /\ T \in SUBSET Nat
  BY <1>2
<1> HIDE DEF sets
<1>6. IsFiniteSet(UNION sets)
  BY <1>4, <1>5, FS_UNION
<1> QED
  BY <1>3, <1>5, <1>6

\* Whatever the order of the beads, the commit list has a row for each commit of the report.
LEMMA CommitListsAre ==
  ASSUME NEW r \in {Nil} \cup DOMAIN Reports
  PROVE  /\ \A list \in CommitLists[r] : list \in Seq(GitRows) /\ Len(list) = Total(r)
         /\ Total(r) \in Nat
<1>1. CommitLists =
        [q \in {Nil} \cup DOMAIN Reports |->
           IF q = Nil THEN {<<>>}
           ELSE {[k \in DOMAIN ByRecency(q) |->
                    [sha |-> ByRecency(q)[k],
                     beads |-> Thinned(order, {j \in DOMAIN order : order[j] \in BeadsOf(q, ByRecency(q)[k])})]] :
                   order \in Orders(q)}]
  BY TableIs DEF CommitLists
<1>2. CASE r = Nil
  <2>1. CommitLists[r] = {<<>>}
    BY <1>1, <1>2
  <2>2. <<>> \in Seq(GitRows) /\ Len(<<>>) = 0
    OBVIOUS
  <2> QED
    BY <1>2, <2>1, <2>2 DEF Total
<1>3. CASE r # Nil
  <2> DEFINE at == ByRecency(r)
             R == {pair \in Shas(r) \X Shas(r) : pair[1] > pair[2]}
             n == Cardinality(Shas(r))
  <2>1. r \in DOMAIN Reports
    BY <1>3
  <2>2. Shas(r) \in SUBSET Nat /\ IsFiniteSet(Shas(r))
    BY <2>1, ShasFacts
  <2>3. TotalOrder(Shas(r), R)
    <3>1. \A x, y \in Shas(r) : <<x, y>> \in R <=> x > y
      OBVIOUS
    <3> HIDE DEF R
    <3> QED
      BY <2>2, <3>1 DEF TotalOrder
  <2>4. at = InOrder(Shas(r), R)
    BY DEF ByRecency
  <2> HIDE DEF R
  <2>5. at \in Seq(Shas(r)) /\ Len(at) = n /\ n \in Nat
    BY <2>2, <2>3, <2>4, Ranked
  <2> HIDE DEF at, n
  <2>6. DOMAIN at = 1..n /\ \A k \in 1..n : at[k] \in Nat
    BY <2>2, <2>5
  <2> SUFFICES ASSUME NEW list \in CommitLists[r]
               PROVE  list \in Seq(GitRows) /\ Len(list) = n
    BY <1>3, <2>5 DEF Total, n
  <2> DEFINE kept(order, k) == {j \in DOMAIN order : order[j] \in BeadsOf(r, at[k])}
  <2>7. PICK order \in Orders(r) :
          list = [k \in DOMAIN at |-> [sha |-> at[k], beads |-> Thinned(order, kept(order, k))]]
    BY <1>1, <1>3 DEF at
  <2>8. order \in Seq(Nat)
    <3> DEFINE m == Cardinality(Beads(r))
    <3>1. Beads(r) \in SUBSET Nat /\ m \in Nat
      BY <2>1, ReportFacts, FS_CardinalityType
    <3>2. order \in [1..m -> Beads(r)]
      BY DEF Orders
    <3> HIDE DEF m
    <3> QED
      BY <3>1, <3>2
  <2>9. \A k \in DOMAIN at : Thinned(order, kept(order, k)) \in Seq(Nat)
    <3> TAKE k \in DOMAIN at
    <3>1. kept(order, k) \in SUBSET (DOMAIN order)
      OBVIOUS
    <3> HIDE DEF kept
    <3> QED
      BY <2>8, <3>1, ThinnedLists
  <2> HIDE DEF kept
  <2>10. \A k \in 1..n : [sha |-> at[k], beads |-> Thinned(order, kept(order, k))] \in GitRows
    BY <2>6, <2>9 DEF GitRows
  <2>11. list = [k \in 1..n |-> [sha |-> at[k], beads |-> Thinned(order, kept(order, k))]]
    BY <2>6, <2>7
  <2>12. list \in [1..n -> GitRows]
    <3> HIDE DEF GitRows
    <3> QED
      BY <2>10, <2>11
  <2> QED
    <3> HIDE DEF GitRows
    <3> QED
      BY <2>5, <2>12
<1> QED
  BY <1>2, <1>3

-----------------------------------------------------------------------------
(* What the operations on a history keep.                                  *)

\* Outside a search the list is that of the report and the filters, with the cursors on it.
ListFits(h) ==
  h.report # Nil =>
    /\ h.list = Sorted(h)
    /\ h.bead < Len(h.list) \/ h.bead = 0
    /\ h.commit < CommitsOf(h) \/ h.commit = 0

\* In git mode all commits of the report are there, and the cursor is on one that is listed.
GitFits(h) ==
  /\ Len(h.found) <= Len(h.commits) \/ h.found = <<>>
  /\ h.git => Len(h.commits) = Total(h.report) /\ (HasGitCommit(h) \/ h.gitCommit = 0)

HistoryFits(h) ==
  /\ h \in Histories /\ GitFits(h)
  /\ h.found # <<>> => h.git /\ h.searching
  /\ h.query # Everything => h.searching
  /\ ~h.searching => ListFits(h)

\* All of v is as in h but the list and its cursors.
OnlyList(v, h) ==
  /\ v.report = h.report /\ v.conf = h.conf /\ v.file = h.file /\ v.git = h.git
  /\ v.commits = h.commits /\ v.found = h.found /\ v.gitCommit = h.gitCommit
  /\ v.searching = h.searching /\ v.query = h.query

\* The lengths of all lists of the history are numbers.
LEMMA CommitsOfIs ==
  ASSUME NEW h \in Histories
  PROVE  /\ CommitsOf(h) \in Nat /\ Len(h.list) \in Nat /\ RelatedOf(h) \in Nat
         /\ Len(h.commits) \in Nat /\ Len(h.found) \in Nat
         /\ Len(GetFilteredCommitList(h)) \in Nat
<1> DEFINE n == Len(h.list)
           g == GetFilteredCommitList(h)
           m == Len(g)
<1>1. h.list \in Seq(Entries) /\ h.bead \in Nat /\ h.gitCommit \in Nat /\ g \in Seq(GitRows)
      /\ h.commits \in Seq(GitRows) /\ h.found \in Seq(GitRows)
  BY DEF Histories, GetFilteredCommitList
<1>2. n \in Nat /\ m \in Nat /\ Len(h.commits) \in Nat /\ Len(h.found) \in Nat
  <2> HIDE DEF g
  <2> QED
    BY <1>1
<1>3. ASSUME h.bead < n
      PROVE  Len(h.list[h.bead + 1].commits) \in Nat
  <2>1. h.list[h.bead + 1] \in Entries
    BY <1>1, <1>2, <1>3
  <2>2. h.list[h.bead + 1].commits \in Seq(Commits)
    BY <2>1 DEF Entries
  <2> QED
    BY <2>2
<1>4. ASSUME h.gitCommit < m
      PROVE  Len(SelectedGitCommit(h).beads) \in Nat
  <2> HIDE DEF g
  <2>1. g[h.gitCommit + 1] \in GitRows
    BY <1>1, <1>2, <1>4
  <2>2. g[h.gitCommit + 1].beads \in Seq(Nat)
    BY <2>1 DEF GitRows
  <2> QED
    BY <2>2 DEF SelectedGitCommit, g
<1> QED
  BY <1>2, <1>3, <1>4 DEF CommitsOf, RelatedOf, HasGitCommit

\* Another list: the cursors are on it, and on the bead that is to be kept if it is listed.
LEMMA WithListIs ==
  ASSUME NEW h \in Histories, NEW list \in Seq(Entries), NEW keep
  PROVE  LET v == WithList(h, list, keep)
         IN /\ v \in Histories /\ OnlyList(v, h) /\ v.list = list
            /\ v.bead < Len(list) \/ v.bead = 0
            /\ v.commit < CommitsOf(v) \/ v.commit = 0
            /\ IndexOf(list, keep) # {} => SelectedBeadID(v) = keep
<1> DEFINE at == IndexOf(list, keep)
           k == Min(at)
           n == Len(list[k + 1].commits)
           row == IF h.commit < n THEN h.commit ELSE IF n > 0 THEN n - 1 ELSE 0
           v == WithList(h, list, keep)
           m == Len(list)
<1>1. m \in Nat /\ h.bead \in Nat /\ h.commit \in Nat
  BY DEF Histories
<1>2. v = IF at = {} THEN [h EXCEPT !.list = list, !.bead = 0, !.commit = 0]
          ELSE [h EXCEPT !.list = list, !.bead = k, !.commit = row]
  BY DEF WithList, Histories
<1> HIDE DEF v
<1>3. CASE at = {}
  <2>1. v = [h EXCEPT !.list = list, !.bead = 0, !.commit = 0]
    BY <1>2, <1>3
  <2> HIDE DEF at, m
  <2>2. v \in Histories /\ OnlyList(v, h) /\ v.list = list /\ v.bead = 0 /\ v.commit = 0
    BY <2>1 DEF Histories, OnlyList
  <2> QED
    BY <1>3, <2>2 DEF at, v
<1>4. CASE at # {}
  <2>1. k \in at
    <3>1. at \in SUBSET Nat
      BY DEF IndexOf
    <3> HIDE DEF at
    <3> QED
      BY <1>4, <3>1, LeastNatural
  <2>2. k \in Nat /\ k < m /\ list[k + 1].bead = keep
    <3> HIDE DEF k, m
    <3>1. k \in 0..(m - 1) /\ list[k + 1].bead = keep
      BY <2>1 DEF IndexOf, m
    <3> QED
      BY <1>1, <3>1
  <2> HIDE DEF at, k
  <2>3. list[k + 1] \in Entries
    BY <2>2
  <2>4. n \in Nat
    <3>1. list[k + 1].commits \in Seq(Commits)
      BY <2>3 DEF Entries
    <3> QED
      BY <3>1
  <2> HIDE DEF n, m
  <2>5. row \in Nat /\ (row < n \/ row = 0)
    BY <1>1, <2>4
  <2>6. v = [h EXCEPT !.list = list, !.bead = k, !.commit = row]
    BY <1>2, <1>4
  <2> HIDE DEF row
  <2>7. v \in Histories /\ OnlyList(v, h) /\ v.list = list /\ v.bead = k /\ v.commit = row
    BY <2>2, <2>5, <2>6 DEF Histories, OnlyList
  <2>8. CommitsOf(v) = n /\ SelectedBeadID(v) = keep
    BY <2>2, <2>7 DEF CommitsOf, SelectedBeadID, n, m
  <2> QED
    BY <2>2, <2>5, <2>7, <2>8 DEF v, m, at
<1> QED
  BY <1>3, <1>4

\* rebuildFilteredList makes the list of the report and the filters.
LEMMA RebuiltList ==
  ASSUME NEW h \in Histories
  PROVE  LET v == rebuildFilteredList(h)
         IN /\ v \in Histories /\ OnlyList(v, h) /\ ListFits(v)
            /\ IndexOf(v.list, SelectedBeadID(h)) # {} => SelectedBeadID(v) = SelectedBeadID(h)
<1> DEFINE v == rebuildFilteredList(h)
<1>1. CASE h.report = Nil
  <2>1. v = [h EXCEPT !.list = <<>>]
    BY <1>1 DEF rebuildFilteredList
  <2> HIDE DEF v
  <2>2. v \in Histories /\ OnlyList(v, h) /\ v.list = <<>>
    <3>1. <<>> \in Seq(Entries)
      OBVIOUS
    <3> QED
      BY <2>1, <3>1 DEF Histories, OnlyList
  <2>3. \A b : IndexOf(v.list, b) = {}
    BY <2>2 DEF IndexOf
  <2> QED
    BY <1>1, <2>2, <2>3 DEF v, ListFits, OnlyList
<1>2. CASE h.report # Nil
  <2> DEFINE list == Sorted(h)
             keep == SelectedBeadID(h)
  <2>1. list \in Seq(Entries)
    BY <1>2, SortedIs DEF Histories
  <2>2. v = WithList(h, list, keep)
    BY <1>2 DEF rebuildFilteredList
  <2> HIDE DEF list, keep, v
  <2>3. /\ v \in Histories /\ OnlyList(v, h) /\ v.list = list
        /\ v.bead < Len(list) \/ v.bead = 0
        /\ v.commit < CommitsOf(v) \/ v.commit = 0
        /\ IndexOf(list, keep) # {} => SelectedBeadID(v) = keep
    BY <2>1, <2>2, WithListIs
  <2>4. Sorted(v) = list
    BY <2>3 DEF Sorted, OnlyList, list
  <2>5. ListFits(v)
    BY <2>3, <2>4 DEF ListFits
  <2> QED
    BY <2>3, <2>5 DEF v, keep
<1> QED
  BY <1>1, <1>2

\* A search in git mode lists commits that match, or all if none does.
LEMMA FilteredCommits ==
  ASSUME NEW h \in Histories, h.git, h.searching, Len(h.commits) = Total(h.report),
         h.gitCommit < Len(h.commits) \/ h.gitCommit = 0, NEW q \in Queries \cup {Everything}
  PROVE  LET v == filterCommitList(h, q)
         IN /\ v \in Histories /\ GitFits(v)
            /\ v.report = h.report /\ v.conf = h.conf /\ v.file = h.file
            /\ v.git /\ v.searching
<1> DEFINE K == {k \in DOMAIN h.commits : commitMatchesQuery(h.commits[k], q)}
           matches == Thinned(h.commits, K)
           fits == h.gitCommit < Len(matches)
           v == filterCommitList(h, q)
<1>1. h.commits \in Seq(GitRows) /\ h.gitCommit \in Nat /\ h.related \in Nat
      /\ Len(h.commits) \in Nat
  BY DEF Histories
<1>2. matches \in Seq(GitRows) /\ Len(matches) \in Nat /\ Len(matches) <= Len(h.commits)
  <2>1. K \in SUBSET (DOMAIN h.commits)
    OBVIOUS
  <2> HIDE DEF K
  <2> QED
    BY <1>1, <2>1, ThinnedLists
<1> DEFINE c == IF h.commits = <<>> \/ fits THEN h.gitCommit ELSE 0
           r == IF h.commits = <<>> \/ fits THEN h.related ELSE 0
<1>3. v = [h EXCEPT !.found = matches, !.gitCommit = c, !.related = r]
  BY DEF filterCommitList, Histories
<1> HIDE DEF v, matches, K
<1>4. c \in Nat /\ r \in Nat
  BY <1>1
<1>5. c < Len(matches) \/ c = 0
  <2>1. h.commits = <<>> => Len(h.commits) = 0
    OBVIOUS
  <2> QED
    BY <1>1, <2>1
<1>6. matches = <<>> => Len(matches) = 0
  OBVIOUS
<1> HIDE DEF c, r
<1>7. /\ v \in Histories /\ v.found = matches /\ v.gitCommit = c /\ v.commits = h.commits
      /\ v.report = h.report /\ v.conf = h.conf /\ v.file = h.file /\ v.git /\ v.searching
  BY <1>2, <1>3, <1>4 DEF Histories
<1>8. HasGitCommit(v) \/ v.gitCommit = 0
  BY <1>2, <1>4, <1>5, <1>6, <1>7 DEF HasGitCommit, GetFilteredCommitList
<1>9. GitFits(v)
  BY <1>2, <1>7, <1>8 DEF GitFits
<1> QED
  BY <1>7, <1>9 DEF v

\* A search in bead mode lists beads that match, with all their commits.
LEMMA FilteredBeads ==
  ASSUME NEW h \in Histories, ListFits(h), ~h.git, h.found = <<>>,
         NEW q \in Queries \cup {Everything}
  PROVE  LET v == filterBeadList(h, q)
         IN /\ v \in Histories /\ v.found = <<>> /\ ~v.git
            /\ v.report = h.report /\ v.conf = h.conf /\ v.file = h.file
            /\ v.searching = h.searching
<1> DEFINE v == filterBeadList(h, q)
<1>1. CASE h.report = Nil
  BY <1>1 DEF filterBeadList
<1>2. CASE h.report # Nil
  <2> DEFINE T == [bead : Beads(h.report), commits : Seq(Commits)]
             K == {k \in DOMAIN h.list : beadMatchesQuery(h.list[k].bead, h.report, q)}
             hits == Thinned(h.list, K)
             list == [k \in DOMAIN hits |-> [hits[k] EXCEPT !.commits = Reports[h.report][hits[k].bead].commits]]
             fits == h.bead < Len(list)
             b == IF fits THEN h.bead ELSE 0
             c == IF fits THEN h.commit ELSE 0
  <2>1. h.report \in DOMAIN Reports
    BY <1>2 DEF Histories
  <2>2. h.list \in Seq(T)
    BY <1>2, <2>1, SortedIs DEF ListFits, Histories
  <2>3. hits \in Seq(T)
    <3>1. K \in SUBSET (DOMAIN h.list)
      OBVIOUS
    <3> HIDE DEF T, K
    <3> QED
      BY <2>2, <3>1, ThinnedLists
  <2>4. v = [h EXCEPT !.list = list, !.bead = b, !.commit = c]
    BY <1>2 DEF filterBeadList, Histories
  <2> HIDE DEF hits, v
  <2>5. list \in Seq(Entries)
    <3> DEFINE n == Len(hits)
               all(k) == Reports[h.report][hits[k].bead].commits
    <3> HIDE DEF T
    <3>1. n \in Nat /\ DOMAIN hits = 1..n /\ \A k \in 1..n : hits[k] \in T
      BY <2>3
    <3> HIDE DEF n
    <3>2. ASSUME NEW k \in 1..n PROVE [hits[k] EXCEPT !.commits = all(k)] \in Entries
      <4>1. hits[k] \in [bead : Beads(h.report), commits : Seq(Commits)]
        BY <3>1 DEF T
      <4>2. hits[k].bead \in Beads(h.report)
        BY <4>1
      <4>3. all(k) \in Seq(Commits) /\ Beads(h.report) \in SUBSET Nat
        BY <2>1, <4>2, ReportFacts
      <4> HIDE DEF all
      <4> QED
        BY <4>1, <4>3 DEF Entries
    <3> HIDE DEF all
    <3>3. list = [k \in 1..n |-> [hits[k] EXCEPT !.commits = all(k)]]
      BY <3>1 DEF all
    <3> HIDE DEF list, Entries
    <3>4. list \in [1..n -> Entries]
      BY <3>2, <3>3
    <3> QED
      BY <3>1, <3>4
  <2> HIDE DEF list
  <2>6. b \in Nat /\ c \in Nat
    BY DEF Histories
  <2> HIDE DEF b, c
  <2>7. /\ v \in Histories /\ v.found = h.found /\ v.git = h.git
        /\ v.report = h.report /\ v.conf = h.conf /\ v.file = h.file
        /\ v.searching = h.searching
    BY <2>4, <2>5, <2>6 DEF Histories
  <2> QED
    BY <2>7 DEF v
<1> QED
  BY <1>1, <1>2

\* applySearchFilter, for any query while searching, or at the end of a search.
LEMMA SearchedFits ==
  ASSUME NEW h \in Histories, GitFits(h), h.found # <<>> => h.git,
         h.query # Everything => h.searching, NEW commits \in CommitLists[h.report]
  PROVE  /\ HistoryFits(Searched(h, commits))
         /\ Searched(h, commits).report = h.report
         /\ Searched(h, commits).conf = h.conf /\ Searched(h, commits).file = h.file
<1> DEFINE r == rebuildFilteredList(h)
           k == IF h.git THEN commits ELSE r.commits
           b == [r EXCEPT !.commits = k]
           v == Searched(h, commits)
<1>1. /\ r \in Histories /\ OnlyList(r, h) /\ ListFits(r)
  BY RebuiltList
<1>2. commits \in Seq(GitRows) /\ Len(commits) = Total(h.report) /\ Total(h.report) \in Nat
      /\ h.report \in {Nil} \cup DOMAIN Reports
  <2>1. h.report \in {Nil} \cup DOMAIN Reports
    BY DEF Histories
  <2> QED
    BY <2>1, CommitListsAre
<1>3. v = CASE h.query = Everything -> [b EXCEPT !.found = <<>>]
            [] h.query # Everything /\ h.git -> filterCommitList(b, h.query)
            [] OTHER -> filterBeadList(b, h.query)
  BY DEF Searched
<1> HIDE DEF r, v
<1>4. k \in Seq(GitRows) /\ (h.git => Len(k) = Total(h.report))
  BY <1>1, <1>2 DEF Histories
<1> HIDE DEF k
<1>5. /\ b \in Histories /\ b.report = h.report /\ b.conf = h.conf /\ b.file = h.file
      /\ b.git = h.git /\ b.commits = k /\ b.found = h.found /\ b.gitCommit = h.gitCommit
      /\ b.searching = h.searching /\ b.query = h.query /\ b.list = r.list /\ b.bead = r.bead
      /\ b.commit = r.commit
  BY <1>1, <1>4 DEF Histories, OnlyList
<1> HIDE DEF b
<1>6. ListFits(b)
  BY <1>1, <1>5 DEF ListFits, Sorted, CommitsOf, OnlyList
<1> DEFINE fits == h.gitCommit < Total(h.report) \/ h.gitCommit = 0
<1>7. h.git => fits
  <2>1. h.gitCommit \in Nat /\ Len(h.commits) \in Nat /\ Len(h.found) \in Nat
    BY CommitsOfIs DEF Histories
  <2> QED
    BY <2>1 DEF GitFits, HasGitCommit, GetFilteredCommitList
<1>8. CASE h.query = Everything
  <2>1. v = [b EXCEPT !.found = <<>>]
    BY <1>3, <1>8
  <2>2. /\ v \in Histories /\ v.report = h.report /\ v.conf = h.conf /\ v.file = h.file
        /\ v.git = h.git /\ v.commits = k /\ v.found = <<>> /\ v.gitCommit = h.gitCommit
        /\ v.query = Everything /\ v.list = b.list /\ v.bead = b.bead /\ v.commit = b.commit
    <3>1. <<>> \in Seq(GitRows)
      OBVIOUS
    <3> QED
      BY <1>5, <1>8, <2>1, <3>1 DEF Histories
  <2>3. ListFits(v)
    BY <1>5, <1>6, <2>2 DEF ListFits, Sorted, CommitsOf
  <2>4. GitFits(v)
    BY <1>4, <1>7, <2>2 DEF GitFits, HasGitCommit, GetFilteredCommitList
  <2> QED
    BY <2>2, <2>3, <2>4 DEF HistoryFits, v
<1>9. CASE h.query # Everything /\ h.git
  <2>1. v = filterCommitList(b, h.query) /\ h.searching
    BY <1>3, <1>9
  <2>2. h.query \in Queries \cup {Everything}
    BY DEF Histories
  <2>3. /\ v \in Histories /\ GitFits(v)
        /\ v.report = h.report /\ v.conf = h.conf /\ v.file = h.file
        /\ v.git /\ v.searching
    BY <1>4, <1>5, <1>9, <1>7, <2>1, <2>2, FilteredCommits
  <2> QED
    BY <2>3 DEF HistoryFits, v
<1>10. CASE h.query # Everything /\ ~h.git
  <2>1. v = filterBeadList(b, h.query) /\ h.searching
    BY <1>3, <1>10
  <2>2. h.query \in Queries \cup {Everything}
    BY DEF Histories
  <2>3. /\ v \in Histories /\ v.found = <<>> /\ ~v.git
        /\ v.report = h.report /\ v.conf = h.conf /\ v.file = h.file
        /\ v.searching = h.searching
    BY <1>5, <1>6, <1>10, <2>1, <2>2, FilteredBeads
  <2> QED
    BY <2>1, <2>3 DEF HistoryFits, GitFits, v
<1> QED
  BY <1>8, <1>9, <1>10

\* A new model: nothing is listed before there is a report.
LEMMA NewHistory ==
  ASSUME NEW r \in {Nil} \cup DOMAIN Reports, NEW p \in Panes
  PROVE  /\ HistoryFits(NewHistoryModel(r, p))
         /\ r = Nil => \A b : IndexOf(NewHistoryModel(r, p).list, b) = {}
<1> DEFINE h == [report |-> r, list |-> <<>>, bead |-> 0, commit |-> 0, focus |-> "list", git |-> FALSE,
                 commits |-> <<>>, found |-> <<>>, gitCommit |-> 0, related |-> 0, conf |-> 1,
                 file |-> None, tree |-> FALSE, treeFocus |-> FALSE, row |-> 0, open |-> {},
                 searching |-> FALSE, query |-> Everything, panes |-> p]
           v == NewHistoryModel(r, p)
<1>1. v = rebuildFilteredList(h)
  BY DEF NewHistoryModel
<1>2. 1 \in DOMAIN Thresholds
  BY HistoryAssumption
<1>3. /\ h \in Histories /\ h.report = r /\ ~h.git /\ h.found = <<>> /\ ~h.searching
      /\ h.query = Everything
  <2>1. <<>> \in Seq(Entries) /\ <<>> \in Seq(GitRows)
    OBVIOUS
  <2> QED
    BY <1>2, <2>1 DEF Histories
<1> HIDE DEF h, v
<1>4. v \in Histories /\ OnlyList(v, h) /\ ListFits(v)
  BY <1>1, <1>3, RebuiltList
<1>5. HistoryFits(v)
  BY <1>3, <1>4 DEF HistoryFits, GitFits, OnlyList
<1>6. ASSUME r = Nil PROVE \A b : IndexOf(v.list, b) = {}
  <2>1. v = [h EXCEPT !.list = <<>>]
    BY <1>1, <1>3, <1>6 DEF rebuildFilteredList
  <2>2. v.list = <<>>
    BY <1>3, <2>1 DEF Histories
  <2> QED
    BY <2>2 DEF IndexOf
<1> QED
  BY <1>5, <1>6 DEF v

\* The rows of the tree of files.
LEMMA FlatFilesAre ==
  ASSUME hist \in Histories, hist.report # Nil
  PROVE  FlatFiles \in Seq([dir : Nat, file : {None} \cup Files])
<1> DEFINE dirs == Folders[hist.report]
           open == hist.open
           last(d) == IF d \in open THEN Len(dirs[d]) ELSE 0
           row(d) == {<<d, k>> : k \in 0..last(d)}
           sets == {row(d) : d \in DOMAIN dirs}
           S == FileRows(dirs, open)
           R == {pair \in S \X S : Over(pair[1], pair[2])}
           rows == InOrder(S, R)
           node(x) == [dir |-> x[1], file |-> IF x[2] = 0 THEN None ELSE dirs[x[1]][x[2]]]
           T == [dir : Nat, file : {None} \cup Files]
<1>1. dirs \in Seq(Seq(Files)) /\ FlatFiles = [n \in DOMAIN rows |-> node(rows[n])]
  BY HistoryAssumption DEF FlatFiles, Histories
<1>2. S = UNION sets
  BY DEF FileRows
<1> HIDE DEF S, R, open, dirs
<1>3. Len(dirs) \in Nat /\ DOMAIN dirs = 1..Len(dirs)
      /\ \A d \in DOMAIN dirs : dirs[d] \in Seq(Files)
  BY <1>1
<1>4. \A d \in DOMAIN dirs : d \in Nat /\ dirs[d] \in Seq(Files) /\ last(d) \in 0..Len(dirs[d])
  <2> TAKE d \in DOMAIN dirs
  <2>1. dirs[d] \in Seq(Files) /\ d \in Nat
    BY <1>3
  <2> QED
    BY <2>1
<1>5. IsFiniteSet(sets)
  <2> DEFINE f == [d \in DOMAIN dirs |-> row(d)]
  <2> HIDE DEF row
  <2>1. f \in Surjection(DOMAIN dirs, sets)
    BY DEF Surjection
  <2>2. IsFiniteSet(DOMAIN dirs)
    <3> DEFINE n == Len(dirs)
    <3>1. n \in Nat /\ DOMAIN dirs = 1..n
      BY <1>3
    <3> HIDE DEF n
    <3> QED
      BY <3>1, FS_Interval
  <2> HIDE DEF f
  <2> QED
    BY <2>1, <2>2, FS_Surjection
<1>6. ASSUME NEW d \in DOMAIN dirs
      PROVE  IsFiniteSet(row(d))
  <2> DEFINE n == last(d)
             f == [k \in 0..n |-> <<d, k>>]
  <2>1. n \in Nat /\ row(d) = {<<d, k>> : k \in 0..n}
    BY <1>4
  <2> HIDE DEF n, row
  <2>2. IsFiniteSet(0..n)
    BY <2>1, FS_Interval
  <2>3. f \in Surjection(0..n, row(d))
    BY <2>1 DEF Surjection
  <2> HIDE DEF f
  <2> QED
    BY <2>2, <2>3, FS_Surjection
<1>7. IsFiniteSet(S)
  <2> HIDE DEF row
  <2>1. \A X \in sets : IsFiniteSet(X)
    BY <1>6
  <2> HIDE DEF sets
  <2> QED
    BY <1>2, <1>5, <2>1, FS_UNION
<1>8. \A x \in S : \E d \in DOMAIN dirs : \E k \in 0..Len(dirs[d]) : x = <<d, k>>
  <2> SUFFICES ASSUME NEW d \in DOMAIN dirs, NEW k \in 0..last(d)
               PROVE  k \in 0..Len(dirs[d])
    BY <1>2
  <2>1. Len(dirs[d]) \in Nat
    BY <1>3
  <2> QED
    BY <1>4, <2>1
<1> HIDE DEF sets, row, last
<1>9. \A x \in S : x \in Nat \X Nat /\ node(x) \in T
  <2> TAKE x \in S
  <2>0. PICK d \in DOMAIN dirs : \E k \in 0..Len(dirs[d]) : x = <<d, k>>
    BY <1>8
  <2>1. PICK k \in 0..Len(dirs[d]) : x = <<d, k>>
    BY <2>0
  <2> DEFINE s == dirs[d]
  <2>2. s \in Seq(Files) /\ d \in Nat
    BY <1>4
  <2>3. k \in Nat /\ (k # 0 => s[k] \in Files)
    <3> HIDE DEF s
    <3>1. Len(s) \in Nat /\ DOMAIN s = 1..Len(s)
      BY <2>2
    <3>2. k \in 0..Len(s)
      BY DEF s
    <3> QED
      BY <2>2, <3>1, <3>2
  <2>4. x[1] = d /\ x[2] = k
    BY <2>1
  <2> QED
    BY <2>1, <2>2, <2>3, <2>4
<1>10. TotalOrder(S, R)
  <2>1. \A x, y \in S : <<x, y>> \in R <=> Over(x, y)
    BY DEF R
  <2>2. \A x \in S : x[1] \in Nat /\ x[2] \in Nat /\ x = <<x[1], x[2]>>
    BY <1>9
  <2>3. \A x \in S : ~Over(x, x)
    BY <2>2 DEF Over
  <2>4. ASSUME NEW x \in S, NEW y \in S, NEW z \in S, Over(x, y), Over(y, z)
        PROVE  Over(x, z)
    BY <2>2, <2>4 DEF Over
  <2>5. ASSUME NEW x \in S, NEW y \in S
        PROVE  x = y \/ Over(x, y) \/ Over(y, x)
    BY <2>2 DEF Over
  <2> QED
    BY <2>1, <2>3, <2>4, <2>5 DEF TotalOrder
<1>11. rows \in Seq(S)
  BY <1>7, <1>10, Ranked
<1> HIDE DEF rows, node, T
<1>12. FlatFiles \in Seq(T)
  <2> DEFINE n == Len(rows)
  <2>1. n \in Nat /\ DOMAIN rows = 1..n /\ \A k \in 1..n : rows[k] \in S
    BY <1>11
  <2> HIDE DEF n
  <2>2. FlatFiles \in [1..n -> T]
    BY <1>1, <1>9, <2>1
  <2> QED
    BY <2>1, <2>2
<1> QED
  BY <1>12 DEF T

-----------------------------------------------------------------------------
(* What a session in the history keeps.                                    *)

HistoryUIs ==
  [shown : BOOLEAN, loading : BOOLEAN, failed : BOOLEAN, doltOnly : BOOLEAN, panes : Panes,
   left : Nat]

HistoryInv ==
  /\ HistoryFits(hist) /\ histUI \in HistoryUIs
  /\ \A load \in loads : load.project \in DOMAIN Reports

SameFilters == hist'.conf = hist.conf /\ hist'.file = hist.file
KeepsBead ==
  IndexOf(hist'.list, SelectedBeadID(hist)) # {} => SelectedBeadID(hist') = SelectedBeadID(hist)

\* What a key or a click does to the history.
HistoryActed == HistoryFits(hist') /\ (SameFilters \/ KeepsBead)

\* The invariant of the history implies its properties.
LEMMA HistoryInvMeans ==
  ASSUME HistoryInv
  PROVE  HistoryListed /\ HistoryCursors
BY DEF HistoryInv, HistoryFits, ListFits, GitFits, HistoryListed, HistoryCursors

\* A search narrows the lists while it goes on, and brings them back as it ends.
LEMMA SearchActs ==
  ASSUME HistoryInv, StartSearch \/ TypeQuery \/ CancelSearch
  PROVE  HistoryActed
<1>1. /\ hist \in Histories /\ GitFits(hist) /\ (hist.found # <<>> => hist.git)
      /\ (hist.query # Everything => hist.searching)
  BY DEF HistoryInv, HistoryFits
<1>2. CASE StartSearch
  <2>1. hist' = [hist EXCEPT !.searching = TRUE]
    BY <1>2 DEF StartSearch
  <2>2. /\ hist' \in Histories /\ hist'.searching /\ SameFilters /\ hist'.found = hist.found
        /\ hist'.git = hist.git /\ hist'.commits = hist.commits /\ hist'.report = hist.report
        /\ hist'.gitCommit = hist.gitCommit
    BY <1>1, <2>1 DEF Histories, SameFilters
  <2> QED
    BY <1>1, <2>2
       DEF HistoryActed, HistoryFits, GitFits, HasGitCommit, GetFilteredCommitList
<1>3. ASSUME NEW h \in Histories, NEW c \in CommitLists[h.report], hist' = Searched(h, c),
             h.report = hist.report, h.conf = hist.conf, h.file = hist.file, h.git = hist.git,
             h.commits = hist.commits, h.found = hist.found, h.gitCommit = hist.gitCommit,
             h.query # Everything => h.searching
      PROVE  HistoryActed
  <2>1. GitFits(h) /\ (h.found # <<>> => h.git)
    BY <1>1, <1>3 DEF GitFits, HasGitCommit, GetFilteredCommitList
  <2>2. /\ HistoryFits(Searched(h, c)) /\ Searched(h, c).conf = h.conf
        /\ Searched(h, c).file = h.file
    BY <1>3, <2>1, SearchedFits
  <2> QED
    BY <1>3, <2>2 DEF HistoryActed, SameFilters
<1>4. CASE TypeQuery
  <2>1. PICK q \in Queries \cup {Everything} : applySearchFilter([hist EXCEPT !.query = q])
    BY <1>4 DEF TypeQuery
  <2> DEFINE h == [hist EXCEPT !.query = q]
  <2>2. PICK c \in CommitLists[h.report] : hist' = Searched(h, c)
    BY <2>1 DEF applySearchFilter
  <2>3. /\ h \in Histories /\ h.report = hist.report /\ h.conf = hist.conf /\ h.file = hist.file
        /\ h.git = hist.git /\ h.commits = hist.commits /\ h.found = hist.found
        /\ h.gitCommit = hist.gitCommit /\ h.searching = hist.searching
    BY <1>1 DEF Histories
  <2>4. hist.searching
    BY <1>4 DEF TypeQuery
  <2> HIDE DEF h
  <2> QED
    BY <1>3, <2>2, <2>3, <2>4
<1>5. CASE CancelSearch
  <2> DEFINE h == [hist EXCEPT !.searching = FALSE, !.query = Everything]
  <2>1. PICK c \in CommitLists[h.report] : hist' = Searched(h, c)
    BY <1>5 DEF CancelSearch, applySearchFilter
  <2>2. /\ h \in Histories /\ h.report = hist.report /\ h.conf = hist.conf /\ h.file = hist.file
        /\ h.git = hist.git /\ h.commits = hist.commits /\ h.found = hist.found
        /\ h.gitCommit = hist.gitCommit /\ h.query = Everything
    BY <1>1 DEF Histories
  <2> HIDE DEF h
  <2> QED
    BY <1>3, <2>1, <2>2
<1> QED
  BY <1>2, <1>4, <1>5

\* Another filter.
LEMMA RefilterActs ==
  ASSUME HistoryInv, NEW h \in Histories, hist' = rebuildFilteredList(h),
         h.report = hist.report, h.list = hist.list, h.bead = hist.bead, h.git = hist.git,
         h.commits = hist.commits, h.found = hist.found, h.gitCommit = hist.gitCommit,
         h.searching = hist.searching, h.query = hist.query
  PROVE  HistoryActed
<1> DEFINE v == rebuildFilteredList(h)
<1>1. /\ v \in Histories /\ OnlyList(v, h) /\ ListFits(v)
      /\ IndexOf(v.list, SelectedBeadID(h)) # {} => SelectedBeadID(v) = SelectedBeadID(h)
  BY RebuiltList
<1>2. SelectedBeadID(h) = SelectedBeadID(hist)
  BY DEF SelectedBeadID
<1> HIDE DEF v
<1>3. HistoryFits(v)
  BY <1>1 DEF HistoryInv, HistoryFits, GitFits, HasGitCommit, GetFilteredCommitList, OnlyList
<1> QED
  BY <1>1, <1>2, <1>3 DEF HistoryActed, KeepsBead, v

\* Nothing but the cursors, what has the focus and the tree of files is another.
OnlyCursors(v) ==
  /\ v.report = hist.report /\ v.list = hist.list /\ v.conf = hist.conf /\ v.file = hist.file
  /\ v.git = hist.git /\ v.commits = hist.commits /\ v.found = hist.found
  /\ v.searching = hist.searching /\ v.query = hist.query

\* Moving the cursors to what is listed keeps the history.
LEMMA CursorsAct ==
  ASSUME HistoryInv, NEW v \in Histories, OnlyCursors(v), hist' = v,
         \/ v.bead = hist.bead /\ v.commit = hist.commit
         \/ /\ v.bead < Len(v.list) \/ v.bead = 0 \/ v.bead = hist.bead
            /\ v.commit < CommitsOf(v) \/ v.commit = 0,
         v.gitCommit = hist.gitCommit \/ HasGitCommit(v) \/ v.gitCommit = 0
  PROVE  HistoryActed
<1>1. GitFits(v)
  BY DEF HistoryInv, HistoryFits, GitFits, HasGitCommit, GetFilteredCommitList, OnlyCursors
<1>2. ~v.searching => ListFits(v)
  BY DEF HistoryInv, HistoryFits, ListFits, Sorted, CommitsOf, OnlyCursors
<1>3. HistoryFits(v)
  BY <1>1, <1>2 DEF HistoryInv, HistoryFits, OnlyCursors
<1> QED
  BY <1>3 DEF HistoryActed, SameFilters, OnlyCursors

\* A step stays, or ends within the list.
LEMMA StepsIs ==
  ASSUME NEW k \in Nat, NEW n \in Nat, NEW by \in {-1, 1}
  PROVE  /\ Steps(k, by, n) \in Nat /\ (Steps(k, by, n) = k \/ Steps(k, by, n) < n)
         /\ Steps(k, by, n) # k => k + by \in Nat /\ k + by < n
BY DEF Steps

\* Moving in bead mode keeps both cursors on what is listed.
LEMMA MovedBeadActs ==
  ASSUME HistoryInv, NEW by \in {-1, 1}, hist' = MovedBead(hist, by)
  PROVE  HistoryActed
<1> DEFINE n == CommitsOf(hist)
           m == Len(hist.list)
<1>1. hist \in Histories /\ n \in Nat /\ m \in Nat /\ hist.bead \in Nat /\ hist.commit \in Nat
  BY CommitsOfIs DEF HistoryInv, HistoryFits, Histories
<1>2. CASE hist.focus # "list"
  <2> DEFINE k == Steps(hist.commit, by, n)
             v == [hist EXCEPT !.commit = k]
  <2>1. hist' = v
    BY <1>1, <1>2 DEF MovedBead, Histories
  <2> HIDE DEF n
  <2>2. k \in Nat /\ (k = hist.commit \/ k < n)
    BY <1>1, StepsIs
  <2> HIDE DEF k
  <2>3. /\ v \in Histories /\ OnlyCursors(v) /\ v.bead = hist.bead /\ v.commit = k
        /\ v.gitCommit = hist.gitCommit
    BY <1>1, <2>2 DEF Histories, OnlyCursors
  <2> HIDE DEF v
  <2>4. CommitsOf(v) = n
    BY <2>3 DEF CommitsOf, OnlyCursors, n
  <2> QED
    BY <2>1, <2>2, <2>3, <2>4, CursorsAct
<1>3. CASE hist.focus = "list" /\ Steps(hist.bead, by, m) = hist.bead
  <2>1. hist' = hist
    BY <1>3 DEF MovedBead
  <2> QED
    BY <1>1, <2>1, CursorsAct DEF OnlyCursors
<1>4. CASE hist.focus = "list" /\ Steps(hist.bead, by, m) # hist.bead
  <2> DEFINE k == hist.bead + by
             v == [hist EXCEPT !.bead = k, !.commit = 0]
  <2>1. hist' = v
    BY <1>1, <1>4 DEF MovedBead, Histories
  <2> HIDE DEF m
  <2>2. k \in Nat /\ k < m
    BY <1>1, <1>4, StepsIs
  <2> HIDE DEF k
  <2>3. /\ v \in Histories /\ OnlyCursors(v) /\ v.bead = k /\ v.commit = 0
        /\ v.gitCommit = hist.gitCommit /\ v.list = hist.list
    BY <1>1, <2>2 DEF Histories, OnlyCursors
  <2> HIDE DEF v
  <2>4. v.bead < Len(v.list)
    BY <2>2, <2>3 DEF m
  <2> QED
    BY <2>1, <2>3, <2>4, CursorsAct
<1> QED
  BY <1>2, <1>3, <1>4

\* The row of the related beads alone.
LEMMA RelatedActs ==
  ASSUME HistoryInv, NEW k \in Nat, NEW f \in {"list", "middle", "detail"},
         hist' = [hist EXCEPT !.focus = f, !.related = k]
  PROVE  HistoryActed
<1> DEFINE v == [hist EXCEPT !.focus = f, !.related = k]
<1>1. hist \in Histories
  BY DEF HistoryInv, HistoryFits
<1>2. /\ v \in Histories /\ OnlyCursors(v) /\ v.bead = hist.bead /\ v.commit = hist.commit
      /\ v.gitCommit = hist.gitCommit
  BY <1>1 DEF Histories, OnlyCursors
<1> HIDE DEF v
<1> QED
  BY <1>2, CursorsAct DEF v

\* And so in git mode.
LEMMA MovedGitActs ==
  ASSUME HistoryInv, NEW by \in {-1, 1}, hist' = MovedGit(hist, by)
  PROVE  HistoryActed
<1> DEFINE n == RelatedOf(hist)
           m == Len(GetFilteredCommitList(hist))
<1>1. hist \in Histories /\ n \in Nat /\ m \in Nat /\ hist.gitCommit \in Nat /\ hist.related \in Nat
      /\ hist.focus \in {"list", "middle", "detail"}
  BY CommitsOfIs DEF HistoryInv, HistoryFits, Histories
<1>2. CASE hist.focus # "list"
  <2> DEFINE k == Steps(hist.related, by, n)
  <2>1. hist' = [hist EXCEPT !.focus = hist.focus, !.related = k]
    BY <1>1, <1>2 DEF MovedGit, Histories
  <2> HIDE DEF n
  <2>2. k \in Nat
    BY <1>1, StepsIs
  <2> HIDE DEF k
  <2> QED
    BY <1>1, <2>1, <2>2, RelatedActs
<1>3. CASE hist.focus = "list" /\ Steps(hist.gitCommit, by, m) = hist.gitCommit
  <2>1. hist' = hist
    BY <1>3 DEF MovedGit
  <2> QED
    BY <1>1, <2>1, CursorsAct DEF OnlyCursors
<1>4. CASE hist.focus = "list" /\ Steps(hist.gitCommit, by, m) # hist.gitCommit
  <2> DEFINE k == hist.gitCommit + by
             v == [hist EXCEPT !.gitCommit = k, !.related = 0]
  <2>1. hist' = v
    BY <1>1, <1>4 DEF MovedGit, Histories
  <2> HIDE DEF m
  <2>2. k \in Nat /\ k < m
    BY <1>1, <1>4, StepsIs
  <2> HIDE DEF k
  <2>3. /\ v \in Histories /\ OnlyCursors(v) /\ v.bead = hist.bead /\ v.commit = hist.commit
        /\ v.gitCommit = k
    BY <1>1, <2>2 DEF Histories, OnlyCursors
  <2> HIDE DEF v
  <2>4. HasGitCommit(v)
    BY <2>2, <2>3 DEF HasGitCommit, GetFilteredCommitList, OnlyCursors, m
  <2> QED
    BY <2>1, <2>3, <2>4, CursorsAct
<1> QED
  BY <1>2, <1>3, <1>4

\* And so in the second pane of either mode.
LEMMA MovedSecondActs ==
  ASSUME HistoryInv, NEW by \in {-1, 1}, hist' = MovedSecond(hist, by)
  PROVE  HistoryActed
<1> DEFINE n == CommitsOf(hist)
           m == RelatedOf(hist)
<1>1. hist \in Histories /\ n \in Nat /\ m \in Nat /\ hist.commit \in Nat /\ hist.related \in Nat
      /\ hist.focus \in {"list", "middle", "detail"}
  BY CommitsOfIs DEF HistoryInv, HistoryFits, Histories
<1>2. CASE hist.git
  <2> DEFINE k == Steps(hist.related, by, m)
  <2>1. hist' = [hist EXCEPT !.focus = hist.focus, !.related = k]
    BY <1>1, <1>2 DEF MovedSecond, Histories
  <2> HIDE DEF m
  <2>2. k \in Nat
    BY <1>1, StepsIs
  <2> HIDE DEF k
  <2> QED
    BY <1>1, <2>1, <2>2, RelatedActs
<1>3. CASE ~hist.git
  <2> DEFINE k == Steps(hist.commit, by, n)
             v == [hist EXCEPT !.commit = k]
  <2>1. hist' = v
    BY <1>1, <1>3 DEF MovedSecond, Histories
  <2> HIDE DEF n
  <2>2. k \in Nat /\ (k = hist.commit \/ k < n)
    BY <1>1, StepsIs
  <2> HIDE DEF k
  <2>3. /\ v \in Histories /\ OnlyCursors(v) /\ v.bead = hist.bead /\ v.commit = k
        /\ v.gitCommit = hist.gitCommit
    BY <1>1, <2>2 DEF Histories, OnlyCursors
  <2> HIDE DEF v
  <2>4. CommitsOf(v) = n
    BY <2>3 DEF CommitsOf, OnlyCursors, n
  <2> QED
    BY <2>1, <2>2, <2>3, <2>4, CursorsAct
<1> QED
  BY <1>2, <1>3

\* The other mode starts at the top, with all commits.
LEMMA ToggleModeActs ==
  ASSUME HistoryInv, ~hist.searching, ToggleViewMode
  PROVE  HistoryActed
<1>1. /\ hist \in Histories /\ hist.found = <<>> /\ hist.query = Everything /\ ListFits(hist)
      /\ hist.report \in {Nil} \cup DOMAIN Reports
  BY DEF HistoryInv, HistoryFits, Histories
<1>2. CASE hist.git
  <2> DEFINE v == [hist EXCEPT !.git = FALSE, !.bead = 0, !.commit = 0]
  <2>1. hist' = v
    BY <1>2 DEF ToggleViewMode
  <2>2. /\ v \in Histories /\ ~v.git /\ v.bead = 0 /\ v.commit = 0 /\ v.list = hist.list
        /\ v.report = hist.report /\ v.conf = hist.conf /\ v.file = hist.file
        /\ v.found = hist.found /\ v.query = hist.query
    BY <1>1 DEF Histories
  <2> HIDE DEF v
  <2>3. ListFits(v)
    BY <1>1, <2>2 DEF ListFits, Sorted
  <2> QED
    BY <1>1, <2>1, <2>2, <2>3 DEF HistoryActed, HistoryFits, GitFits, SameFilters
<1>3. CASE ~hist.git
  <2>1. PICK c \in CommitLists[hist.report] :
          hist' = [hist EXCEPT !.git = TRUE, !.commits = c, !.gitCommit = 0, !.related = 0]
    BY <1>3 DEF ToggleViewMode
  <2>2. c \in Seq(GitRows) /\ Len(c) = Total(hist.report)
    BY <1>1, CommitListsAre
  <2> DEFINE v == [hist EXCEPT !.git = TRUE, !.commits = c, !.gitCommit = 0, !.related = 0]
  <2>3. /\ v \in Histories /\ v.git /\ v.bead = hist.bead /\ v.commit = hist.commit
        /\ v.list = hist.list /\ v.gitCommit = 0 /\ v.commits = c
        /\ v.report = hist.report /\ v.conf = hist.conf /\ v.file = hist.file
        /\ v.found = hist.found /\ v.query = hist.query
    BY <1>1, <2>2 DEF Histories
  <2>4. hist' = v
    BY <2>1
  <2> HIDE DEF v
  <2>5. ListFits(v)
    BY <1>1, <2>3 DEF ListFits, Sorted, CommitsOf
  <2> QED
    BY <1>1, <2>2, <2>3, <2>4, <2>5 DEF HistoryActed, HistoryFits, GitFits, SameFilters
<1> QED
  BY <1>2, <1>3

\* What else a key changes is no part of the lists.
LEMMA QuietActs ==
  ASSUME HistoryInv, NEW v \in Histories, OnlyCursors(v), hist' = v, v.bead = hist.bead,
         v.commit = hist.commit, v.gitCommit = hist.gitCommit
  PROVE  HistoryActed
BY CursorsAct

\* The tree of files narrows the lists to a file, which keeps the selected bead, or nothing else of them.
LEMMA FileTreeActs ==
  ASSUME HistoryInv, ToggleFileTree \/ TreeKey
  PROVE  HistoryActed
<1>1. hist \in Histories
  BY DEF HistoryInv, HistoryFits
<1>2. CASE ToggleFileTree
  <2> DEFINE v == [hist EXCEPT !.tree = ~@]
  <2>1. /\ v \in Histories /\ OnlyCursors(v) /\ v.bead = hist.bead
        /\ v.commit = hist.commit /\ v.gitCommit = hist.gitCommit
    <3> DEFINE b == ~hist.tree
    <3>1. b \in BOOLEAN /\ v = [hist EXCEPT !.tree = b]
      BY <1>1 DEF Histories
    <3> HIDE DEF b, v
    <3> QED
      BY <1>1, <3>1 DEF Histories, OnlyCursors
  <2>2. hist' = v
    BY <1>2 DEF ToggleFileTree
  <2> HIDE DEF v
  <2> QED
    BY <2>1, <2>2, QuietActs
<1>3. ASSUME NEW k \in Nat, hist' = [hist EXCEPT !.row = k]
      PROVE  HistoryActed
  <2> DEFINE v == [hist EXCEPT !.row = k]
  <2>1. /\ v \in Histories /\ OnlyCursors(v) /\ v.bead = hist.bead
        /\ v.commit = hist.commit /\ v.gitCommit = hist.gitCommit
    BY <1>1 DEF Histories, OnlyCursors
  <2>2. hist' = v
    BY <1>3
  <2> HIDE DEF v
  <2> QED
    BY <2>1, <2>2, QuietActs
<1>4. ASSUME NEW open \in SUBSET Nat, hist' = [hist EXCEPT !.open = open]
      PROVE  HistoryActed
  <2> DEFINE v == [hist EXCEPT !.open = open]
  <2>1. /\ v \in Histories /\ OnlyCursors(v) /\ v.bead = hist.bead
        /\ v.commit = hist.commit /\ v.gitCommit = hist.gitCommit
    BY <1>1 DEF Histories, OnlyCursors
  <2>2. hist' = v
    BY <1>4
  <2> HIDE DEF v
  <2> QED
    BY <2>1, <2>2, QuietActs
<1>5. ASSUME NEW file \in {None} \cup Files,
             hist' = rebuildFilteredList([hist EXCEPT !.file = file])
      PROVE  HistoryActed
  <2> DEFINE h == [hist EXCEPT !.file = file]
  <2>1. /\ h \in Histories /\ h.report = hist.report /\ h.list = hist.list /\ h.bead = hist.bead
        /\ h.git = hist.git /\ h.commits = hist.commits /\ h.found = hist.found
        /\ h.gitCommit = hist.gitCommit /\ h.searching = hist.searching /\ h.query = hist.query
    BY <1>1 DEF Histories
  <2>2. hist' = rebuildFilteredList(h)
    BY <1>5
  <2> HIDE DEF h
  <2> QED
    BY <2>1, <2>2, RefilterActs
<1>6. ASSUME hist' = [hist EXCEPT !.treeFocus = FALSE]
      PROVE  HistoryActed
  <2> DEFINE v == [hist EXCEPT !.treeFocus = FALSE]
  <2>1. /\ v \in Histories /\ OnlyCursors(v) /\ v.bead = hist.bead
        /\ v.commit = hist.commit /\ v.gitCommit = hist.gitCommit
    BY <1>1 DEF Histories, OnlyCursors
  <2>2. hist' = v
    BY <1>6
  <2> HIDE DEF v
  <2> QED
    BY <2>1, <2>2, QuietActs
<1>7. hist.row \in Nat /\ hist.open \in SUBSET Nat /\ hist.file \in {None} \cup Files
  BY <1>1 DEF Histories
<1>8. ASSUME hist.report # Nil, HasFileNode
      PROVE  SelectedFileNode.dir \in Nat /\ SelectedFileNode.file \in {None} \cup Files
  <2> DEFINE T == [dir : Nat, file : {None} \cup Files]
             s == FlatFiles
             n == Len(s)
  <2>1. s \in Seq(T)
    BY <1>1, <1>8, FlatFilesAre
  <2>2. hist.row < n
    BY <1>8 DEF HasFileNode
  <2> HIDE DEF T, s
  <2>3. s[hist.row + 1] \in T
    BY <1>7, <2>1, <2>2
  <2> QED
    BY <2>3 DEF T, s, SelectedFileNode
<1>9. CASE TreeKey
  <2>1. CASE hist.row > 0 /\ hist' = [hist EXCEPT !.row = @ - 1]
    <3>1. hist.row - 1 \in Nat
      BY <1>7, <2>1
    <3> QED
      BY <1>3, <2>1, <3>1
  <2>2. CASE hist' = [hist EXCEPT !.row = @ + 1]
    BY <1>3, <1>7, <2>2
  <2>3. CASE hist.report # Nil /\ ChooseFile
    <3> DEFINE n == SelectedFileNode
    <3>1. n.dir \in Nat /\ n.file \in {None} \cup Files
      BY <1>8, <2>3 DEF ChooseFile
    <3>2. IF n.file = None
          THEN hist' = [hist EXCEPT !.open = IF n.dir \in @ THEN @ \ {n.dir} ELSE @ \cup {n.dir}]
          ELSE hist' = rebuildFilteredList([hist EXCEPT !.file = IF @ = n.file THEN None ELSE n.file])
      BY <2>3 DEF ChooseFile
    <3> HIDE DEF n
    <3>3. CASE n.file = None
      <4> DEFINE open == IF n.dir \in hist.open THEN hist.open \ {n.dir} ELSE hist.open \cup {n.dir}
      <4>1. open \in SUBSET Nat
        BY <1>7, <3>1
      <4>2. hist' = [hist EXCEPT !.open = open]
        BY <3>2, <3>3
      <4> HIDE DEF open
      <4> QED
        BY <1>4, <4>1, <4>2
    <3>4. CASE n.file # None
      <4> DEFINE file == IF hist.file = n.file THEN None ELSE n.file
      <4>1. file \in {None} \cup Files
        BY <3>1
      <4>2. hist' = rebuildFilteredList([hist EXCEPT !.file = file])
        BY <3>2, <3>4
      <4> HIDE DEF file
      <4> QED
        BY <1>5, <4>1, <4>2
    <3> QED
      BY <3>3, <3>4
  <2>4. CASE CollapseFileNode
    <3> DEFINE open == hist.open \ {SelectedFileNode.dir}
    <3>1. open \in SUBSET Nat
      BY <1>7
    <3>2. hist' = [hist EXCEPT !.open = open]
      BY <2>4 DEF CollapseFileNode
    <3> HIDE DEF open
    <3> QED
      BY <1>4, <3>1, <3>2
  <2>5. CASE hist' = rebuildFilteredList([hist EXCEPT !.file = None])
    BY <1>5, <2>5
  <2>6. CASE hist' = [hist EXCEPT !.treeFocus = FALSE]
    BY <1>6, <2>6
  <2> QED
    BY <1>9, <2>1, <2>2, <2>3, <2>4, <2>5, <2>6 DEF TreeKey
<1> QED
  BY <1>2, <1>9

\* The keys outside a search and the tree of files.
LEMMA NormalKeyActs ==
  ASSUME HistoryInv, NormalKey
  PROVE  HistoryActed
<1>1. hist \in Histories /\ ~hist.searching
  BY DEF HistoryInv, HistoryFits, NormalKey
<1>2. CASE FocusCycle
  <2>1. CASE hist.tree /\ hist.focus = "detail"
    <3> DEFINE v == [hist EXCEPT !.treeFocus = TRUE]
    <3>1. /\ v \in Histories /\ OnlyCursors(v) /\ v.bead = hist.bead
          /\ v.commit = hist.commit /\ v.gitCommit = hist.gitCommit
      BY <1>1 DEF Histories, OnlyCursors
    <3>2. hist' = v
      BY <1>2, <2>1 DEF FocusCycle
    <3> HIDE DEF v
    <3> QED
      BY <3>1, <3>2, QuietActs
  <2>2. CASE ~(hist.tree /\ hist.focus = "detail")
    <3> DEFINE f == ToggleFocus(hist)
               v == [hist EXCEPT !.focus = f]
    <3>1. f \in {"list", "middle", "detail"}
      BY DEF ToggleFocus
    <3>2. hist' = v
      BY <1>2, <2>2 DEF FocusCycle
    <3> HIDE DEF f
    <3>3. /\ v \in Histories /\ OnlyCursors(v) /\ v.bead = hist.bead
          /\ v.commit = hist.commit /\ v.gitCommit = hist.gitCommit
      BY <1>1, <3>1 DEF Histories, OnlyCursors
    <3> HIDE DEF v
    <3> QED
      BY <3>2, <3>3, QuietActs
  <2> QED
    BY <2>1, <2>2
<1>3. CASE ToggleViewMode
  BY <1>1, <1>3, ToggleModeActs
<1>4. CASE HistoryMove
  BY <1>4, MovedGitActs, MovedBeadActs DEF HistoryMove
<1>5. CASE NextRelated
  BY <1>5, MovedSecondActs DEF NextRelated
<1>6. CASE CycleConfidence
  <2> DEFINE n == Len(Thresholds)
             k == (hist.conf % n) + 1
             h == [hist EXCEPT !.conf = k]
  <2>1. n \in Nat /\ n # 0 /\ DOMAIN Thresholds = 1..n /\ hist.conf \in 1..n
    BY <1>1, HistoryAssumption, NotEmpty DEF Histories
  <2>2. hist' = rebuildFilteredList(h)
    BY <1>6 DEF CycleConfidence
  <2> HIDE DEF n
  <2>3. k \in DOMAIN Thresholds
    BY <2>1
  <2> HIDE DEF k
  <2>4. /\ h \in Histories /\ h.report = hist.report /\ h.list = hist.list /\ h.bead = hist.bead
        /\ h.git = hist.git /\ h.commits = hist.commits /\ h.found = hist.found
        /\ h.gitCommit = hist.gitCommit /\ h.searching = hist.searching /\ h.query = hist.query
    BY <1>1, <2>3 DEF Histories
  <2> HIDE DEF h
  <2> QED
    BY <2>2, <2>4, RefilterActs
<1> QED
  BY <1>2, <1>3, <1>4, <1>5, <1>6 DEF NormalKey

\* The mouse selects what is listed.
LEMMA HistoryMouseActs ==
  ASSUME HistoryInv, HistoryClick \/ HistoryWheel
  PROVE  HistoryActed
<1> DEFINE n == CommitsOf(hist)
           m == RelatedOf(hist)
           l == Len(hist.list)
<1>1. /\ hist \in Histories /\ n \in Nat /\ m \in Nat /\ l \in Nat /\ hist.related \in Nat
      /\ hist.bead \in Nat
  BY CommitsOfIs DEF HistoryInv, HistoryFits, Histories
<1>2. CASE HistoryWheel
  BY <1>2, MovedBeadActs, MovedSecondActs DEF HistoryWheel
<1>3. CASE \E k \in 0..(l - 1) : hist' = SelectBead([hist EXCEPT !.focus = "list"], k)
  <2>1. PICK k \in 0..(l - 1) : hist' = SelectBead([hist EXCEPT !.focus = "list"], k)
    BY <1>3
  <2> DEFINE h == [hist EXCEPT !.focus = "list"]
             c == IF hist.bead = k THEN hist.commit ELSE 0
             v == [h EXCEPT !.bead = k, !.commit = c]
  <2>2. /\ h \in Histories /\ OnlyCursors(h) /\ h.bead = hist.bead /\ h.commit = hist.commit
        /\ h.gitCommit = hist.gitCommit
    BY <1>1 DEF Histories, OnlyCursors
  <2>3. hist' = IF h.bead = k THEN h ELSE [h EXCEPT !.bead = k, !.commit = 0]
    BY <2>1 DEF SelectBead
  <2> HIDE DEF h
  <2>4. CASE h.bead = k
    BY <2>2, <2>3, <2>4, QuietActs
  <2>5. CASE h.bead # k
    <3> DEFINE w == [h EXCEPT !.bead = k, !.commit = 0]
    <3> HIDE DEF l
    <3>1. k \in Nat /\ k < l
      BY <1>1, <2>1
    <3>2. /\ w \in Histories /\ OnlyCursors(w) /\ w.bead = k /\ w.commit = 0
          /\ w.gitCommit = hist.gitCommit /\ w.list = hist.list
      BY <2>2, <3>1 DEF Histories, OnlyCursors
    <3>3. hist' = w
      BY <2>3, <2>5
    <3> HIDE DEF w
    <3>4. w.bead < Len(w.list)
      BY <3>1, <3>2 DEF l
    <3> QED
      BY <3>2, <3>3, <3>4, CursorsAct
  <2> QED
    BY <2>4, <2>5
<1>4. CASE \E k \in 0..(m - 1) : hist' = [hist EXCEPT !.focus = "middle", !.related = k]
  <2>1. PICK k \in 0..(m - 1) : hist' = [hist EXCEPT !.focus = "middle", !.related = k]
    BY <1>4
  <2> HIDE DEF m
  <2>2. k \in Nat
    BY <1>1
  <2> QED
    BY <2>1, <2>2, RelatedActs
<1>5. CASE \E k \in 0..(n - 1) : hist' = [hist EXCEPT !.focus = "middle", !.commit = k]
  <2>1. PICK k \in 0..(n - 1) : hist' = [hist EXCEPT !.focus = "middle", !.commit = k]
    BY <1>5
  <2> DEFINE v == [hist EXCEPT !.focus = "middle", !.commit = k]
  <2> HIDE DEF n
  <2>2. k \in Nat /\ k < n
    BY <1>1
  <2>3. /\ v \in Histories /\ OnlyCursors(v) /\ v.bead = hist.bead /\ v.commit = k
        /\ v.gitCommit = hist.gitCommit
    BY <1>1, <2>2 DEF Histories, OnlyCursors
  <2>4. hist' = v
    BY <2>1
  <2> HIDE DEF v
  <2>5. CommitsOf(v) = n
    BY <2>3 DEF CommitsOf, OnlyCursors, n
  <2> QED
    BY <2>2, <2>3, <2>4, <2>5, CursorsAct
<1>6. CASE \E f \in {"list", "detail", "middle"} : hist' = [hist EXCEPT !.focus = f]
  <2>1. PICK f \in {"list", "detail", "middle"} : hist' = [hist EXCEPT !.focus = f]
    BY <1>6
  <2> DEFINE v == [hist EXCEPT !.focus = f]
  <2>2. /\ v \in Histories /\ OnlyCursors(v) /\ v.bead = hist.bead
        /\ v.commit = hist.commit /\ v.gitCommit = hist.gitCommit
    BY <1>1 DEF Histories, OnlyCursors
  <2>3. hist' = v
    BY <2>1
  <2> HIDE DEF v
  <2> QED
    BY <2>2, <2>3, QuietActs
<1>7. CASE HistoryClick
  <2>1. {"list", "detail"} \cup (IF hist.panes = 3 THEN {"middle"} ELSE {}) \subseteq {"list", "detail", "middle"}
    OBVIOUS
  <2> QED
    BY <1>3, <1>4, <1>5, <1>6, <1>7, <2>1 DEF HistoryClick
<1> QED
  BY <1>2, <1>7

\* Every key and click keeps the history, and the selected bead if it changes the filters.
LEMMA HistoryKeysAct ==
  ASSUME HistoryInv, HistoryKeys
  PROVE  HistoryActed
BY SearchActs, FileTreeActs, NormalKeyActs, HistoryMouseActs DEF HistoryKeys

\* A session starts with a history without a report.
LEMMA HistoryInitHolds ==
  ASSUME HistoryInit
  PROVE  HistoryInv
<1>1. PICK p \in Panes :
        /\ hist = NewHistoryModel(Nil, p)
        /\ histUI = [shown |-> FALSE, loading |-> TRUE, failed |-> FALSE, doltOnly |-> FALSE,
                     panes |-> p, left |-> MaxLoads]
  BY DEF HistoryInit
<1>2. PICK r \in DOMAIN Reports : loads = {[nr |-> 0, project |-> r]}
  BY DEF HistoryInit
<1>3. HistoryFits(hist)
  <2>1. HistoryFits(NewHistoryModel(Nil, p))
    BY NewHistory
  <2> QED
    BY <1>1, <2>1
<1>4. histUI \in HistoryUIs
  BY <1>1, HistoryAssumption DEF HistoryUIs
<1> QED
  BY <1>2, <1>3, <1>4 DEF HistoryInv

\* Entering the view starts with an empty history again.
LEMMA EnteredHistory ==
  ASSUME HistoryInv, EnterHistory
  PROVE  HistoryInv' /\ KeepsBead
<1>1. histUI \in HistoryUIs /\ histUI.panes \in Panes /\ histUI.left \in Nat
  BY DEF HistoryInv, HistoryUIs
<1>2. HistoryFits(hist') /\ \A b : IndexOf(hist'.list, b) = {}
  <2> DEFINE v == NewHistoryModel(Nil, histUI.panes)
  <2>1. HistoryFits(v) /\ \A b : IndexOf(v.list, b) = {}
    BY <1>1, NewHistory
  <2>2. hist' = v
    BY DEF EnterHistory
  <2> HIDE DEF v
  <2> QED
    BY <2>1, <2>2
<1>3. histUI' \in HistoryUIs
  <2>1. CASE /\ histUI.left > 0
             /\ histUI' = [histUI EXCEPT !.shown = TRUE, !.loading = TRUE, !.failed = FALSE,
                                         !.doltOnly = FALSE, !.left = @ - 1]
    <3> DEFINE n == histUI.left - 1
    <3>1. n \in Nat
      BY <1>1, <2>1
    <3> HIDE DEF n
    <3>2. histUI' = [histUI EXCEPT !.shown = TRUE, !.loading = TRUE, !.failed = FALSE,
                                   !.doltOnly = FALSE, !.left = n]
      BY <2>1 DEF n
    <3> QED
      BY <1>1, <3>1, <3>2 DEF HistoryUIs
  <2>2. CASE histUI' = [histUI EXCEPT !.shown = TRUE, !.loading = FALSE, !.failed = FALSE,
                                      !.doltOnly = TRUE]
    BY <1>1, <2>2 DEF HistoryUIs
  <2> QED
    BY <2>1, <2>2 DEF EnterHistory
<1>4. \A load \in loads' : load.project \in DOMAIN Reports
  BY DEF EnterHistory, HistoryInv
<1> QED
  BY <1>2, <1>3, <1>4 DEF HistoryInv, KeepsBead

\* A load that ends shows its report, with nothing selected but the first bead.
LEMMA LoadedHistory ==
  ASSUME HistoryInv, HistoryLoaded
  PROVE  HistoryInv' /\ loads' # loads
<1>1. PICK load \in loads, ok \in BOOLEAN :
        /\ loads' = loads \ {load}
        /\ histUI' = [histUI EXCEPT !.loading = FALSE, !.failed = @ \/ ~ok]
        /\ hist' = IF ok THEN NewHistoryModel(load.project, histUI.panes) ELSE hist
  BY DEF HistoryLoaded
<1>2. histUI \in HistoryUIs /\ histUI.panes \in Panes /\ load.project \in DOMAIN Reports
  BY DEF HistoryInv, HistoryUIs
<1>3. HistoryFits(NewHistoryModel(load.project, histUI.panes))
  BY <1>2, NewHistory
<1>4. HistoryFits(hist')
  BY <1>1, <1>3 DEF HistoryInv
<1>5. histUI' \in HistoryUIs
  <2> DEFINE f == histUI.failed \/ ~ok
  <2>1. f \in BOOLEAN /\ histUI' = [histUI EXCEPT !.loading = FALSE, !.failed = f]
    BY <1>1
  <2> HIDE DEF f
  <2> QED
    BY <1>2, <2>1 DEF HistoryUIs
<1> QED
  BY <1>1, <1>4, <1>5 DEF HistoryInv

\* Leaving the view and resizing the window leave the history as it is.
LEMMA HistoryRests ==
  ASSUME HistoryInv, LeaveHistory \/ HistoryResize
  PROVE  HistoryInv' /\ hist' = hist
<1>1. histUI \in HistoryUIs /\ UNCHANGED <<hist, loads>>
  BY DEF HistoryInv, LeaveHistory, HistoryResize
<1>2. histUI' \in HistoryUIs
  <2>1. CASE LeaveHistory
    BY <1>1, <2>1 DEF LeaveHistory, HistoryUIs
  <2>2. CASE HistoryResize
    BY <1>1, <2>2 DEF HistoryResize, HistoryUIs
  <2> QED
    BY <2>1, <2>2
<1>3. HistoryFits(hist')
  BY <1>1 DEF HistoryInv
<1> QED
  BY <1>1, <1>2, <1>3 DEF HistoryInv

\* Every step of a session in the history keeps its invariant.
LEMMA HistoryNextKeeps ==
  ASSUME HistoryInv, [HistoryNext]_historyVars
  PROVE  HistoryInv'
<1>1. CASE HistoryKeys /\ UNCHANGED <<histUI, loads>>
  <2>1. HistoryFits(hist')
    BY <1>1, HistoryKeysAct DEF HistoryActed
  <2> QED
    BY <1>1, <2>1 DEF HistoryInv
<1>2. CASE LeaveHistory \/ HistoryResize
  BY <1>2, HistoryRests
<1>3. CASE EnterHistory
  BY <1>3, EnteredHistory
<1>4. CASE HistoryLoaded
  BY <1>4, LoadedHistory
<1>5. CASE UNCHANGED historyVars
  <2>1. HistoryFits(hist')
    BY <1>5 DEF HistoryInv, historyVars
  <2> QED
    BY <1>5, <2>1 DEF HistoryInv, historyVars
<1> QED
  BY <1>1, <1>2, <1>3, <1>4, <1>5 DEF HistoryNext

\* Unless a load ends, what changes the filters keeps the bead that is selected.
LEMMA HistoryRefilters ==
  ASSUME HistoryInv, [HistoryNext]_historyVars, loads' = loads,
         <<hist'.conf, hist'.file>> # <<hist.conf, hist.file>>
  PROVE  KeepsBead
<1>1. CASE HistoryKeys
  BY <1>1, HistoryKeysAct DEF HistoryActed, SameFilters
<1>2. CASE LeaveHistory \/ HistoryResize
  BY <1>2, HistoryRests
<1>3. CASE EnterHistory
  BY <1>3, EnteredHistory
<1>4. CASE HistoryLoaded
  BY <1>4, LoadedHistory
<1>5. CASE UNCHANGED historyVars
  BY <1>5 DEF historyVars
<1> QED
  BY <1>1, <1>2, <1>3, <1>4, <1>5 DEF HistoryNext
-----------------------------------------------------------------------------
(* The views together.                                                     *)

Inv == TreeInv /\ HistoryInv /\ BoardInv

\* The invariant holds as a session starts.
LEMMA InitHolds == Init => Inv
BY TreeInitHolds, HistoryInitHolds, BoardInitHolds DEF Init, Inv

\* And every step of the view that is followed keeps it; the others rest.
LEMMA NextKeeps == Inv /\ [Next]_vars => Inv'
<1> SUFFICES ASSUME Inv, [Next]_vars
             PROVE  Inv'
  OBVIOUS
<1>1. /\ [TreeNext]_treeVars
      /\ [HistoryNext]_historyVars
      /\ [BoardNext]_boardVars
  BY DEF Next, InTree, InHistory, OnBoard, vars
<1> QED
  BY <1>1, TreeNextKeeps, HistoryNextKeeps, BoardNextKeeps DEF Inv

\* The invariant holds of every session: what each view shows is of the data and filters of now, and
\* its cursors are on it (Init, TreeNext, HistoryNext and BoardNext of the three views).
THEOREM InvHolds == Spec => []Inv
BY InitHolds, NextKeeps, PTL DEF Spec

\* What is listed is what the data and the choices in force say, for any data, project, threshold,
\* file and query: a refresh, a load or the end of a search leaves nothing old behind (Build and
\* BuildFromSnapshot, rebuildFilteredList and applySearchFilter, SetIssues and its matches).
THEOREM WhatIsShown == Spec => []ShowsCurrent
<1>1. Inv => ShowsCurrent
  BY TreeInvMeans, HistoryInvMeans
     DEF Inv, ShowsCurrent, BoardInv, BoardHonest, MatchesHonest
<1> QED
  BY <1>1, InvHolds, PTL

\* The cursors are on something that is there, and in the tree drawn, whatever a refresh, a filter,
\* a search or a click takes away under them (ensureCursorVisible, the clamps of
\* rebuildFilteredList, filterCommitList and updateActiveColumns).
THEOREM CursorsStay == Spec => []CursorsFit
<1>1. Inv => CursorsFit
  BY TreeInvMeans, HistoryInvMeans
     DEF Inv, CursorsFit, BoardInv, BoardHonest, Fits, BoardCursorFits
<1> QED
  BY <1>1, InvHolds, PTL

\* An issue with one row is open exactly if its file says so, or by default down to the second
\* level, except for what was opened to show an issue (saveState, loadState and ToggleExpand).
THEOREM FoldingIsSaved == Spec => []FoldingSaved
<1>1. Inv => FoldingSaved
  BY TreeInvMeans DEF Inv
<1> QED
  BY <1>1, InvHolds, PTL

\* A snapshot, another threshold or another file keeps what is selected, if it is still listed
\* (BuildFromSnapshot by the issue, rebuildFilteredList by the bead, the board by the card).
THEOREM SelectionStays == Spec => SelectionKept
<1>1. [Next]_vars => [TreeNext]_treeVars /\ [HistoryNext]_historyVars /\ [BoardNext]_boardVars
  BY DEF Next, InTree, InHistory, OnBoard, vars
<1>2. Inv /\ [Next]_vars =>
        [treeUI'.data # treeUI.data /\ treeUI.worker /\ ~treeUI.here /\ HasRows(t)
           /\ (\E k \in DOMAIN t'.flat : Last(t'.flat[k]) = Last(SelectedNode(t)))
         => Last(SelectedNode(t')) = Last(SelectedNode(t))]_treeVars
  <2> SUFFICES ASSUME TreeInv, TreeNext, treeUI'.data # treeUI.data, treeUI.worker,
                      ~treeUI.here, HasRows(t),
                      \E k \in DOMAIN t'.flat : Last(t'.flat[k]) = Last(SelectedNode(t))
               PROVE  Last(SelectedNode(t')) = Last(SelectedNode(t))
    BY <1>1 DEF Inv
  <2> QED
    BY TreeReloads
<1>3. Inv /\ [Next]_vars =>
        [loads' = loads /\ hist'.report = hist.report
           /\ <<hist'.conf, hist'.file>> # <<hist.conf, hist.file>>
           /\ IndexOf(hist'.list, SelectedBeadID(hist)) # {}
         => SelectedBeadID(hist') = SelectedBeadID(hist)]_historyVars
  BY <1>1, HistoryRefilters DEF Inv, KeepsBead
<1>4. Inv /\ [Next]_vars =>
        [boardUI'.load # boardUI.load /\ boardUI.worker /\ boardUI.focus /\ HasCard(board)
           /\ PlacesOf(board', {SelectedCard(board)}) # {}
         => HasCard(board') /\ SelectedCard(board') = SelectedCard(board)]_boardVars
  <2> SUFFICES ASSUME BoardInv, [BoardNext]_boardVars, boardUI'.load # boardUI.load,
                      boardUI.worker, boardUI.focus, HasCard(board),
                      PlacesOf(board', {SelectedCard(board)}) # {}
               PROVE  HasCard(board') /\ SelectedCard(board') = SelectedCard(board)
    BY <1>1 DEF Inv
  <2> QED
    BY BoardLoads, BoardReloads
<1> QED
  BY <1>2, <1>3, <1>4, InvHolds, PTL
     DEF Spec, SelectionKept, TreeKeepsSelection, HistoryKeepsBead, BoardKeepsSelection
================================================================================
