----------------------------- MODULE HistoryProofs -----------------------------
(***************************************************************************)
(* Proofs about MessageHistory for any page sizes and bounds: its types,   *)
(* and, for one server process, that a walk skips no message and gets on.  *)
(* Then about ChatStore, for any peers and requests: messages of one's own *)
(* are shown once, as read only if they were, and a conversation that was  *)
(* opened shows its newest messages until something meets.                 *)
(***************************************************************************)
EXTENDS MCMessageHistory, FiniteSetTheorems, WellFoundedInduction, TLAPS

\* One process draws one value at boot.
OneProcess == \A p, q \in Process : p = q

\* Messages are made in the order of the clock.
Chronological ==
    /\ \A m \in Messages : sent[m].second <= clock
    /\ \A m, k \in Messages : m < k => sent[m].second <= sent[k].second

\* What a walk has yet to return lies before its cursor.
AheadOfCursor ==
    limit # 0 =>
        \A m \in wanted \ deleted : m \in seen \/ cursor = 0 \/ m < cursor

IInv == TypeOK /\ Chronological /\ AheadOfCursor /\ NothingSkipped

-----------------------------------------------------------------------------
\* A finite set of numbers that is not empty has a largest member: the one with
\* the fewest members above it.
LEMMA LargestExists ==
    ASSUME NEW S \in SUBSET Int, IsFiniteSet(S), S # {}
    PROVE  \E m \in S : \A x \in S : x <= m
<1> DEFINE Above(m) == {x \in S : x > m}
           R == StrictSubsetOrdering(S)
           T == {Above(m) : m \in S}
<1>1. IsWellFoundedOn(R, FiniteSubsetsOf(S))
  BY FS_StrictSubsetOrderingWellFounded
<1>2. T \subseteq FiniteSubsetsOf(S)
  BY FS_Subset DEF FiniteSubsetsOf
<1>3. T # {}
  OBVIOUS
<1>4. PICK A \in T : \A B \in T : <<B, A>> \notin R
  BY <1>1, <1>2, <1>3, WFMin
<1>5. PICK m \in S : A = Above(m)
  OBVIOUS
<1>6. ASSUME NEW x \in S, x > m PROVE FALSE
  <2>0. x \in Int /\ m \in Int /\ \A y \in S : y \in Int
    OBVIOUS
  <2>1. /\ \A y \in S : y > x => y > m
        /\ x \in Above(m) /\ x \notin Above(x)
    BY <2>0, <1>6
  <2>2. <<Above(x), Above(m)>> \in R
    BY <2>1, Zenon DEF StrictSubsetOrdering
  <2>3. QED
    BY <1>4, <1>5, <2>2
<1>7. QED
  BY <1>6

\* The newest of a page is the newest of all that was found, whatever the size
\* of the page.
LEMMA NextCursorIsLargest ==
    ASSUME NEW S \in SUBSET Nat, IsFiniteSet(S), S # {}, NEW k \in Nat \ {0}
    PROVE  /\ NextCursor(S, k) \in Newest(S, k)
           /\ \A x \in S : x <= NextCursor(S, k)
<1>1. PICK m \in S : \A x \in S : x <= m
  BY LargestExists
<1>2. {x \in S : x > m} = {}
  <2>1. \A x \in S : ~(x > m)
    BY <1>1
  <2>2. QED
    BY <2>1, Zenon
<1>3. m \in Newest(S, k)
  BY <1>2, FS_EmptySet DEF Newest
<1>4. \A x \in Newest(S, k) : x <= m
  BY <1>1 DEF Newest
<1>5. NextCursor(S, k) = m
  <2>1. Newest(S, k) \subseteq Nat
    BY DEF Newest
  <2>2. \A n \in Newest(S, k) : (\A x \in Newest(S, k) : x <= n) => n = m
    BY <1>3, <1>4, <2>1
  <2>3. QED
    BY <1>3, <1>4, <2>2, Zenon DEF NextCursor, Latest
<1>6. QED
  BY <1>1, <1>3, <1>5

\* A page that is not cut off holds all that was found.
LEMMA WholePage ==
    ASSUME NEW S \in SUBSET Nat, IsFiniteSet(S), NEW k \in Nat, Cardinality(S) <= k
    PROVE  Newest(S, k) = S
<1>1. ASSUME NEW m \in S PROVE Cardinality({x \in S : x > m}) < k
  <2> DEFINE A == {x \in S : x > m}
  <2>1. A \in SUBSET S /\ A # S
    OBVIOUS
  <2>2. /\ Cardinality(A) <= Cardinality(S)
        /\ Cardinality(A) # Cardinality(S)
        /\ IsFiniteSet(A)
    BY <2>1, FS_Subset
  <2>3. Cardinality(A) \in Nat /\ Cardinality(S) \in Nat
    BY <2>2, FS_CardinalityType
  <2>4. QED
    BY <2>2, <2>3
<1>2. QED
  BY <1>1 DEF Newest

LEMMA FoundIsFinite ==
    ASSUME TypeOK
    PROVE  Found(cursor) \in SUBSET Nat /\ IsFiniteSet(Found(cursor))
<1>1. Found(cursor) \in SUBSET (1 .. Len(sent)) /\ Len(sent) \in Nat
  BY DEF Found, Live, Messages, TypeOK
<1>2. IsFiniteSet(1 .. Len(sent))
  BY <1>1, FS_Interval
<1>3. IsFiniteSet(Found(cursor))
  BY <1>1, <1>2, FS_Subset
<1>4. QED
  BY <1>1, <1>3

-----------------------------------------------------------------------------
\* Nothing is there before the first message.
LEMMA InitIInv == Init => IInv
BY ProcessAssumption, LimitAssumption, BoundAssumption
DEF Init, IInv, TypeOK, Messages, Chronological, AheadOfCursor, NothingSkipped

\* With one process, messages are found in the order they were made.
LEMMA IdsAscend ==
    ASSUME OneProcess, TypeOK, Chronological, NEW m \in Messages, NEW k \in Messages
    PROVE  IdLess(m, k) <=> m < k
<1>1. /\ m \in Nat /\ k \in Nat
      /\ sent[m] \in [second : 0..MaxSeconds, process : Process]
      /\ sent[k] \in [second : 0..MaxSeconds, process : Process]
  <2> DEFINE Made == [second : 0..MaxSeconds, process : Process]
  <2>1. sent \in Seq(Made) /\ m \in 1..Len(sent) /\ k \in 1..Len(sent)
    BY DEF TypeOK, Messages
  <2> HIDE DEF Made
  <2>2. m \in Nat /\ k \in Nat /\ sent[m] \in Made /\ sent[k] \in Made
    BY <2>1
  <2>3. QED
    BY <2>2 DEF Made
<1>2. sent[m].process = sent[k].process
  BY <1>1 DEF OneProcess
<1>3. sent[m].second \in Nat /\ sent[k].second \in Nat /\ sent[m].process \in Nat
  <2>1. 0..MaxSeconds \subseteq Nat
    BY BoundAssumption
  <2>2. /\ sent[m].second \in 0..MaxSeconds /\ sent[k].second \in 0..MaxSeconds
        /\ sent[m].process \in Process
    BY <1>1
  <2>3. QED
    BY <2>1, <2>2, ProcessAssumption, Zenon
<1>4. sent[m].second = sent[k].second => sent[m] = sent[k]
  BY <1>1, <1>2
<1>5. /\ m < k => sent[m].second <= sent[k].second
      /\ k < m => sent[k].second <= sent[m].second
  BY DEF Chronological
<1>6. QED
  BY <1>1, <1>2, <1>3, <1>4, <1>5 DEF IdLess

\* Whatever a page returns, the walk keeps its types.
LEMMA PageKeepsTypes ==
    ASSUME TypeOK, FetchPage
    PROVE  TypeOK'
<1> DEFINE found == Found(cursor)
<1>1. /\ found \in SUBSET Nat /\ IsFiniteSet(found) /\ found \subseteq Messages
      /\ limit \in Nat \ {0}
  BY FoundIsFinite, LimitAssumption DEF FetchPage, TypeOK, Found, Live
<1>2. Newest(found, limit) \subseteq found
  BY DEF Newest
<1>3. Cardinality(found) > limit => NextCursor(found, limit) \in Newest(found, limit)
  <2>1. Cardinality(found) > limit => found # {}
    BY <1>1, FS_EmptySet
  <2>2. QED
    BY <1>1, <2>1, NextCursorIsLargest
<1>4. cursor' \in seen' \cup {0} /\ limit' \in Limit \cup {0}
  BY <1>3 DEF FetchPage, TypeOK
<1>5. seen' \subseteq Messages
  BY <1>1, <1>2 DEF FetchPage, TypeOK
<1>6. QED
  BY <1>4, <1>5 DEF FetchPage, TypeOK, Messages

\* Every message sent, deleted or fetched, and every tick, keeps the types.
LEMMA NextTypeOK == TypeOK /\ [Next]_vars => TypeOK'
<1> SUFFICES ASSUME TypeOK, [Next]_vars PROVE TypeOK'
  OBVIOUS
<1> USE BoundAssumption, LimitAssumption
<1>1. CASE Second
  BY <1>1 DEF Second, walk, TypeOK, Messages
<1>2. ASSUME NEW p \in Process, Send(p) PROVE TypeOK'
  <2>1. Len(sent') = Len(sent) + 1 /\ Len(sent) \in Nat
    BY <1>2 DEF Send, TypeOK
  <2>2. Messages \subseteq Messages'
    BY <2>1 DEF Messages
  <2>3. sent' \in Seq([second : 0..MaxSeconds, process : Process])
    BY <1>2 DEF Send, TypeOK
  <2>4. QED
    BY <1>2, <2>2, <2>3 DEF Send, walk, TypeOK
<1>3. ASSUME NEW m \in Messages, Delete(m) PROVE TypeOK'
  BY <1>3 DEF Delete, Live, walk, TypeOK, Messages
<1>4. ASSUME NEW k \in Limit, Start(k) PROVE TypeOK'
  BY <1>4 DEF Start, Live, TypeOK, Messages
<1>5. CASE FetchPage
  BY <1>5, PageKeepsTypes
<1>6. CASE UNCHANGED vars
  BY <1>6 DEF vars, walk, TypeOK, Messages
<1>7. QED
  BY <1>1, <1>2, <1>3, <1>4, <1>5, <1>6 DEF Next

\* Types hold for any number of processes, page sizes and messages; in
\* particular the cursor is always a message the walk has returned.
THEOREM TypeCorrect == Spec => []TypeOK
<1>1. Init => TypeOK
  BY InitIInv DEF IInv
<1>2. QED
  BY <1>1, NextTypeOK, PTL DEF Spec

-----------------------------------------------------------------------------
\* A page moves the cursor past nothing it has not returned, and the last page
\* returns all that is left.
LEMMA PageSkipsNothing ==
    ASSUME OneProcess, IInv, FetchPage
    PROVE  AheadOfCursor' /\ NothingSkipped'
<1> DEFINE found == Found(cursor)
<1>1. /\ found \in SUBSET Nat /\ IsFiniteSet(found)
      /\ limit \in Nat \ {0} /\ Cardinality(found) \in Nat
  BY FoundIsFinite, FS_CardinalityType, LimitAssumption DEF FetchPage, IInv, TypeOK
<1>2. \A m \in wanted \ deleted : m \in seen \/ m \in found
  <2> SUFFICES ASSUME NEW m \in wanted \ deleted, m \notin seen PROVE m \in found
    OBVIOUS
  <2>1. m \in Live /\ m \in Messages
    BY DEF IInv, TypeOK, Live
  <2>2. cursor = 0 \/ m < cursor
    BY DEF IInv, AheadOfCursor, FetchPage
  <2>3. cursor # 0 => cursor \in Messages
    BY DEF IInv, TypeOK
  <2>4. cursor # 0 => IdLess(m, cursor)
    BY <2>1, <2>2, <2>3, IdsAscend DEF IInv
  <2>5. QED
    BY <2>1, <2>4 DEF Found
<1>3. seen' = seen \cup Newest(found, limit) /\ wanted' = wanted /\ deleted' = deleted
  BY DEF FetchPage
<1>4. CASE Cardinality(found) > limit
  <2>1. found # {}
    BY <1>1, <1>4, FS_EmptySet
  <2>2. /\ NextCursor(found, limit) \in Newest(found, limit)
        /\ \A x \in found : x <= NextCursor(found, limit)
    BY <1>1, <2>1, NextCursorIsLargest
  <2>3. cursor' = NextCursor(found, limit) /\ limit' = limit
    BY <1>4 DEF FetchPage
  <2>4. \A m \in found : m \in seen' \/ m < cursor'
    <3> SUFFICES ASSUME NEW m \in found, m \notin seen' PROVE m < cursor'
      OBVIOUS
    <3>1. m # cursor' /\ m <= cursor'
      BY <1>3, <2>2, <2>3
    <3>2. m \in Nat /\ cursor' \in Nat
      BY <1>1, <2>2, <2>3 DEF Newest
    <3>3. QED
      BY <3>1, <3>2
  <2>5. QED
    BY <1>1, <1>2, <1>3, <2>3, <2>4 DEF AheadOfCursor, NothingSkipped
<1>5. CASE ~(Cardinality(found) > limit)
  <2>1. Newest(found, limit) = found
    BY <1>1, <1>5, WholePage
  <2>2. limit' = 0
    BY <1>5 DEF FetchPage
  <2>3. QED
    BY <1>2, <1>3, <2>1, <2>2 DEF AheadOfCursor, NothingSkipped
<1>6. QED
  BY <1>4, <1>5

\* With one process every step keeps the invariant: new messages are the
\* latest, and a deletion takes a message out of what is wanted.
LEMMA NextIInv == OneProcess /\ IInv /\ [Next]_vars => IInv'
<1> SUFFICES ASSUME OneProcess, IInv, [Next]_vars PROVE IInv'
  OBVIOUS
<1>1. TypeOK /\ TypeOK'
  BY NextTypeOK DEF IInv
<1>2. Chronological /\ AheadOfCursor /\ NothingSkipped
  BY DEF IInv
<1>3. clock \in Nat /\ Len(sent) \in Nat
  BY <1>1, BoundAssumption DEF TypeOK
<1>4. \A m \in Messages : sent[m].second \in Nat
  <2> SUFFICES ASSUME NEW m \in Messages PROVE sent[m].second \in Nat
    OBVIOUS
  <2> DEFINE Made == [second : 0..MaxSeconds, process : Process]
  <2>0. sent \in Seq(Made) /\ m \in 1..Len(sent)
    BY <1>1 DEF TypeOK, Messages
  <2> HIDE DEF Made
  <2>1. sent[m] \in Made
    BY <2>0
  <2>2. QED
    BY <2>1, BoundAssumption DEF Made
<1>5. CASE Second
  BY <1>1, <1>2, <1>3, <1>4, <1>5
  DEF Second, walk, IInv, Messages, Chronological, AheadOfCursor, NothingSkipped
<1>6. ASSUME NEW p \in Process, Send(p) PROVE IInv'
  <2>1. /\ Len(sent') = Len(sent) + 1
        /\ \A m \in Messages : sent'[m] = sent[m]
        /\ sent'[Len(sent) + 1].second = clock
    BY <1>1, <1>3, <1>6 DEF Send, TypeOK, Messages
  <2>2. Messages' = Messages \cup {Len(sent) + 1}
    BY <1>3, <2>1 DEF Messages
  <2>3. Chronological'
    BY <1>2, <1>3, <1>4, <1>6, <2>1, <2>2 DEF Send, Messages, Chronological
  <2>4. AheadOfCursor' /\ NothingSkipped'
    BY <1>2, <1>6 DEF Send, walk, AheadOfCursor, NothingSkipped
  <2>5. QED
    BY <1>1, <2>3, <2>4 DEF IInv
<1>7. ASSUME NEW m \in Messages, Delete(m) PROVE IInv'
  BY <1>1, <1>2, <1>7
  DEF Delete, walk, IInv, Messages, Chronological, AheadOfCursor, NothingSkipped
<1>8. ASSUME NEW k \in Limit, Start(k) PROVE IInv'
  <2>1. k # 0
    BY LimitAssumption
  <2>2. QED
    BY <1>1, <1>2, <1>8, <2>1
    DEF Start, IInv, Messages, Chronological, AheadOfCursor, NothingSkipped
<1>9. CASE FetchPage
  <2>1. AheadOfCursor' /\ NothingSkipped'
    BY <1>9, PageSkipsNothing
  <2>2. Chronological'
    BY <1>2, <1>9 DEF FetchPage, Chronological, Messages
  <2>3. QED
    BY <1>1, <2>1, <2>2 DEF IInv
<1>10. CASE UNCHANGED vars
  BY <1>1, <1>2, <1>10
  DEF vars, walk, IInv, Messages, Chronological, AheadOfCursor, NothingSkipped
<1>11. QED
  BY <1>5, <1>6, <1>7, <1>8, <1>9, <1>10 DEF Next

\* With one process, whatever page sizes, messages and deletions: a reader who
\* follows nextCursor to the end has been given every message that was there
\* at the start and was not deleted.  The cursor that sits at the wrong end of
\* the page costs repeated rows and no message.
THEOREM WalkSkipsNothing ==
    ASSUME OneProcess
    PROVE  Spec => []NothingSkipped
<1>1. Init => IInv
  BY InitIInv
<1>2. IInv /\ [Next]_vars => IInv'
  BY NextIInv
<1>3. IInv => NothingSkipped
  BY DEF IInv
<1>4. QED
  BY <1>1, <1>2, <1>3, PTL DEF Spec

-----------------------------------------------------------------------------
\* What a walk has not passed, and what of it the next page will repeat.
Before == {m \in Live : cursor # 0 => m < cursor}
Again == seen \cap Before

\* A page repeats the newest of what is before its cursor, and fewer than it has
\* rows.
Repeats ==
    limit # 0 =>
        /\ cursor = 0 => seen = {}
        /\ \A m \in Again : \A x \in Before : x > m => x \in seen
        /\ Cardinality(Again) < limit

PInv == TypeOK /\ Chronological /\ Repeats

LEMMA FoundIsBefore ==
    ASSUME OneProcess, TypeOK, Chronological
    PROVE  Found(cursor) = Before
<1>1. cursor # 0 => cursor \in Messages
  BY DEF TypeOK
<1>2. \A m \in Live : m \in Messages
  BY DEF Live
<1>3. \A m \in Live : cursor # 0 => (IdLess(m, cursor) <=> m < cursor)
  BY <1>1, <1>2, IdsAscend
<1>4. QED
  BY <1>3, Zenon DEF Found, Before

\* ... and a smallest one, the one with the fewest members below it.
LEMMA SmallestExists ==
    ASSUME NEW S \in SUBSET Nat, IsFiniteSet(S), S # {}
    PROVE  \E m \in S : \A x \in S : m <= x
<1> DEFINE Below(m) == {x \in S : x < m}
           R == StrictSubsetOrdering(S)
           T == {Below(m) : m \in S}
<1>1. IsWellFoundedOn(R, FiniteSubsetsOf(S))
  BY FS_StrictSubsetOrderingWellFounded
<1>2. T \subseteq FiniteSubsetsOf(S)
  BY FS_Subset DEF FiniteSubsetsOf
<1>3. T # {}
  OBVIOUS
<1>4. PICK A \in T : \A B \in T : <<B, A>> \notin R
  BY <1>1, <1>2, <1>3, WFMin
<1>5. PICK m \in S : A = Below(m)
  OBVIOUS
<1>6. ASSUME NEW x \in S, x < m PROVE FALSE
  <2>0. x \in Nat /\ m \in Nat /\ \A y \in S : y \in Nat
    OBVIOUS
  <2>1. /\ \A y \in S : y < x => y < m
        /\ x \in Below(m) /\ x \notin Below(x)
    BY <2>0, <1>6
  <2>2. <<Below(x), Below(m)>> \in R
    BY <2>1, Zenon DEF StrictSubsetOrdering
  <2>3. QED
    BY <1>4, <1>5, <2>2
<1>7. QED
  BY <1>6

\* No page has more rows than were asked for: those above its oldest are fewer.
LEMMA PageIsShort ==
    ASSUME NEW S \in SUBSET Nat, IsFiniteSet(S), NEW k \in Nat \ {0}
    PROVE  /\ IsFiniteSet(Newest(S, k))
           /\ Cardinality(Newest(S, k)) <= k
<1> DEFINE N == Newest(S, k)
<1>1. N \subseteq S /\ IsFiniteSet(N) /\ Cardinality(N) \in Nat
  BY FS_Subset, FS_CardinalityType DEF Newest
<1>2. CASE N = {}
  BY <1>1, <1>2, FS_EmptySet
<1>3. CASE N # {}
  <2>1. N \in SUBSET Nat
    BY <1>1
  <2>2. PICK m \in N : \A x \in N : m <= x
    BY <1>1, <1>3, <2>1, SmallestExists
  <2>4. \A x \in N : x \in Nat /\ m \in Nat /\ m <= x
    BY <2>1, <2>2
  <2> DEFINE A == {x \in S : x > m}
  <2>5. N \ {m} \subseteq A
    BY <1>1, <2>4
  <2>6. Cardinality(A) < k
    BY DEF Newest
  <2>7. IsFiniteSet(A) /\ Cardinality(A) \in Nat
    BY FS_Subset, FS_CardinalityType
  <2>8. Cardinality(N \ {m}) <= Cardinality(A)
    BY <2>5, <2>7, FS_Subset
  <2>9. Cardinality(N \ {m}) = Cardinality(N) - 1
    BY <1>1, FS_RemoveElement
  <2>10. QED
    BY <1>1, <2>6, <2>7, <2>8, <2>9
<1>4. QED
  BY <1>2, <1>3

LEMMA BeforeIsFinite ==
    ASSUME TypeOK
    PROVE  /\ Before \in SUBSET Nat /\ IsFiniteSet(Before)
           /\ Again \in SUBSET Nat /\ IsFiniteSet(Again) /\ Cardinality(Again) \in Nat
<1>1. Before \in SUBSET (1 .. Len(sent)) /\ Len(sent) \in Nat
  BY DEF Before, Live, Messages, TypeOK
<1>2. IsFiniteSet(1 .. Len(sent))
  BY <1>1, FS_Interval
<1>3. IsFiniteSet(Before)
  BY <1>1, <1>2, FS_Subset
<1>4. Again \subseteq Before
  BY DEF Again
<1>5. Before \in SUBSET Nat /\ Again \in SUBSET Nat
  BY <1>1, <1>4
<1>6. IsFiniteSet(Again) /\ Cardinality(Again) \in Nat
  BY <1>3, <1>4, FS_Subset, FS_CardinalityType
<1>7. QED
  BY <1>3, <1>5, <1>6

\* The next page begins with all it repeats, and the page after it repeats the
\* rows of this one but its newest.
LEMMA PageRepeats ==
    ASSUME OneProcess, PInv, FetchPage, limit' # 0
    PROVE  Repeats'
<1> DEFINE page == Newest(Before, limit)
<1>1. /\ TypeOK /\ Before \in SUBSET Nat /\ IsFiniteSet(Before) /\ Before \subseteq Messages
      /\ Again \in SUBSET Nat /\ IsFiniteSet(Again) /\ Cardinality(Again) \in Nat
      /\ limit \in Nat \ {0}
  BY BeforeIsFinite, LimitAssumption DEF PInv, FetchPage, TypeOK, Before, Live
<1>2. /\ Cardinality(Before) > limit
      /\ seen' = seen \cup page /\ cursor' = NextCursor(Before, limit) /\ limit' = limit
      /\ sent' = sent /\ deleted' = deleted
  BY FoundIsBefore DEF PInv, FetchPage
<1>3. Before # {}
  BY <1>1, <1>2, FS_EmptySet
<1>4. /\ cursor' \in page
      /\ page \subseteq Before
      /\ cursor' \in Before /\ cursor' \in Nat /\ cursor' # 0
  <2>1. cursor' \in page /\ page \subseteq Before
    BY <1>1, <1>2, <1>3, NextCursorIsLargest DEF Newest
  <2>2. cursor' \in Messages
    BY <1>1, <2>1
  <2>3. QED
    BY <1>1, <2>1, <2>2 DEF Messages
<1>5. Live' = Live /\ Before' = {m \in Live : m < cursor'}
  BY <1>2, <1>4 DEF Live, Messages, Before
<1>6. Before' \subseteq Before
  <2> SUFFICES ASSUME NEW m \in Live, m < cursor', cursor # 0 PROVE m < cursor
    BY <1>5 DEF Before
  <2>1. cursor' < cursor
    BY <1>4 DEF Before
  <2>2. m \in Nat /\ cursor \in Nat
    BY <1>1 DEF Live, Messages, TypeOK
  <2>3. QED
    BY <1>4, <2>1, <2>2
<1>7. \A m \in Before : IsFiniteSet({x \in Before : x > m})
                         /\ Cardinality({x \in Before : x > m}) \in Nat
  BY <1>1, FS_Subset, FS_CardinalityType
<1>8. Again \subseteq page
  <2> SUFFICES ASSUME NEW m \in Again PROVE m \in page
    OBVIOUS
  <2>1. {x \in Before : x > m} \subseteq Again
    BY <1>2 DEF PInv, Repeats, Again, FetchPage
  <2>2. Cardinality({x \in Before : x > m}) <= Cardinality(Again)
    BY <1>1, <2>1, FS_Subset
  <2>3. Cardinality(Again) < limit /\ m \in Before
    BY DEF PInv, Repeats, Again, FetchPage
  <2>4. QED
    BY <1>1, <1>7, <2>2, <2>3 DEF Newest
<1>9. Again' \subseteq page \ {cursor'}
  BY <1>2, <1>5, <1>6, <1>8, <1>4 DEF Again
<1>10. Cardinality(Again') < limit
  <2>1. IsFiniteSet(page) /\ Cardinality(page) <= limit /\ Cardinality(page) \in Nat
    BY <1>1, PageIsShort, FS_CardinalityType
  <2>2. /\ Cardinality(page \ {cursor'}) = Cardinality(page) - 1
        /\ IsFiniteSet(page \ {cursor'})
    BY <1>4, <2>1, FS_RemoveElement
  <2>3. Cardinality(Again') <= Cardinality(page \ {cursor'}) /\ Cardinality(Again') \in Nat
    BY <1>9, <2>2, FS_Subset, FS_CardinalityType
  <2>4. QED
    BY <1>1, <2>1, <2>2, <2>3
<1>11. \A m \in Again' : \A x \in Before' : x > m => x \in page
  <2> SUFFICES ASSUME NEW m \in Again', NEW x \in Before', x > m PROVE x \in page
    OBVIOUS
  <2>1. m \in Before /\ x \in Before /\ m \in page
    BY <1>4, <1>6, <1>9
  <2>2. {y \in Before : y > x} \subseteq {y \in Before : y > m}
    <3>1. m \in Nat /\ x \in Nat /\ \A y \in Before : y \in Nat
      BY <1>1, <2>1
    <3>2. \A y \in Before : y > x => y > m
      BY <3>1
    <3>3. QED
      BY <3>2
  <2>3. Cardinality({y \in Before : y > x}) <= Cardinality({y \in Before : y > m})
    BY <1>7, <2>1, <2>2, FS_Subset
  <2>4. Cardinality({y \in Before : y > m}) < limit
    BY <2>1 DEF Newest
  <2>5. QED
    BY <1>1, <1>7, <2>1, <2>3, <2>4 DEF Newest
<1>12. QED
  BY <1>2, <1>4, <1>10, <1>11 DEF Repeats

\* With one process every step keeps what the next page repeats: new messages
\* come after the cursor, and a deletion leaves fewer to repeat.
LEMMA NextPInv == OneProcess /\ IInv /\ PInv /\ [Next]_vars => Repeats'
<1> SUFFICES ASSUME OneProcess, IInv, PInv, [Next]_vars, limit' # 0 PROVE Repeats'
  BY DEF Repeats
<1>1. /\ TypeOK /\ TypeOK' /\ Repeats
      /\ Again \in SUBSET Nat /\ IsFiniteSet(Again) /\ Cardinality(Again) \in Nat
  BY NextTypeOK, BeforeIsFinite DEF PInv
<1>2. CASE Second
  BY <1>1, <1>2 DEF Second, walk, Repeats, Again, Before, Live, Messages
<1>3. ASSUME NEW p \in Process, Send(p) PROVE Repeats'
  <2>1. /\ Len(sent') = Len(sent) + 1 /\ Len(sent) \in Nat
        /\ deleted' = deleted /\ cursor' = cursor /\ seen' = seen /\ limit' = limit
    BY <1>1, <1>3 DEF Send, walk, TypeOK
  <2>2. cursor # 0 => Before' = Before
    <3> SUFFICES ASSUME cursor # 0 PROVE Before' = Before
      OBVIOUS
    <3>1. cursor \in 1 .. Len(sent)
      BY <1>1 DEF TypeOK, Messages
    <3>2. \A m : m < cursor /\ m \in 1 .. (Len(sent) + 1) => m \in 1 .. Len(sent)
      BY <2>1, <3>1
    <3>3. QED
      BY <2>1, <3>1, <3>2 DEF Before, Live, Messages
  <2>3. CASE cursor = 0
    <3>1. Again' = {}
      BY <1>1, <2>1, <2>3 DEF Repeats, Again
    <3>2. limit \in Nat \ {0}
      BY <1>1, <2>1, LimitAssumption DEF TypeOK
    <3>3. Cardinality(Again') < limit
      BY <3>1, <3>2, FS_EmptySet
    <3>4. QED
      BY <1>1, <2>1, <2>3, <3>1, <3>3 DEF Repeats
  <2>4. CASE cursor # 0
    BY <1>1, <2>1, <2>2, <2>4 DEF Repeats, Again
  <2>5. QED
    BY <2>3, <2>4
<1>4. ASSUME NEW d \in Messages, Delete(d) PROVE Repeats'
  <2>1. /\ sent' = sent /\ cursor' = cursor /\ seen' = seen /\ limit' = limit
        /\ Live' \subseteq Live
    BY <1>4 DEF Delete, walk, Live, Messages
  <2>2. Before' \subseteq Before /\ Again' \subseteq Again
    BY <2>1 DEF Before, Again
  <2>3. Cardinality(Again') <= Cardinality(Again) /\ Cardinality(Again') \in Nat
    BY <1>1, <2>2, FS_Subset, FS_CardinalityType
  <2>4. limit \in Nat
    BY <1>1, LimitAssumption DEF TypeOK
  <2>5. Cardinality(Again') < limit
    BY <1>1, <2>1, <2>3, <2>4 DEF Repeats
  <2>6. QED
    BY <1>1, <2>1, <2>2, <2>5 DEF Repeats
<1>5. ASSUME NEW k \in Limit, Start(k) PROVE Repeats'
  <2>1. Again' = {} /\ limit' = k /\ seen' = {}
    BY <1>5 DEF Start, Again
  <2>2. Cardinality(Again') < limit'
    BY <2>1, LimitAssumption, FS_EmptySet
  <2>3. QED
    BY <2>1, <2>2 DEF Repeats
<1>6. CASE FetchPage
  BY <1>6, PageRepeats
<1>7. CASE UNCHANGED vars
  BY <1>1, <1>7 DEF vars, walk, Repeats, Again, Before, Live, Messages
<1>8. QED
  BY <1>2, <1>3, <1>4, <1>5, <1>6, <1>7 DEF Next

\* The newest message before the cursor that was not returned yet is on the page.
LEMMA RepeatsAdvance == OneProcess /\ PInv => WalkAdvances
<1> SUFFICES ASSUME OneProcess, PInv, limit # 0, Cardinality(Found(cursor)) > limit,
                    Newest(Found(cursor), limit) \subseteq seen
             PROVE  FALSE
  BY DEF WalkAdvances
<1> DEFINE New == Before \ seen
<1>1. /\ TypeOK /\ Before \in SUBSET Nat /\ IsFiniteSet(Before)
      /\ Again \in SUBSET Nat /\ IsFiniteSet(Again) /\ Cardinality(Again) \in Nat
      /\ limit \in Nat \ {0} /\ Cardinality(Again) < limit
  BY BeforeIsFinite, LimitAssumption DEF PInv, TypeOK, Repeats
<1>2. Cardinality(Before) > limit /\ Newest(Before, limit) \subseteq seen
  BY FoundIsBefore DEF PInv
<1>3. New # {}
  <2>1. New = {} => Before = Again
    BY DEF Again
  <2>2. QED
    BY <1>1, <1>2, <2>1
<1>4. New \in SUBSET Int /\ IsFiniteSet(New)
  <2>1. New \subseteq Before /\ \A x \in Before : x \in Int
    BY <1>1
  <2>2. QED
    BY <1>1, <2>1, FS_Subset
<1>5. PICK m \in New : \A x \in New : x <= m
  BY <1>3, <1>4, LargestExists
<1>6. {x \in Before : x > m} \subseteq Again
  BY <1>1, <1>5 DEF Again
<1>7. /\ Cardinality({x \in Before : x > m}) <= Cardinality(Again)
      /\ Cardinality({x \in Before : x > m}) \in Nat
  BY <1>1, <1>6, FS_Subset, FS_CardinalityType
<1>8. m \in Newest(Before, limit)
  BY <1>1, <1>5, <1>7 DEF Newest
<1>9. QED
  BY <1>2, <1>5, <1>8

\* With one process every page of a walk but the last returns a message that the
\* walk has not returned, whatever the page sizes and whatever is sent and
\* deleted: repeated rows do not hold a reader up for ever.
THEOREM WalkAlwaysAdvances ==
    ASSUME OneProcess
    PROVE  Spec => []WalkAdvances
<1>1. Init => IInv /\ PInv
  <2>1. Init => Repeats
    BY DEF Init, Repeats
  <2>2. QED
    BY <2>1, InitIInv DEF IInv, PInv
<1>2. IInv /\ PInv /\ [Next]_vars => IInv' /\ PInv'
  BY NextIInv, NextPInv DEF IInv, PInv
<1>3. PInv => WalkAdvances
  BY RepeatsAdvance
<1>4. QED
  BY <1>1, <1>2, <1>3, PTL DEF Spec
-----------------------------------------------------------------------------
(* The messages of a tab. *)

StoreMessage == [with : Peer, fromPeer : BOOLEAN, read : BOOLEAN]
NewEvent  == [event : {"newMessage"}, msg : Nat]
ReadEvent == [event : {"messagesRead"}, ids : SUBSET Nat]

StoreTyped ==
    /\ stored \in Seq(StoreMessage) /\ Len(stored) <= MaxStored
    /\ unsent \subseteq DOMAIN stored /\ \A m \in unsent : stored[m].fromPeer
    /\ marking \subseteq Peer
    /\ selectedUser \in Peer \cup {Store!Nobody}
    /\ isMessagesLoading \in BOOLEAN /\ connected \in BOOLEAN
    /\ faults \in 0..MaxFaults

\* Rows, on the screen or on their way to it: messages there are, one's own once each,
\* and read ones only if they have been read.
RowsOK(rows) ==
    /\ rows \in Seq([msg : DOMAIN stored, read : BOOLEAN])
    /\ \A i, j \in DOMAIN rows :
          i # j /\ rows[i].msg = rows[j].msg => stored[rows[i].msg].fromPeer
    /\ \A i \in DOMAIN rows : rows[i].read => stored[rows[i].msg].read

\* A request holds rows that may be put on the screen.
Holds(q) ==
    /\ q.at \in {"idle", "sent", "answered"}
    /\ q.at = "idle" => q = Store!Idle
    /\ q.at # "idle" => q.kind \in {"get", "send"}
    /\ q.at = "sent" => q.with \in Peer
    /\ q.at = "sent" /\ q.kind = "send" => RowsOK(q.captured)
    /\ q.at = "answered" /\ q.kind = "get" => RowsOK(q.page) /\ Len(q.page) <= PageSize
    /\ q.at = "answered" /\ q.kind = "send" => RowsOK(Append(q.captured, q.row))

\* An event tells of a message of a peer, or of messages that were read.
True(e) ==
    /\ e.event = "newMessage" => e.msg \in DOMAIN stored /\ stored[e.msg].fromPeer
    /\ e.event = "messagesRead" => \A m \in e.ids : m \in DOMAIN stored /\ stored[m].read

InboxOK ==
    /\ inbox \in Seq(NewEvent \cup ReadEvent)
    /\ \A i \in DOMAIN inbox : True(inbox[i])

Announcing(i, m) == inbox[i].event = "newMessage" /\ inbox[i].msg = m

\* A message is announced once, and a badge counts only what has been announced.
AnnouncedOnce ==
    /\ \A i, j \in DOMAIN inbox, m \in DOMAIN stored : Announcing(i, m) /\ Announcing(j, m) => i = j
    /\ \A i \in DOMAIN inbox, m \in unsent : ~Announcing(i, m)
Announced(p) ==
    {m \in DOMAIN stored : /\ stored[m].with = p /\ m \notin unsent
                           /\ \A i \in DOMAIN inbox : ~Announcing(i, m)}
CountsOK ==
    /\ unreadCounts \in [Peer -> Nat]
    /\ \A p \in Peer : unreadCounts[p] <= Cardinality(Announced(p))

StoreInv ==
    /\ StoreTyped /\ InboxOK /\ AnnouncedOnce /\ CountsOK
    /\ RowsOK(messages)
    /\ DOMAIN req = Slot /\ \A s \in Slot : Holds(req[s])

LEMMA StoreConstants ==
    /\ PageSize \in Nat \ {0} /\ MaxStored \in Nat /\ MaxEvents \in Nat /\ MaxFaults \in Nat
    /\ "nobody" \notin Peer
BY StoreAssumption DEF Store!Nobody

USE StoreConstants DEF Store!Nobody

LEMMA SeqMembers ==
    ASSUME NEW S, NEW q \in Seq(S)
    PROVE  Len(q) \in Nat /\ DOMAIN q = 1..Len(q) /\ \A i \in DOMAIN q : q[i] \in S
OBVIOUS

LEMMA SeqMade ==
    ASSUME NEW S, NEW n \in Nat, NEW q, q = [i \in 1..n |-> q[i]], \A i \in 1..n : q[i] \in S
    PROVE  q \in Seq(S) /\ Len(q) = n
OBVIOUS

\* Messages are added and read, and nothing else happens to them.
Grown ==
    /\ DOMAIN stored \subseteq DOMAIN stored'
    /\ \A m \in DOMAIN stored : /\ stored'[m].with = stored[m].with
                                /\ stored'[m].fromPeer = stored[m].fromPeer
                                /\ stored[m].read => stored'[m].read

Added(p, fromPeer) ==
    /\ Len(stored) < MaxStored
    /\ stored' = Append(stored, [with |-> p, fromPeer |-> fromPeer, read |-> FALSE])

LEMMA AddedGrows ==
    ASSUME stored \in Seq(StoreMessage), NEW p \in Peer, NEW b \in BOOLEAN, Added(p, b)
    PROVE  /\ Grown /\ stored' \in Seq(StoreMessage) /\ Len(stored') <= MaxStored
           /\ Len(stored') = Len(stored) + 1 /\ Len(stored) + 1 \in DOMAIN stored'
           /\ Len(stored) + 1 \notin DOMAIN stored
           /\ DOMAIN stored' = DOMAIN stored \cup {Len(stored) + 1}
           /\ stored'[Len(stored) + 1] = [with |-> p, fromPeer |-> b, read |-> FALSE]
           /\ \A m \in DOMAIN stored : stored'[m] = stored[m]
<1> DEFINE new == [with |-> p, fromPeer |-> b, read |-> FALSE]
<1>1. new \in StoreMessage
  BY DEF StoreMessage
<1>2. stored' = Append(stored, new) /\ Len(stored) < MaxStored /\ Len(stored) \in Nat
  BY DEF Added
<1> HIDE DEF new
<1>3. /\ stored' \in Seq(StoreMessage) /\ Len(stored') = Len(stored) + 1
      /\ DOMAIN stored = 1..Len(stored) /\ DOMAIN stored' = 1..(Len(stored) + 1)
      /\ stored'[Len(stored) + 1] = new
      /\ \A m \in 1..Len(stored) : stored'[m] = stored[m]
  BY <1>1, <1>2
<1>4. QED
  BY <1>2, <1>3 DEF Grown, new

LEMMA MarkedGrows ==
    ASSUME StoreTyped, NEW p \in Peer, Store!PeerMarks(p)
    PROVE  /\ Grown /\ stored' \in Seq(StoreMessage) /\ DOMAIN stored' = DOMAIN stored
           /\ Len(stored') = Len(stored)
<1>1. PICK S : S = Store!SentTo(p)
  OBVIOUS
<1>2. stored' = [m \in DOMAIN stored |-> [stored[m] EXCEPT !.read = @ \/ m \in S]]
  BY <1>1 DEF Store!PeerMarks
<1>3. Len(stored) \in Nat /\ DOMAIN stored = 1..Len(stored) /\ \A m \in DOMAIN stored : stored[m] \in StoreMessage
  BY DEF StoreTyped
<1>4. \A m \in DOMAIN stored : /\ stored'[m] \in StoreMessage
                               /\ stored'[m].with = stored[m].with
                               /\ stored'[m].fromPeer = stored[m].fromPeer
                               /\ stored[m].read => stored'[m].read
  BY <1>2, <1>3 DEF StoreMessage
<1>5. stored' \in [1..Len(stored) -> StoreMessage]
  BY <1>2, <1>3, <1>4
<1>6. QED
  BY <1>2, <1>3, <1>4, <1>5 DEF Grown

\* What is known of messages stays known of them.
LEMMA RowsStay ==
    ASSUME Grown, NEW rows, RowsOK(rows)
    PROVE  RowsOK(rows)'
<1>1. rows \in Seq([msg : DOMAIN stored, read : BOOLEAN])
  BY DEF RowsOK
<1>2. /\ \A i \in DOMAIN rows : rows[i] \in [msg : DOMAIN stored, read : BOOLEAN]
      /\ Len(rows) \in Nat /\ DOMAIN rows = 1..Len(rows)
  BY <1>1, SeqMembers
<1>8. rows = [i \in 1..Len(rows) |-> rows[i]]
  BY <1>1
<1>3. \A i \in DOMAIN rows : rows[i].msg \in DOMAIN stored /\ rows[i] \in [msg : DOMAIN stored', read : BOOLEAN]
  BY <1>2 DEF Grown
<1>4. rows \in Seq([msg : DOMAIN stored', read : BOOLEAN])
  BY <1>2, <1>3, <1>8, SeqMade
<1>5. \A i, j \in DOMAIN rows :
          i # j /\ rows[i].msg = rows[j].msg => stored'[rows[i].msg].fromPeer
  BY <1>3 DEF RowsOK, Grown
<1>6. \A i \in DOMAIN rows : rows[i].read => stored'[rows[i].msg].read
  BY <1>3 DEF RowsOK, Grown
<1>7. QED
  BY <1>4, <1>5, <1>6 DEF RowsOK

LEMMA RequestsStay ==
    ASSUME Grown, NEW q, Holds(q)
    PROVE  Holds(q)'
<1>1. q.at = "sent" /\ q.kind = "send" => RowsOK(q.captured)'
  <2>1. PICK rows : rows = q.captured
    OBVIOUS
  <2>2. QED
    BY <2>1, RowsStay DEF Holds
<1>2. q.at = "answered" /\ q.kind = "get" => RowsOK(q.page)'
  BY RowsStay DEF Holds
<1>3. q.at = "answered" /\ q.kind = "send" => RowsOK(Append(q.captured, q.row))'
  BY RowsStay DEF Holds
<1>4. QED
  BY <1>1, <1>2, <1>3 DEF Holds

LEMMA EventsStay ==
    ASSUME Grown, NEW e, True(e)
    PROVE  True(e)'
BY DEF Grown, True

\* A row may be added if its message is a peer's, or not among the rows yet.
LEMMA RowAdded ==
    ASSUME NEW rows, RowsOK(rows), NEW m \in DOMAIN stored,
           stored[m].fromPeer \/ \A i \in DOMAIN rows : rows[i].msg # m
    PROVE  RowsOK(Append(rows, [msg |-> m, read |-> FALSE]))
<1> DEFINE row == [msg |-> m, read |-> FALSE]
           all == Append(rows, row)
<1>1. row \in [msg : DOMAIN stored, read : BOOLEAN] /\ row.msg = m /\ row.read = FALSE
  OBVIOUS
<1> HIDE DEF row
<1>2. /\ all \in Seq([msg : DOMAIN stored, read : BOOLEAN])
      /\ Len(rows) \in Nat /\ DOMAIN rows = 1..Len(rows) /\ DOMAIN all = 1..(Len(rows) + 1)
      /\ all[Len(rows) + 1] = row /\ \A i \in 1..Len(rows) : all[i] = rows[i]
  BY <1>1 DEF RowsOK
<1> HIDE DEF all
<1>3. \A i \in DOMAIN all : all[i].read => stored[all[i].msg].read
  BY <1>1, <1>2 DEF RowsOK
<1>4. ASSUME NEW i \in DOMAIN all, NEW j \in DOMAIN all, i # j, all[i].msg = all[j].msg
      PROVE  stored[all[i].msg].fromPeer
  <2>1. CASE i \in DOMAIN rows /\ j \in DOMAIN rows
    BY <1>2, <1>4, <2>1 DEF RowsOK
  <2>2. CASE i \notin DOMAIN rows
    <3>1. i = Len(rows) + 1 /\ j \in DOMAIN rows
      BY <1>2, <1>4, <2>2
    <3>2. QED
      BY <1>1, <1>2, <1>4, <3>1
  <2>3. CASE j \notin DOMAIN rows
    <3>1. j = Len(rows) + 1 /\ i \in DOMAIN rows
      BY <1>2, <1>4, <2>3
    <3>2. QED
      BY <1>1, <1>2, <1>4, <3>1
  <2>4. QED
    BY <2>1, <2>2, <2>3
<1>5. RowsOK(all)
  BY <1>2, <1>3, <1>4 DEF RowsOK
<1>6. QED
  BY <1>5 DEF all, row

LEMMA RowAddedNext ==
    ASSUME NEW rows, RowsOK(rows)', NEW m, m \in DOMAIN stored', \A i \in DOMAIN rows : rows[i].msg # m
    PROVE  RowsOK(Append(rows, [msg |-> m, read |-> FALSE]))'
<1> DEFINE row == [msg |-> m, read |-> FALSE]
           all == Append(rows, row)
<1>1. row \in [msg : DOMAIN stored', read : BOOLEAN] /\ row.msg = m /\ row.read = FALSE
  OBVIOUS
<1> HIDE DEF row
<1>2. /\ all \in Seq([msg : DOMAIN stored', read : BOOLEAN])
      /\ Len(rows) \in Nat /\ DOMAIN rows = 1..Len(rows) /\ DOMAIN all = 1..(Len(rows) + 1)
      /\ all[Len(rows) + 1] = row /\ \A i \in 1..Len(rows) : all[i] = rows[i]
  BY <1>1 DEF RowsOK
<1> HIDE DEF all
<1>3. \A i \in DOMAIN all : all[i].read => stored'[all[i].msg].read
  BY <1>1, <1>2 DEF RowsOK
<1>4. \A i, j \in DOMAIN all : i # j /\ all[i].msg = all[j].msg => stored'[all[i].msg].fromPeer
  <2>1. \A i, j \in DOMAIN rows : i # j /\ rows[i].msg = rows[j].msg => stored'[rows[i].msg].fromPeer
    BY DEF RowsOK
  <2>2. \A i \in DOMAIN all : i \in DOMAIN rows \/ all[i].msg = m
    BY <1>1, <1>2
  <2>3. \A i, j \in DOMAIN all : i \notin DOMAIN rows /\ j \notin DOMAIN rows => i = j
    BY <1>2
  <2>4. QED
    BY <1>2, <2>1, <2>2, <2>3
<1>5. RowsOK(all)'
  BY <1>2, <1>3, <1>4 DEF RowsOK, all, row
<1>6. QED
  BY <1>5 DEF all, row

LEMMA RowsMarked ==
    ASSUME NEW rows, RowsOK(rows), NEW ids, \A m \in ids : m \in DOMAIN stored /\ stored[m].read
    PROVE  RowsOK([i \in DOMAIN rows |-> [rows[i] EXCEPT !.read = @ \/ rows[i].msg \in ids]])
<1> DEFINE all == [i \in DOMAIN rows |-> [rows[i] EXCEPT !.read = @ \/ rows[i].msg \in ids]]
<1>1. /\ Len(rows) \in Nat /\ DOMAIN rows = 1..Len(rows)
      /\ \A i \in DOMAIN rows : rows[i] \in [msg : DOMAIN stored, read : BOOLEAN]
  BY SeqMembers DEF RowsOK
<1>2. DOMAIN all = DOMAIN rows /\ all = [i \in DOMAIN rows |-> all[i]]
  OBVIOUS
<1>3. \A i \in DOMAIN rows : /\ all[i] \in [msg : DOMAIN stored, read : BOOLEAN]
                             /\ all[i].msg = rows[i].msg
                             /\ all[i].read <=> (rows[i].read \/ rows[i].msg \in ids)
  BY <1>1
<1> HIDE DEF all
<1>4. all \in Seq([msg : DOMAIN stored, read : BOOLEAN])
  BY <1>1, <1>2, <1>3
<1>5. RowsOK(all)
  BY <1>2, <1>3, <1>4 DEF RowsOK
<1>6. QED
  BY <1>5 DEF all

-----------------------------------------------------------------------------
\* A finite set of numbers can be put in ascending order: a number's place is how many
\* there are up to it.
LEMMA AscendingExists ==
    ASSUME NEW S \in SUBSET Nat, IsFiniteSet(S)
    PROVE  \E ids \in Injection(1..Cardinality(S), S) :
              \A i, j \in 1..Cardinality(S) : i < j => ids[i] < ids[j]
<1> DEFINE n == Cardinality(S)
           Upto(m) == {x \in S : x <= m}
           place == [m \in S |-> Cardinality(Upto(m))]
<1>0. \A m \in S : m \in Nat
  OBVIOUS
<1>1. n \in Nat /\ IsFiniteSet(1..n) /\ Cardinality(1..n) = n
  <2>1. n \in Nat
    BY FS_CardinalityType
  <2>2. QED
    BY <2>1, FS_Interval
<1>2. \A m \in S : IsFiniteSet(Upto(m)) /\ Cardinality(Upto(m)) \in Nat /\ Cardinality(Upto(m)) <= n
  BY FS_Subset, FS_CardinalityType
<1>3. \A m \in S : Cardinality(Upto(m)) # 0
  <2>1. ASSUME NEW m \in S PROVE Cardinality(Upto(m)) # 0
    <3>1. m \in Upto(m)
      OBVIOUS
    <3>2. QED
      BY <1>2, <3>1, FS_EmptySet
  <2>2. QED
    BY <2>1
<1>4. \A m, k \in S : m < k => Cardinality(Upto(m)) < Cardinality(Upto(k))
  <2>1. ASSUME NEW m \in S, NEW k \in S, m < k PROVE Cardinality(Upto(m)) < Cardinality(Upto(k))
    <3>1. Upto(m) \subseteq Upto(k) /\ k \in Upto(k) /\ k \notin Upto(m)
      <4>1. m \in Nat /\ k \in Nat /\ ~(k <= m) /\ k <= k
        BY <1>0, <2>1
      <4>2. \A x \in S : x <= m => x <= k
        BY <1>0, <2>1
      <4>3. QED
        BY <4>1, <4>2
    <3>2. QED
      BY <1>2, <3>1, FS_Subset
  <2>2. QED
    BY <2>1
<1>5. place \in [S -> 1..n] /\ \A m, k \in S : m < k => place[m] < place[k]
  BY <1>1, <1>2, <1>3, <1>4
<1> HIDE DEF place, n
<1>6. place \in Injection(S, 1..n)
  <2>1. \A m, k \in S : place[m] = place[k] => m = k
    <3>1. ASSUME NEW m \in S, NEW k \in S, place[m] = place[k] PROVE m = k
      <4>1. place[m] \in Nat /\ m \in Nat /\ k \in Nat
        BY <1>1, <1>5
      <4>2. QED
        BY <3>1, <4>1, <1>5
    <3>2. QED
      BY <3>1
  <2>2. QED
    BY <1>5, <2>1 DEF Injection, IsInjective
<1>7. place \in Surjection(S, 1..n)
  BY <1>1, <1>6, FS_Injection DEF n
<1>8. \A i \in 1..n : \E m \in S : place[m] = i
  BY <1>7 DEF Surjection
<1> DEFINE ids == [i \in 1..n |-> CHOOSE m \in S : place[m] = i]
<1>9. ids \in [1..n -> S] /\ \A i \in 1..n : ids[i] \in S /\ place[ids[i]] = i
  BY <1>8
<1> HIDE DEF ids
<1>10. \A i, j \in 1..n : i < j => ids[i] < ids[j]
  <2>1. ASSUME NEW i \in 1..n, NEW j \in 1..n, i < j PROVE ids[i] < ids[j]
    <3>0. ids[i] \in S /\ ids[j] \in S /\ place[ids[i]] = i /\ place[ids[j]] = j
      BY <1>9
    <3>1. ids[i] \in Nat /\ ids[j] \in Nat /\ i \in Nat /\ j \in Nat
      <4>1. ids[i] \in Nat /\ ids[j] \in Nat
        BY <1>0, <3>0
      <4>2. i \in Nat /\ j \in Nat
        BY <1>1
      <4>3. QED
        BY <4>1, <4>2
    <3>2. ids[j] < ids[i] => j < i
      <4>1. ids[j] < ids[i] => place[ids[j]] < place[ids[i]]
        BY <1>5, <3>0
      <4>2. QED
        BY <3>0, <4>1
    <3>3. ids[i] # ids[j]
      BY <1>9, <2>1, <3>1
    <3>4. QED
      BY <2>1, <3>1, <3>2, <3>3
  <2>2. QED
    BY <2>1
<1>11. ids \in Injection(1..n, S)
  BY <1>9 DEF Injection, IsInjective
<1>12. QED
  BY <1>10, <1>11 DEF n

LEMMA AscendingOrders ==
    ASSUME NEW S \in SUBSET Nat, IsFiniteSet(S)
    PROVE  /\ Store!Ascending(S) \in Injection(1..Cardinality(S), S)
           /\ \A i, j \in 1..Cardinality(S) : i < j => Store!Ascending(S)[i] < Store!Ascending(S)[j]
<1> DEFINE n == Cardinality(S)
<1>1. n \in Nat
  BY FS_CardinalityType
<1>2. PICK f \in Injection(1..n, S) : \A i, j \in 1..n : i < j => f[i] < f[j]
  BY AscendingExists
<1> HIDE DEF n
<1>3. Store!SetToSeqs(S) = {g \in [1..n -> S] : \A i, j \in 1..n : i # j => g[i] # g[j]}
  BY DEF Store!SetToSeqs, n, Store!Cardinality, Cardinality, Store!IsFiniteSet, IsFiniteSet
<1>4. \A g \in Store!SetToSeqs(S) : g \in Injection(1..n, S) /\ DOMAIN g = 1..n
  BY <1>3 DEF Injection, IsInjective
<1>5. f \in Store!SetToSeqs(S) /\ DOMAIN f = 1..n
  BY <1>2, <1>3 DEF Injection, IsInjective
<1>6. \E ids \in Store!SetToSeqs(S) : \A i, j \in DOMAIN ids : i < j => ids[i] < ids[j]
  BY <1>2, <1>5
<1>7. /\ Store!Ascending(S) \in Store!SetToSeqs(S)
      /\ \A i, j \in DOMAIN Store!Ascending(S) : i < j => Store!Ascending(S)[i] < Store!Ascending(S)[j]
  BY <1>6 DEF Store!Ascending
<1>8. QED
  BY <1>4, <1>7 DEF n

\* A page shows what is stored, each message once, and no more than was asked for.
LEMMA PageOK ==
    ASSUME StoreTyped, NEW p \in Peer
    PROVE  RowsOK(Store!Page(p)) /\ Len(Store!Page(p)) <= PageSize
<1> DEFINE S == Store!Newest(Store!Conversation(p), PageSize)
           n == Cardinality(S)
           ids == Store!Ascending(S)
<1>1. /\ Store!Conversation(p) \in SUBSET DOMAIN stored
      /\ IsFiniteSet(Store!Conversation(p)) /\ Store!Conversation(p) \in SUBSET Nat
  <2>1. DOMAIN stored = 1..Len(stored) /\ Len(stored) \in Nat
    BY DEF StoreTyped
  <2>2. IsFiniteSet(DOMAIN stored)
    BY <2>1, FS_Interval
  <2>3. Store!Conversation(p) \in SUBSET DOMAIN stored
    BY DEF Store!Conversation
  <2>4. QED
    BY <2>1, <2>2, <2>3, FS_Subset
<1>2. S = Newest(Store!Conversation(p), PageSize)
  BY DEF Store!Newest, Newest, Store!Cardinality, Cardinality, Store!IsFiniteSet, IsFiniteSet
<1>3. S \in SUBSET DOMAIN stored /\ S \in SUBSET Nat /\ IsFiniteSet(S) /\ n <= PageSize /\ n \in Nat
  BY <1>1, <1>2, PageIsShort, FS_CardinalityType DEF Newest
<1>4. ids \in Injection(1..n, S)
  BY <1>3, AscendingOrders
<1>5. Store!Page(p) = [i \in DOMAIN ids |-> Store!Row(ids[i])]
  BY DEF Store!Page
<1> HIDE DEF S, n, ids
<1>6. /\ DOMAIN ids = 1..n /\ \A i \in 1..n : ids[i] \in DOMAIN stored
      /\ \A i, j \in 1..n : i # j => ids[i] # ids[j]
  BY <1>3, <1>4 DEF Injection, IsInjective
<1>7. PICK page : page = Store!Page(p)
  OBVIOUS
<1>8. /\ DOMAIN page = 1..n /\ page = [i \in 1..n |-> page[i]]
      /\ \A i \in 1..n : page[i] = [msg |-> ids[i], read |-> stored[ids[i]].read]
  BY <1>5, <1>6, <1>7 DEF Store!Row
<1>9. \A m \in DOMAIN stored : stored[m].read \in BOOLEAN
  <2>1. \A m \in DOMAIN stored : stored[m] \in StoreMessage
    BY SeqMembers DEF StoreTyped
  <2>2. QED
    BY <2>1 DEF StoreMessage
<1>10. \A i \in 1..n : /\ page[i] \in [msg : DOMAIN stored, read : BOOLEAN]
                      /\ page[i].msg = ids[i] /\ page[i].read = stored[ids[i]].read
  BY <1>6, <1>8, <1>9
<1>11. page \in Seq([msg : DOMAIN stored, read : BOOLEAN]) /\ Len(page) = n
  <2>1. page = [i \in 1..n |-> page[i]] /\ n \in Nat
    BY <1>3, <1>8
  <2>2. PICK R : R = [msg : DOMAIN stored, read : BOOLEAN]
    OBVIOUS
  <2>3. \A i \in 1..n : page[i] \in R
    BY <1>10, <2>2
  <2>4. page \in Seq(R) /\ Len(page) = n
    BY <2>1, <2>3, SeqMade
  <2>5. QED
    BY <2>2, <2>4
<1>12. RowsOK(page)
  BY <1>6, <1>8, <1>10, <1>11 DEF RowsOK
<1>13. QED
  BY <1>3, <1>7, <1>11, <1>12

-----------------------------------------------------------------------------
(* The steps of the tab and of the server. *)

LEMMA Changes ==
    ASSUME StoreInv, Store!Next
    PROVE  \/ UNCHANGED <<stored, marking>> /\ unsent' \subseteq unsent
           \/ \E p \in Peer : Added(p, TRUE) /\ unsent' = unsent \cup {Len(stored')} /\ UNCHANGED marking
           \/ \E p \in Peer : Store!PeerMarks(p)
           \/ \E s \in Slot : Store!SaveMessage(s) /\ Added(req[s].with, FALSE) /\ req[s].with \in Peer
           \/ \E p \in Peer : UNCHANGED <<stored, unsent>> /\ marking' = marking \ {p}
<1>1. \A s \in Slot : Store!SaveMessage(s) => Added(req[s].with, FALSE) /\ req[s].with \in Peer
  BY DEF Store!SaveMessage, Store!Save, Added, StoreInv, Holds
<1>2. QED
  BY <1>1 DEF Store!Next, Store!Progress, Store!PeerSends, Store!Select, Store!Close, Store!SendMessage, Store!Failed,
     Store!Drop, Store!GetMessages, Store!ReceiveGet, Store!ReceiveSent, Store!MessagesRead,
     Store!NewMessage, Store!ReceiveEvent, Store!Reconnect, Store!Save, Added, Store!server

LEMMA StoreGrows ==
    ASSUME StoreInv, Store!Next
    PROVE  /\ Grown /\ stored' \in Seq(StoreMessage) /\ Len(stored') <= MaxStored
           /\ unsent' \subseteq DOMAIN stored' /\ \A m \in unsent' : stored'[m].fromPeer
           /\ marking' \subseteq Peer
<1> USE DEF StoreInv, StoreTyped
<1>1. CASE UNCHANGED <<stored, marking>> /\ unsent' \subseteq unsent
  BY <1>1 DEF Grown
<1>2. ASSUME NEW p \in Peer, Added(p, TRUE), unsent' = unsent \cup {Len(stored')}, UNCHANGED marking
      PROVE  /\ Grown /\ stored' \in Seq(StoreMessage) /\ Len(stored') <= MaxStored
             /\ unsent' \subseteq DOMAIN stored' /\ \A m \in unsent' : stored'[m].fromPeer
             /\ marking' \subseteq Peer
  <2>1. PICK n : n = Len(stored) + 1
    OBVIOUS
  <2>2. /\ Grown /\ stored' \in Seq(StoreMessage) /\ Len(stored') <= MaxStored
        /\ Len(stored') = n /\ n \in DOMAIN stored' /\ n \notin DOMAIN stored
        /\ stored'[n] = [with |-> p, fromPeer |-> TRUE, read |-> FALSE]
    BY <1>2, <2>1, AddedGrows
  <2>3. unsent' = unsent \cup {n}
    BY <1>2, <2>2
  <2>4. QED
    BY <1>2, <2>2, <2>3 DEF Grown
<1>3. ASSUME NEW p \in Peer, Store!PeerMarks(p)
      PROVE  /\ Grown /\ stored' \in Seq(StoreMessage) /\ Len(stored') <= MaxStored
             /\ unsent' \subseteq DOMAIN stored' /\ \A m \in unsent' : stored'[m].fromPeer
             /\ marking' \subseteq Peer
  <2>1. /\ Grown /\ stored' \in Seq(StoreMessage) /\ DOMAIN stored' = DOMAIN stored
        /\ Len(stored') = Len(stored)
    BY <1>3, MarkedGrows
  <2>2. unsent' = unsent /\ marking' = marking \cup {p}
    BY <1>3 DEF Store!PeerMarks
  <2>3. QED
    BY <2>1, <2>2 DEF Grown
<1>4. ASSUME NEW s \in Slot, Store!SaveMessage(s), Added(req[s].with, FALSE), req[s].with \in Peer
      PROVE  /\ Grown /\ stored' \in Seq(StoreMessage) /\ Len(stored') <= MaxStored
             /\ unsent' \subseteq DOMAIN stored' /\ \A m \in unsent' : stored'[m].fromPeer
             /\ marking' \subseteq Peer
  <2>1. Grown /\ stored' \in Seq(StoreMessage) /\ Len(stored') <= MaxStored
    BY <1>4, AddedGrows
  <2>2. unsent' = unsent /\ marking' = marking
    BY <1>4 DEF Store!SaveMessage
  <2>3. QED
    BY <2>1, <2>2 DEF Grown
<1>5. ASSUME NEW p \in Peer, UNCHANGED <<stored, unsent>>, marking' = marking \ {p}
      PROVE  /\ Grown /\ stored' \in Seq(StoreMessage) /\ Len(stored') <= MaxStored
             /\ unsent' \subseteq DOMAIN stored' /\ \A m \in unsent' : stored'[m].fromPeer
             /\ marking' \subseteq Peer
  BY <1>5 DEF Grown
<1>6. QED
  BY <1>1, <1>2, <1>3, <1>4, <1>5, Changes

\* The other variables.
LEMMA NextStoreTyped == ASSUME StoreInv, Store!Next PROVE StoreTyped'
<1>1. /\ selectedUser' \in Peer \cup {"nobody"} /\ isMessagesLoading' \in BOOLEAN
      /\ connected' \in BOOLEAN
  <2> USE DEF StoreInv, StoreTyped, Store!screen
  <2>1. ASSUME NEW p \in Peer, \/ Store!PeerSends(p) \/ Store!PeerMarks(p) \/ Store!MessagesRead(p)
                               \/ \E s \in Slot : Store!Select(p, s)
        PROVE  /\ selectedUser' \in Peer \cup {"nobody"} /\ isMessagesLoading' \in BOOLEAN
               /\ connected' \in BOOLEAN
    BY <2>1 DEF Store!PeerSends, Store!PeerMarks, Store!MessagesRead, Store!Select
  <2>2. ASSUME NEW s \in Slot, \/ Store!SendMessage(s) \/ Store!Failed(s) \/ Store!GetMessages(s)
                               \/ Store!SaveMessage(s) \/ Store!ReceiveGet(s) \/ Store!ReceiveSent(s)
        PROVE  /\ selectedUser' \in Peer \cup {"nobody"} /\ isMessagesLoading' \in BOOLEAN
               /\ connected' \in BOOLEAN
    BY <2>2 DEF Store!SendMessage, Store!Failed, Store!GetMessages, Store!SaveMessage, Store!ReceiveGet, Store!ReceiveSent
  <2>3. ASSUME Store!Close \/ Store!Drop \/ Store!Reconnect \/ \E m \in DOMAIN stored : Store!NewMessage(m)
        PROVE  /\ selectedUser' \in Peer \cup {"nobody"} /\ isMessagesLoading' \in BOOLEAN
               /\ connected' \in BOOLEAN
    BY <2>3 DEF Store!Close, Store!Drop, Store!Reconnect, Store!NewMessage
  <2>4. ASSUME Store!ReceiveEvent
        PROVE  /\ selectedUser' \in Peer \cup {"nobody"} /\ isMessagesLoading' \in BOOLEAN
               /\ connected' \in BOOLEAN
    BY <2>4 DEF Store!ReceiveEvent, Store!OnNewMessage, Store!OnMessagesRead
  <2>5. QED
    BY <2>1, <2>2, <2>3, <2>4 DEF Store!Next, Store!Progress
<1>2. faults' \in 0..MaxFaults
  <2>1. UNCHANGED faults \/ (faults < MaxFaults /\ faults' = faults + 1)
    BY DEF Store!Next, Store!Progress, Store!PeerSends, Store!PeerMarks, Store!Select, Store!Close, Store!SendMessage, Store!Failed,
     Store!Drop, Store!GetMessages, Store!SaveMessage, Store!ReceiveGet, Store!ReceiveSent, Store!MessagesRead,
     Store!NewMessage, Store!ReceiveEvent, Store!Reconnect
  <2>2. QED
    BY <2>1 DEF StoreInv, StoreTyped
<1>3. QED
  BY <1>1, <1>2, StoreGrows DEF StoreTyped

LEMMA NextRows == ASSUME StoreInv, Store!Next PROVE RowsOK(messages)'
<1>1. Grown
  BY StoreGrows
<1>2. ASSUME NEW rows, RowsOK(rows), messages' = rows PROVE RowsOK(messages)'
  <2>1. RowsOK(rows)'
    BY <1>1, <1>2, RowsStay
  <2>2. QED
    BY <1>2, <2>1 DEF RowsOK
<1>3. RowsOK(messages) /\ \A s \in Slot : Holds(req[s])
  BY DEF StoreInv
<1>4. RowsOK(<<>>)
  BY DEF RowsOK
<1>5. ASSUME NEW s \in Slot, Store!ReceiveGet(s) \/ Store!ReceiveSent(s) \/ Store!Failed(s) PROVE RowsOK(messages)'
  <2>1. \/ messages' = messages \/ messages' = <<>>
        \/ req[s].at = "answered" /\ req[s].kind = "get" /\ messages' = req[s].page
        \/ req[s].at = "answered" /\ req[s].kind = "send" /\ messages' = Append(req[s].captured, req[s].row)
    BY <1>5 DEF Store!ReceiveGet, Store!ReceiveSent, Store!Failed
  <2>2. QED
    BY <1>2, <1>3, <1>4, <2>1 DEF Holds
<1>6. CASE Store!ReceiveEvent
  <2>1. inbox # <<>> /\ Head(inbox) = inbox[1] /\ 1 \in DOMAIN inbox /\ True(inbox[1])
    BY <1>6 DEF Store!ReceiveEvent, StoreInv, InboxOK
  <2>2. inbox[1] \in NewEvent \cup ReadEvent
    BY <2>1, SeqMembers DEF StoreInv, InboxOK
  <2>3. PICK e : e = inbox[1]
    OBVIOUS
  <2>4. CASE e.event = "newMessage"
    <3>1. Store!OnNewMessage(e.msg)
      BY <1>6, <2>1, <2>3, <2>4 DEF Store!ReceiveEvent
    <3>2. messages' = messages \/ messages' = Append(messages, [msg |-> e.msg, read |-> FALSE])
      BY <3>1 DEF Store!OnNewMessage
    <3>3. e.msg \in DOMAIN stored /\ stored[e.msg].fromPeer
      BY <2>1, <2>3, <2>4 DEF True
    <3>4. RowsOK(Append(messages, [msg |-> e.msg, read |-> FALSE]))
      BY <1>3, <3>3, RowAdded
    <3>5. QED
      BY <1>2, <1>3, <3>2, <3>4
  <2>5. CASE e.event = "messagesRead"
    <3>1. Store!OnMessagesRead(e.ids)
      BY <1>6, <2>1, <2>3, <2>5 DEF Store!ReceiveEvent
    <3>2. PICK ids : ids = e.ids
      OBVIOUS
    <3>3. messages' = messages \/ messages' = [i \in DOMAIN messages |->
                          [messages[i] EXCEPT !.read = @ \/ messages[i].msg \in ids]]
      BY <3>1, <3>2 DEF Store!OnMessagesRead
    <3>4. \A m \in ids : m \in DOMAIN stored /\ stored[m].read
      BY <2>1, <2>3, <2>5, <3>2 DEF True
    <3>5. RowsOK([i \in DOMAIN messages |-> [messages[i] EXCEPT !.read = @ \/ messages[i].msg \in ids]])
      BY <1>3, <3>4, RowsMarked
    <3>6. QED
      BY <1>2, <1>3, <3>3, <3>5
  <2>6. QED
    BY <2>2, <2>3, <2>4, <2>5 DEF NewEvent, ReadEvent
<1>7. \/ UNCHANGED messages \/ Store!ReceiveEvent
      \/ \E s \in Slot : Store!ReceiveGet(s) \/ Store!ReceiveSent(s) \/ Store!Failed(s)
  BY DEF Store!Next, Store!Progress, Store!PeerSends, Store!PeerMarks, Store!Select, Store!Close, Store!SendMessage,
     Store!Drop, Store!GetMessages, Store!SaveMessage, Store!MessagesRead, Store!NewMessage, Store!Reconnect,
     Store!screen
<1>8. QED
  BY <1>2, <1>3, <1>5, <1>6, <1>7

LEMMA NextHolds ==
    ASSUME StoreInv, Store!Next PROVE DOMAIN req' = Slot /\ \A s \in Slot : Holds(req[s])'
<1>1. Grown
  BY StoreGrows
<1>2. ASSUME NEW s \in Slot, NEW h, req' = [req EXCEPT ![s] = h], Holds(h)'
      PROVE  DOMAIN req' = Slot /\ \A r \in Slot : Holds(req[r])'
  <2>1. DOMAIN req' = Slot /\ req'[s] = h
    BY <1>2 DEF StoreInv
  <2>2. ASSUME NEW r \in Slot, r # s PROVE Holds(req[r])'
    <3>1. PICK q : q = req[r]
      OBVIOUS
    <3>2. Holds(q)'
      BY <1>1, <3>1, RequestsStay DEF StoreInv
    <3>3. req'[r] = q
      BY <1>2, <2>2, <3>1 DEF StoreInv
    <3>4. QED
      BY <3>2, <3>3 DEF Holds
  <2>3. Holds(req[s])'
    BY <1>2, <2>1 DEF Holds
  <2>4. QED
    BY <2>1, <2>2, <2>3
<1>3. ASSUME UNCHANGED req PROVE DOMAIN req' = Slot /\ \A r \in Slot : Holds(req[r])'
  <2>1. ASSUME NEW r \in Slot PROVE Holds(req[r])'
    <3>1. PICK q : q = req[r]
      OBVIOUS
    <3>2. Holds(q)'
      BY <1>1, <3>1, RequestsStay DEF StoreInv
    <3>3. QED
      BY <1>3, <3>1, <3>2 DEF Holds
  <2>2. QED
    BY <1>3, <2>1 DEF StoreInv
<1>4. ASSUME NEW p \in Peer, NEW s \in Slot, Store!Select(p, s)
      PROVE  DOMAIN req' = Slot /\ \A r \in Slot : Holds(req[r])'
  <2>1. PICK h : h = [at |-> "sent", kind |-> "get", with |-> p]
    OBVIOUS
  <2>2. Holds(h)'
    BY <2>1 DEF Holds
  <2>3. req' = [req EXCEPT ![s] = h]
    BY <1>4, <2>1 DEF Store!Select, Store!Issue
  <2>4. QED
    BY <1>2, <2>2, <2>3
<1>5. ASSUME NEW s \in Slot, Store!SendMessage(s)
      PROVE  DOMAIN req' = Slot /\ \A r \in Slot : Holds(req[r])'
  <2>1. PICK rows : rows = messages
    OBVIOUS
  <2>2. PICK h : h = [at |-> "sent", kind |-> "send", with |-> selectedUser, captured |-> rows]
    OBVIOUS
  <2>3. RowsOK(rows)'
    BY <1>1, <2>1, RowsStay DEF StoreInv
  <2>4. Holds(h)'
    BY <1>5, <2>2, <2>3 DEF Holds, Store!SendMessage, StoreInv, StoreTyped
  <2>5. req' = [req EXCEPT ![s] = h]
    BY <1>5, <2>1, <2>2 DEF Store!SendMessage, Store!Issue
  <2>6. QED
    BY <1>2, <2>4, <2>5
<1>6. ASSUME NEW s \in Slot, Store!GetMessages(s)
      PROVE  DOMAIN req' = Slot /\ \A r \in Slot : Holds(req[r])'
  <2>1. PICK p \in Peer : p = req[s].with
    BY <1>6 DEF Store!GetMessages, StoreInv, Holds
  <2>2. PICK page : page = Store!Page(p)
    OBVIOUS
  <2>3. RowsOK(page) /\ Len(page) <= PageSize
    BY <2>2, PageOK DEF StoreInv
  <2>4. PICK h : h = [at |-> "answered", kind |-> "get", page |-> page]
    OBVIOUS
  <2>5. RowsOK(page)'
    BY <1>1, <2>3, RowsStay
  <2>6. Holds(h)'
    BY <2>3, <2>4, <2>5 DEF Holds
  <2>7. req' = [req EXCEPT ![s] = h]
    BY <1>6, <2>1, <2>2, <2>4 DEF Store!GetMessages, Store!Go
  <2>8. QED
    BY <1>2, <2>6, <2>7
<1>7. ASSUME NEW s \in Slot, Store!SaveMessage(s)
      PROVE  DOMAIN req' = Slot /\ \A r \in Slot : Holds(req[r])'
  <2>1. PICK q : q = req[s]
    OBVIOUS
  <2>2. q.with \in Peer /\ RowsOK(q.captured) /\ Added(q.with, FALSE)
    BY <1>7, <2>1 DEF Store!SaveMessage, Store!Save, Added, StoreInv, Holds
  <2>3. PICK n : n = Len(stored')
    OBVIOUS
  <2>4. /\ n \in DOMAIN stored' /\ n \notin DOMAIN stored
    BY <2>2, <2>3, AddedGrows DEF StoreInv, StoreTyped
  <2>5. PICK rows : rows = q.captured
    OBVIOUS
  <2>6. RowsOK(rows)' /\ \A i \in DOMAIN rows : rows[i].msg # n
    <3>1. RowsOK(rows)'
      BY <1>1, <2>2, <2>5, RowsStay
    <3>2. \A i \in DOMAIN rows : rows[i] \in [msg : DOMAIN stored, read : BOOLEAN]
      BY <2>2, <2>5, SeqMembers DEF RowsOK
    <3>3. QED
      BY <2>4, <3>1, <3>2
  <2>7. RowsOK(Append(rows, [msg |-> n, read |-> FALSE]))'
    BY <2>4, <2>6, RowAddedNext
  <2>8. PICK h : h = [at |-> "answered", kind |-> "send", captured |-> rows, row |-> [msg |-> n, read |-> FALSE]]
    OBVIOUS
  <2>9. Holds(h)'
    BY <2>7, <2>8 DEF Holds
  <2>10. req' = [req EXCEPT ![s] = h]
    BY <1>7, <2>1, <2>3, <2>5, <2>8 DEF Store!SaveMessage, Store!Go
  <2>11. QED
    BY <1>2, <2>9, <2>10
<1>8. ASSUME NEW s \in Slot, Store!ReceiveGet(s) \/ Store!ReceiveSent(s) \/ Store!Failed(s)
      PROVE  DOMAIN req' = Slot /\ \A r \in Slot : Holds(req[r])'
  <2>1. req' = [req EXCEPT ![s] = Store!Idle]
    BY <1>8 DEF Store!ReceiveGet, Store!ReceiveSent, Store!Failed, Store!Go
  <2>2. PICK h : h = Store!Idle
    OBVIOUS
  <2>3. Holds(h)'
    BY <2>2 DEF Holds, Store!Idle
  <2>4. QED
    BY <1>2, <2>1, <2>2, <2>3
<1>9. \/ UNCHANGED req
      \/ \E p \in Peer, s \in Slot : Store!Select(p, s)
      \/ \E s \in Slot : \/ Store!SendMessage(s) \/ Store!GetMessages(s) \/ Store!SaveMessage(s)
                         \/ Store!ReceiveGet(s) \/ Store!ReceiveSent(s) \/ Store!Failed(s)
  BY DEF Store!Next, Store!Progress, Store!PeerSends, Store!PeerMarks, Store!Close,
     Store!Drop, Store!MessagesRead, Store!NewMessage, Store!Reconnect, Store!ReceiveEvent
<1>10. QED
  BY <1>3, <1>4, <1>5, <1>6, <1>7, <1>8, <1>9

\* Events arrive in the order they were emitted, and are dropped with the connection.
LEMMA InboxChanges ==
    ASSUME StoreInv, Store!Next
    PROVE  \/ UNCHANGED inbox \/ inbox' = <<>>
           \/ \E p \in Peer : LET ids == {m \in Store!SentTo(p) : stored[m].read} IN
                /\ inbox' = Append(inbox, [event |-> "messagesRead", ids |-> ids])
                /\ UNCHANGED <<stored, unsent, unreadCounts>>
           \/ \E m \in unsent : /\ inbox' = Append(inbox, [event |-> "newMessage", msg |-> m])
                                /\ unsent' = unsent \ {m} /\ UNCHANGED <<stored, unreadCounts>>
           \/ Store!ReceiveEvent
<1>1. ASSUME NEW p \in Peer, Store!MessagesRead(p)
      PROVE  \/ UNCHANGED inbox
             \/ /\ inbox' = Append(inbox, [event |-> "messagesRead", ids |-> {m \in Store!SentTo(p) : stored[m].read}])
                /\ UNCHANGED <<stored, unsent, unreadCounts>>
  BY <1>1 DEF Store!MessagesRead, Store!Emit, Store!screen
<1>2. ASSUME NEW m \in DOMAIN stored, Store!NewMessage(m)
      PROVE  \/ UNCHANGED inbox
             \/ /\ m \in unsent /\ inbox' = Append(inbox, [event |-> "newMessage", msg |-> m])
                /\ unsent' = unsent \ {m} /\ UNCHANGED <<stored, unreadCounts>>
  BY <1>2 DEF Store!NewMessage, Store!Emit, Store!screen
<1>3. \/ UNCHANGED inbox \/ inbox' = <<>> \/ Store!ReceiveEvent
      \/ (\E p \in Peer : Store!MessagesRead(p)) \/ \E m \in DOMAIN stored : Store!NewMessage(m)
  BY DEF Store!Next, Store!Progress, Store!PeerSends, Store!PeerMarks, Store!Select, Store!Close, Store!SendMessage,
     Store!Failed, Store!Drop, Store!GetMessages, Store!SaveMessage, Store!ReceiveGet, Store!ReceiveSent, Store!Reconnect
<1>4. QED
  BY <1>1, <1>2, <1>3

LEMMA InboxFacts ==
    ASSUME StoreInv
    PROVE  /\ Len(inbox) \in Nat /\ DOMAIN inbox = 1..Len(inbox) /\ inbox \in Seq(NewEvent \cup ReadEvent)
           /\ \A i \in DOMAIN inbox : inbox[i] \in NewEvent \cup ReadEvent
           /\ Len(stored) \in Nat /\ DOMAIN stored = 1..Len(stored)
BY SeqMembers DEF StoreInv, InboxOK, StoreTyped

\* An event is added to those under way.
LEMMA EmittedOK ==
    ASSUME StoreInv, Store!Next, NEW e \in NewEvent \cup ReadEvent, True(e)',
           inbox' = Append(inbox, e)
    PROVE  /\ InboxOK'
           /\ Len(inbox) \in Nat /\ DOMAIN inbox = 1..Len(inbox) /\ DOMAIN inbox' = 1..(Len(inbox) + 1)
           /\ inbox'[Len(inbox) + 1] = e /\ \A i \in 1..Len(inbox) : inbox'[i] = inbox[i]
<1> DEFINE Event == NewEvent \cup ReadEvent
<1>1. inbox \in Seq(Event) /\ e \in Event
  BY InboxFacts
<1> HIDE DEF Event
<1>2. /\ inbox' \in Seq(Event)
      /\ Len(inbox) \in Nat /\ DOMAIN inbox = 1..Len(inbox) /\ DOMAIN inbox' = 1..(Len(inbox) + 1)
      /\ inbox'[Len(inbox) + 1] = e /\ \A i \in 1..Len(inbox) : inbox'[i] = inbox[i]
  BY <1>1
<1>3. ASSUME NEW i \in DOMAIN inbox' PROVE True(inbox[i])'
  <2>1. CASE i = Len(inbox) + 1
    BY <1>2, <2>1 DEF True
  <2>2. CASE i \in DOMAIN inbox
    <3>1. PICK f : f = inbox[i]
      OBVIOUS
    <3>2. True(f)'
      BY <2>2, <3>1, StoreGrows, EventsStay DEF StoreInv, InboxOK
    <3>3. QED
      BY <1>2, <2>2, <3>1, <3>2 DEF True
  <2>3. QED
    BY <1>2, <2>1, <2>2
<1>4. InboxOK'
  BY <1>2, <1>3 DEF InboxOK, Event
<1>5. QED
  BY <1>2, <1>4

\* The oldest event is taken from those under way.
LEMMA TakenOK ==
    ASSUME StoreInv, Store!ReceiveEvent
    PROVE  /\ InboxOK' /\ UNCHANGED <<stored, unsent>>
           /\ Len(inbox) \in Nat \ {0} /\ DOMAIN inbox = 1..Len(inbox) /\ DOMAIN inbox' = 1..(Len(inbox) - 1)
           /\ Head(inbox) = inbox[1] /\ \A i \in DOMAIN inbox' : inbox'[i] = inbox[i + 1]
<1> DEFINE Event == NewEvent \cup ReadEvent
<1>1. inbox \in Seq(Event) /\ inbox # <<>> /\ inbox' = Tail(inbox)
  BY InboxFacts DEF Store!ReceiveEvent
<1> HIDE DEF Event
<1>2. /\ inbox' \in Seq(Event)
      /\ Len(inbox) \in Nat \ {0} /\ DOMAIN inbox = 1..Len(inbox) /\ DOMAIN inbox' = 1..(Len(inbox) - 1)
      /\ Head(inbox) = inbox[1] /\ \A i \in DOMAIN inbox' : inbox'[i] = inbox[i + 1]
  BY <1>1
<1>3. UNCHANGED <<stored, unsent>>
  BY DEF Store!ReceiveEvent, Store!server
<1>4. ASSUME NEW i \in DOMAIN inbox' PROVE True(inbox[i])'
  <2>1. i + 1 \in DOMAIN inbox
    BY <1>2
  <2>2. True(inbox[i + 1])
    BY <2>1 DEF StoreInv, InboxOK
  <2>3. QED
    BY <1>2, <1>3, <2>2 DEF True
<1>5. InboxOK'
  BY <1>2, <1>4 DEF InboxOK, Event
<1>6. QED
  BY <1>2, <1>3, <1>5

LEMMA NextInboxOK == ASSUME StoreInv, Store!Next PROVE InboxOK'
<1>1. CASE UNCHANGED inbox
  <2>1. ASSUME NEW i \in DOMAIN inbox PROVE True(inbox[i])'
    <3>1. PICK f : f = inbox[i]
      OBVIOUS
    <3>2. True(f)'
      BY <3>1, StoreGrows, EventsStay DEF StoreInv, InboxOK
    <3>3. QED
      BY <1>1, <3>1, <3>2 DEF True
  <2>2. QED
    BY <1>1, <2>1 DEF StoreInv, InboxOK
<1>2. CASE inbox' = <<>>
  BY <1>2 DEF InboxOK
<1>3. ASSUME NEW p \in Peer, NEW ids, ids = {m \in Store!SentTo(p) : stored[m].read},
             inbox' = Append(inbox, [event |-> "messagesRead", ids |-> ids])
      PROVE  InboxOK'
  <2>1. \A m \in ids : m \in DOMAIN stored /\ stored[m].read /\ m \in Nat
    BY <1>3, InboxFacts DEF Store!SentTo
  <2>2. PICK e : e = [event |-> "messagesRead", ids |-> ids]
    OBVIOUS
  <2>3. e \in NewEvent \cup ReadEvent /\ True(e)
    BY <2>1, <2>2 DEF ReadEvent, True
  <2>4. True(e)'
    BY <2>3, StoreGrows, EventsStay
  <2>5. QED
    BY <1>3, <2>2, <2>3, <2>4, EmittedOK
<1>4. ASSUME NEW m \in unsent, inbox' = Append(inbox, [event |-> "newMessage", msg |-> m]) PROVE InboxOK'
  <2>1. m \in DOMAIN stored /\ stored[m].fromPeer /\ m \in Nat
    BY InboxFacts DEF StoreInv, StoreTyped
  <2>2. PICK e : e = [event |-> "newMessage", msg |-> m]
    OBVIOUS
  <2>3. e \in NewEvent \cup ReadEvent /\ True(e)
    BY <2>1, <2>2 DEF NewEvent, True
  <2>4. True(e)'
    BY <2>3, StoreGrows, EventsStay
  <2>5. QED
    BY <1>4, <2>2, <2>3, <2>4, EmittedOK
<1>5. CASE Store!ReceiveEvent
  BY <1>5, TakenOK
<1>6. QED
  BY <1>1, <1>2, <1>3, <1>4, <1>5, InboxChanges

\* A badge counts no more than before of what has been announced.
LEMMA CountsStay ==
    ASSUME StoreInv, Store!Next,
           \A p \in Peer : Announced(p) \subseteq Announced(p)'
    PROVE  \A p \in Peer : /\ IsFiniteSet(Announced(p)') /\ Cardinality(Announced(p)') \in Nat
                           /\ Cardinality(Announced(p)) <= Cardinality(Announced(p)')
                           /\ Cardinality(Announced(p)) \in Nat /\ IsFiniteSet(Announced(p))
<1>1. Len(stored') \in Nat /\ DOMAIN stored' = 1..Len(stored')
  BY NextStoreTyped, SeqMembers DEF StoreTyped
<1>2. IsFiniteSet(DOMAIN stored')
  BY <1>1, FS_Interval
<1>3. ASSUME NEW p \in Peer
      PROVE  /\ IsFiniteSet(Announced(p)') /\ Cardinality(Announced(p)') \in Nat
             /\ Cardinality(Announced(p)) <= Cardinality(Announced(p)')
             /\ Cardinality(Announced(p)) \in Nat /\ IsFiniteSet(Announced(p))
  <2>1. Announced(p)' \subseteq DOMAIN stored'
    BY DEF Announced
  <2>2. IsFiniteSet(Announced(p)')
    BY <1>2, <2>1, FS_Subset
  <2>3. QED
    BY <2>2, FS_Subset, FS_CardinalityType
<1>4. QED
  BY <1>3

\* New messages are emitted once: a message joins those to emit when it is saved.
LEMMA UnsentChanges ==
    ASSUME StoreInv, Store!Next
    PROVE  \/ UNCHANGED unsent
           \/ unsent' = unsent \cup {Len(stored) + 1} /\ UNCHANGED <<inbox, unreadCounts>>
           \/ \E m \in unsent : /\ unsent' = unsent \ {m} /\ UNCHANGED <<stored, unreadCounts>>
                                /\ \/ UNCHANGED inbox
                                   \/ inbox' = Append(inbox, [event |-> "newMessage", msg |-> m])
<1>1. ASSUME NEW p \in Peer, Store!PeerSends(p)
      PROVE  unsent' = unsent \cup {Len(stored) + 1} /\ UNCHANGED <<inbox, unreadCounts>>
  <2>1. Added(p, TRUE)
    BY <1>1 DEF Store!PeerSends, Store!Save, Added
  <2>2. Len(stored') = Len(stored) + 1
    BY <2>1, AddedGrows DEF StoreInv, StoreTyped
  <2>3. QED
    BY <1>1, <2>2 DEF Store!PeerSends, Store!screen
<1>2. ASSUME NEW m \in DOMAIN stored, Store!NewMessage(m)
      PROVE  /\ m \in unsent /\ unsent' = unsent \ {m} /\ UNCHANGED <<stored, unreadCounts>>
             /\ \/ UNCHANGED inbox \/ inbox' = Append(inbox, [event |-> "newMessage", msg |-> m])
  BY <1>2 DEF Store!NewMessage, Store!Emit, Store!screen
<1>3. UNCHANGED unsent \/ (\E p \in Peer : Store!PeerSends(p)) \/ \E m \in DOMAIN stored : Store!NewMessage(m)
  BY DEF Store!Next, Store!Progress, Store!PeerMarks, Store!Select, Store!Close, Store!SendMessage, Store!Failed,
     Store!Drop, Store!GetMessages, Store!SaveMessage, Store!ReceiveGet, Store!ReceiveSent, Store!MessagesRead,
     Store!ReceiveEvent, Store!Reconnect, Store!server
<1>4. QED
  BY <1>1, <1>2, <1>3

Ann(m) == \E i \in DOMAIN inbox : Announcing(i, m)

\* The events on the way announce what they announced, and the message just emitted.
LEMMA NextAnn ==
    ASSUME StoreInv, Store!Next, NEW m, Ann(m)'
    PROVE  Ann(m) \/ (m \in unsent /\ m \notin unsent')
<1>0. /\ Len(inbox) \in Nat /\ DOMAIN inbox = 1..Len(inbox)
  BY InboxFacts
<1>1. CASE UNCHANGED inbox
  BY <1>1 DEF Ann, Announcing
<1>2. CASE inbox' = <<>>
  BY <1>2 DEF Ann, Announcing
<1>3. ASSUME NEW ids, ids \in SUBSET Nat,
             inbox' = Append(inbox, [event |-> "messagesRead", ids |-> ids])
      PROVE  Ann(m)
  <2>1. PICK e : e = [event |-> "messagesRead", ids |-> ids]
    OBVIOUS
  <2>2. e.event = "messagesRead"
    BY <2>1
  <2>3. inbox' = Append(inbox, e) /\ inbox \in Seq(NewEvent \cup ReadEvent)
    BY <1>3, <2>1, InboxFacts
  <2>4. /\ DOMAIN inbox' = 1..(Len(inbox) + 1) /\ inbox'[Len(inbox) + 1] = e
        /\ \A i \in 1..Len(inbox) : inbox'[i] = inbox[i]
    BY <1>0, <2>3
  <2>5. QED
    BY <1>0, <2>2, <2>4 DEF Ann, Announcing
<1>4. ASSUME NEW k \in unsent, unsent' = unsent \ {k},
             inbox' = Append(inbox, [event |-> "newMessage", msg |-> k])
      PROVE  Ann(m) \/ (m \in unsent /\ m \notin unsent')
  <2>1. PICK e : e = [event |-> "newMessage", msg |-> k]
    OBVIOUS
  <2>2. e.msg = k
    BY <2>1
  <2>3. inbox' = Append(inbox, e) /\ inbox \in Seq(NewEvent \cup ReadEvent)
    BY <1>4, <2>1, InboxFacts
  <2>4. /\ DOMAIN inbox' = 1..(Len(inbox) + 1) /\ inbox'[Len(inbox) + 1] = e
        /\ \A i \in 1..Len(inbox) : inbox'[i] = inbox[i]
    BY <1>0, <2>3
  <2>5. QED
    BY <1>0, <1>4, <2>2, <2>4 DEF Ann, Announcing
<1>5. CASE Store!ReceiveEvent
  <2>1. /\ Len(inbox) \in Nat \ {0} /\ DOMAIN inbox' = 1..(Len(inbox) - 1)
        /\ \A i \in DOMAIN inbox' : inbox'[i] = inbox[i + 1]
    BY <1>5, TakenOK
  <2>2. \A i \in DOMAIN inbox' : i + 1 \in DOMAIN inbox
    BY <1>0, <2>1
  <2>3. QED
    BY <2>1, <2>2 DEF Ann, Announcing
<1>6. \A p \in Peer : {x \in Store!SentTo(p) : stored[x].read} \in SUBSET Nat
  BY InboxFacts DEF Store!SentTo
<1>7. QED
  BY <1>1, <1>2, <1>3, <1>4, <1>5, <1>6, InboxChanges

LEMMA AnnKnown == ASSUME StoreInv, NEW m, Ann(m) PROVE m \in DOMAIN stored /\ m \notin unsent
BY DEF StoreInv, StoreTyped, InboxOK, True, Ann, Announcing, AnnouncedOnce

LEMMA NextAnnouncedOnce == ASSUME StoreInv, Store!Next PROVE AnnouncedOnce'
<1>0. /\ Len(inbox) \in Nat /\ DOMAIN inbox = 1..Len(inbox)
  BY InboxFacts
<1>1. ASSUME NEW m, Ann(m)' PROVE m \notin unsent'
  <2>1. CASE Ann(m)
    <3>1. m \in DOMAIN stored /\ m \notin unsent
      BY <2>1, AnnKnown
    <3>2. m # Len(stored) + 1
      BY <3>1, InboxFacts
    <3>3. QED
      BY <3>1, <3>2, UnsentChanges
  <2>2. QED
    BY <1>1, <2>1, NextAnn
<1>2. ASSUME NEW m, NEW i \in DOMAIN inbox', NEW j \in DOMAIN inbox', Announcing(i, m)', Announcing(j, m)'
      PROVE  i = j
  <2>1. \A a, b \in DOMAIN inbox : Announcing(a, m) /\ Announcing(b, m) => a = b
    BY AnnKnown DEF StoreInv, AnnouncedOnce, Ann
  <2>2. CASE UNCHANGED inbox
    BY <1>2, <2>1, <2>2 DEF Announcing
  <2>3. CASE inbox' = <<>>
    BY <1>2, <2>3
  <2>4. ASSUME NEW ids, ids \in SUBSET Nat,
               inbox' = Append(inbox, [event |-> "messagesRead", ids |-> ids])
        PROVE  i = j
    <3>1. PICK e : e = [event |-> "messagesRead", ids |-> ids]
      OBVIOUS
    <3>2. e.event = "messagesRead"
      BY <3>1
    <3>3. inbox' = Append(inbox, e) /\ inbox \in Seq(NewEvent \cup ReadEvent)
      BY <2>4, <3>1, InboxFacts
    <3>4. /\ DOMAIN inbox' = 1..(Len(inbox) + 1) /\ inbox'[Len(inbox) + 1] = e
          /\ \A k \in 1..Len(inbox) : inbox'[k] = inbox[k]
      BY <1>0, <3>3
    <3>5. i \in DOMAIN inbox /\ j \in DOMAIN inbox
      BY <1>0, <1>2, <3>2, <3>4 DEF Announcing
    <3>6. QED
      BY <1>0, <1>2, <2>1, <3>4, <3>5 DEF Announcing
  <2>5. ASSUME NEW k \in unsent, inbox' = Append(inbox, [event |-> "newMessage", msg |-> k])
        PROVE  i = j
    <3>1. PICK e : e = [event |-> "newMessage", msg |-> k]
      OBVIOUS
    <3>2. e.msg = k
      BY <3>1
    <3>3. inbox' = Append(inbox, e) /\ inbox \in Seq(NewEvent \cup ReadEvent)
      BY <2>5, <3>1, InboxFacts
    <3>4. /\ DOMAIN inbox' = 1..(Len(inbox) + 1) /\ inbox'[Len(inbox) + 1] = e
          /\ \A h \in 1..Len(inbox) : inbox'[h] = inbox[h]
      BY <1>0, <3>3
    <3>5. \A h \in DOMAIN inbox : ~Announcing(h, k)
      BY AnnKnown DEF Ann
    <3>6. m = k => i = Len(inbox) + 1 /\ j = Len(inbox) + 1
      BY <1>0, <1>2, <3>4, <3>5 DEF Announcing
    <3>7. m # k => i \in DOMAIN inbox /\ j \in DOMAIN inbox
      BY <1>0, <1>2, <3>2, <3>4 DEF Announcing
    <3>8. QED
      BY <1>0, <1>2, <2>1, <3>4, <3>6, <3>7 DEF Announcing
  <2>6. CASE Store!ReceiveEvent
    <3>1. /\ Len(inbox) \in Nat \ {0} /\ DOMAIN inbox' = 1..(Len(inbox) - 1)
          /\ \A k \in DOMAIN inbox' : inbox'[k] = inbox[k + 1]
      BY <2>6, TakenOK
    <3>2. i + 1 \in DOMAIN inbox /\ j + 1 \in DOMAIN inbox /\ i \in Nat /\ j \in Nat
      BY <1>0, <1>2, <3>1
    <3>3. Announcing(i + 1, m) /\ Announcing(j + 1, m)
      BY <1>2, <3>1 DEF Announcing
    <3>4. i + 1 = j + 1
      BY <2>1, <3>2, <3>3
    <3>5. QED
      BY <3>2, <3>4
  <2>7. \A p \in Peer : {x \in Store!SentTo(p) : stored[x].read} \in SUBSET Nat
    BY InboxFacts DEF Store!SentTo
  <2>8. QED
    BY <2>2, <2>3, <2>4, <2>5, <2>6, <2>7, InboxChanges
<1>3. QED
  BY <1>1, <1>2 DEF AnnouncedOnce, Ann

LEMMA NextAnnounced == ASSUME StoreInv, Store!Next PROVE \A p \in Peer : Announced(p) \subseteq Announced(p)'
<1>1. ASSUME NEW p \in Peer, NEW m, m \in Announced(p) PROVE m \in Announced(p)'
  <2>1. m \in DOMAIN stored /\ stored[m].with = p /\ m \notin unsent /\ ~Ann(m)
    BY <1>1 DEF Announced, Ann
  <2>2. m \in DOMAIN stored' /\ stored'[m].with = p
    BY <2>1, StoreGrows DEF Grown
  <2>3. m # Len(stored) + 1
    BY <2>1, InboxFacts
  <2>4. m \notin unsent'
    BY <2>1, <2>3, UnsentChanges
  <2>5. ~Ann(m)'
    BY <2>1, NextAnn
  <2>6. QED
    BY <2>2, <2>4, <2>5 DEF Announced, Ann
<1>2. QED
  BY <1>1

LEMMA NextCounts == ASSUME StoreInv, Store!Next PROVE CountsOK'
<1>0. unreadCounts \in [Peer -> Nat] /\ \A p \in Peer : unreadCounts[p] <= Cardinality(Announced(p))
  BY DEF StoreInv, CountsOK
<1>1. \A p \in Peer : /\ IsFiniteSet(Announced(p)') /\ Cardinality(Announced(p)') \in Nat
                      /\ Cardinality(Announced(p)) <= Cardinality(Announced(p)')
                      /\ Cardinality(Announced(p)) \in Nat /\ IsFiniteSet(Announced(p))
  BY NextAnnounced, CountsStay
<1>2. CASE UNCHANGED unreadCounts
  <2>1. \A p \in Peer : unreadCounts[p] <= Cardinality(Announced(p)')
    <3>1. ASSUME NEW p \in Peer PROVE unreadCounts[p] <= Cardinality(Announced(p)')
      <4>1. PICK a, b, c : a = unreadCounts[p] /\ b = Cardinality(Announced(p)) /\ c = Cardinality(Announced(p)')
        OBVIOUS
      <4>2. a \in Nat /\ b \in Nat /\ c \in Nat /\ a <= b /\ b <= c
        BY <1>0, <1>1, <4>1
      <4>3. QED
        BY <4>1, <4>2
    <3>2. QED
      BY <3>1
  <2>2. QED
    BY <1>0, <1>2, <2>1 DEF CountsOK
<1>3. ASSUME NEW p \in Peer, NEW n \in Nat, unreadCounts' = [unreadCounts EXCEPT ![p] = n],
             n <= Cardinality(Announced(p)')
      PROVE  CountsOK'
  <2>1. unreadCounts' \in [Peer -> Nat]
    BY <1>0, <1>3
  <2>2. \A q \in Peer : unreadCounts'[q] <= Cardinality(Announced(q)')
    <3>1. ASSUME NEW q \in Peer, q # p PROVE unreadCounts'[q] <= Cardinality(Announced(q)')
      <4>1. PICK a, b, c : a = unreadCounts[q] /\ b = Cardinality(Announced(q)) /\ c = Cardinality(Announced(q)')
        OBVIOUS
      <4>2. a \in Nat /\ b \in Nat /\ c \in Nat /\ a <= b /\ b <= c
        BY <1>0, <1>1, <4>1
      <4>3. unreadCounts'[q] = a
        BY <1>0, <1>3, <3>1, <4>1
      <4>4. QED
        BY <4>1, <4>2, <4>3
    <3>2. unreadCounts'[p] = n
      BY <1>0, <1>3
    <3>3. QED
      BY <1>3, <3>1, <3>2
  <2>3. QED
    BY <2>1, <2>2 DEF CountsOK
<1>4. ASSUME NEW p \in Peer, NEW s \in Slot, Store!Select(p, s) PROVE CountsOK'
  <2>1. unreadCounts' = [unreadCounts EXCEPT ![p] = 0]
    BY <1>4 DEF Store!Select
  <2>2. 0 <= Cardinality(Announced(p)')
    BY <1>1
  <2>3. QED
    BY <1>3, <2>1, <2>2
<1>5. CASE Store!ReceiveEvent
  <2>1. /\ Len(inbox) \in Nat \ {0} /\ DOMAIN inbox = 1..Len(inbox) /\ DOMAIN inbox' = 1..(Len(inbox) - 1)
        /\ Head(inbox) = inbox[1] /\ \A i \in DOMAIN inbox' : inbox'[i] = inbox[i + 1]
        /\ UNCHANGED <<stored, unsent>>
    BY <1>5, TakenOK
  <2>2. PICK m, p : m = inbox[1].msg /\ p = stored[m].with
    OBVIOUS
  <2>3. \/ UNCHANGED unreadCounts
        \/ /\ inbox[1].event = "newMessage"
           /\ unreadCounts' = [unreadCounts EXCEPT ![p] = @ + 1]
    BY <1>5, <2>1, <2>2 DEF Store!ReceiveEvent, Store!OnNewMessage, Store!OnMessagesRead
  <2>4. CASE inbox[1].event = "newMessage" /\ unreadCounts' = [unreadCounts EXCEPT ![p] = @ + 1]
    <3>1. Announcing(1, m) /\ 1 \in DOMAIN inbox
      BY <2>1, <2>2, <2>4 DEF Announcing
    <3>2. m \in DOMAIN stored /\ m \notin unsent
      BY <3>1, AnnKnown DEF Ann
    <3>3. p \in Peer
      <4>1. stored[m] \in StoreMessage
        BY <3>2, SeqMembers DEF StoreInv, StoreTyped
      <4>2. QED
        BY <2>2, <4>1 DEF StoreMessage
    <3>4. m \notin Announced(p)
      BY <3>1 DEF Announced
    <3>5. \A i \in DOMAIN inbox' : ~Announcing(i, m)'
      <4>1. ASSUME NEW i \in DOMAIN inbox', Announcing(i, m)' PROVE FALSE
        <5>1. Announcing(i + 1, m)
          BY <2>1, <4>1 DEF Announcing
        <5>2. i + 1 \in DOMAIN inbox /\ i + 1 # 1 /\ i \in Nat
          BY <2>1
        <5>3. QED
          BY <3>1, <3>2, <5>1, <5>2 DEF StoreInv, AnnouncedOnce
      <4>2. QED
        BY <4>1
    <3>6. m \in Announced(p)'
      BY <2>1, <2>2, <3>2, <3>5 DEF Announced
    <3>7. PICK A : A = Announced(p)
      OBVIOUS
    <3>8. PICK B : B = Announced(p)'
      OBVIOUS
    <3>9. A \subseteq B /\ m \in B /\ m \notin A /\ IsFiniteSet(B) /\ Cardinality(A) \in Nat /\ Cardinality(B) \in Nat
      BY <1>1, <3>3, <3>4, <3>6, <3>7, <3>8, NextAnnounced
    <3>10. Cardinality(A) < Cardinality(B)
      BY <3>9, FS_Subset
    <3>11. unreadCounts[p] \in Nat /\ unreadCounts[p] <= Cardinality(A)
      BY <1>0, <3>3, <3>7
    <3>12. unreadCounts[p] + 1 <= Cardinality(B) /\ unreadCounts[p] + 1 \in Nat
      BY <3>9, <3>10, <3>11
    <3>13. unreadCounts' = [unreadCounts EXCEPT ![p] = unreadCounts[p] + 1]
      BY <2>4
    <3>14. QED
      BY <1>3, <3>3, <3>8, <3>12, <3>13
  <2>5. QED
    BY <1>2, <2>3, <2>4
<1>6. UNCHANGED unreadCounts \/ Store!ReceiveEvent \/ \E p \in Peer, s \in Slot : Store!Select(p, s)
  BY DEF Store!Next, Store!Progress, Store!PeerSends, Store!PeerMarks, Store!Close, Store!SendMessage, Store!Failed,
     Store!Drop, Store!GetMessages, Store!SaveMessage, Store!ReceiveGet, Store!ReceiveSent, Store!MessagesRead,
     Store!NewMessage, Store!Reconnect, Store!screen
<1>7. QED
  BY <1>2, <1>4, <1>5, <1>6

LEMMA InitStoreInv == ASSUME MCInit PROVE StoreInv
<1> USE DEF MCInit, Store!ObservedInit, Store!Init
<1>1. stored = <<>> /\ DOMAIN stored = {} /\ Len(stored) = 0 /\ stored \in Seq(StoreMessage)
  OBVIOUS
<1>2. StoreTyped
  <2>1. stored \in Seq(StoreMessage) /\ Len(stored) <= MaxStored /\ faults \in 0..MaxFaults
    <3>1. Len(stored) <= MaxStored
      BY <1>1
    <3>2. faults \in 0..MaxFaults
      OBVIOUS
    <3>3. QED
      BY <1>1, <3>1, <3>2
  <2>2. /\ unsent \subseteq DOMAIN stored /\ (\A m \in unsent : stored[m].fromPeer) /\ marking \subseteq Peer
        /\ selectedUser \in Peer \cup {Store!Nobody} /\ isMessagesLoading \in BOOLEAN /\ connected \in BOOLEAN
    OBVIOUS
  <2>3. QED
    BY <2>1, <2>2 DEF StoreTyped
<1>3. InboxOK /\ AnnouncedOnce
  <2>1. inbox = <<>> /\ inbox \in Seq(NewEvent \cup ReadEvent)
    OBVIOUS
  <2>2. QED
    BY <2>1 DEF InboxOK, AnnouncedOnce
<1>4. CountsOK
  <2>1. \A p \in Peer : Announced(p) = {}
    BY <1>1 DEF Announced
  <2>2. Cardinality({}) = 0
    BY FS_EmptySet
  <2>3. unreadCounts \in [Peer -> Nat] /\ \A p \in Peer : unreadCounts[p] = 0
    OBVIOUS
  <2>4. \A p \in Peer : Cardinality(Announced(p)) = 0
    BY <2>1, <2>2
  <2>5. \A p \in Peer : unreadCounts[p] <= Cardinality(Announced(p))
    BY <2>3, <2>4
  <2>6. QED
    BY <2>3, <2>5 DEF CountsOK
<1>5. RowsOK(messages)
  BY DEF RowsOK
<1>6. DOMAIN req = Slot /\ \A s \in Slot : Holds(req[s])
  BY DEF Holds, Store!Idle
<1>7. QED
  BY <1>2, <1>3, <1>4, <1>5, <1>6 DEF StoreInv

LEMMA NextStoreInv == ASSUME StoreInv, [MCNext]_mcVars PROVE StoreInv'
<1>1. CASE Store!Next
  BY <1>1, NextStoreTyped, NextInboxOK, NextAnnouncedOnce, NextCounts, NextRows, NextHolds DEF StoreInv
<1>2. CASE UNCHANGED storeVars
  <2> USE <1>2 DEF storeVars
  <2>1. StoreTyped'
    BY DEF StoreInv, StoreTyped
  <2>2. InboxOK' /\ AnnouncedOnce'
    BY DEF StoreInv, InboxOK, True, AnnouncedOnce, Announcing
  <2>3. CountsOK'
    <3>1. \A p \in Peer : Announced(p)' = Announced(p)
      BY DEF Announced, Announcing
    <3>2. QED
      BY <3>1 DEF StoreInv, CountsOK
  <2>4. RowsOK(messages)'
    BY DEF StoreInv, RowsOK
  <2>5. DOMAIN req' = Slot /\ \A s \in Slot : Holds(req[s])'
    <3>1. ASSUME NEW s \in Slot PROVE Holds(req[s])'
      <4>1. Grown
        BY DEF Grown
      <4>2. PICK q : q = req[s]
        OBVIOUS
      <4>3. Holds(q)'
        BY <4>1, <4>2, RequestsStay DEF StoreInv
      <4>4. QED
        BY <4>2, <4>3 DEF Holds
    <3>2. QED
      BY <3>1 DEF StoreInv
  <2>6. QED
    BY <2>1, <2>2, <2>3, <2>4, <2>5 DEF StoreInv
<1>3. QED
  BY <1>1, <1>2 DEF MCNext, mcVars, StoreStep, HistoryStep, Store!ObservedNext

LEMMA StoreInvOwn == ASSUME StoreInv PROVE OwnShownOnce
<1>1. unreadCounts \in [Peer -> 0..MaxStored]
  <2>1. ASSUME NEW p \in Peer PROVE unreadCounts[p] \in 0..MaxStored
    <3>1. Len(stored) \in Nat /\ DOMAIN stored = 1..Len(stored) /\ Len(stored) <= MaxStored
      BY InboxFacts DEF StoreInv, StoreTyped
    <3>2. IsFiniteSet(DOMAIN stored) /\ Cardinality(DOMAIN stored) = Len(stored)
      <4>1. PICK n \in Nat : n = Len(stored)
        BY <3>1
      <4>2. IsFiniteSet(1..n) /\ Cardinality(1..n) = n
        BY FS_Interval
      <4>3. QED
        BY <3>1, <4>1, <4>2
    <3>3. PICK A : A = Announced(p)
      OBVIOUS
    <3>4. A \subseteq DOMAIN stored
      BY <3>3 DEF Announced
    <3>5. Cardinality(A) \in Nat /\ Cardinality(A) <= Len(stored)
      BY <3>2, <3>4, FS_Subset, FS_CardinalityType
    <3>6. unreadCounts[p] \in Nat /\ unreadCounts[p] <= Cardinality(A)
      BY <3>3 DEF StoreInv, CountsOK
    <3>7. QED
      BY <3>1, <3>5, <3>6
  <2>2. unreadCounts \in [Peer -> Nat]
    BY DEF StoreInv, CountsOK
  <2>3. QED
    BY <2>1, <2>2
<1>2. \A s \in Slot : req[s].at = "answered" /\ req[s].kind = "get" => Len(req[s].page) <= PageSize
  BY DEF StoreInv, Holds
<1>3. {isMessagesLoading, connected} \subseteq BOOLEAN
  BY DEF StoreInv, StoreTyped
<1>4. messages \in Seq([msg : DOMAIN stored, read : BOOLEAN])
  BY DEF StoreInv, RowsOK
<1>5. Store!TypeOK
  BY <1>1, <1>2, <1>3, <1>4 DEF Store!TypeOK, StoreInv, StoreTyped, StoreMessage
<1>6. Store!OwnShownOnce
  BY DEF Store!OwnShownOnce, StoreInv, RowsOK
<1>7. QED
  BY <1>5, <1>6 DEF OwnShownOnce

LEMMA StoreInvRead == ASSUME StoreInv PROVE ReadIsTrue
BY DEF StoreInv, RowsOK, ReadIsTrue, Store!ReadIsTrue

\* No message of the tab's own user is on its screen twice, in whatever order the answers
\* to its loads and sends arrive and whatever events come between them
\* (useChatStore.js, sendMessage and getMessages); with it, what is stored, shown and
\* under way keeps to its bounds.
THEOREM OwnAlwaysShownOnce == MCSpec => []OwnShownOnce
<1>1. MCInit => StoreInv
  BY InitStoreInv
<1>2. StoreInv /\ [MCNext]_mcVars => StoreInv'
  BY NextStoreInv
<1>3. StoreInv => OwnShownOnce
  BY StoreInvOwn
<1>4. QED
  BY <1>1, <1>2, <1>3, PTL DEF MCSpec

\* A row is shown as read only once the other side has marked it as read
\* (message.controllers.js, markMessagesAsRead; ChatContainer.jsx, messagesRead).
THEOREM ReadAlwaysTrue == MCSpec => []ReadIsTrue
<1>1. MCInit => StoreInv
  BY InitStoreInv
<1>2. StoreInv /\ [MCNext]_mcVars => StoreInv'
  BY NextStoreInv
<1>3. StoreInv => ReadIsTrue
  BY StoreInvRead
<1>4. QED
  BY <1>1, <1>2, <1>3, PTL DEF MCSpec

-----------------------------------------------------------------------------
(* What the screen shows of the conversation that is open. *)

\* On the way to the tab: saved and not yet announced, or announced and not yet arrived.
Coming(m) == m \in unsent \/ Ann(m)
Covered(rows, m) == Coming(m) \/ \E i \in DOMAIN rows : rows[i].msg = m

\* The receipt for a message is on its way.
Acked(m) == \E k \in DOMAIN inbox : inbox[k].event = "messagesRead" /\ m \in inbox[k].ids
Receipt(p, m) == p \in marking \/ Acked(m)

\* Rows that lack nothing but what is on its way: each message once, none that is newer
\* missing, a page of them or all, and each with its status.
Faithful(rows, p) ==
    /\ \A i, j \in DOMAIN rows : rows[i].msg = rows[j].msg => i = j
    /\ \A i \in DOMAIN rows : rows[i].msg \in Store!Conversation(p) /\ ~Coming(rows[i].msg)
    /\ \A m, x \in Store!Conversation(p) : m > x /\ Covered(rows, x) => Covered(rows, m)
    /\ Len(rows) >= PageSize \/ \A m \in Store!Conversation(p) : Covered(rows, m)
    /\ \A i \in DOMAIN rows :
          LET m == rows[i].msg
          IN  stored[m].fromPeer \/ rows[i].read = stored[m].read \/ Receipt(p, m)

\* The one request under way puts such rows on the screen.
ForScreen(q) ==
    /\ q.at = "sent" => q.with = selectedUser
    /\ q.at = "sent" /\ q.kind = "send" => q.captured = messages /\ Faithful(messages, selectedUser)
    /\ q.at = "answered" /\ q.kind = "get" => Faithful(q.page, selectedUser)
    /\ q.at = "answered" /\ q.kind = "send" => Faithful(Append(q.captured, q.row), selectedUser)

Screened ==
    /\ \A s \in Store!Requests : ForScreen(req[s])
    /\ Store!Requests = {} => Faithful(messages, selectedUser)

\* What does not meet: at most one request is under way, and nothing else with it.
Apart ==
    /\ \A s, t \in Store!Requests : s = t
    /\ Store!Requests # {} => unsent = {} /\ marking = {} /\ inbox = <<>>
    /\ connected

ScreenInv ==
    /\ IsFiniteSet(Store!Requests)
    /\ clean => ~Store!Meet /\ (selectedUser # Store!Nobody => Screened)

-----------------------------------------------------------------------------
\* Of a set of numbers, a part with all that is greater than any of it is the newest.
LEMMA UpperPart ==
    ASSUME NEW S \in SUBSET Nat, IsFiniteSet(S), NEW R \in SUBSET S,
           \A m \in S, x \in R : m > x => m \in R
    PROVE  R = Newest(S, Cardinality(R))
<1> DEFINE Above(m) == {x \in S : x > m}
<1>0. IsFiniteSet(R) /\ Cardinality(R) \in Nat /\ \A m \in S : m \in Nat
  BY FS_Subset, FS_CardinalityType
<1>1. \A m \in S : IsFiniteSet(Above(m)) /\ Cardinality(Above(m)) \in Nat
  BY FS_Subset, FS_CardinalityType
<1>2. ASSUME NEW m \in R PROVE Cardinality(Above(m)) < Cardinality(R)
  <2>1. ASSUME NEW x \in Above(m) PROVE x \in R /\ x # m
    <3>1. x \in S /\ x > m /\ m \in S /\ x \in Nat /\ m \in Nat
      BY <1>0
    <3>2. QED
      BY <3>1
  <2>2. Above(m) \subseteq R /\ Above(m) # R
    BY <2>1
  <2>3. QED
    BY <1>0, <1>1, <2>2, FS_Subset
<1>3. ASSUME NEW m \in S, m \notin R PROVE ~(Cardinality(Above(m)) < Cardinality(R))
  <2>1. ASSUME NEW x \in R PROVE x \in Above(m)
    <3>1. x \in S /\ x \in Nat /\ m \in Nat /\ x # m /\ ~(m > x)
      BY <1>0, <1>3
    <3>2. x > m
      BY <3>1
    <3>3. QED
      BY <3>1, <3>2
  <2>2. Cardinality(R) <= Cardinality(Above(m))
    BY <1>1, <2>1, FS_Subset
  <2>3. QED
    BY <1>0, <1>1, <2>2
<1>4. QED
  BY <1>2, <1>3 DEF Newest

\* The newest are such a part, and as many as asked for unless they are all.
LEMMA NewestIsUpper ==
    ASSUME NEW S \in SUBSET Nat, IsFiniteSet(S), NEW k \in Nat \ {0}
    PROVE  /\ \A m \in S, x \in Newest(S, k) : m > x => m \in Newest(S, k)
           /\ Cardinality(Newest(S, k)) >= k \/ Newest(S, k) = S
<1> DEFINE Above(m) == {x \in S : x > m}
           N == Newest(S, k)
<1>0. \A m \in S : m \in Nat /\ IsFiniteSet(Above(m)) /\ Cardinality(Above(m)) \in Nat
  BY FS_Subset, FS_CardinalityType
<1>1. ASSUME NEW m \in S, NEW x \in N, m > x PROVE m \in N
  <2>1. x \in S /\ Cardinality(Above(x)) < k
    BY DEF Newest
  <2>2. ASSUME NEW y \in Above(m) PROVE y \in Above(x)
    <3>1. y \in S /\ y > m /\ y \in Nat /\ m \in Nat /\ x \in Nat
      BY <1>0, <2>1
    <3>2. y > x
      BY <1>1, <3>1
    <3>3. QED
      BY <3>1, <3>2
  <2>3. Cardinality(Above(m)) <= Cardinality(Above(x))
    BY <1>0, <2>1, <2>2, FS_Subset
  <2>4. QED
    BY <1>0, <2>1, <2>3 DEF Newest
<1>2. ASSUME N # S PROVE Cardinality(N) >= k
  <2> DEFINE Z == S \ N
  <2>1. Z \in SUBSET Int /\ IsFiniteSet(Z) /\ Z # {}
    <3>1. N \subseteq S /\ Z \subseteq S
      BY DEF Newest
    <3>2. IsFiniteSet(Z) /\ Z # {}
      BY <1>2, <3>1, FS_Subset
    <3>3. \A z \in Z : z \in Int
      BY <1>0
    <3>4. QED
      BY <3>2, <3>3
  <2>2. PICK z \in Z : \A x \in Z : x <= z
    BY <2>1, LargestExists
  <2>3. ~(Cardinality(Above(z)) < k)
    BY DEF Newest
  <2>4. ASSUME NEW y \in Above(z) PROVE y \in N
    <3>1. y \in S /\ y > z /\ y \in Nat /\ z \in Nat
      BY <1>0
    <3>2. y \notin Z
      BY <2>2, <3>1
    <3>3. QED
      BY <3>1, <3>2
  <2>5. IsFiniteSet(N) /\ Cardinality(N) \in Nat
    BY FS_Subset, FS_CardinalityType DEF Newest
  <2>6. Cardinality(Above(z)) <= Cardinality(N)
    BY <2>4, <2>5, FS_Subset
  <2>7. QED
    BY <1>0, <2>3, <2>5, <2>6
<1>3. QED
  BY <1>1, <1>2

\* Rows that show each message once are as many as the messages.
LEMMA RowsCount ==
    ASSUME NEW rows, RowsOK(rows), \A i, j \in DOMAIN rows : rows[i].msg = rows[j].msg => i = j
    PROVE  Cardinality({rows[i].msg : i \in DOMAIN rows}) = Len(rows)
<1> DEFINE S == {rows[i].msg : i \in DOMAIN rows}
           f == [i \in DOMAIN rows |-> rows[i].msg]
<1>1. Len(rows) \in Nat /\ DOMAIN rows = 1..Len(rows)
  BY SeqMembers DEF RowsOK
<1>2. PICK n \in Nat : n = Len(rows)
  BY <1>1
<1>3. IsFiniteSet(1..n) /\ Cardinality(1..n) = n
  BY FS_Interval
<1>4. f \in Bijection(1..n, S)
  <2>1. f \in [1..n -> S]
    BY <1>1, <1>2
  <2>2. \A i, j \in 1..n : f[i] = f[j] => i = j
    BY <1>1, <1>2
  <2>3. \A m \in S : \E i \in 1..n : f[i] = m
    BY <1>1, <1>2
  <2>4. QED
    BY <2>1, <2>2, <2>3 DEF Bijection, Injection, Surjection, IsInjective
<1>5. Cardinality(S) = n
  BY <1>3, <1>4, FS_Bijection DEF ExistsBijection
<1>6. QED
  BY <1>2, <1>5

LEMMA ConversationIsFinite ==
    ASSUME StoreTyped, NEW p
    PROVE  /\ Store!Conversation(p) \in SUBSET DOMAIN stored
           /\ IsFiniteSet(Store!Conversation(p)) /\ Store!Conversation(p) \in SUBSET Nat
<1>1. DOMAIN stored = 1..Len(stored) /\ Len(stored) \in Nat
  BY DEF StoreTyped
<1>2. IsFiniteSet(DOMAIN stored)
  BY <1>1, FS_Interval
<1>3. Store!Conversation(p) \in SUBSET DOMAIN stored
  BY DEF Store!Conversation
<1>4. QED
  BY <1>1, <1>2, <1>3, FS_Subset

\* With nothing on its way, such rows are what the property asks for.
LEMMA FaithfulIsShown ==
    ASSUME StoreInv, ScreenInv PROVE ScreenIsFaithful
<1> SUFFICES ASSUME clean, Store!Quiet, selectedUser # Store!Nobody
             PROVE  LET all == Store!Conversation(selectedUser)
                    IN  /\ Store!Cardinality(Store!Shown) = Len(messages)
                        /\ Store!Shown = Store!Newest(all, Len(messages))
                        /\ Len(messages) >= PageSize \/ Store!Shown = all
                        /\ \A i \in DOMAIN messages :
                             LET m == messages[i].msg
                             IN  stored[m].fromPeer \/ messages[i].read = stored[m].read
  BY DEF ScreenIsFaithful, Store!ScreenIsFaithful
<1> DEFINE all == Store!Conversation(selectedUser)
           R == {messages[i].msg : i \in DOMAIN messages}
<1>1. unsent = {} /\ inbox = <<>> /\ marking = {}
  BY DEF Store!Quiet, Store!ServerBusy
<1>2. Faithful(messages, selectedUser)
  BY DEF ScreenInv, Screened, Store!Quiet
<1>3. \A m : ~Coming(m) /\ ~Receipt(selectedUser, m)
  BY <1>1 DEF Coming, Receipt, Acked, Ann
<1>4. all \in SUBSET Nat /\ IsFiniteSet(all)
  BY ConversationIsFinite DEF StoreInv
<1>5. Cardinality(R) = Len(messages)
  BY <1>2, RowsCount DEF Faithful, StoreInv
<1>6. R \in SUBSET all
  BY <1>2 DEF Faithful
<1>7. \A m : Covered(messages, m) <=> m \in R
  BY <1>3 DEF Covered
<1>8. \A m \in all, x \in R : m > x => m \in R
  BY <1>2, <1>6, <1>7 DEF Faithful
<1>9. R = Newest(all, Len(messages))
  BY <1>4, <1>5, <1>6, <1>8, UpperPart
<1>10. Len(messages) >= PageSize \/ R = all
  BY <1>2, <1>6, <1>7 DEF Faithful
<1>11. \A i \in DOMAIN messages :
         stored[messages[i].msg].fromPeer \/ messages[i].read = stored[messages[i].msg].read
  BY <1>2, <1>3 DEF Faithful
<1>12. /\ Store!Shown = R /\ Store!Cardinality(R) = Cardinality(R)
       /\ Store!Newest(all, Len(messages)) = Newest(all, Len(messages))
  BY DEF Store!Shown, Store!Newest, Newest, Store!Cardinality, Cardinality, Store!IsFiniteSet, IsFiniteSet
<1>13. QED
  BY <1>5, <1>9, <1>10, <1>11, <1>12

\* A page loaded while nothing is on its way is such rows.
LEMMA PageIsFaithful ==
    ASSUME StoreTyped, NEW p \in Peer, unsent = {}, inbox = <<>>
    PROVE  Faithful(Store!Page(p), p)
<1> DEFINE all == Store!Conversation(p)
           S == Store!Newest(all, PageSize)
           n == Cardinality(S)
           ids == Store!Ascending(S)
<1>1. all \in SUBSET DOMAIN stored /\ IsFiniteSet(all) /\ all \in SUBSET Nat
  BY ConversationIsFinite
<1>2. S = Newest(all, PageSize)
  BY DEF Store!Newest, Newest, Store!Cardinality, Cardinality, Store!IsFiniteSet, IsFiniteSet
<1>3. S \in SUBSET all /\ IsFiniteSet(S) /\ n \in Nat
  BY <1>1, <1>2, FS_Subset, FS_CardinalityType DEF Newest
<1>4. ids \in Injection(1..n, S)
  BY <1>1, <1>3, AscendingOrders
<1>5. ids \in Surjection(1..n, S)
  <2>1. IsFiniteSet(1..n) /\ Cardinality(1..n) = n
    BY <1>3, FS_Interval
  <2>2. QED
    BY <1>3, <1>4, <2>1, FS_Injection
<1>6. Store!Page(p) = [i \in DOMAIN ids |-> Store!Row(ids[i])]
  BY DEF Store!Page
<1>7. /\ \A m \in all, x \in S : m > x => m \in S
      /\ n >= PageSize \/ S = all
  <2> HIDE DEF all
  <2>1. /\ \A m \in all, x \in Newest(all, PageSize) : m > x => m \in Newest(all, PageSize)
        /\ Cardinality(Newest(all, PageSize)) >= PageSize \/ Newest(all, PageSize) = all
    BY <1>1, NewestIsUpper
  <2>2. QED
    BY <1>2, <2>1
<1> HIDE DEF S, n, ids
<1>8. /\ DOMAIN ids = 1..n /\ \A i \in 1..n : ids[i] \in S
      /\ \A i, j \in 1..n : ids[i] = ids[j] => i = j
      /\ \A m \in S : \E i \in 1..n : ids[i] = m
  BY <1>3, <1>4, <1>5 DEF Injection, IsInjective, Surjection
<1>9. PICK page : page = Store!Page(p)
  OBVIOUS
<1>10. /\ DOMAIN page = 1..n /\ page = [i \in 1..n |-> page[i]]
       /\ \A i \in 1..n : page[i] = [msg |-> ids[i], read |-> stored[ids[i]].read]
  BY <1>6, <1>8, <1>9 DEF Store!Row
<1>11. \A i \in 1..n : page[i].msg = ids[i] /\ page[i].read = stored[ids[i]].read
  BY <1>10
<1>12. Len(page) = n
  BY <1>3, <1>10
<1>13. \A m : ~Coming(m)
  BY DEF Coming, Ann
<1>14. \A m : Covered(page, m) <=> m \in S
  BY <1>8, <1>10, <1>11, <1>13 DEF Covered
<1>15. Faithful(page, p)
  <2>1. \A i, j \in DOMAIN page : page[i].msg = page[j].msg => i = j
    BY <1>8, <1>10, <1>11
  <2>2. \A i \in DOMAIN page : page[i].msg \in all /\ ~Coming(page[i].msg)
    BY <1>3, <1>8, <1>10, <1>11, <1>13
  <2>3. \A m, x \in all : m > x /\ Covered(page, x) => Covered(page, m)
    BY <1>7, <1>14
  <2>4. Len(page) >= PageSize \/ \A m \in all : Covered(page, m)
    BY <1>7, <1>12, <1>14
  <2>5. \A i \in DOMAIN page : page[i].read = stored[page[i].msg].read
    BY <1>10, <1>11
  <2>6. QED
    BY <2>1, <2>2, <2>3, <2>4, <2>5 DEF Faithful
<1>16. QED
  BY <1>9, <1>15

-----------------------------------------------------------------------------
(* The steps, one kind at a time. *)

\* Rows stay faithful while messages are saved, announced and read.
LEMMA FaithfulStays ==
    ASSUME NEW rows, NEW p, RowsOK(rows), Faithful(rows, p), StoreTyped,
           Store!Conversation(p)' \in SUBSET Nat,
           Store!Conversation(p) \subseteq Store!Conversation(p)',
           \A m \in Store!Conversation(p)' :
              m \in Store!Conversation(p)
              \/ (Coming(m)' /\ \A x \in Store!Conversation(p) : m > x),
           \A m \in Store!Conversation(p) : Coming(m)' <=> Coming(m),
           \A m \in Store!Conversation(p) :
              /\ stored'[m].fromPeer = stored[m].fromPeer
              /\ \/ stored[m].fromPeer \/ Receipt(p, m)'
                 \/ stored'[m].read = stored[m].read /\ (Receipt(p, m) => ~stored[m].read)
    PROVE  Faithful(rows, p)'
<1> DEFINE C == Store!Conversation(p)
<1>0. /\ \A i \in DOMAIN rows : rows[i].read \in BOOLEAN /\ rows[i].msg \in C
      /\ \A m \in C : stored[m].read \in BOOLEAN
  <2>1. \A i \in DOMAIN rows : rows[i] \in [msg : DOMAIN stored, read : BOOLEAN]
    BY SeqMembers DEF RowsOK
  <2>2. \A m \in DOMAIN stored : stored[m] \in StoreMessage
    BY SeqMembers DEF StoreTyped
  <2>3. C \subseteq DOMAIN stored
    BY DEF Store!Conversation
  <2>4. QED
    BY <2>1, <2>2, <2>3 DEF Faithful, StoreMessage
<1>1. \A m \in C : Covered(rows, m)' <=> Covered(rows, m)
  BY DEF Covered
<1>2. \A i, j \in DOMAIN rows : rows[i].msg = rows[j].msg => i = j
  BY DEF Faithful
<1>3. \A i \in DOMAIN rows : rows[i].msg \in C' /\ ~Coming(rows[i].msg)'
  BY DEF Faithful
<1>4. ASSUME NEW m \in C', NEW x \in C', m > x, Covered(rows, x)' PROVE Covered(rows, m)'
  <2>1. CASE m \notin C
    BY <2>1 DEF Covered
  <2>2. CASE m \in C
    <3>1. x \in C
      <4>1. x \notin C => x > m
        BY <2>2
      <4>2. x \in Nat /\ m \in Nat
        OBVIOUS
      <4>3. QED
        BY <1>4, <4>1, <4>2
    <3>2. Covered(rows, m)
      BY <1>1, <1>4, <2>2, <3>1 DEF Faithful
    <3>3. QED
      BY <1>1, <2>2, <3>2
  <2>3. QED
    BY <2>1, <2>2
<1>5. Len(rows) >= PageSize \/ \A m \in C' : Covered(rows, m)'
  <2>1. CASE Len(rows) >= PageSize
    BY <2>1
  <2>2. CASE \A m \in C : Covered(rows, m)
    <3>1. \A m \in C' : Covered(rows, m)'
      BY <1>1, <2>2 DEF Covered
    <3>2. QED
      BY <3>1
  <2>3. QED
    BY <2>1, <2>2 DEF Faithful
<1>6. ASSUME NEW i \in DOMAIN rows
      PROVE  LET m == rows[i].msg
             IN  stored'[m].fromPeer \/ rows[i].read = stored'[m].read \/ Receipt(p, m)'
  <2>1. PICK m \in C : m = rows[i].msg
    BY <1>0
  <2>2. rows[i].read => stored[m].read
    BY <2>1 DEF RowsOK
  <2>3. stored[m].fromPeer \/ rows[i].read = stored[m].read \/ Receipt(p, m)
    BY <2>1 DEF Faithful
  <2>4. CASE stored[m].fromPeer \/ Receipt(p, m)'
    BY <2>1, <2>4
  <2>5. CASE stored'[m].read = stored[m].read /\ (Receipt(p, m) => ~stored[m].read)
    <3>1. CASE Receipt(p, m)
      <4>1. rows[i].read = FALSE /\ stored[m].read = FALSE
        BY <1>0, <2>1, <2>2, <2>5, <3>1
      <4>2. QED
        BY <2>1, <2>5, <4>1
    <3>2. CASE ~Receipt(p, m)
      BY <2>1, <2>3, <2>5, <3>2
    <3>3. QED
      BY <3>1, <3>2
  <2>6. QED
    BY <2>4, <2>5
<1>7. QED
  BY <1>2, <1>3, <1>4, <1>5, <1>6 DEF Faithful

\* A row is added for a message that was on its way, or that is the newest.
LEMMA FaithfulAppend ==
    ASSUME NEW rows, NEW p, NEW n, NEW r, RowsOK(rows), Faithful(rows, p),
           Store!Conversation(p)' \in SUBSET Nat,
           Store!Conversation(p)' = Store!Conversation(p) \cup {n},
           \/ n \in Store!Conversation(p) /\ Coming(n)
           \/ n \notin Store!Conversation(p) /\ \A x \in Store!Conversation(p) : n > x,
           ~Coming(n)', \A m \in Store!Conversation(p) : m # n => (Coming(m)' <=> Coming(m)),
           stored'[n].fromPeer \/ stored'[n].read = r,
           \A m \in Store!Conversation(p) :
              /\ stored'[m].fromPeer = stored[m].fromPeer
              /\ (stored[m].fromPeer \/ (stored'[m].read = stored[m].read /\ (Receipt(p, m) => Receipt(p, m)')))
    PROVE  Faithful(Append(rows, [msg |-> n, read |-> r]), p)'
<1> DEFINE C == Store!Conversation(p)
           row == [msg |-> n, read |-> r]
           all == Append(rows, row)
<1>1. row.msg = n /\ row.read = r
  OBVIOUS
<1> HIDE DEF row
<1>2. /\ Len(rows) \in Nat /\ DOMAIN rows = 1..Len(rows) /\ DOMAIN all = 1..(Len(rows) + 1)
      /\ Len(all) = Len(rows) + 1
      /\ all[Len(rows) + 1] = row /\ \A i \in 1..Len(rows) : all[i] = rows[i]
  BY DEF RowsOK
<1> HIDE DEF all
<1>3. \A i \in DOMAIN all : (i \in DOMAIN rows /\ all[i] = rows[i]) \/ (i = Len(rows) + 1 /\ all[i] = row)
  BY <1>2
<1>4. \A i \in DOMAIN rows : rows[i].msg \in C /\ ~Coming(rows[i].msg) /\ rows[i].msg # n
  BY DEF Faithful
<1>5. Covered(all, n)' /\ \A m \in C : m # n => (Covered(all, m)' <=> Covered(rows, m))
  <2>1. \A m : (\E i \in DOMAIN all : all[i].msg = m) <=> (m = n \/ \E i \in DOMAIN rows : rows[i].msg = m)
    <3>1. DOMAIN rows \subseteq DOMAIN all /\ Len(rows) + 1 \in DOMAIN all
      BY <1>2
    <3>2. QED
      BY <1>1, <1>2, <1>3, <3>1
  <2>2. QED
    BY <2>1 DEF Covered
<1>6. \A i, j \in DOMAIN all : all[i].msg = all[j].msg => i = j
  BY <1>1, <1>3, <1>4 DEF Faithful
<1>7. \A i \in DOMAIN all : all[i].msg \in C' /\ ~Coming(all[i].msg)'
  BY <1>1, <1>3, <1>4
<1>8. ASSUME NEW m \in C', NEW x \in C', m > x, Covered(all, x)' PROVE Covered(all, m)'
  <2>0. m \in Nat /\ x \in Nat /\ n \in Nat
    OBVIOUS
  <2>1. CASE m = n
    BY <1>5, <2>1
  <2>2. CASE m # n /\ x = n
    <3>1. m \in C
      BY <2>2
    <3>2. n \in C /\ Coming(n)
      <4>1. ~(n > m)
        BY <1>8, <2>0, <2>2
      <4>2. QED
        BY <3>1, <4>1
    <3>3. Covered(rows, n)
      BY <3>2 DEF Covered
    <3>4. Covered(rows, m)
      BY <1>8, <2>2, <3>1, <3>2, <3>3 DEF Faithful
    <3>5. QED
      BY <1>5, <2>2, <3>1, <3>4
  <2>3. CASE m # n /\ x # n
    <3>1. m \in C /\ x \in C /\ Covered(rows, x)
      BY <1>5, <1>8, <2>3
    <3>2. Covered(rows, m)
      BY <1>8, <3>1 DEF Faithful
    <3>3. QED
      BY <1>5, <2>3, <3>1, <3>2
  <2>4. QED
    BY <2>1, <2>2, <2>3
<1>9. Len(all) >= PageSize \/ \A m \in C' : Covered(all, m)'
  <2>1. CASE Len(rows) >= PageSize
    BY <1>2, <2>1
  <2>2. CASE \A m \in C : Covered(rows, m)
    BY <1>5, <2>2
  <2>3. QED
    BY <2>1, <2>2 DEF Faithful
<1>10. ASSUME NEW i \in DOMAIN all
       PROVE  LET m == all[i].msg
              IN  stored'[m].fromPeer \/ all[i].read = stored'[m].read \/ Receipt(p, m)'
  <2>1. CASE all[i] = row
    BY <1>1, <2>1
  <2>2. CASE i \in DOMAIN rows /\ all[i] = rows[i]
    <3>1. PICK m \in C : m = rows[i].msg
      BY <1>4, <2>2
    <3>2. stored[m].fromPeer \/ rows[i].read = stored[m].read \/ Receipt(p, m)
      BY <2>2, <3>1 DEF Faithful
    <3>3. QED
      BY <2>2, <3>1, <3>2
  <2>3. QED
    BY <1>3, <2>1, <2>2
<1>11. Faithful(all, p)'
  BY <1>6, <1>7, <1>8, <1>9, <1>10 DEF Faithful, all, row
<1>12. QED
  BY <1>11 DEF all, row

\* A receipt that arrives is shown.
LEMMA FaithfulMarked ==
    ASSUME NEW rows, NEW p, NEW ids, RowsOK(rows), Faithful(rows, p), UNCHANGED stored,
           StoreTyped, \A m \in ids : m \in DOMAIN stored /\ stored[m].read,
           \A m : Coming(m)' <=> Coming(m),
           \A m : Receipt(p, m) => Receipt(p, m)' \/ m \in ids
    PROVE  Faithful([i \in DOMAIN rows |-> [rows[i] EXCEPT !.read = @ \/ rows[i].msg \in ids]], p)'
<1> DEFINE C == Store!Conversation(p)
<1>0. PICK all : all = [i \in DOMAIN rows |-> [rows[i] EXCEPT !.read = @ \/ rows[i].msg \in ids]]
  OBVIOUS
<1>1. /\ Len(rows) \in Nat /\ DOMAIN rows = 1..Len(rows)
      /\ \A i \in DOMAIN rows : rows[i] \in [msg : DOMAIN stored, read : BOOLEAN]
  BY SeqMembers DEF RowsOK
<1>2. DOMAIN all = DOMAIN rows /\ all = [i \in 1..Len(rows) |-> all[i]]
  BY <1>0, <1>1
<1>3. \A i \in DOMAIN rows : /\ all[i].msg = rows[i].msg
                             /\ all[i].read \in BOOLEAN
                             /\ all[i].read <=> (rows[i].read \/ rows[i].msg \in ids)
  BY <1>0, <1>1
<1>4. Len(all) = Len(rows)
  BY <1>1, <1>2
<1>5. C' = C
  BY DEF Store!Conversation
<1>6. \A m : Covered(all, m)' <=> Covered(rows, m)
  BY <1>2, <1>3 DEF Covered
<1>7. \A i, j \in DOMAIN all : all[i].msg = all[j].msg => i = j
  BY <1>2, <1>3 DEF Faithful
<1>8. \A i \in DOMAIN all : all[i].msg \in C /\ ~Coming(all[i].msg)'
  BY <1>2, <1>3 DEF Faithful
<1>9. \A m, x \in C : m > x /\ Covered(all, x)' => Covered(all, m)'
  BY <1>6 DEF Faithful
<1>10. Len(all) >= PageSize \/ \A m \in C : Covered(all, m)'
  BY <1>4, <1>6 DEF Faithful
<1>11. ASSUME NEW i \in DOMAIN all
       PROVE  LET m == all[i].msg
              IN  stored[m].fromPeer \/ all[i].read = stored[m].read \/ Receipt(p, m)'
  <2>1. PICK m \in DOMAIN stored : m = rows[i].msg
    BY <1>1, <1>2
  <2>2. stored[m].read \in BOOLEAN /\ rows[i].read \in BOOLEAN
    <3>1. stored[m] \in StoreMessage
      BY SeqMembers DEF StoreTyped
    <3>2. QED
      BY <1>1, <1>2, <3>1 DEF StoreMessage
  <2>3. stored[m].fromPeer \/ rows[i].read = stored[m].read \/ Receipt(p, m)
    BY <1>2, <2>1 DEF Faithful
  <2>4. m \in ids => stored[m].read /\ all[i].read
    BY <1>2, <1>3, <2>1
  <2>5. m \notin ids => (all[i].read <=> rows[i].read)
    BY <1>2, <1>3, <2>1
  <2>6. CASE m \in ids
    BY <1>2, <1>3, <2>1, <2>2, <2>4, <2>6
  <2>7. CASE m \notin ids
    <3>1. all[i].read = rows[i].read
      BY <1>2, <1>3, <2>2, <2>5, <2>7
    <3>2. QED
      BY <1>2, <1>3, <2>1, <2>3, <2>7, <3>1
  <2>8. QED
    BY <2>6, <2>7
<1>12. Faithful(all, p)'
  BY <1>5, <1>7, <1>8, <1>9, <1>10, <1>11 DEF Faithful
<1>13. QED
  BY <1>0, <1>12

LEMMA AtMostOne ==
    ASSUME NEW R, IsFiniteSet(R), ~(Cardinality(R) > 1)
    PROVE  \A s, t \in R : s = t
<1> SUFFICES ASSUME NEW s \in R, NEW t \in R, s # t PROVE FALSE
  OBVIOUS
<1>1. {s, t} \subseteq R /\ Cardinality({s, t}) = 2
  <2>1. IsFiniteSet({s}) /\ Cardinality({s}) = 1
    BY FS_Singleton
  <2>2. {s, t} = {s} \cup {t} /\ t \notin {s}
    OBVIOUS
  <2>3. Cardinality({s} \cup {t}) = Cardinality({s}) + 1
    BY <2>1, <2>2, FS_AddElement
  <2>4. QED
    BY <2>1, <2>2, <2>3
<1>2. Cardinality({s, t}) <= Cardinality(R) /\ Cardinality(R) \in Nat
  BY <1>1, FS_Subset, FS_CardinalityType
<1>3. QED
  BY <1>1, <1>2

\* An event is added to those on the way.
LEMMA AfterEmit ==
    ASSUME StoreInv, NEW e \in NewEvent \cup ReadEvent, inbox' = Append(inbox, e)
    PROVE  \A m : /\ Ann(m)' <=> Ann(m) \/ (e.event = "newMessage" /\ e.msg = m)
                  /\ Acked(m)' <=> Acked(m) \/ (e.event = "messagesRead" /\ m \in e.ids)
<1> DEFINE n == Len(inbox)
<1>1. PICK Event : Event = NewEvent \cup ReadEvent
  OBVIOUS
<1>2. inbox \in Seq(Event) /\ e \in Event /\ n \in Nat /\ DOMAIN inbox = 1..n
  BY <1>1, InboxFacts
<1>3. /\ DOMAIN inbox' = 1..(n + 1) /\ inbox'[n + 1] = e
      /\ \A i \in 1..n : inbox'[i] = inbox[i]
  BY <1>2
<1>4. DOMAIN inbox' = DOMAIN inbox \cup {n + 1}
  BY <1>2, <1>3
<1> HIDE DEF n
<1>5. QED
  BY <1>2, <1>3, <1>4 DEF Ann, Announcing, Acked

\* The first event is taken from those on the way.
LEMMA AfterTake ==
    ASSUME StoreInv, Store!ReceiveEvent
    PROVE  LET e == inbox[1]
           IN  /\ e \in NewEvent \cup ReadEvent /\ True(e)
               /\ \A m : /\ Ann(m) <=> Ann(m)' \/ (e.event = "newMessage" /\ e.msg = m)
                         /\ (e.event = "newMessage" /\ e.msg = m => ~Ann(m)')
                         /\ Acked(m) <=> Acked(m)' \/ (e.event = "messagesRead" /\ m \in e.ids)
<1> DEFINE n == Len(inbox)
<1>1. /\ n \in Nat \ {0} /\ DOMAIN inbox = 1..n /\ DOMAIN inbox' = 1..(n - 1)
      /\ \A i \in DOMAIN inbox' : inbox'[i] = inbox[i + 1]
  BY TakenOK
<1> HIDE DEF n
<1>2. /\ \A i \in DOMAIN inbox' : i + 1 \in DOMAIN inbox /\ i + 1 # 1
      /\ \A j \in DOMAIN inbox : j # 1 => j - 1 \in DOMAIN inbox' /\ inbox'[j - 1] = inbox[j]
      /\ 1 \in DOMAIN inbox
  <2>1. \A j \in 1..n : j # 1 => j - 1 \in 1..(n - 1) /\ (j - 1) + 1 = j
    BY <1>1
  <2>2. QED
    BY <1>1, <2>1
<1>3. inbox[1] \in NewEvent \cup ReadEvent /\ True(inbox[1])
  BY <1>2, InboxFacts DEF StoreInv, InboxOK
<1>4. \A m : /\ Ann(m) <=> Ann(m)' \/ (inbox[1].event = "newMessage" /\ inbox[1].msg = m)
             /\ Acked(m) <=> Acked(m)' \/ (inbox[1].event = "messagesRead" /\ m \in inbox[1].ids)
  BY <1>1, <1>2 DEF Ann, Announcing, Acked
<1>5. ASSUME NEW m, inbox[1].event = "newMessage", inbox[1].msg = m, Ann(m)' PROVE FALSE
  <2>1. PICK i \in DOMAIN inbox' : inbox'[i].event = "newMessage" /\ inbox'[i].msg = m
    BY <1>5 DEF Ann, Announcing
  <2>2. Announcing(i + 1, m) /\ Announcing(1, m) /\ m \in DOMAIN stored
    BY <1>1, <1>3, <1>5, <2>1 DEF Announcing, True
  <2>3. QED
    BY <1>2, <2>2 DEF StoreInv, AnnouncedOnce
<1>6. QED
  BY <1>3, <1>4, <1>5

\* Messages are saved, announced and read while no request is under way.
LEMMA SendsScreened ==
    ASSUME StoreInv, StoreInv', Apart', Screened, NEW q \in Peer, Store!PeerSends(q)
    PROVE  Screened'
<1>1. PICK rows, p : rows = messages /\ p = selectedUser
  OBVIOUS
<1>2. /\ Added(q, TRUE) /\ unsent' = unsent \cup {Len(stored')}
      /\ UNCHANGED <<marking, req, inbox, messages, selectedUser>>
  BY DEF Store!PeerSends, Store!Save, Added, Store!screen
<1>3. PICK n : n = Len(stored) + 1
  OBVIOUS
<1>4. /\ Len(stored') = n /\ n \notin DOMAIN stored /\ DOMAIN stored' = DOMAIN stored \cup {n}
      /\ stored'[n] = [with |-> q, fromPeer |-> TRUE, read |-> FALSE]
      /\ \A m \in DOMAIN stored : stored'[m] = stored[m]
  BY <1>2, <1>3, AddedGrows DEF StoreInv, StoreTyped
<1>5. Store!Requests' = {} /\ Store!Requests = {}
  BY <1>2, <1>4 DEF Apart, Store!Requests, Store!Idle
<1>6. \A m : Coming(m)' <=> Coming(m) \/ m = n
  BY <1>2, <1>4 DEF Coming, Ann, Announcing
<1>7. \A m : Receipt(p, m)' <=> Receipt(p, m)
  BY <1>2 DEF Receipt, Acked
<1>8. /\ Store!Conversation(p)' \in SUBSET Nat
      /\ Store!Conversation(p) \subseteq DOMAIN stored
      /\ \A x \in DOMAIN stored : n > x
  <2>1. Len(stored) \in Nat /\ DOMAIN stored = 1..Len(stored)
    BY InboxFacts
  <2>2. Store!Conversation(p)' \subseteq DOMAIN stored' /\ DOMAIN stored' \subseteq Nat
    BY <1>3, <1>4, <2>1 DEF Store!Conversation
  <2>3. QED
    BY <1>3, <2>1, <2>2 DEF Store!Conversation
<1>9. /\ Store!Conversation(p) \subseteq Store!Conversation(p)'
      /\ \A m \in Store!Conversation(p)' : m \in Store!Conversation(p) \/ m = n
  BY <1>4 DEF Store!Conversation
<1>10. Faithful(rows, p)'
  <2>1. \A m \in Store!Conversation(p) : stored'[m] = stored[m]
    BY <1>4, <1>8
  <2>2. RowsOK(rows) /\ Faithful(rows, p) /\ StoreTyped
    BY <1>1, <1>5 DEF Screened, StoreInv
  <2>3. \A m \in Store!Conversation(p) : m # n
    BY <1>4, <1>8
  <2>4. \A m \in Store!Conversation(p) :
              /\ stored'[m].fromPeer = stored[m].fromPeer
              /\ \/ stored[m].fromPeer \/ Receipt(p, m)'
                 \/ stored'[m].read = stored[m].read /\ (Receipt(p, m) => ~stored[m].read)
    BY <1>7, <2>1
  <2>5. \A m \in Store!Conversation(p) : Coming(m)' <=> Coming(m)
    BY <1>6, <2>3
  <2>6. \A m \in Store!Conversation(p)' :
              m \in Store!Conversation(p)
              \/ (Coming(m)' /\ \A x \in Store!Conversation(p) : m > x)
    BY <1>6, <1>8, <1>9
  <2>7. QED
    BY <1>8, <1>9, <2>2, <2>4, <2>5, <2>6, FaithfulStays
<1>11. messages' = rows /\ selectedUser' = p
  BY <1>1, <1>2
<1>12. Faithful(messages, selectedUser)'
  BY <1>10, <1>11 DEF Faithful, Covered
<1>13. QED
  BY <1>5, <1>12 DEF Screened

\* What the other steps of the server do to a screen when no request is under way.
LEMMA KeptScreened ==
    ASSUME StoreInv, Screened, Store!Requests = {}, NEW p, p = selectedUser,
           UNCHANGED <<req, messages, selectedUser>>,
           DOMAIN stored' = DOMAIN stored,
           \A m \in DOMAIN stored : /\ stored'[m].with = stored[m].with
                                    /\ stored'[m].fromPeer = stored[m].fromPeer,
           \A m \in Store!Conversation(p) : Coming(m)' <=> Coming(m),
           \A m \in Store!Conversation(p) :
              \/ stored[m].fromPeer \/ Receipt(p, m)'
              \/ stored'[m].read = stored[m].read /\ (Receipt(p, m) => ~stored[m].read)
    PROVE  Screened'
<1>1. PICK rows : rows = messages
  OBVIOUS
<1>2. RowsOK(rows) /\ Faithful(rows, p) /\ StoreTyped
  BY <1>1 DEF Screened, StoreInv
<1>3. Store!Conversation(p)' = Store!Conversation(p) /\ Store!Conversation(p) \subseteq DOMAIN stored
  BY DEF Store!Conversation
<1>4. Store!Conversation(p)' \in SUBSET Nat
  BY <1>2, <1>3, ConversationIsFinite
<1>5. \A m \in Store!Conversation(p) :
              /\ stored'[m].fromPeer = stored[m].fromPeer
              /\ \/ stored[m].fromPeer \/ Receipt(p, m)'
                 \/ stored'[m].read = stored[m].read /\ (Receipt(p, m) => ~stored[m].read)
  BY <1>3
<1>6. Faithful(rows, p)'
  BY <1>2, <1>3, <1>4, <1>5, FaithfulStays
<1>7. messages' = rows /\ selectedUser' = p
  BY <1>1
<1>8. Faithful(messages, selectedUser)'
  BY <1>6, <1>7 DEF Faithful, Covered
<1>9. Store!Requests' = {}
  BY DEF Store!Requests, Store!Idle
<1>10. QED
  BY <1>8, <1>9 DEF Screened

LEMMA MarksScreened ==
    ASSUME StoreInv, Apart', Screened, NEW q \in Peer, Store!PeerMarks(q)
    PROVE  Screened'
<1>1. PICK p : p = selectedUser
  OBVIOUS
<1>2. PICK S : S = Store!SentTo(q)
  OBVIOUS
<1>3. /\ stored' = [m \in DOMAIN stored |-> [stored[m] EXCEPT !.read = @ \/ m \in S]]
      /\ marking' = marking \cup {q}
      /\ UNCHANGED <<unsent, req, inbox, messages, selectedUser>>
  BY <1>2 DEF Store!PeerMarks, Store!screen
<1>4. \A m \in DOMAIN stored : stored[m] \in StoreMessage
  BY SeqMembers DEF StoreInv, StoreTyped
<1>5. /\ DOMAIN stored' = DOMAIN stored
      /\ \A m \in DOMAIN stored : /\ stored'[m].with = stored[m].with
                                  /\ stored'[m].fromPeer = stored[m].fromPeer
                                  /\ stored'[m].read = (stored[m].read \/ m \in S)
  BY <1>3, <1>4 DEF StoreMessage
<1>6. Store!Requests = {}
  BY <1>3 DEF Apart, Store!Requests, Store!Idle
<1>7. \A m : Coming(m)' <=> Coming(m)
  BY <1>3 DEF Coming, Ann, Announcing
<1>8. \A m : Receipt(p, m)' <=> Receipt(p, m) \/ p = q
  BY <1>3 DEF Receipt, Acked
<1>9. ASSUME NEW m \in Store!Conversation(p)
      PROVE  \/ stored[m].fromPeer \/ Receipt(p, m)'
             \/ stored'[m].read = stored[m].read /\ (Receipt(p, m) => ~stored[m].read)
  <2>1. m \in DOMAIN stored /\ stored[m].with = p /\ stored[m].read \in BOOLEAN
    BY <1>4 DEF Store!Conversation, StoreMessage
  <2>2. CASE p = q
    BY <1>8, <2>2
  <2>3. CASE p # q
    <3>1. m \notin S
      BY <1>2, <2>1, <2>3 DEF Store!SentTo
    <3>2. stored'[m].read = stored[m].read
      BY <1>5, <2>1, <3>1
    <3>3. QED
      BY <1>8, <3>2
  <2>4. QED
    BY <2>2, <2>3
<1>10. QED
  BY <1>1, <1>3, <1>5, <1>6, <1>7, <1>9, KeptScreened

LEMMA NewMessageScreened ==
    ASSUME StoreInv, Apart, Screened, NEW n, Store!NewMessage(n)
    PROVE  Screened'
<1>1. PICK p : p = selectedUser
  OBVIOUS
<1>2. PICK e : e = [event |-> "newMessage", msg |-> n]
  OBVIOUS
<1>3. /\ n \in unsent /\ unsent' = unsent \ {n} /\ inbox' = Append(inbox, e)
      /\ UNCHANGED <<stored, marking, req, messages, selectedUser>>
  BY <1>2 DEF Store!NewMessage, Store!Emit, Store!screen, Apart
<1>4. e \in NewEvent /\ e.event = "newMessage" /\ e.msg = n
  BY <1>2, <1>3, InboxFacts DEF NewEvent, StoreInv, StoreTyped
<1>5. \A m : (Ann(m)' <=> Ann(m) \/ m = n) /\ (Acked(m)' <=> Acked(m))
  BY <1>3, <1>4, AfterEmit
<1>6. \A m : (Coming(m)' <=> Coming(m)) /\ (Receipt(p, m)' <=> Receipt(p, m))
  BY <1>3, <1>5 DEF Coming, Receipt
<1>7. Store!Requests = {}
  BY <1>3 DEF Apart
<1>8. QED
  BY <1>1, <1>3, <1>6, <1>7, KeptScreened

LEMMA MessagesReadScreened ==
    ASSUME StoreInv, Apart, Screened, NEW q \in Peer, Store!MessagesRead(q)
    PROVE  Screened'
<1>1. PICK p : p = selectedUser
  OBVIOUS
<1>2. PICK ids : ids = {m \in Store!SentTo(q) : stored[m].read}
  OBVIOUS
<1>3. PICK e : e = [event |-> "messagesRead", ids |-> ids]
  OBVIOUS
<1>4. /\ q \in marking /\ marking' = marking \ {q} /\ inbox' = Append(inbox, e)
      /\ UNCHANGED <<stored, unsent, req, messages, selectedUser>>
  BY <1>2, <1>3 DEF Store!MessagesRead, Store!Emit, Store!screen, Apart
<1>5. e \in ReadEvent /\ e.event = "messagesRead" /\ e.ids = ids
  <2>1. ids \subseteq Nat
    BY <1>2, InboxFacts DEF Store!SentTo
  <2>2. QED
    BY <1>3, <2>1 DEF ReadEvent
<1>6. \A m : (Ann(m)' <=> Ann(m)) /\ (Acked(m)' <=> Acked(m) \/ m \in ids)
  BY <1>4, <1>5, AfterEmit
<1>7. \A m : Coming(m)' <=> Coming(m)
  BY <1>4, <1>6 DEF Coming
<1>8. ASSUME NEW m \in Store!Conversation(p)
      PROVE  \/ stored[m].fromPeer \/ Receipt(p, m)'
             \/ stored'[m].read = stored[m].read /\ (Receipt(p, m) => ~stored[m].read)
  <2>1. m \in DOMAIN stored /\ stored[m].with = p
    BY DEF Store!Conversation
  <2>2. CASE p = q
    <3>1. ~stored[m].fromPeer /\ stored[m].read => m \in ids
      BY <1>2, <2>1, <2>2 DEF Store!SentTo
    <3>2. m \in ids => Receipt(p, m)'
      BY <1>6 DEF Receipt
    <3>3. QED
      BY <1>4, <3>1, <3>2
  <2>3. CASE p # q
    <3>1. Receipt(p, m) => Receipt(p, m)'
      BY <1>4, <1>6, <2>3 DEF Receipt
    <3>2. QED
      BY <1>4, <3>1
  <2>4. QED
    BY <2>2, <2>3
<1>9. Store!Requests = {}
  BY <1>4 DEF Apart
<1>10. QED
  BY <1>1, <1>4, <1>7, <1>8, <1>9, KeptScreened

\* An event arrives while no request is under way.
LEMMA EventScreened ==
    ASSUME StoreInv, Apart, Screened, selectedUser # Store!Nobody, Store!ReceiveEvent
    PROVE  Screened'
<1>1. PICK rows, p, e : rows = messages /\ p = selectedUser /\ e = inbox[1]
  OBVIOUS
<1>2. /\ inbox # <<>> /\ Head(inbox) = e
      /\ UNCHANGED <<stored, unsent, marking, req, connected, selectedUser>>
  BY <1>1, TakenOK DEF Store!ReceiveEvent, Store!server, Store!OnNewMessage, Store!OnMessagesRead
<1>3. Store!Requests = {} /\ Store!Requests' = {}
  BY <1>2 DEF Apart, Store!Requests, Store!Idle
<1>4. /\ e \in NewEvent \cup ReadEvent /\ True(e)
      /\ \A m : /\ Ann(m) <=> Ann(m)' \/ (e.event = "newMessage" /\ e.msg = m)
                /\ (e.event = "newMessage" /\ e.msg = m => ~Ann(m)')
                /\ Acked(m) <=> Acked(m)' \/ (e.event = "messagesRead" /\ m \in e.ids)
  BY <1>1, AfterTake
<1>5. RowsOK(rows) /\ Faithful(rows, p) /\ StoreTyped /\ selectedUser' = p
  BY <1>1, <1>2, <1>3 DEF Screened, StoreInv
<1>6. CASE e.event = "newMessage"
  <2>1. PICK n : n = e.msg
    OBVIOUS
  <2>2. n \in DOMAIN stored /\ stored[n].fromPeer /\ Store!OnNewMessage(n) /\ Ann(n) /\ ~Ann(n)'
    BY <1>2, <1>4, <1>6, <2>1 DEF True, Store!ReceiveEvent
  <2>3. n \notin unsent /\ n \notin unsent' /\ Coming(n) /\ ~Coming(n)'
    BY <1>2, <2>2, AnnKnown DEF Coming
  <2>4. \A m : m # n => (Coming(m)' <=> Coming(m))
    BY <1>2, <1>4, <1>6, <2>1 DEF Coming
  <2>5. \A m : Receipt(p, m)' <=> Receipt(p, m)
    BY <1>2, <1>4, <1>6 DEF Receipt
  <2>6. CASE stored[n].with = p
    <3>1. messages' = Append(rows, [msg |-> n, read |-> FALSE])
      BY <1>1, <2>2, <2>6 DEF Store!OnNewMessage
    <3>2. Store!Conversation(p)' = Store!Conversation(p) /\ n \in Store!Conversation(p)
      BY <1>2, <2>2, <2>6 DEF Store!Conversation
    <3>3. Store!Conversation(p)' \in SUBSET Nat /\ Store!Conversation(p)' = Store!Conversation(p) \cup {n}
      BY <1>5, <3>2, ConversationIsFinite
    <3>4. stored'[n].fromPeer \/ stored'[n].read = FALSE
      BY <1>2, <2>2
    <3>5. PICK r : r = FALSE
      OBVIOUS
    <3>6. Faithful(Append(rows, [msg |-> n, read |-> r]), p)'
      BY <1>2, <1>5, <2>3, <2>4, <2>5, <3>2, <3>3, <3>4, <3>5, FaithfulAppend
    <3>7. PICK all : all = Append(rows, [msg |-> n, read |-> r])
      OBVIOUS
    <3>8. Faithful(all, p)' /\ messages' = all
      BY <3>1, <3>5, <3>6, <3>7 DEF Faithful, Covered
    <3>9. Faithful(messages, selectedUser)'
      BY <1>5, <3>8 DEF Faithful, Covered
    <3>10. QED
      BY <1>3, <3>9 DEF Screened
  <2>7. CASE stored[n].with # p
    <3>1. messages' = messages
      BY <1>1, <2>2, <2>7 DEF Store!OnNewMessage
    <3>2. n \notin Store!Conversation(p)
      BY <2>7 DEF Store!Conversation
    <3>3. \A m \in Store!Conversation(p) : Coming(m)' <=> Coming(m)
      BY <2>4, <3>2
    <3>4. QED
      BY <1>1, <1>2, <1>3, <2>5, <3>1, <3>3, KeptScreened
  <2>8. QED
    BY <2>6, <2>7
<1>7. CASE e.event = "messagesRead"
  <2>1. PICK ids : ids = e.ids
    OBVIOUS
  <2>2. Store!OnMessagesRead(ids) /\ \A m \in ids : m \in DOMAIN stored /\ stored[m].read
    BY <1>2, <1>4, <1>7, <2>1 DEF True, Store!ReceiveEvent
  <2>3. PICK all : all = [i \in DOMAIN rows |-> [rows[i] EXCEPT !.read = @ \/ rows[i].msg \in ids]]
    OBVIOUS
  <2>4. messages' = all
    BY <1>1, <2>2, <2>3 DEF Store!OnMessagesRead
  <2>5. \A m : Coming(m)' <=> Coming(m)
    BY <1>2, <1>4, <1>7 DEF Coming
  <2>6. \A m : Receipt(p, m) => Receipt(p, m)' \/ m \in ids
    BY <1>2, <1>4, <1>7, <2>1 DEF Receipt
  <2>7. Faithful([i \in DOMAIN rows |-> [rows[i] EXCEPT !.read = @ \/ rows[i].msg \in ids]], p)'
    BY <1>2, <1>5, <2>2, <2>5, <2>6, FaithfulMarked
  <2>8. Faithful(all, p)'
    BY <2>3, <2>7
  <2>9. Faithful(messages, selectedUser)'
    BY <1>5, <2>4, <2>8 DEF Faithful, Covered
  <2>10. QED
    BY <1>3, <2>9 DEF Screened
<1>8. QED
  BY <1>4, <1>6, <1>7 DEF NewEvent, ReadEvent

\* A step changes one request.
LEMMA OneRequest ==
    ASSUME StoreInv, NEW s \in Slot, NEW h, req' = [req EXCEPT ![s] = h]
    PROVE  /\ req'[s] = h /\ \A r \in Slot : r # s => req'[r] = req[r]
           /\ Store!Requests' \subseteq Store!Requests \cup {s}
           /\ Store!Requests \subseteq Store!Requests' \cup {s}
           /\ s \in Store!Requests' <=> h # Store!Idle
           /\ h = Store!Idle /\ Store!Requests = {s} => Store!Requests' = {}
           /\ h # Store!Idle /\ Store!Requests \subseteq {s} => Store!Requests' = {s}
           /\ Store!Requests' \subseteq {s} => Store!Requests \subseteq {s}
<1>1. req'[s] = h /\ \A r \in Slot : r # s => req'[r] = req[r]
  BY DEF StoreInv
<1>2. \A r \in Slot : r # s => (r \in Store!Requests' <=> r \in Store!Requests)
  BY <1>1 DEF Store!Requests, Store!Idle
<1>3. s \in Store!Requests' <=> h # Store!Idle
  BY <1>1 DEF Store!Requests, Store!Idle
<1>4. Store!Requests \subseteq Slot /\ Store!Requests' \subseteq Slot
  BY DEF Store!Requests
<1>5. QED
  BY <1>1, <1>2, <1>3, <1>4

LEMMA SendScreened ==
    ASSUME StoreInv, Apart', Screened, NEW s \in Slot, Store!SendMessage(s)
    PROVE  Screened'
<1>1. PICK rows, p : rows = messages /\ p = selectedUser
  OBVIOUS
<1>2. PICK h : h = [at |-> "sent", kind |-> "send", with |-> p, captured |-> rows]
  OBVIOUS
<1>3. /\ req[s] = Store!Idle /\ req' = [req EXCEPT ![s] = h]
      /\ UNCHANGED <<stored, unsent, marking, inbox, messages, selectedUser>>
  BY <1>1, <1>2 DEF Store!SendMessage, Store!Issue, Store!server, Store!screen
<1>4. /\ h # Store!Idle /\ h.at = "sent" /\ h.kind = "send" /\ h.with = p /\ h.captured = rows
  BY <1>2 DEF Store!Idle
<1>5. s \in Store!Requests' /\ req'[s] = h /\ Store!Requests \subseteq Store!Requests' \cup {s}
  BY <1>3, <1>4, OneRequest
<1>6. Store!Requests' = {s} /\ Store!Requests = {}
  <2>1. Store!Requests' = {s}
    BY <1>5 DEF Apart
  <2>2. s \notin Store!Requests
    BY <1>3 DEF Store!Requests
  <2>3. QED
    BY <1>5, <2>1, <2>2
<1>7. Faithful(rows, p)
  BY <1>1, <1>6 DEF Screened
<1>8. Faithful(rows, p)' /\ messages' = rows /\ selectedUser' = p
  BY <1>1, <1>3, <1>7 DEF Faithful, Covered, Coming, Ann, Announcing, Receipt, Acked, Store!Conversation
<1>9. Faithful(messages, selectedUser)'
  BY <1>8 DEF Faithful, Covered
<1>10. ForScreen(req[s])'
  BY <1>4, <1>5, <1>8, <1>9 DEF ForScreen
<1>11. QED
  BY <1>6, <1>10 DEF Screened

LEMMA GetScreened ==
    ASSUME StoreInv, Apart, Screened, selectedUser # Store!Nobody, NEW s \in Slot, Store!GetMessages(s)
    PROVE  Screened'
<1>1. PICK q : q = req[s]
  OBVIOUS
<1>2. PICK page, p : page = Store!Page(q.with) /\ p = selectedUser
  OBVIOUS
<1>3. PICK h : h = [at |-> "answered", kind |-> "get", page |-> page]
  OBVIOUS
<1>4. /\ q.at = "sent" /\ q.kind = "get" /\ req' = [req EXCEPT ![s] = h]
      /\ UNCHANGED <<stored, unsent, marking, inbox, messages, selectedUser>>
  BY <1>1, <1>2, <1>3 DEF Store!GetMessages, Store!Go, Store!server, Store!screen
<1>5. h # Store!Idle /\ h.at = "answered" /\ h.kind = "get" /\ h.page = page
  BY <1>3 DEF Store!Idle
<1>6. s \in Store!Requests
  BY <1>1, <1>4 DEF Store!Requests, Store!Idle
<1>7. Store!Requests = {s} /\ unsent = {} /\ inbox = <<>>
  BY <1>6 DEF Apart
<1>8. Store!Requests' = {s} /\ req'[s] = h
  BY <1>4, <1>5, <1>7, OneRequest
<1>9. q.with = p /\ p \in Peer
  BY <1>1, <1>2, <1>4, <1>6 DEF Screened, ForScreen, StoreInv, StoreTyped
<1>10. Faithful(page, p)
  BY <1>2, <1>7, <1>9, PageIsFaithful DEF StoreInv
<1>11. Faithful(page, p)' /\ selectedUser' = p
  BY <1>2, <1>4, <1>10 DEF Faithful, Covered, Coming, Ann, Announcing, Receipt, Acked, Store!Conversation
<1>12. ForScreen(req[s])'
  <2>1. req'[s].at = "answered" /\ req'[s].kind = "get" /\ req'[s].page = page
    BY <1>5, <1>8
  <2>2. Faithful(req[s].page, selectedUser)'
    BY <1>11, <2>1 DEF Faithful, Covered
  <2>3. QED
    BY <2>1, <2>2 DEF ForScreen
<1>13. QED
  BY <1>8, <1>12 DEF Screened

LEMMA SaveScreened ==
    ASSUME StoreInv, StoreInv', Apart, Screened, selectedUser # Store!Nobody,
           NEW s \in Slot, Store!SaveMessage(s)
    PROVE  Screened'
<1>1. PICK q, rows, p, n : q = req[s] /\ rows = messages /\ p = selectedUser /\ n = Len(stored) + 1
  OBVIOUS
<1>2. /\ q.at = "sent" /\ q.kind = "send" /\ Added(q.with, FALSE)
      /\ req' = [req EXCEPT ![s] = [at |-> "answered", kind |-> "send", captured |-> q.captured,
                                    row |-> [msg |-> Len(stored'), read |-> FALSE]]]
      /\ UNCHANGED <<unsent, marking, inbox, messages, selectedUser>>
  BY <1>1 DEF Store!SaveMessage, Store!Save, Added, Store!Go, Store!screen
<1>3. s \in Store!Requests
  BY <1>1, <1>2 DEF Store!Requests, Store!Idle
<1>4. Store!Requests = {s} /\ unsent = {} /\ inbox = <<>>
  BY <1>3 DEF Apart
<1>5. q.with = p /\ p \in Peer /\ q.captured = rows /\ Faithful(rows, p) /\ RowsOK(rows)
  BY <1>1, <1>2, <1>3 DEF Screened, ForScreen, StoreInv, StoreTyped
<1>6. /\ Len(stored') = n /\ n \notin DOMAIN stored /\ DOMAIN stored' = DOMAIN stored \cup {n}
      /\ stored'[n] = [with |-> p, fromPeer |-> FALSE, read |-> FALSE]
      /\ \A m \in DOMAIN stored : stored'[m] = stored[m]
  BY <1>1, <1>2, <1>5, AddedGrows DEF StoreInv, StoreTyped
<1>7. PICK row : row = [msg |-> n, read |-> FALSE]
  OBVIOUS
<1>8. PICK h : h = [at |-> "answered", kind |-> "send", captured |-> rows, row |-> row]
  OBVIOUS
<1>9. h # Store!Idle /\ h.at = "answered" /\ h.kind = "send" /\ h.captured = rows /\ h.row = row
  BY <1>8 DEF Store!Idle
<1>10. Store!Requests' = {s} /\ req'[s] = h
  <2>1. req' = [req EXCEPT ![s] = h]
    BY <1>2, <1>5, <1>6, <1>7, <1>8
  <2>2. QED
    BY <1>4, <1>9, <2>1, OneRequest
<1>11. \A m : ~Coming(m) /\ ~Coming(m)' /\ (Receipt(p, m)' <=> Receipt(p, m))
  BY <1>2, <1>4 DEF Coming, Ann, Receipt, Acked
<1>12. /\ Store!Conversation(p)' = Store!Conversation(p) \cup {n}
       /\ Store!Conversation(p) \subseteq DOMAIN stored
       /\ n \notin Store!Conversation(p) /\ Store!Conversation(p)' \in SUBSET Nat
       /\ \A x \in Store!Conversation(p) : n > x
  <2>1. Len(stored) \in Nat /\ DOMAIN stored = 1..Len(stored)
    BY InboxFacts
  <2>2. \A x \in DOMAIN stored : n > x /\ x \in Nat
    BY <1>1, <2>1
  <2>3. Store!Conversation(p) \subseteq DOMAIN stored
    BY DEF Store!Conversation
  <2>4. Store!Conversation(p)' = Store!Conversation(p) \cup {n}
    BY <1>6 DEF Store!Conversation
  <2>5. n \in Nat
    BY <1>1, <2>1
  <2>6. QED
    BY <1>6, <2>2, <2>3, <2>4, <2>5
<1>13. Faithful(Append(rows, [msg |-> n, read |-> FALSE]), p)'
  <2>1. PICK r : r = FALSE
    OBVIOUS
  <2>2. stored'[n].fromPeer \/ stored'[n].read = r
    <3>1. stored'[n].read = FALSE
      BY <1>6
    <3>2. QED
      BY <2>1, <3>1
  <2>3. \A m \in Store!Conversation(p) : stored'[m] = stored[m]
    BY <1>6, <1>12
  <2>4. Faithful(Append(rows, [msg |-> n, read |-> r]), p)'
    BY <1>5, <1>11, <1>12, <2>2, <2>3, FaithfulAppend
  <2>5. QED
    BY <2>1, <2>4
<1>14. ForScreen(req[s])'
  <2>1. PICK all : all = Append(rows, row)
    OBVIOUS
  <2>2. Faithful(all, p)' /\ selectedUser' = p
    BY <1>1, <1>2, <1>7, <1>13, <2>1
  <2>3. req'[s].at = "answered" /\ req'[s].kind = "send" /\ Append(req'[s].captured, req'[s].row) = all
    BY <1>9, <1>10, <2>1
  <2>4. Faithful(Append(req[s].captured, req[s].row), selectedUser)'
    BY <2>2, <2>3 DEF Faithful, Covered
  <2>5. QED
    BY <2>3, <2>4 DEF ForScreen
<1>15. QED
  BY <1>10, <1>14 DEF Screened

\* The answer of the one request under way is put on the screen.
LEMMA AnswerScreened ==
    ASSUME StoreInv, Apart, Screened, NEW s \in Slot, Store!ReceiveGet(s) \/ Store!ReceiveSent(s)
    PROVE  Screened'
<1>1. PICK q, p : q = req[s] /\ p = selectedUser
  OBVIOUS
<1>2. PICK rows : /\ q.kind = "get" => rows = q.page
                  /\ q.kind = "send" => rows = Append(q.captured, q.row)
  <2>1. CASE q.kind = "get"
    BY <2>1
  <2>2. CASE q.kind # "get"
    BY <2>2
  <2>3. QED
    BY <2>1, <2>2
<1>3. /\ q.at = "answered" /\ q.kind \in {"get", "send"} /\ messages' = rows
      /\ req' = [req EXCEPT ![s] = Store!Idle]
      /\ UNCHANGED <<stored, unsent, marking, inbox, selectedUser>>
  BY <1>1, <1>2 DEF Store!ReceiveGet, Store!ReceiveSent, Store!Go, Store!server
<1>4. s \in Store!Requests
  BY <1>1, <1>3 DEF Store!Requests, Store!Idle
<1>5. Store!Requests = {s}
  BY <1>4 DEF Apart
<1>6. Store!Requests' = {}
  BY <1>3, <1>5, OneRequest
<1>7. ForScreen(q)
  BY <1>1, <1>4 DEF Screened
<1>8. Faithful(rows, p)
  BY <1>1, <1>2, <1>3, <1>7 DEF ForScreen
<1>9. Faithful(rows, p)' /\ selectedUser' = p
  BY <1>1, <1>3, <1>8 DEF Faithful, Covered, Coming, Ann, Announcing, Receipt, Acked, Store!Conversation
<1>10. Faithful(messages, selectedUser)'
  BY <1>3, <1>9 DEF Faithful, Covered
<1>11. QED
  BY <1>6, <1>10 DEF Screened

\* Another conversation is opened, and its load is the one request under way.
LEMMA SelectScreened ==
    ASSUME StoreInv, Apart', NEW p \in Peer, NEW s \in Slot, Store!Select(p, s)
    PROVE  Screened'
<1>1. PICK h : h = [at |-> "sent", kind |-> "get", with |-> p]
  OBVIOUS
<1>2. req' = [req EXCEPT ![s] = h] /\ selectedUser' = p
  BY <1>1 DEF Store!Select, Store!Issue
<1>3. h # Store!Idle /\ h.at = "sent" /\ h.kind = "get" /\ h.with = p
  BY <1>1 DEF Store!Idle
<1>4. s \in Store!Requests' /\ req'[s] = h
  BY <1>2, <1>3, OneRequest
<1>5. Store!Requests' = {s}
  BY <1>4 DEF Apart
<1>6. ForScreen(req[s])'
  BY <1>2, <1>3, <1>4 DEF ForScreen
<1>7. QED
  BY <1>5, <1>6 DEF Screened

-----------------------------------------------------------------------------
LEMMA RequestsFinite ==
    ASSUME StoreInv, IsFiniteSet(Store!Requests), Store!Next
    PROVE  IsFiniteSet(Store!Requests')
<1>1. UNCHANGED req \/ \E s \in Slot : \E h : req' = [req EXCEPT ![s] = h]
  BY DEF Store!Next, Store!Progress, Store!PeerSends, Store!PeerMarks, Store!Select, Store!Close, Store!SendMessage,
     Store!Failed, Store!Drop, Store!GetMessages, Store!SaveMessage, Store!ReceiveGet, Store!ReceiveSent,
     Store!MessagesRead, Store!NewMessage, Store!ReceiveEvent, Store!Reconnect, Store!Go, Store!Issue
<1>2. CASE UNCHANGED req
  BY <1>2 DEF Store!Requests, Store!Idle
<1>3. ASSUME NEW s \in Slot, NEW h, req' = [req EXCEPT ![s] = h] PROVE IsFiniteSet(Store!Requests')
  <2>1. Store!Requests' \subseteq Store!Requests \cup {s}
    BY <1>3, OneRequest
  <2>2. IsFiniteSet(Store!Requests \cup {s})
    BY FS_AddElement
  <2>3. QED
    BY <2>1, <2>2, FS_Subset
<1>4. QED
  BY <1>1, <1>2, <1>3

LEMMA MeetCardinality ==
    Store!Cardinality(Store!Requests) = Cardinality(Store!Requests)
    /\ Store!Cardinality(Store!Requests)' = Cardinality(Store!Requests')
BY DEF Store!Cardinality, Cardinality, Store!IsFiniteSet, IsFiniteSet

LEMMA NextScreenInv ==
    ASSUME StoreInv, StoreInv', ScreenInv, Store!ObservedNext
    PROVE  ScreenInv'
<1>1. /\ Store!Next
      /\ clean' => /\ clean \/ selectedUser' \notin {selectedUser, "nobody"}
                   /\ ~Store!Meet' /\ faults' = faults
  BY DEF Store!ObservedNext
<1>2. IsFiniteSet(Store!Requests) /\ IsFiniteSet(Store!Requests')
  BY <1>1, RequestsFinite DEF ScreenInv
<1> SUFFICES ASSUME clean', selectedUser' # "nobody" PROVE Screened'
  BY <1>1, <1>2 DEF ScreenInv
<1>3. Apart'
  <2>1. \A s, t \in Store!Requests' : s = t
    BY <1>1, <1>2, AtMostOne, MeetCardinality DEF Store!Meet
  <2>2. QED
    BY <1>1, <2>1 DEF Apart, Store!Meet, Store!ServerBusy
<1>4. CASE \E p \in Peer, s \in Slot : Store!Select(p, s)
  BY <1>3, <1>4, SelectScreened
<1>5. CASE ~\E p \in Peer, s \in Slot : Store!Select(p, s)
  <2>1. UNCHANGED selectedUser
    BY <1>1, <1>5 DEF Store!Next, Store!Progress, Store!PeerSends, Store!PeerMarks, Store!Close, Store!SendMessage,
       Store!Failed, Store!Drop, Store!GetMessages, Store!SaveMessage, Store!ReceiveGet, Store!ReceiveSent,
       Store!MessagesRead, Store!NewMessage, Store!ReceiveEvent, Store!OnNewMessage, Store!OnMessagesRead,
       Store!Reconnect, Store!screen
  <2>2. clean /\ faults' = faults
    BY <1>1, <2>1
  <2>3. selectedUser # "nobody" /\ Screened /\ ~Store!Meet
    BY <2>1, <2>2 DEF ScreenInv
  <2>4. Apart
    <3>1. \A s, t \in Store!Requests : s = t
      BY <1>2, <2>3, AtMostOne, MeetCardinality DEF Store!Meet
    <3>2. QED
      BY <2>3, <3>1 DEF Apart, Store!Meet, Store!ServerBusy
  <2>5. ASSUME NEW p \in Peer, Store!PeerSends(p) \/ Store!PeerMarks(p) \/ Store!MessagesRead(p)
        PROVE  Screened'
    BY <1>3, <2>3, <2>4, <2>5, SendsScreened, MarksScreened, MessagesReadScreened
  <2>6. ASSUME NEW s \in Slot, \/ Store!SendMessage(s) \/ Store!GetMessages(s) \/ Store!SaveMessage(s)
                               \/ Store!ReceiveGet(s) \/ Store!ReceiveSent(s)
        PROVE  Screened'
    BY <1>3, <2>3, <2>4, <2>6, SendScreened, GetScreened, SaveScreened, AnswerScreened
  <2>7. ASSUME NEW m \in DOMAIN stored, Store!NewMessage(m) PROVE Screened'
    BY <2>3, <2>4, <2>7, NewMessageScreened
  <2>8. CASE Store!ReceiveEvent
    BY <2>3, <2>4, <2>8, EventScreened
  <2>9. ~Store!Close
    BY DEF Store!Close
  <2>10. ~Store!Drop /\ ~Store!Reconnect /\ \A s \in Slot : ~Store!Failed(s)
    <3>1. faults \in Nat
      BY DEF StoreInv, StoreTyped
    <3>2. QED
      <4>1. faults + 1 # faults
        BY <3>1
      <4>2. ~Store!Drop /\ \A s \in Slot : ~Store!Failed(s)
        BY <2>2, <4>1 DEF Store!Drop, Store!Failed
      <4>3. ~Store!Reconnect
        BY <2>4 DEF Store!Reconnect, Apart
      <4>4. QED
        BY <4>2, <4>3
  <2>11. QED
    BY <1>1, <1>5, <2>5, <2>6, <2>7, <2>8, <2>9, <2>10 DEF Store!Next, Store!Progress
<1>6. QED
  BY <1>4, <1>5

\* A screen rests while the reader of the history steps.
LEMMA ScreenRests ==
    ASSUME ScreenInv, UNCHANGED storeVars
    PROVE  ScreenInv'
<1>1. UNCHANGED <<stored, unsent, marking, req, inbox, connected, selectedUser, messages, clean>>
  BY DEF storeVars
<1>2. Store!Requests' = Store!Requests
  BY <1>1 DEF Store!Requests, Store!Idle
<1>3. Store!Meet' <=> Store!Meet
  BY <1>1, <1>2, MeetCardinality DEF Store!Meet, Store!ServerBusy
<1>4. ASSUME NEW rows, NEW p, Faithful(rows, p) PROVE Faithful(rows, p)'
  BY <1>1, <1>4 DEF Faithful, Covered, Coming, Ann, Announcing, Receipt, Acked, Store!Conversation
<1>5. ASSUME Screened PROVE Screened'
  <2>1. PICK rows, p : rows = messages /\ p = selectedUser
    OBVIOUS
  <2>2. rows = messages' /\ p = selectedUser'
    BY <1>1, <2>1
  <2>3. Faithful(messages, selectedUser) => Faithful(messages, selectedUser)'
    <3>1. Faithful(rows, p) => Faithful(rows, p)'
      BY <1>4
    <3>2. QED
      BY <2>1, <2>2, <3>1 DEF Faithful, Covered
  <2>4. ASSUME NEW s \in Store!Requests PROVE ForScreen(req[s])'
    <3>1. PICK q : q = req[s]
      OBVIOUS
    <3>2. ForScreen(q) /\ q = req'[s]
      BY <1>1, <1>5, <2>4, <3>1 DEF Screened
    <3>3. /\ Faithful(q.page, p) => Faithful(q.page, p)'
          /\ Faithful(Append(q.captured, q.row), p) => Faithful(Append(q.captured, q.row), p)'
      BY <1>4
    <3>4. ForScreen(q)'
      BY <1>1, <2>1, <2>2, <2>3, <3>2, <3>3 DEF ForScreen
    <3>5. QED
      BY <3>2, <3>4 DEF ForScreen
  <2>5. QED
    BY <1>2, <1>5, <2>3, <2>4 DEF Screened
<1>6. QED
  BY <1>1, <1>2, <1>3, <1>5 DEF ScreenInv

\* Once a conversation has been opened, its screen shows the newest messages of it, each
\* once and with its status, as often as nothing is on its way: through any messages and
\* receipts, until one of them meets a request, a request fails or the socket drops
\* (useChatStore.js and useAuthStore.js against message.controllers.js).
THEOREM ScreenAlwaysFaithful == MCSpec => []ScreenIsFaithful
<1>1. MCInit => StoreInv /\ ScreenInv
  <2>1. ASSUME MCInit PROVE ScreenInv
    <3>1. Store!Requests = {} /\ ~clean
      BY <2>1 DEF MCInit, Store!ObservedInit, Store!Init, Store!Requests
    <3>2. QED
      BY <3>1, FS_EmptySet DEF ScreenInv
  <2>2. QED
    BY <2>1, InitStoreInv
<1>2. StoreInv /\ ScreenInv /\ [MCNext]_mcVars => StoreInv' /\ ScreenInv'
  <2> SUFFICES ASSUME StoreInv, ScreenInv, [MCNext]_mcVars PROVE StoreInv' /\ ScreenInv'
    OBVIOUS
  <2>1. StoreInv'
    BY NextStoreInv
  <2>2. CASE Store!ObservedNext
    BY <2>1, <2>2, NextScreenInv
  <2>3. CASE UNCHANGED storeVars
    BY <2>1, <2>3, ScreenRests
  <2>4. QED
    BY <2>1, <2>2, <2>3 DEF MCNext, mcVars, StoreStep, HistoryStep
<1>3. StoreInv /\ ScreenInv => ScreenIsFaithful
  BY FaithfulIsShown
<1>4. QED
  BY <1>1, <1>2, <1>3, PTL DEF MCSpec
=============================================================================
