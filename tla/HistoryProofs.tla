---------------------------- MODULE HistoryProofs ----------------------------
(***************************************************************************)
(* What History.cfg checks of small pages, proved for any number of        *)
(* readings, days and window.  Both properties rest on one fact: ranking   *)
(* the members of a finite set by what is ahead of them puts exactly one   *)
(* of them in every place.  It is stated for any function to be sorted by, *)
(* and used for the page (by time of arrival) and for the median of the    *)
(* intervals around a segment.                                             *)
(***************************************************************************)
EXTENDS History, FiniteSetTheorems, TLAPS

TypeOK == rows \in Seq([time : Nat, accuracy : Accuracies])

-----------------------------------------------------------------------------
(* Ranking. *)

Earlier(t, i, j) == t[i] < t[j] \/ (t[i] = t[j] /\ i < j)
Ahead(t, S, i) == {j \in S : Earlier(t, j, i)}
Rank(t, S, i) == Cardinality(Ahead(t, S, i)) + 1

LEMMA RankRange ==
    ASSUME NEW S \in SUBSET Int, IsFiniteSet(S), NEW t, \A k \in S : t[k] \in Int, NEW i \in S
    PROVE  /\ IsFiniteSet(Ahead(t, S, i))
           /\ Rank(t, S, i) \in 1..Cardinality(S)
<1>1. Ahead(t, S, i) \subseteq S \ {i}
  BY DEF Ahead, Earlier
<1>2. /\ IsFiniteSet(S \ {i}) /\ Cardinality(S \ {i}) = Cardinality(S) - 1
      /\ Cardinality(S) \in Nat
  BY FS_RemoveElement, FS_CardinalityType
<1>3. /\ IsFiniteSet(Ahead(t, S, i))
      /\ Cardinality(Ahead(t, S, i)) <= Cardinality(S \ {i})
      /\ Cardinality(Ahead(t, S, i)) \in Nat
  BY <1>1, <1>2, FS_Subset, FS_CardinalityType
<1> QED
  BY <1>2, <1>3 DEF Rank

(* Who is earlier has the lower rank. *)
LEMMA RankRises ==
    ASSUME NEW S \in SUBSET Int, IsFiniteSet(S), NEW t, \A k \in S : t[k] \in Int,
           NEW i \in S, NEW j \in S, Earlier(t, i, j)
    PROVE  Rank(t, S, i) < Rank(t, S, j)
<1>1. \A k \in S : Earlier(t, k, i) => Earlier(t, k, j)
  <2> SUFFICES ASSUME NEW k \in S, Earlier(t, k, i)
               PROVE  Earlier(t, k, j)
    OBVIOUS
  <2>1. {t[i], t[j], t[k], i, j, k} \subseteq Int
    OBVIOUS
  <2> QED
    BY <2>1 DEF Earlier
<1>2. Ahead(t, S, i) \subseteq Ahead(t, S, j)
  BY <1>1 DEF Ahead
<1>3. i \in Ahead(t, S, j) /\ i \notin Ahead(t, S, i)
  BY DEF Ahead, Earlier
<1>4. /\ IsFiniteSet(Ahead(t, S, j)) /\ IsFiniteSet(Ahead(t, S, i))
      /\ Cardinality(Ahead(t, S, i)) \in Nat /\ Cardinality(Ahead(t, S, j)) \in Nat
  BY RankRange, FS_CardinalityType
<1>5. /\ Cardinality(Ahead(t, S, i)) <= Cardinality(Ahead(t, S, j))
      /\ Cardinality(Ahead(t, S, i)) # Cardinality(Ahead(t, S, j))
  BY <1>2, <1>3, <1>4, FS_Subset
<1> QED
  BY <1>4, <1>5 DEF Rank

(* In every place there is one. *)
LEMMA RankFills ==
    ASSUME NEW S \in SUBSET Int, IsFiniteSet(S), NEW t, \A k \in S : t[k] \in Int
    PROVE  /\ \A n \in 1..Cardinality(S) : \E i \in S : Rank(t, S, i) = n
           /\ \A i, j \in S : Rank(t, S, i) = Rank(t, S, j) => i = j
           /\ \A i, j \in S : Rank(t, S, i) < Rank(t, S, j) => t[i] <= t[j]
<1>1. Cardinality(S) \in Nat
  BY FS_CardinalityType
<1>2. ASSUME NEW i \in S, NEW j \in S
      PROVE  i = j \/ Earlier(t, i, j) \/ Earlier(t, j, i)
  <2>1. {t[i], t[j], i, j} \subseteq Int
    OBVIOUS
  <2> QED
    BY <2>1 DEF Earlier
<1>3. ASSUME NEW i \in S, NEW j \in S
      PROVE  /\ Rank(t, S, i) = Rank(t, S, j) => i = j
             /\ Rank(t, S, i) < Rank(t, S, j) => t[i] <= t[j]
  <2>1. {Rank(t, S, i), Rank(t, S, j), t[i], t[j]} \subseteq Int
    BY <1>1, RankRange
  <2>2. Earlier(t, i, j) => Rank(t, S, i) < Rank(t, S, j)
    BY RankRises
  <2>3. Earlier(t, j, i) => Rank(t, S, j) < Rank(t, S, i)
    BY RankRises
  <2>4. Earlier(t, i, j) => t[i] <= t[j]
    BY <2>1 DEF Earlier
  <2> QED
    BY <1>2, <2>1, <2>2, <2>3, <2>4
<1> DEFINE places == [i \in S |-> Rank(t, S, i)]
<1>4. places \in Injection(S, 1..Cardinality(S))
  BY <1>3, RankRange DEF Injection, IsInjective
<1>5. IsFiniteSet(1..Cardinality(S)) /\ Cardinality(1..Cardinality(S)) = Cardinality(S)
  BY <1>1, FS_Interval
<1>6. places \in Surjection(S, 1..Cardinality(S))
  BY <1>4, <1>5, FS_Injection
<1>7. \A n \in 1..Cardinality(S) : \E i \in S : Rank(t, S, i) = n
  BY <1>6 DEF Surjection
<1> QED
  BY <1>3, <1>7

-----------------------------------------------------------------------------
(* The page. *)

LEMMA OrderedPage ==
    ASSUME TypeOK, NEW S \in SUBSET (DOMAIN rows)
    PROVE  LET page == Ordered(S)
           IN  /\ IsFiniteSet(S)
               /\ DOMAIN page = 1..Cardinality(S)
               /\ page \in Seq(Nat)
               /\ Len(page) = Cardinality(S)
               /\ \A m, n \in DOMAIN page : m < n => page[m] <= page[n]
               /\ \A time : Cardinality({n \in DOMAIN page : page[n] = time})
                              = Cardinality({i \in S : rows[i].time = time})
<1> DEFINE t == [i \in S |-> rows[i].time]
           page == Ordered(S)
<1>1. S \subseteq 1..Len(rows) /\ Len(rows) \in Nat
  BY DEF TypeOK
<1>2. S \in SUBSET Int /\ IsFiniteSet(S) /\ Cardinality(S) \in Nat
  <2>1. IsFiniteSet(1..Len(rows))
    BY <1>1, FS_Interval
  <2> QED
    BY <1>1, <2>1, FS_Subset, FS_CardinalityType
<1>3. t \in [S -> Int] /\ \A i \in S : rows[i].time \in Nat /\ t[i] = rows[i].time
  <2>1. ASSUME NEW T, rows \in Seq(T)
        PROVE  \A i \in S : rows[i] \in T
    BY <1>1, <2>1
  <2>2. \A i \in S : rows[i] \in [time : Nat, accuracy : Accuracies]
    BY <2>1 DEF TypeOK
  <2>3. \A i \in S : rows[i].time \in Nat
    BY <2>2
  <2> QED
    BY <2>3
<1> HIDE DEF t
<1>4. ASSUME NEW n \in 1..Cardinality(S)
      PROVE  Nth(S, n) \in S /\ Rank(t, S, Nth(S, n)) = n
  <2>1. ASSUME NEW i \in S
        PROVE  Cardinality({j \in S : Before(j, i)}) = n - 1 <=> Rank(t, S, i) = n
    <3>1. Cardinality(Ahead(t, S, i)) \in Nat /\ n \in Nat
      BY <1>2, <1>3, RankRange, FS_CardinalityType
    <3>2. {j \in S : Before(j, i)} = Ahead(t, S, i)
      BY <1>3 DEF Before, Ahead, Earlier
    <3>3. Cardinality({j \in S : Before(j, i)}) = Cardinality(Ahead(t, S, i))
      BY <3>2
    <3> QED
      BY <3>1, <3>3 DEF Rank
  <2>2. \E i \in S : Rank(t, S, i) = n
    BY <1>2, <1>3, RankFills
  <2>3. \E i \in S : Cardinality({j \in S : Before(j, i)}) = n - 1
    BY <2>1, <2>2
  <2>4. /\ Nth(S, n) \in S
        /\ Cardinality({j \in S : Before(j, Nth(S, n))}) = n - 1
    BY <2>3, Zenon DEF Nth
  <2> QED
    BY <2>1, <2>4
<1>5. page = [n \in 1..Cardinality(S) |-> rows[Nth(S, n)].time]
  BY DEF Ordered
<1>6. DOMAIN page = 1..Cardinality(S)
  BY <1>5
<1> HIDE DEF page
<1>7. page \in Seq(Nat) /\ Len(page) = Cardinality(S)
  <2>1. page \in [1..Cardinality(S) -> Nat]
    BY <1>3, <1>4, <1>5
  <2> QED
    BY <1>2, <2>1
<1>8. ASSUME NEW m \in DOMAIN page, NEW n \in DOMAIN page, m < n
      PROVE  page[m] <= page[n]
  <2>1. t[Nth(S, m)] <= t[Nth(S, n)]
    <3>1. Rank(t, S, Nth(S, m)) < Rank(t, S, Nth(S, n)) /\ Nth(S, m) \in S /\ Nth(S, n) \in S
      BY <1>4, <1>6, <1>8
    <3> QED
      BY <1>2, <1>3, <3>1, RankFills
  <2> QED
    BY <1>3, <1>4, <1>5, <1>6, <2>1
<1>9. ASSUME NEW time
      PROVE  Cardinality({n \in DOMAIN page : page[n] = time})
               = Cardinality({i \in S : rows[i].time = time})
  <2> DEFINE A == {n \in DOMAIN page : page[n] = time}
             B == {i \in S : rows[i].time = time}
             f == [n \in A |-> Nth(S, n)]
  <2>1. f \in [A -> B]
    BY <1>4, <1>5, <1>6
  <2>2. \A m, n \in A : f[m] = f[n] => m = n
    BY <1>4, <1>6
  <2>3. \A i \in B : \E n \in A : f[n] = i
    <3> SUFFICES ASSUME NEW i \in B
                 PROVE  \E n \in A : f[n] = i
      OBVIOUS
    <3>1. Rank(t, S, i) \in 1..Cardinality(S)
      BY <1>2, <1>3, RankRange
    <3>2. Nth(S, Rank(t, S, i)) = i
      BY <1>2, <1>3, <1>4, <3>1, RankFills
    <3>3. Rank(t, S, i) \in A
      BY <1>5, <1>6, <3>1, <3>2
    <3> QED
      BY <3>2, <3>3
  <2>4. f \in Bijection(A, B)
    BY <2>1, <2>2, <2>3 DEF Bijection, Injection, IsInjective, Surjection
  <2>5. IsFiniteSet(A)
    <3>1. IsFiniteSet(1..Cardinality(S)) /\ A \subseteq 1..Cardinality(S)
      BY <1>2, <1>6, FS_Interval
    <3> QED
      BY <3>1, FS_Subset
  <2> HIDE DEF f, A, B
  <2>6. Cardinality(B) = Cardinality(A)
    BY <2>4, <2>5, FS_Bijection DEF ExistsBijection
  <2> QED
    BY <2>6 DEF A, B
<1> QED
  BY <1>2, <1>6, <1>7, <1>8, <1>9 DEF page

(* A time belongs to a day when it lies between its midnights. *)
LEMMA DayOfTime ==
    ASSUME NEW length \in Nat \ {0}, NEW time \in Nat, NEW from \in Nat, NEW to \in Nat
    PROVE  time \in (from * length)..(to * length + length - 1)
             <=> time \div length \in from..to
<1> DEFINE day == time \div length
           rest == time % length
<1>1. /\ day \in Nat /\ rest \in 0..(length - 1)
      /\ time = length * day + rest
  OBVIOUS
<1> HIDE DEF day, rest
<1>2. ASSUME NEW a \in Nat
      PROVE  /\ a <= day => a * length <= time
             /\ a > day => time < a * length
  <2>1. a <= day => length * a <= length * day
    BY <1>1
  <2>2. a >= day + 1 => length * a >= length * (day + 1)
    BY <1>1
  <2>3. length * (day + 1) = length * day + length /\ length * a = a * length
    BY <1>1
  <2>4. {length * a, length * day, a * length} \subseteq Nat
    BY <1>1
  <2> QED
    BY <1>1, <2>1, <2>2, <2>3, <2>4
<1>3. (to + 1) * length = to * length + length /\ {to * length, from * length} \subseteq Nat
  OBVIOUS
<1>4. from * length <= time <=> from <= day
  BY <1>1, <1>2, <1>3
<1>5. time < (to + 1) * length <=> day <= to
  <2>1. to + 1 \in Nat /\ (to + 1 > day <=> day <= to)
    BY <1>1
  <2>2. (to + 1) * length \in Nat
    OBVIOUS
  <2> QED
    BY <1>1, <1>2, <2>1, <2>2
<1> QED
  BY <1>1, <1>3, <1>4, <1>5 DEF day

-----------------------------------------------------------------------------
(* The median. *)

(* The value in a place exists, and fewer than that many lie below it. *)
LEMMA RankedValue ==
    ASSUME NEW S \in SUBSET Int, IsFiniteSet(S), NEW t, \A k \in S : t[k] \in Int,
           NEW place \in 1..Cardinality(S)
    PROVE  LET v == Ranked(t, S, place)
           IN  /\ v \in Int
               /\ Cardinality({j \in S : t[j] < v}) < place
               /\ Cardinality({j \in S : t[j] <= v}) >= place
<1> DEFINE Fits(v) == /\ Cardinality({j \in S : t[j] < v}) < place
                      /\ Cardinality({j \in S : t[j] <= v}) >= place
<1>1. PICK i \in S : Rank(t, S, i) = place
  BY RankFills
<1>2. /\ IsFiniteSet(Ahead(t, S, i)) /\ i \notin Ahead(t, S, i)
      /\ Cardinality(Ahead(t, S, i)) \in Nat
      /\ Cardinality(Ahead(t, S, i)) + 1 = place
  BY <1>1, RankRange, FS_CardinalityType DEF Ahead, Earlier, Rank
<1>3. Cardinality({j \in S : t[j] < t[i]}) < place
  <2>1. {j \in S : t[j] < t[i]} \subseteq Ahead(t, S, i)
    BY DEF Ahead, Earlier
  <2>2. /\ Cardinality({j \in S : t[j] < t[i]}) \in Nat
        /\ Cardinality({j \in S : t[j] < t[i]}) <= Cardinality(Ahead(t, S, i))
    BY <1>2, <2>1, FS_Subset, FS_CardinalityType
  <2> QED
    BY <1>2, <2>2
<1>4. Cardinality({j \in S : t[j] <= t[i]}) >= place
  <2>1. Ahead(t, S, i) \cup {i} \subseteq {j \in S : t[j] <= t[i]}
    <3>1. ASSUME NEW j \in S, Earlier(t, j, i)
          PROVE  t[j] <= t[i]
      <4>1. t[i] \in Int /\ t[j] \in Int
        OBVIOUS
      <4> QED
        BY <3>1, <4>1 DEF Earlier
    <3>2. t[i] <= t[i]
      <4>1. t[i] \in Int
        OBVIOUS
      <4> QED
        BY <4>1
    <3> QED
      BY <3>1, <3>2 DEF Ahead
  <2>2. Cardinality(Ahead(t, S, i) \cup {i}) = place
    BY <1>2, FS_AddElement
  <2>3. IsFiniteSet({j \in S : t[j] <= t[i]})
    BY FS_Subset
  <2>4. /\ Cardinality({j \in S : t[j] <= t[i]}) \in Nat
        /\ Cardinality(Ahead(t, S, i) \cup {i}) <= Cardinality({j \in S : t[j] <= t[i]})
    BY <2>1, <2>3, FS_Subset, FS_CardinalityType
  <2> QED
    BY <2>2, <2>4
<1>5. \E v \in {t[j] : j \in S} : Fits(v)
  BY <1>3, <1>4
<1>6. Ranked(t, S, place) = CHOOSE v \in {t[j] : j \in S} : Fits(v)
  BY DEF Ranked
<1> HIDE DEF Fits
<1>7. Ranked(t, S, place) \in {t[j] : j \in S} /\ Fits(Ranked(t, S, place))
  BY <1>5, <1>6, Zenon
<1> QED
  BY <1>7 DEF Fits

(* Twice the median is passed exactly when most of the others are passed
   twofold. *)
LEMMA MedianSplits ==
    ASSUME NEW S \in SUBSET Int, IsFiniteSet(S), S # {}, NEW t, \A k \in S : t[k] \in Int, NEW x \in Int
    PROVE  x > Median(t, S) * 2
             <=> 2 * Cardinality({j \in S : 2 * t[j] < x}) > Cardinality(S)
<1> DEFINE n == Cardinality(S)
           v == Median(t, S)
           shorter == {j \in S : 2 * t[j] < x}
<1>1. n \in Nat /\ n > 0
  BY FS_CardinalityType, FS_EmptySet
<1>2. n \div 2 + 1 \in 1..n /\ 2 * (n \div 2) <= n /\ n < 2 * (n \div 2) + 2 /\ n \div 2 \in Nat
  BY <1>1
<1>3. /\ v \in Int
      /\ Cardinality({j \in S : t[j] < v}) < n \div 2 + 1
      /\ Cardinality({j \in S : t[j] <= v}) >= n \div 2 + 1
  BY <1>2, RankedValue DEF Median, Middle
<1> HIDE DEF v
<1>4. IsFiniteSet(shorter) /\ Cardinality(shorter) \in Nat
  BY FS_Subset, FS_CardinalityType
<1>5. ASSUME x > v * 2
      PROVE  2 * Cardinality(shorter) > n
  <2>1. {j \in S : t[j] <= v} \subseteq shorter
    <3> SUFFICES ASSUME NEW j \in S, t[j] <= v
                 PROVE  2 * t[j] < x
      OBVIOUS
    <3>1. t[j] \in Int
      OBVIOUS
    <3> QED
      BY <1>3, <1>5, <3>1
  <2>2. /\ Cardinality({j \in S : t[j] <= v}) \in Nat
        /\ Cardinality({j \in S : t[j] <= v}) <= Cardinality(shorter)
    BY <1>4, <2>1, FS_Subset, FS_CardinalityType
  <2> HIDE DEF shorter
  <2> QED
    BY <1>1, <1>2, <1>3, <1>4, <2>2
<1>6. ASSUME ~(x > v * 2)
      PROVE  ~(2 * Cardinality(shorter) > n)
  <2>1. shorter \subseteq {j \in S : t[j] < v}
    <3> SUFFICES ASSUME NEW j \in S, 2 * t[j] < x
                 PROVE  t[j] < v
      OBVIOUS
    <3>1. t[j] \in Int
      OBVIOUS
    <3> QED
      BY <1>3, <1>6, <3>1
  <2>2. IsFiniteSet({j \in S : t[j] < v})
    BY FS_Subset
  <2>3. /\ Cardinality({j \in S : t[j] < v}) \in Nat
        /\ Cardinality(shorter) <= Cardinality({j \in S : t[j] < v})
    BY <2>1, <2>2, FS_Subset, FS_CardinalityType
  <2> HIDE DEF shorter
  <2> QED
    BY <1>1, <1>2, <1>3, <1>4, <2>3
<1> QED
  BY <1>5, <1>6 DEF v

-----------------------------------------------------------------------------
(* The theorems. *)

LEMMA InitTypeOK ==
    ASSUME Init
    PROVE  TypeOK
BY DEF Init, TypeOK

LEMMA NextTypeOK ==
    ASSUME HistoryConstants, TypeOK, [Next]_rows
    PROVE  TypeOK'
<1>1. CASE UNCHANGED rows
  BY <1>1 DEF TypeOK
<1>2. CASE Next
  <2>1. PICK time \in Times, accuracy \in Accuracies : Store(time, accuracy)
    BY <1>2 DEF Next
  <2>2. LastTime \in Nat
    <3> DEFINE Row == [time : Nat, accuracy : Accuracies]
    <3>1. ASSUME rows # <<>>
          PROVE  rows[Len(rows)] \in Row
      <4> HIDE DEF Row
      <4>1. rows \in Seq(Row)
        BY DEF TypeOK, Row
      <4>2. Len(rows) \in 1..Len(rows)
        BY <3>1, <4>1
      <4> QED
        BY <4>1, <4>2
    <3> QED
      BY <3>1 DEF LastTime
  <2>3. time \in Nat
    BY <2>1, <2>2 DEF Times, HistoryConstants
  <2>4. [time |-> time, accuracy |-> accuracy] \in [time : Nat, accuracy : Accuracies]
    BY <2>3
  <2> QED
    BY <2>1, <2>4 DEF Store, TypeOK
<1> QED
  BY <1>1, <1>2

(* Every row stored has a time and one of the accuracies kept. *)
THEOREM TypesKept == Spec => []TypeOK
BY InitTypeOK, NextTypeOK, HistoryConstants, PTL DEF Spec

(* Whatever is stored, in whatever order. *)
LEMMA PageOfRows ==
    ASSUME HistoryConstants, TypeOK
    PROVE  PageIsFaithful
<1> SUFFICES ASSUME NEW from \in Days, NEW to \in Days,
                    from <= to, to - from <= MaxRangeDays
             PROVE  LET page == Page(from, to, LastDay)
                        OfDays == {i \in DOMAIN rows :
                                      /\ rows[i].accuracy = 3
                                      /\ rows[i].time \div DayLength \in from..to}
                    IN  /\ \A i, j \in DOMAIN page : i < j => page[i] <= page[j]
                        /\ \A time \in {rows[i].time : i \in DOMAIN rows} :
                              Cardinality({i \in DOMAIN page : page[i] = time})
                                = Cardinality({i \in OfDays : rows[i].time = time})
                        /\ Len(page) = Cardinality(OfDays)
  BY DEF PageIsFaithful
<1> DEFINE OfDays == {i \in DOMAIN rows :
                         /\ rows[i].accuracy = 3
                         /\ rows[i].time \div DayLength \in from..to}
<1>1. from \in Nat /\ to \in Nat
  BY HistoryConstants DEF Days, HistoryConstants
<1>2. Page(from, to, LastDay) = Ordered(Selected(from, to))
  BY <1>1 DEF Page, From, To, None, Valid
<1>3. \A i \in DOMAIN rows : rows[i].time \in Nat
  <2>1. ASSUME NEW T, rows \in Seq(T)
        PROVE  \A i \in DOMAIN rows : rows[i] \in T
    BY <2>1
  <2>2. \A i \in DOMAIN rows : rows[i] \in [time : Nat, accuracy : Accuracies]
    BY <2>1 DEF TypeOK
  <2> QED
    BY <2>2
<1>4. Selected(from, to) = OfDays
  <2>1. DayLength \in Nat \ {0}
    BY HistoryConstants DEF HistoryConstants
  <2>2. \A i \in DOMAIN rows :
           rows[i].time \in Opening(from)..Closing(to)
             <=> rows[i].time \div DayLength \in from..to
    BY <1>1, <1>3, <2>1, DayOfTime DEF Opening, Closing
  <2> QED
    BY <2>2 DEF Selected
<1> HIDE DEF OfDays
<1>5. OfDays \in SUBSET (DOMAIN rows)
  BY DEF OfDays
<1>6. LET page == Ordered(OfDays)
      IN  /\ \A i, j \in DOMAIN page : i < j => page[i] <= page[j]
          /\ \A time : Cardinality({i \in DOMAIN page : page[i] = time})
                         = Cardinality({i \in OfDays : rows[i].time = time})
          /\ Len(page) = Cardinality(OfDays)
  BY <1>5, OrderedPage
<1>7. Page(from, to, LastDay) = Ordered(OfDays)
  BY <1>2, <1>4
<1>8. LET page == Page(from, to, LastDay)
      IN  /\ \A i, j \in DOMAIN page : i < j => page[i] <= page[j]
          /\ \A time : Cardinality({i \in DOMAIN page : page[i] = time})
                         = Cardinality({i \in OfDays : rows[i].time = time})
          /\ Len(page) = Cardinality(OfDays)
  BY <1>6, <1>7
<1> QED
  BY <1>8 DEF OfDays

(* For every number of readings, in whatever order they arrived, and every
   range of days, the page has the calibrated readings of those days and no
   other, once and in the order of time (views.py:114-131). *)
THEOREM PagesAreFaithful == Spec => []PageIsFaithful
<1>1. TypeOK => PageIsFaithful
  BY PageOfRows, HistoryConstants
<1> QED
  BY <1>1, TypesKept, PTL

(* Whatever the page and the window. *)
LEMMA GapsOfRows ==
    ASSUME HistoryConstants, TypeOK
    PROVE  GapByMajority
<1> SUFFICES ASSUME NEW page \in AllPages, NEW i \in DOMAIN Deltas(page)
             PROVE  LET deltas == Deltas(page)
                        near == {j \in DOMAIN deltas \ {i} :
                                    i - j \in (-WindowSize)..WindowSize}
                        shorter == {j \in near : 2 * deltas[j] < deltas[i]}
                    IN  IsGapSegment(deltas, i) <=> 2 * Cardinality(shorter) > Cardinality(near)
  BY DEF GapByMajority
<1> DEFINE deltas == Deltas(page)
           near == {j \in DOMAIN deltas \ {i} : i - j \in (-WindowSize)..WindowSize}
<1>1. page \in Seq(Nat)
  <2>1. \A from, to : Selected(from, to) \in SUBSET (DOMAIN rows)
    BY DEF Selected
  <2>2. \A from, to : Ordered(Selected(from, to)) \in Seq(Nat)
    BY <2>1, OrderedPage
  <2>3. <<>> \in Seq(Nat)
    OBVIOUS
  <2>4. PICK start, end, today : page = Page(start, end, today)
    BY DEF AllPages
  <2> QED
    BY <2>2, <2>3, <2>4 DEF Page
<1>2. /\ Len(page) \in Nat
      /\ deltas = [j \in 1..(Len(page) - 1) |-> page[j + 1] - page[j]]
  BY <1>1 DEF Deltas
<1>3. deltas \in [1..(Len(page) - 1) -> Int]
  <2>1. \A j \in 1..(Len(page) - 1) : page[j + 1] - page[j] \in Int
    <3> SUFFICES ASSUME NEW j \in 1..(Len(page) - 1)
                 PROVE  page[j + 1] - page[j] \in Int
      OBVIOUS
    <3>1. j \in 1..Len(page) /\ j + 1 \in 1..Len(page)
      BY <1>2
    <3>2. page[j] \in Nat /\ page[j + 1] \in Nat
      BY <1>1, <3>1
    <3> QED
      BY <3>2
  <2> QED
    BY <1>2, <2>1
<1>4. i \in DOMAIN deltas
  OBVIOUS
<1> HIDE DEF deltas
<1>5. near = Window(deltas, i) /\ near \in SUBSET Int /\ IsFiniteSet(near)
  <2>1. WindowSize \in Nat
    BY HistoryConstants DEF HistoryConstants
  <2>2. IsFiniteSet(1..(Len(page) - 1)) /\ near \subseteq 1..(Len(page) - 1)
    BY <1>2, <1>3, FS_Interval
  <2>3. \A j \in DOMAIN deltas :
           i - j \in (-WindowSize)..WindowSize <=> j \in (i - WindowSize)..(i + WindowSize)
    <3> SUFFICES ASSUME NEW j \in DOMAIN deltas
                 PROVE  i - j \in (-WindowSize)..WindowSize
                          <=> j \in (i - WindowSize)..(i + WindowSize)
      OBVIOUS
    <3>1. i \in Int /\ j \in Int
      BY <1>3, <1>4
    <3> QED
      BY <2>1, <3>1
  <2>4. near = Window(deltas, i)
    BY <2>3 DEF Window
  <2> QED
    BY <2>2, <2>4, FS_Subset
<1>6. i \in 1..(Len(page) - 1) /\ deltas[i] \in Int /\ \A j \in near : deltas[j] \in Int
  BY <1>3, <1>4
<1>7. IsGapSegment(deltas, i)
        <=> 2 * Cardinality({j \in near : 2 * deltas[j] < deltas[i]}) > Cardinality(near)
  <2> HIDE DEF near
  <2>1. CASE near = {}
    <3>1. Cardinality({j \in near : 2 * deltas[j] < deltas[i]}) = 0 /\ Cardinality(near) = 0
      BY <2>1, FS_EmptySet
    <3> QED
      BY <1>5, <2>1, <3>1 DEF IsGapSegment
  <2>2. CASE near # {}
    <3>1. deltas[i] > Median(deltas, near) * 2
            <=> 2 * Cardinality({j \in near : 2 * deltas[j] < deltas[i]}) > Cardinality(near)
      BY <1>5, <1>6, <2>2, MedianSplits
    <3> QED
      BY <1>5, <2>2, <3>1 DEF IsGapSegment
  <2> QED
    BY <2>1, <2>2
<1> QED
  BY <1>7 DEF deltas

(* For every page and every window, the line is interrupted exactly where most
   of the neighbouring intervals are shorter than half of the interval: the
   median that history.js picks decides by majority (history.js:39-65). *)
THEOREM GapsAreMajorities == Spec => []GapByMajority
<1>1. TypeOK => GapByMajority
  BY GapsOfRows, HistoryConstants
<1> QED
  BY <1>1, TypesKept, PTL
=============================================================================
