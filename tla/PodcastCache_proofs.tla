-------------------------- MODULE PodcastCache_proofs --------------------------
(***************************************************************************)
(* What add_episode() does to a proper list, and what a whole feed does,   *)
(* for any episodes, dates and limit; then the safety of PodcastCache: a   *)
(* source without a write due is what its cache file says, a download      *)
(* keeps the newest episodes, and a reload changes nothing of what was     *)
(* written.                                                                *)
(***************************************************************************)
EXTENDS PodcastCache, FiniteSetTheorems, WellFoundedInduction, TLAPS

(* There are n places in a list of n episodes. *)
LEMMA IntervalSize ==
    ASSUME NEW n \in Nat
    PROVE  IsFiniteSet(1 .. n) /\ Cardinality(1 .. n) = n
  <1>1. 1 \in Int /\ n \in Int
    OBVIOUS
  <1>2. /\ IsFiniteSet(1 .. n)
        /\ Cardinality(1 .. n) = IF 1 > n THEN 0 ELSE n - 1 + 1
    BY <1>1, FS_Interval, Zenon
  <1>3. (IF 1 > n THEN 0 ELSE n - 1 + 1) = n
    OBVIOUS
  <1> QED
    BY <1>2, <1>3

(* What lower_bound() finds in an ordered list: the newer episodes are the  *)
(* first ones of the list, so the place after as many is the one it returns. *)
LEMMA PlaceIsBound ==
    ASSUME NEW list \in Seq(Episode), Ordered(list), NEW e \in Episode
    PROVE  /\ Place(list, e) \in 1 .. Len(list) + 1
           /\ \A j \in 1 .. Place(list, e) - 1 : Date[list[j]] > Date[e]
           /\ \A j \in Place(list, e) .. Len(list) : Date[list[j]] <= Date[e]
  <1> DEFINE N == Len(list)
             newer == {j \in 1 .. N : Date[list[j]] > Date[e]}
             c == Cardinality(newer)
  <1>1. /\ N \in Nat
        /\ Date[e] \in Nat
        /\ \A j \in 1 .. N : Date[list[j]] \in Nat
    BY EpisodeAssumption
  <1>2. IsFiniteSet(1 .. N) /\ Cardinality(1 .. N) = N
    BY <1>1, IntervalSize
  <1>3. IsFiniteSet(newer) /\ c <= N /\ c \in Nat
    <2>1. newer \subseteq 1 .. N
      OBVIOUS
    <2> QED
      BY <1>1, <1>2, <2>1, FS_Subset, FS_CardinalityType
  <1>4. \A i \in newer : \A j \in 1 .. i : j \in newer
    <2> SUFFICES ASSUME NEW i \in newer, NEW j \in 1 .. i, j # i
                 PROVE  j \in newer
      OBVIOUS
    <2>1. i \in 1 .. N /\ j \in 1 .. N /\ j < i
      BY <1>1
    <2>2. Date[list[j]] >= Date[list[i]]
      BY <2>1 DEF Ordered
    <2> QED
      BY <1>1, <2>1, <2>2
  <1>5. \A j \in c + 1 .. N : j \notin newer
    <2> SUFFICES ASSUME NEW j \in c + 1 .. N, j \in newer
                 PROVE  FALSE
      OBVIOUS
    <2>1. 1 .. c + 1 \subseteq newer
      <3>1. \A i \in 1 .. c + 1 : i \in 1 .. j
        BY <1>1, <1>3
      <3> HIDE DEF newer
      <3> QED
        BY <1>4, <3>1
    <2>2. Cardinality(1 .. c + 1) = c + 1
      BY <1>3, IntervalSize
    <2>3. Cardinality(1 .. c + 1) <= c
      BY <1>3, <2>1, FS_Subset
    <2> QED
      BY <1>3, <2>2, <2>3
  <1>6. newer = 1 .. c
    <2>1. newer \subseteq 1 .. c
      <3> SUFFICES ASSUME NEW j \in newer PROVE j \in 1 .. c
        OBVIOUS
      <3>1. j \in 1 .. N /\ j \notin c + 1 .. N
        BY <1>5
      <3> HIDE DEF newer, c
      <3> QED
        BY <1>1, <1>3, <3>1
    <2>2. IsFiniteSet(1 .. c) /\ Cardinality(1 .. c) = c
      BY <1>3, IntervalSize
    <2> QED
      BY <2>1, <2>2, FS_Subset
  <1> DEFINE Bound(i) ==
        /\ \A j \in 1 .. i - 1 : Date[list[j]] > Date[e]
        /\ i <= Len(list) => ~(Date[list[i]] > Date[e])
  <1>7. \E i \in 1 .. N + 1 : Bound(i)
    <2>1. c + 1 \in 1 .. N + 1 /\ \A j \in 1 .. c : j \in newer
      BY <1>1, <1>3, <1>6
    <2>2. \A j \in 1 .. c : Date[list[j]] > Date[e]
      BY <2>1
    <2>3. c + 1 <= N => ~(Date[list[c + 1]] > Date[e])
      <3> SUFFICES ASSUME c + 1 <= N PROVE ~(Date[list[c + 1]] > Date[e])
        OBVIOUS
      <3>1. c + 1 \in c + 1 .. N /\ c + 1 \in 1 .. N
        BY <1>1, <1>3
      <3>2. c + 1 \notin newer
        BY <1>5, <3>1
      <3> QED
        BY <3>1, <3>2
    <2>4. (c + 1) - 1 = c
      BY <1>3
    <2>5. Bound(c + 1)
      BY <2>2, <2>3, <2>4
    <2> QED
      BY <2>1, <2>5
  <1>8. Place(list, e) = CHOOSE i \in 1 .. N + 1 : Bound(i)
    BY DEF Place
  <1>9. Place(list, e) \in 1 .. N + 1 /\ Bound(Place(list, e))
    <2> HIDE DEF Bound
    <2> QED
      BY <1>7, <1>8
  <1>10. ASSUME NEW j \in Place(list, e) .. N
         PROVE  Date[list[j]] <= Date[e]
    <2> DEFINE p == Place(list, e)
    <2>1. p \in 1 .. N /\ j \in 1 .. N /\ p <= j
      BY <1>1, <1>9
    <2>2. Date[list[p]] >= Date[list[j]]
      BY <1>1, <2>1 DEF Ordered
    <2> QED
      BY <1>1, <1>9, <2>1, <2>2
  <1> QED
    BY <1>9, <1>10

------------------------------------------------------------------------------
(* insert(): the elements before the place keep theirs, the others move up. *)
LEMMA InsertAtElements ==
    ASSUME NEW list \in Seq(Episode), NEW p \in 1 .. Len(list) + 1, NEW e \in Episode
    PROVE  /\ InsertAt(list, p, e) \in Seq(Episode)
           /\ Len(InsertAt(list, p, e)) = Len(list) + 1
           /\ \A j \in 1 .. Len(list) + 1 :
                InsertAt(list, p, e)[j] = IF j < p THEN list[j]
                                          ELSE IF j = p THEN e ELSE list[j - 1]
  <1> DEFINE before == SubSeq(list, 1, p - 1)
             after  == SubSeq(list, p, Len(list))
  <1>1. Len(list) \in Nat
    OBVIOUS
  <1>2. /\ before \in Seq(Episode) /\ Len(before) = p - 1
        /\ \A j \in 1 .. p - 1 : before[j] = list[j]
    BY <1>1
  <1>3. /\ after \in Seq(Episode) /\ Len(after) = Len(list) - p + 1
        /\ \A j \in 1 .. Len(list) - p + 1 : after[j] = list[p + j - 1]
    BY <1>1
  <1>4. InsertAt(list, p, e) = (before \o <<e>>) \o after
    BY DEF InsertAt
  <1> HIDE DEF before, after
  <1> DEFINE half == before \o <<e>>
  <1>5. /\ half \in Seq(Episode) /\ Len(half) = p
        /\ \A j \in 1 .. p : half[j] = IF j < p THEN list[j] ELSE e
    BY <1>2
  <1> HIDE DEF half
  <1>6. /\ half \o after \in Seq(Episode)
        /\ Len(half \o after) = Len(list) + 1
    BY <1>1, <1>3, <1>5
  <1>7. ASSUME NEW j \in 1 .. Len(list) + 1
        PROVE  (half \o after)[j] = IF j < p THEN list[j]
                                    ELSE IF j = p THEN e ELSE list[j - 1]
    <2>1. CASE j <= p
      BY <1>3, <1>5, <2>1
    <2>2. CASE j > p
      <3>1. (half \o after)[j] = after[j - p]
        BY <1>1, <1>3, <1>5, <2>2
      <3>2. j - p \in 1 .. Len(list) - p + 1 /\ p + (j - p) - 1 = j - 1
        BY <1>1, <2>2
      <3>3. after[j - p] = list[p + (j - p) - 1]
        BY <1>3, <3>2
      <3>4. ~(j < p) /\ j # p
        BY <1>1, <2>2
      <3> QED
        BY <3>1, <3>2, <3>3, <3>4
    <2>3. j <= p \/ j > p
      BY <1>1
    <2> QED
      BY <2>1, <2>2, <2>3
  <1> QED
    BY <1>4, <1>6, <1>7 DEF half

(* pop_back(), which is called only when the list is too long. *)
LEMMA ShortenElements ==
    ASSUME NEW list \in Seq(Episode), Len(list) <= MaxEpisodes + 1
    PROVE  /\ Shorten(list) \in Seq(Episode)
           /\ Len(Shorten(list)) = IF Len(list) > MaxEpisodes THEN MaxEpisodes ELSE Len(list)
           /\ \A j \in 1 .. Len(Shorten(list)) : Shorten(list)[j] = list[j]
  <1>1. MaxEpisodes \in Nat /\ Len(list) \in Nat
    BY EpisodeAssumption
  <1>2. CASE Len(list) > MaxEpisodes
    <2>1. Len(list) - 1 = MaxEpisodes
      BY <1>1, <1>2
    <2>2. Shorten(list) = SubSeq(list, 1, MaxEpisodes)
      BY <1>2, <2>1 DEF Shorten, Front
    <2> QED
      BY <1>1, <1>2, <2>2
  <1>3. CASE ~(Len(list) > MaxEpisodes)
    BY <1>3 DEF Shorten
  <1> QED
    BY <1>2, <1>3

(* add_episode() keeps a list newest first, without repetitions and as      *)
(* short as it must be, and what it drops is no newer than what it keeps.   *)
THEOREM AddEpisodeKeepsProper ==
    ASSUME NEW list \in Seq(Episode), ProperList(list), NEW e \in Episode
    PROVE  /\ AddEpisode(list, e) \in Seq(Episode)
           /\ ProperList(AddEpisode(list, e))
           /\ KeepsNewest(AddEpisode(list, e), ToSet(list) \cup {e})
  <1>1. CASE e \in ToSet(list)
    <2>1. AddEpisode(list, e) = list
      BY <1>1 DEF AddEpisode
    <2>2. KeepsNewest(list, ToSet(list) \cup {e})
      BY <1>1 DEF KeepsNewest
    <2> QED
      BY <2>1, <2>2
  <1>2. CASE e \notin ToSet(list)
    <2> DEFINE p    == Place(list, e)
               more == InsertAt(list, p, e)
               new  == Shorten(more)
               N    == Len(list)
    <2>1. /\ N \in Nat /\ MaxEpisodes \in Nat /\ N <= MaxEpisodes
          /\ Date[e] \in Nat
          /\ \A j \in 1 .. N : list[j] \in Episode /\ Date[list[j]] \in Nat
      BY EpisodeAssumption DEF ProperList
    <2>2. AddEpisode(list, e) = new
      BY <1>2, <2>1 DEF AddEpisode
    <2>3. /\ p \in 1 .. N + 1
          /\ \A j \in 1 .. p - 1 : Date[list[j]] > Date[e]
          /\ \A j \in p .. N : Date[list[j]] <= Date[e]
      BY PlaceIsBound DEF ProperList
    <2>4. /\ more \in Seq(Episode) /\ Len(more) = N + 1
          /\ \A j \in 1 .. N + 1 :
                more[j] = IF j < p THEN list[j] ELSE IF j = p THEN e ELSE list[j - 1]
      <3> HIDE DEF p
      <3>1. p \in 1 .. Len(list) + 1
        BY <2>3
      <3> QED
        BY <3>1, InsertAtElements
    <2>5. /\ new \in Seq(Episode) /\ Len(new) <= MaxEpisodes /\ Len(new) <= N + 1
          /\ Len(new) = MaxEpisodes \/ Len(new) = N + 1
          /\ \A j \in 1 .. Len(new) : new[j] = more[j]
      <3>1. Len(more) <= MaxEpisodes + 1
        BY <2>1, <2>4
      <3> HIDE DEF more
      <3>2. /\ new \in Seq(Episode)
            /\ Len(new) = IF Len(more) > MaxEpisodes THEN MaxEpisodes ELSE Len(more)
            /\ \A j \in 1 .. Len(new) : new[j] = more[j]
        BY <2>4, <3>1, ShortenElements
      <3> HIDE DEF new
      <3> QED
        BY <2>1, <2>4, <3>2
    <2>6. \A j \in 1 .. N : list[j] # e
      BY <1>2 DEF ToSet
    <2> HIDE DEF p, more, new
    <2>7. \A i, j \in 1 .. N + 1 : i < j => Date[more[i]] >= Date[more[j]]
      <3> SUFFICES ASSUME NEW i \in 1 .. N + 1, NEW j \in 1 .. N + 1, i < j
                   PROVE  Date[more[i]] >= Date[more[j]]
        OBVIOUS
      <3>1. \A k, l \in 1 .. N : k <= l => Date[list[k]] >= Date[list[l]]
        BY <2>1 DEF ProperList, Ordered
      <3>2. p \in Int /\ i \in Int /\ j \in Int
        BY <2>1, <2>3
      <3>3. CASE j < p
        <4>1. i \in 1 .. N /\ j \in 1 .. N
          BY <2>1, <2>3, <3>2, <3>3
        <4>2. more[i] = list[i] /\ more[j] = list[j]
          BY <2>4, <3>2, <3>3
        <4> QED
          BY <3>1, <4>1, <4>2
      <3>4. CASE j = p
        <4>1. i \in 1 .. p - 1
          BY <3>2, <3>4
        <4>2. more[i] = list[i] /\ more[j] = e
          BY <2>4, <3>2, <3>4
        <4>3. i \in 1 .. N
          BY <2>1, <2>3, <4>1
        <4> QED
          BY <2>1, <2>3, <4>1, <4>2, <4>3
      <3>5. CASE j > p
        <4>1. more[j] = list[j - 1] /\ j - 1 \in 1 .. N /\ j - 1 \in p .. N
          BY <2>1, <2>3, <2>4, <3>2, <3>5
        <4>2. CASE i < p
          <5>1. more[i] = list[i] /\ i \in 1 .. N
            BY <2>1, <2>3, <2>4, <3>2, <4>2
          <5>2. i <= j - 1
            BY <3>2
          <5> QED
            BY <3>1, <4>1, <5>1, <5>2
        <4>3. CASE i = p
          <5>1. more[i] = e
            BY <2>4, <3>2, <4>3
          <5> QED
            BY <2>1, <2>3, <4>1, <5>1
        <4>4. CASE i > p
          <5>1. more[i] = list[i - 1] /\ i - 1 \in 1 .. N
            BY <2>1, <2>3, <2>4, <3>2, <4>4
          <5>2. i - 1 <= j - 1
            BY <3>2
          <5> QED
            BY <3>1, <4>1, <5>1, <5>2
        <4> QED
          BY <3>2, <4>2, <4>3, <4>4
      <3> QED
        BY <3>2, <3>3, <3>4, <3>5
    <2>8. \A i, j \in 1 .. N + 1 : i < j => more[i] # more[j]
      <3> SUFFICES ASSUME NEW i \in 1 .. N + 1, NEW j \in 1 .. N + 1, i < j
                   PROVE  more[i] # more[j]
        OBVIOUS
      <3>1. \A k, l \in 1 .. N : k < l => list[k] # list[l]
        BY <2>1 DEF ProperList, Distinct
      <3>2. p \in Int /\ i \in Int /\ j \in Int
        BY <2>1, <2>3
      <3>3. CASE j < p
        <4>1. i \in 1 .. N /\ j \in 1 .. N /\ more[i] = list[i] /\ more[j] = list[j]
          BY <2>1, <2>3, <2>4, <3>2, <3>3
        <4> QED
          BY <3>1, <4>1
      <3>4. CASE j = p
        <4>1. more[i] = list[i] /\ i \in 1 .. N /\ more[j] = e
          BY <2>1, <2>3, <2>4, <3>2, <3>4
        <4> QED
          BY <2>6, <4>1
      <3>5. CASE j > p
        <4>1. more[j] = list[j - 1] /\ j - 1 \in 1 .. N
          BY <2>1, <2>3, <2>4, <3>2, <3>5
        <4>2. CASE i < p
          <5>1. more[i] = list[i] /\ i \in 1 .. N /\ i < j - 1
            BY <2>1, <2>3, <2>4, <3>2, <3>5, <4>2
          <5> QED
            BY <3>1, <4>1, <5>1
        <4>3. CASE i = p
          <5>1. more[i] = e
            BY <2>4, <3>2, <4>3
          <5> QED
            BY <2>6, <4>1, <5>1
        <4>4. CASE i > p
          <5>1. more[i] = list[i - 1] /\ i - 1 \in 1 .. N /\ i - 1 < j - 1
            BY <2>1, <2>3, <2>4, <3>2, <4>4
          <5> QED
            BY <3>1, <4>1, <5>1
        <4> QED
          BY <3>2, <4>2, <4>3, <4>4
      <3> QED
        BY <3>2, <3>3, <3>4, <3>5
    <2>9. DOMAIN new = 1 .. Len(new) /\ Len(new) \in Nat /\ 1 .. Len(new) \subseteq 1 .. N + 1
      BY <2>1, <2>5
    <2>10. Ordered(new)
      <3> SUFFICES ASSUME NEW i \in 1 .. Len(new), NEW j \in 1 .. Len(new), i < j
                   PROVE  Date[new[i]] >= Date[new[j]]
        BY <2>9 DEF Ordered
      <3>1. new[i] = more[i] /\ new[j] = more[j]
        BY <2>5
      <3>2. i \in 1 .. N + 1 /\ j \in 1 .. N + 1
        BY <2>9
      <3> QED
        BY <2>7, <3>1, <3>2
    <2>11. Distinct(new)
      <3>1. \A i, j \in 1 .. N + 1 : i # j => more[i] # more[j]
        BY <2>1, <2>8
      <3> QED
        BY <2>5, <2>9, <3>1 DEF Distinct
    <2>12. \A x \in ToSet(list) \cup {e} : \E k \in 1 .. N + 1 : more[k] = x
      <3>1. p \in 1 .. N + 1 /\ more[p] = e
        BY <2>1, <2>3, <2>4
      <3>2. ASSUME NEW k \in 1 .. N
            PROVE  \E l \in 1 .. N + 1 : more[l] = list[k]
        <4>1. CASE k < p
          <5>1. k \in 1 .. N + 1 /\ more[k] = list[k]
            BY <2>1, <2>4, <4>1
          <5> QED
            BY <5>1
        <4>2. CASE ~(k < p)
          <5>1. k + 1 \in 1 .. N + 1 /\ ~(k + 1 < p) /\ k + 1 # p /\ (k + 1) - 1 = k
            BY <2>1, <3>1, <4>2
          <5>2. more[k + 1] = list[k]
            BY <2>4, <5>1
          <5> QED
            BY <5>1, <5>2
        <4> QED
          BY <4>1, <4>2
      <3>3. ToSet(list) = {list[k] : k \in 1 .. N}
        BY DEF ToSet
      <3> QED
        BY <3>1, <3>2, <3>3
    <2>13. ToSet(new) = {more[k] : k \in 1 .. Len(new)}
      BY <2>5, <2>9 DEF ToSet
    <2>14. ToSet(new) \subseteq ToSet(list) \cup {e}
      <3> SUFFICES ASSUME NEW k \in 1 .. Len(new)
                   PROVE  more[k] \in ToSet(list) \cup {e}
        BY <2>13
      <3>1. k \in 1 .. N + 1 /\ p \in Int
        BY <2>3, <2>9
      <3>2. CASE k < p
        <4>1. k \in 1 .. N /\ more[k] = list[k]
          BY <2>1, <2>3, <2>4, <3>1, <3>2
        <4> QED
          BY <4>1 DEF ToSet
      <3>3. CASE k = p
        BY <2>4, <3>1, <3>3
      <3>4. CASE k > p
        <4>1. k - 1 \in 1 .. N /\ more[k] = list[k - 1]
          BY <2>1, <2>3, <2>4, <3>1, <3>4
        <4> QED
          BY <4>1 DEF ToSet
      <3> QED
        BY <3>1, <3>2, <3>3, <3>4
    <2>15. ASSUME NEW x \in (ToSet(list) \cup {e}) \ ToSet(new)
           PROVE  Len(new) = MaxEpisodes /\ \A y \in ToSet(new) : Date[y] >= Date[x]
      <3>1. PICK k \in 1 .. N + 1 : more[k] = x
        BY <2>12
      <3>2. k \notin 1 .. Len(new)
        BY <2>13, <3>1
      <3>3. Len(new) < k /\ Len(new) # N + 1
        <4>1. k \in Nat /\ 1 <= k /\ k <= N + 1
          BY <2>1, <3>1
        <4>2. Len(new) \in Nat
          BY <2>9
        <4> HIDE DEF N
        <4> QED
          BY <2>1, <3>2, <4>1, <4>2
      <3>4. ASSUME NEW j \in 1 .. Len(new)
            PROVE  Date[more[j]] >= Date[x]
        <4>1. j \in 1 .. N + 1
          BY <2>9
        <4>2. k \in 1 .. N + 1 /\ Len(new) \in Nat
          BY <2>9, <3>1
        <4>3. j < k
          BY <2>1, <3>3, <4>2
        <4> QED
          BY <2>7, <3>1, <4>1, <4>3
      <3> QED
        BY <2>5, <2>13, <3>3, <3>4
    <2> QED
      BY <2>2, <2>5, <2>10, <2>11, <2>14, <2>15 DEF ProperList, KeepsNewest
  <1> QED
    BY <1>1, <1>2

------------------------------------------------------------------------------
(* A feed: add_episode() for one episode after the other.  Induction over   *)
(* numbers is stated with sets, and rests on the well-foundedness of < of   *)
(* the library.                                                             *)

LEMMA LessIsWellFounded ==
    IsWellFoundedOn({ss \in Nat \X Nat : ss[1] < ss[2]}, Nat)
  BY NatLessThanWellFounded DEF OpToRel

LEMMA SetInduction ==
    ASSUME NEW T \in SUBSET Nat, 0 \in T, \A n \in T : n + 1 \in T
    PROVE  T = Nat
  <1> DEFINE R == {ss \in Nat \X Nat : ss[1] < ss[2]}
             C == Nat \ T
  <1> SUFFICES ASSUME C # {} PROVE FALSE
    OBVIOUS
  <1>1. IsWellFoundedOn(R, Nat)
    BY LessIsWellFounded
  <1>2. C \subseteq Nat
    OBVIOUS
  <1> HIDE DEF R, C
  <1>3. PICK x \in C : \A y \in C : ~ (<<y, x>> \in R)
    BY <1>1, <1>2, WFMin
  <1>4. x \in Nat /\ x \notin T
    BY DEF C
  <1>5. x # 0
    BY <1>4
  <1>6. x - 1 \in Nat /\ x - 1 < x
    BY <1>4, <1>5
  <1>7. <<x - 1, x>> \in R
    BY <1>4, <1>6 DEF R
  <1>8. x - 1 \in T
    BY <1>3, <1>6, <1>7 DEF C
  <1>9. (x - 1) + 1 = x
    BY <1>4
  <1> QED
    BY <1>4, <1>8, <1>9

(* Added(list, feed) is the function its definition says. *)
LEMMA AddedIsDefined ==
    ASSUME NEW list, NEW feed \in Seq(Episode)
    PROVE  Added(list, feed) = [n \in 0 .. Len(feed) |->
               IF n = 0 THEN list ELSE AddEpisode(Added(list, feed)[n - 1], feed[n])]
  <1> DEFINE Is(f, N) == f = [n \in 0 .. N |->
                 IF n = 0 THEN list ELSE AddEpisode(f[n - 1], feed[n])]
             T == {N \in Nat : \E f : Is(f, N)}
  <1>1. 0 \in T
    <2> DEFINE f == [n \in 0 .. 0 |-> list]
    <2>1. Is(f, 0)
      OBVIOUS
    <2> QED
      BY <2>1
  <1>2. ASSUME NEW N \in T PROVE N + 1 \in T
    <2>1. PICK f : Is(f, N)
      OBVIOUS
    <2> DEFINE g == [n \in 0 .. N + 1 |->
                        IF n = N + 1 THEN AddEpisode(f[N], feed[N + 1]) ELSE f[n]]
    <2>2. ASSUME NEW n \in 0 .. N + 1
          PROVE  g[n] = IF n = 0 THEN list ELSE AddEpisode(g[n - 1], feed[n])
      <3>1. CASE n = N + 1
        <4>1. n # 0 /\ n - 1 = N /\ N \in 0 .. N + 1 /\ N # N + 1
          BY <3>1
        <4> QED
          BY <3>1, <4>1
      <3>2. CASE n # N + 1
        <4>1. n \in 0 .. N
          BY <3>2
        <4>2. f[n] = IF n = 0 THEN list ELSE AddEpisode(f[n - 1], feed[n])
          BY <2>1, <4>1
        <4>3. n # 0 => n - 1 \in 0 .. N + 1 /\ n - 1 # N + 1
          BY <4>1
        <4> QED
          BY <3>2, <4>2, <4>3
      <3> QED
        BY <3>1, <3>2
    <2>3. Is(g, N + 1)
      <3>1. g = [n \in 0 .. N + 1 |-> g[n]]
        OBVIOUS
      <3> HIDE DEF g
      <3> QED
        BY <2>2, <3>1
    <2>4. \E f2 : Is(f2, N + 1)
      <3> HIDE DEF g, Is
      <3> QED
        BY <2>3
    <2>5. N + 1 \in Nat
      OBVIOUS
    <2> HIDE DEF Is
    <2> QED
      BY <2>4, <2>5
  <1> HIDE DEF T
  <1>3. Len(feed) \in T
    <2>1. T \subseteq Nat
      BY DEF T
    <2>2. T = Nat
      BY <1>1, <1>2, <2>1, SetInduction
    <2> QED
      BY <2>2
  <1>4. \E f : Is(f, Len(feed))
    BY <1>3 DEF T
  <1>5. Added(list, feed) = CHOOSE f : Is(f, Len(feed))
    BY DEF Added
  <1> QED
    BY <1>4, <1>5

(* A list without repetition has as many members as it is long. *)
LEMMA DistinctSize ==
    ASSUME NEW list \in Seq(Episode), Distinct(list)
    PROVE  IsFiniteSet(ToSet(list)) /\ Cardinality(ToSet(list)) = Len(list)
  <1> DEFINE N == Len(list)
  <1>1. N \in Nat /\ DOMAIN list = 1 .. N
    OBVIOUS
  <1>2. ToSet(list) = {list[i] : i \in 1 .. N}
    BY <1>1 DEF ToSet
  <1>3. list \in Bijection(1 .. N, ToSet(list))
    <2>1. list \in [1 .. N -> ToSet(list)]
      BY <1>1, <1>2
    <2>2. \A i, j \in 1 .. N : list[i] = list[j] => i = j
      BY <1>1 DEF Distinct
    <2>3. \A x \in ToSet(list) : \E i \in 1 .. N : list[i] = x
      BY <1>2
    <2> QED
      BY <2>1, <2>2, <2>3 DEF Bijection, Injection, Surjection, IsInjective
  <1>4. IsFiniteSet(1 .. N) /\ Cardinality(1 .. N) = N
    BY <1>1, IntervalSize
  <1>5. ExistsBijection(1 .. N, ToSet(list))
    BY <1>3 DEF ExistsBijection
  <1> QED
    BY <1>4, <1>5, FS_Bijection

(* A full list that is offered a new episode drops it or one of its own. *)
LEMMA FullListDrops ==
    ASSUME NEW list \in Seq(Episode), ProperList(list), Len(list) = MaxEpisodes,
           NEW e \in Episode, e \notin ToSet(list)
    PROVE  \E d \in ToSet(list) \cup {e} : d \notin ToSet(AddEpisode(list, e))
  <1> DEFINE new == AddEpisode(list, e)
  <1>1. new \in Seq(Episode) /\ Distinct(new) /\ Len(new) <= MaxEpisodes
    BY AddEpisodeKeepsProper DEF ProperList
  <1> HIDE DEF new
  <1>2. IsFiniteSet(ToSet(new)) /\ Cardinality(ToSet(new)) <= MaxEpisodes
    BY <1>1, DistinctSize
  <1>3. IsFiniteSet(ToSet(list)) /\ Cardinality(ToSet(list)) = MaxEpisodes
    BY DistinctSize DEF ProperList
  <1>4. Cardinality(ToSet(list) \cup {e}) = MaxEpisodes + 1
    BY <1>3, FS_AddElement
  <1>5. ASSUME ToSet(list) \cup {e} \subseteq ToSet(new) PROVE FALSE
    <2>1. Cardinality(ToSet(list) \cup {e}) <= Cardinality(ToSet(new))
      BY <1>2, <1>5, FS_Subset
    <2>2. Cardinality(ToSet(new)) \in Nat /\ MaxEpisodes \in Nat
      BY <1>2, FS_CardinalityType, EpisodeAssumption
    <2> QED
      BY <1>2, <1>4, <2>1, <2>2
  <1> QED
    BY <1>5 DEF new

(* The newest of what was offered so far stay the newest when one more is   *)
(* offered.                                                                 *)
LEMMA KeepsNewestComposes ==
    ASSUME NEW list \in Seq(Episode), ProperList(list), NEW e \in Episode,
           NEW offered \in SUBSET Episode, KeepsNewest(list, offered)
    PROVE  KeepsNewest(AddEpisode(list, e), offered \cup {e})
  <1> DEFINE new == AddEpisode(list, e)
  <1>1. KeepsNewest(new, ToSet(list) \cup {e})
    BY AddEpisodeKeepsProper
  <1>2. ToSet(list) \subseteq offered
    BY DEF KeepsNewest
  <1>3. \A x \in Episode : Date[x] \in Nat
    BY EpisodeAssumption
  <1>4. ASSUME NEW x \in offered, x \notin ToSet(list), x # e,
               x \notin ToSet(new)
        PROVE  Len(new) = MaxEpisodes /\ \A k \in ToSet(new) : Date[k] >= Date[x]
    <2>1. Len(list) = MaxEpisodes /\ \A k \in ToSet(list) : Date[k] >= Date[x]
      BY <1>4 DEF KeepsNewest
    <2>2. CASE e \in ToSet(list)
      BY <2>1, <2>2 DEF AddEpisode
    <2>3. CASE e \notin ToSet(list)
      <3>1. PICK d \in ToSet(list) \cup {e} : d \notin ToSet(new)
        BY <2>1, <2>3, FullListDrops
      <3>2. Len(new) = MaxEpisodes /\ \A k \in ToSet(new) : Date[k] >= Date[d]
        BY <1>1, <3>1 DEF KeepsNewest
      <3>3. ASSUME NEW k \in ToSet(new) PROVE Date[k] >= Date[x]
        <4>1. k \in ToSet(list) \/ k = e
          BY <1>1 DEF KeepsNewest
        <4>2. CASE k \in ToSet(list)
          BY <2>1, <4>2
        <4>3. CASE k = e /\ k \notin ToSet(list)
          <5>1. d \in ToSet(list)
            BY <3>1, <4>3
          <5>2. Date[k] >= Date[d] /\ Date[d] >= Date[x]
            BY <2>1, <3>2, <5>1
          <5>3. Date[k] \in Nat /\ Date[d] \in Nat /\ Date[x] \in Nat
            BY <1>2, <1>3, <4>3, <5>1
          <5> QED
            BY <5>2, <5>3
        <4> QED
          BY <4>1, <4>2, <4>3
      <3> QED
        BY <3>2, <3>3
    <2> QED
      BY <2>2, <2>3
  <1> HIDE DEF new
  <1> QED
    BY <1>1, <1>2, <1>4 DEF KeepsNewest, new

(* Every prefix of a feed leaves a proper list with the newest so far. *)
LEMMA AddedKeepsProper ==
    ASSUME NEW list \in Seq(Episode), ProperList(list), NEW feed \in Seq(Episode)
    PROVE  \A n \in 0 .. Len(feed) :
              /\ Added(list, feed)[n] \in Seq(Episode)
              /\ ProperList(Added(list, feed)[n])
              /\ KeepsNewest(Added(list, feed)[n],
                             ToSet(list) \cup {feed[i] : i \in 1 .. n})
  <1> DEFINE at == Added(list, feed)
             offered(n) == ToSet(list) \cup {feed[i] : i \in 1 .. n}
             Good(n) == /\ at[n] \in Seq(Episode)
                        /\ ProperList(at[n])
                        /\ KeepsNewest(at[n], offered(n))
             T == {n \in Nat : n <= Len(feed) => Good(n)}
  <1>1. \A n \in 0 .. Len(feed) :
            at[n] = IF n = 0 THEN list ELSE AddEpisode(at[n - 1], feed[n])
    BY AddedIsDefined
  <1>2. Len(feed) \in Nat /\ ToSet(list) \subseteq Episode
    BY DEF ToSet
  <1> HIDE DEF at
  <1>3. 0 \in T
    <2>1. at[0] = list
      BY <1>1, <1>2
    <2>2. KeepsNewest(list, offered(0))
      BY DEF KeepsNewest
    <2> QED
      BY <2>1, <2>2
  <1>4. ASSUME NEW n \in T PROVE n + 1 \in T
    <2> SUFFICES ASSUME n + 1 <= Len(feed) PROVE Good(n + 1)
      OBVIOUS
    <2>1. n \in Nat /\ n + 1 \in 1 .. Len(feed) /\ n \in 0 .. Len(feed) /\ n <= Len(feed)
      BY <1>2
    <2>2. Good(n)
      BY <2>1
    <2> HIDE DEF T
    <2>3. at[n + 1] = AddEpisode(at[n], feed[n + 1])
      <3>1. n + 1 \in 0 .. Len(feed) /\ n + 1 # 0 /\ (n + 1) - 1 = n
        BY <2>1
      <3> QED
        BY <1>1, <3>1
    <2>4. feed[n + 1] \in Episode
      BY <2>1
    <2>5. offered(n) \subseteq Episode
      <3>1. \A i \in 1 .. n : feed[i] \in Episode
        BY <2>1
      <3> QED
        BY <1>2, <3>1
    <2>6. offered(n + 1) = offered(n) \cup {feed[n + 1]}
      <3>1. 1 .. n + 1 = (1 .. n) \cup {n + 1}
        BY <2>1
      <3> QED
        BY <3>1
    <2> HIDE DEF offered
    <2>7. KeepsNewest(AddEpisode(at[n], feed[n + 1]), offered(n) \cup {feed[n + 1]})
      BY <2>2, <2>4, <2>5, KeepsNewestComposes
    <2>8. /\ AddEpisode(at[n], feed[n + 1]) \in Seq(Episode)
          /\ ProperList(AddEpisode(at[n], feed[n + 1]))
      BY <2>2, <2>4, AddEpisodeKeepsProper
    <2> QED
      BY <2>3, <2>6, <2>7, <2>8
  <1>5. T = Nat
    <2>1. T \subseteq Nat
      OBVIOUS
    <2> HIDE DEF T
    <2> QED
      BY <1>3, <1>4, <2>1, SetInduction
  <1>6. \A n \in 0 .. Len(feed) : Good(n)
    <2> HIDE DEF Good
    <2>1. \A n \in Nat : n <= Len(feed) => Good(n)
      BY <1>5
    <2> QED
      BY <1>2, <2>1
  <1> QED
    BY <1>6 DEF at

(* A feed of any length, in any order and with repetitions, leaves a proper *)
(* list of the newest of what was there and what it brought.                *)
THEOREM AddAllKeepsNewest ==
    ASSUME NEW list \in Seq(Episode), ProperList(list), NEW feed \in Seq(Episode)
    PROVE  /\ AddAll(list, feed) \in Seq(Episode)
           /\ ProperList(AddAll(list, feed))
           /\ KeepsNewest(AddAll(list, feed), ToSet(list) \cup ToSet(feed))
  <1>1. Len(feed) \in 0 .. Len(feed)
    OBVIOUS
  <1>2. ToSet(feed) = {feed[i] : i \in 1 .. Len(feed)}
    BY DEF ToSet
  <1> QED
    BY <1>1, <1>2, AddedKeepsProper DEF AddAll

(* Reading a cache file back gives the episodes that were written: nothing  *)
(* is lost for want of room, nothing twice.                                 *)
THEOREM ReadBack ==
    ASSUME NEW list \in Seq(Episode), ProperList(list)
    PROVE  ToSet(AddAll(<<>>, list)) = ToSet(list)
  <1> DEFINE new == AddAll(<<>>, list)
  <1>1. <<>> \in Seq(Episode) /\ ProperList(<<>>) /\ ToSet(<<>>) = {}
    BY EpisodeAssumption DEF ProperList, Ordered, Distinct, ToSet
  <1>2. /\ new \in Seq(Episode) /\ ProperList(new)
        /\ KeepsNewest(new, {} \cup ToSet(list))
    BY <1>1, AddAllKeepsNewest
  <1> HIDE DEF new
  <1>3. /\ IsFiniteSet(ToSet(new)) /\ Cardinality(ToSet(new)) = Len(new)
        /\ IsFiniteSet(ToSet(list)) /\ Cardinality(ToSet(list)) = Len(list)
        /\ Len(list) \in Nat /\ Len(list) <= MaxEpisodes /\ MaxEpisodes \in Nat
    BY <1>2, DistinctSize, EpisodeAssumption DEF ProperList
  <1>4. ToSet(new) \subseteq ToSet(list)
    BY <1>2 DEF KeepsNewest
  <1>5. ASSUME NEW x \in ToSet(list), x \notin ToSet(new) PROVE FALSE
    <2>1. Len(new) = MaxEpisodes
      BY <1>2, <1>5 DEF KeepsNewest
    <2>2. Cardinality(ToSet(new)) <= Cardinality(ToSet(list))
      BY <1>3, <1>4, FS_Subset
    <2>3. Cardinality(ToSet(new)) = Cardinality(ToSet(list))
      BY <1>3, <2>1, <2>2
    <2>4. ToSet(new) = ToSet(list)
      BY <1>3, <1>4, <2>3, FS_Subset
    <2> QED
      BY <1>5, <2>4
  <1> QED
    BY <1>4, <1>5 DEF new

------------------------------------------------------------------------------
(* The inductive invariant.  A write makes the file what the source is only *)
(* if nothing but listed episodes has a position, and a report of the       *)
(* player keeps it so only if the episode it plays from the list is listed. *)

PositionsOfList == position = Only(ToSet(episodes), position)
PlayingIsListed == playing.owner = "list" => playing.item \in ToSet(episodes)

Inv ==
    /\ TypeOK
    /\ ListsAreProper
    /\ CacheFollows
    /\ PositionsOfList
    /\ PlayingIsListed

LEMMA EmptyList ==
    <<>> \in Seq(Episode) /\ ProperList(<<>>) /\ ToSet(<<>>) = {}
  BY EpisodeAssumption DEF ProperList, Ordered, Distinct, ToSet

LEMMA OnlyType ==
    ASSUME NEW S, NEW pos \in [Episode -> Position]
    PROVE  /\ Only(S, pos) \in [Episode -> Position]
           /\ Start0 \in [Episode -> Position]
  <1>1. 0 \in Position
    BY CacheAssumption DEF Position
  <1> QED
    BY <1>1 DEF Only, Start0

(* Positions that are kept for some of the listed episodes only. *)
LEMMA OnlyOfSubset ==
    ASSUME NEW S, NEW R \in SUBSET S, NEW pos
    PROVE  Only(R, pos) = Only(S, Only(R, pos))
  BY DEF Only

LEMMA DelayedWriteType ==
    ASSUME TypeOK, DelayedWrite
    PROVE  timer' \in [active : BOOLEAN, left : 0 .. WriteDelay] /\ timer'.active
  <1>1. [active |-> TRUE, left |-> WriteDelay] \in [active : BOOLEAN, left : 0 .. WriteDelay]
    BY CacheAssumption
  <1> QED
    BY <1>1 DEF DelayedWrite, TypeOK

LEMMA OffType == Off \in [active : BOOLEAN, left : 0 .. WriteDelay] /\ ~Off.active
  <1>1. 0 \in 0 .. WriteDelay
    BY CacheAssumption
  <1> QED
    BY <1>1 DEF Off

LEMMA NothingType ==
    /\ Nothing \in [item : Episode \cup {None}, owner : {"list", "source", "nobody"}]
    /\ NoCache \in [exists : BOOLEAN, episodes : Seq(Episode),
                     position : [Episode -> Position]]
  <1>1. Start0 \in [Episode -> Position]
    BY CacheAssumption DEF Start0, Position
  <1> QED
    BY <1>1, EmptyList DEF Nothing, NoCache

LEMMA InitInv == Init => Inv
  <1> SUFFICES ASSUME Init PROVE Inv
    OBVIOUS
  <1>1. Start0 \in [Episode -> Position]
    <2>1. 0 \in Position
      BY CacheAssumption DEF Position
    <2> QED
      BY <2>1 DEF Start0
  <1>2. TypeOK
    <2>1. running \in BOOLEAN /\ replies \in 0 .. MaxReplies
      <3>1. running = FALSE /\ replies = 0
        BY DEF Init
      <3>2. 0 \in 0 .. MaxReplies
        BY CacheAssumption
      <3> QED
        BY <3>1, <3>2
    <2>2. episodes \in Seq(Episode)
      BY EmptyList DEF Init
    <2>3. position \in [Episode -> Position]
      BY <1>1 DEF Init
    <2>4. timer \in [active : BOOLEAN, left : 0 .. WriteDelay]
      BY OffType DEF Init
    <2>5. /\ cache \in [exists : BOOLEAN, episodes : Seq(Episode),
                        position : [Episode -> Position]]
          /\ playing \in [item : Episode \cup {None}, owner : {"list", "source", "nobody"}]
      BY NothingType DEF Init
    <2> QED
      BY <2>1, <2>2, <2>3, <2>4, <2>5 DEF TypeOK
  <1>3. ListsAreProper
    BY EmptyList DEF Init, ListsAreProper, NoCache
  <1>4. CacheFollows /\ PlayingIsListed
    BY DEF Init, CacheFollows, PlayingIsListed, Nothing
  <1>5. PositionsOfList
    BY DEF Init, PositionsOfList, Only, Start0
  <1> QED
    BY <1>2, <1>3, <1>4, <1>5 DEF Inv

------------------------------------------------------------------------------
(* What the steps do to the list. *)

(* A source that is restored is what its cache file says. *)
LEMMA RestoreEstablishes ==
    ASSUME Inv, Restore
    PROVE  /\ episodes' \in Seq(Episode) /\ ToSet(episodes') = ToSet(cache.episodes)
           /\ position' \in [Episode -> Position]
           /\ ListsAreProper' /\ CacheAgrees' /\ PositionsOfList'
           /\ timer' = Off /\ cache' = cache
  <1>1. /\ cache.episodes \in Seq(Episode) /\ ProperList(cache.episodes)
        /\ cache.position \in [Episode -> Position]
    BY DEF Inv, TypeOK, ListsAreProper
  <1>2. /\ episodes' \in Seq(Episode) /\ ProperList(episodes')
        /\ ToSet(episodes') = ToSet(cache.episodes)
    BY <1>1, EmptyList, AddAllKeepsNewest, ReadBack DEF Restore
  <1>3. position' = CachedPosition /\ cache' = cache /\ timer' = Off
    BY DEF Restore, CachedPosition
  <1>4. position' \in [Episode -> Position]
    BY <1>1, <1>3, OnlyType DEF CachedPosition
  <1>5. position' = Only(ToSet(episodes'), position')
    BY <1>2, <1>3 DEF CachedPosition, Only
  <1>6. CachedPosition' = CachedPosition
    BY <1>3 DEF CachedPosition
  <1> QED
    BY <1>1, <1>2, <1>3, <1>4, <1>5, <1>6
    DEF ListsAreProper, CacheAgrees, PositionsOfList

(* What stays through a feed is in the list in the end. *)
LEMMA StayIsListed ==
    ASSUME NEW list \in Seq(Episode), NEW feed \in Seq(Episode)
    PROVE  Stay(list, feed) \subseteq ToSet(AddAll(list, feed))
  <1>1. Len(feed) \in 0 .. Len(feed)
    OBVIOUS
  <1> QED
    BY <1>1 DEF Stay, AddAll

LEMMA FeedsAreSequences == Feeds \subseteq Seq(Episode)
  BY CacheAssumption DEF Feeds, BoundedSeq, SeqOf

(* An episode that is not in the list any more is not played from it. *)
LEMMA OnlyStayKeeps ==
    ASSUME TypeOK, PlayingIsListed, NEW S, OnlyStay(S)
    PROVE  /\ playing' \in [item : Episode \cup {None}, owner : {"list", "source", "nobody"}]
           /\ playing'.owner = "list" => playing'.item \in S
  BY DEF OnlyStay, TypeOK

LEMMA ReplyInv ==
    ASSUME Inv, NEW feed \in Feeds, Reply(feed)
    PROVE  Inv'
  <1> DEFINE stay == Stay(episodes, feed)
  <1>1. /\ TypeOK /\ PlayingIsListed /\ episodes \in Seq(Episode) /\ ProperList(episodes)
        /\ position \in [Episode -> Position] /\ replies \in 0 .. MaxReplies
    BY DEF Inv, TypeOK, ListsAreProper
  <1>2. feed \in Seq(Episode)
    BY FeedsAreSequences
  <1>3. episodes' \in Seq(Episode) /\ ProperList(episodes')
    BY <1>1, <1>2, AddAllKeepsNewest DEF Reply
  <1>4. stay \subseteq ToSet(episodes')
    BY <1>1, <1>2, StayIsListed DEF Reply
  <1>5. position' = Only(stay, position) /\ OnlyStay(stay) /\ DelayedWrite
        /\ UNCHANGED <<running, cache>> /\ replies' = replies - 1 /\ replies > 0
    BY DEF Reply
  <1> HIDE DEF stay
  <1>6. /\ position' \in [Episode -> Position]
        /\ position' = Only(ToSet(episodes'), position')
    BY <1>1, <1>4, <1>5, OnlyType, OnlyOfSubset
  <1>7. /\ playing' \in [item : Episode \cup {None}, owner : {"list", "source", "nobody"}]
        /\ PlayingIsListed'
    BY <1>1, <1>4, <1>5, OnlyStayKeeps DEF PlayingIsListed
  <1>8. timer' \in [active : BOOLEAN, left : 0 .. WriteDelay] /\ timer'.active
    BY <1>1, <1>5, DelayedWriteType
  <1>9. replies' \in 0 .. MaxReplies
    BY <1>1, <1>5, CacheAssumption
  <1>10. TypeOK'
    BY <1>1, <1>3, <1>5, <1>6, <1>7, <1>8, <1>9 DEF TypeOK
  <1>11. ListsAreProper'
    BY <1>3, <1>5 DEF Inv, ListsAreProper
  <1>12. CacheFollows'
    BY <1>8 DEF CacheFollows
  <1>13. PositionsOfList'
    BY <1>6 DEF PositionsOfList
  <1> QED
    BY <1>7, <1>10, <1>11, <1>12, <1>13 DEF Inv

LEMMA PurgeInv ==
    ASSUME Inv, Purge
    PROVE  Inv'
  <1>1. TypeOK /\ PlayingIsListed /\ replies \in 0 .. MaxReplies
        /\ position \in [Episode -> Position]
    BY DEF Inv, TypeOK
  <1>2. /\ playing' \in [item : Episode \cup {None}, owner : {"list", "source", "nobody"}]
        /\ PlayingIsListed'
    BY <1>1, OnlyStayKeeps DEF Purge, PlayingIsListed
  <1>3. Start0 \in [Episode -> Position]
    BY <1>1, OnlyType
  <1>4. replies' \in 0 .. MaxReplies
    BY <1>1, CacheAssumption DEF Purge
  <1>5. TypeOK'
    BY <1>1, <1>2, <1>3, <1>4, EmptyList DEF Purge, TypeOK, NoCache
  <1>6. ListsAreProper'
    BY EmptyList DEF Purge, ListsAreProper, NoCache
  <1>7. CacheFollows'
    BY DEF Purge, CacheFollows, CacheAgrees, CachedPosition, NoCache, Only, Start0
  <1>8. PositionsOfList'
    BY DEF Purge, PositionsOfList, Only, Start0
  <1> QED
    BY <1>2, <1>5, <1>6, <1>7, <1>8 DEF Inv

LEMMA PlayerMovesInv ==
    ASSUME Inv, NEW p \in Position, PlayerMoves(p)
    PROVE  Inv'
  <1>1. /\ TypeOK /\ position \in [Episode -> Position]
        /\ playing.item \in Episode \cup {None}
        /\ playing.owner \in {"list", "source", "nobody"}
        /\ timer \in [active : BOOLEAN, left : 0 .. WriteDelay]
    BY DEF Inv, TypeOK
  <1>2. UNCHANGED <<running, episodes, cache, replies, playing>>
    BY DEF PlayerMoves
  <1>3. position' \in [Episode -> Position]
    BY <1>1 DEF PlayerMoves
  <1>4. timer' \in [active : BOOLEAN, left : 0 .. WriteDelay]
    BY <1>1, DelayedWriteType DEF PlayerMoves
  <1>5. position' = Only(ToSet(episodes), position')
    <2>1. CASE playing.owner = "list"
      <3>1. position' = [position EXCEPT ![playing.item] = p]
        BY <2>1 DEF PlayerMoves
      <3>2. playing.item \in ToSet(episodes) /\ position = Only(ToSet(episodes), position)
        BY <2>1 DEF Inv, PlayingIsListed, PositionsOfList
      <3> HIDE DEF PlayerMoves
      <3>3. \A e \in Episode : e \notin ToSet(episodes) => position'[e] = 0
        BY <1>1, <3>1, <3>2 DEF Only
      <3> QED
        BY <1>3, <3>3 DEF Only
    <2>2. CASE playing.owner # "list"
      BY <2>2 DEF PlayerMoves, Inv, PositionsOfList
    <2> QED
      BY <2>1, <2>2
  <1>6. CacheFollows'
    <2>1. CASE playing.owner = "nobody"
      BY <1>2, <2>1 DEF PlayerMoves, Inv, CacheFollows, CacheAgrees, CachedPosition
    <2>2. CASE playing.owner # "nobody"
      <3>1. timer'.active
        BY <1>1, <2>2, DelayedWriteType DEF PlayerMoves
      <3> QED
        BY <3>1 DEF CacheFollows
    <2> QED
      BY <2>1, <2>2
  <1>7. TypeOK'
    BY <1>1, <1>2, <1>3, <1>4 DEF TypeOK
  <1> QED
    BY <1>2, <1>5, <1>6, <1>7
    DEF Inv, ListsAreProper, PositionsOfList, PlayingIsListed

LEMMA StartsInv ==
    ASSUME Inv, Start \/ Reload
    PROVE  Inv'
  <1>1. Restore /\ running' = TRUE
    BY DEF Start, Reload, Inv, TypeOK
  <1>2. /\ episodes' \in Seq(Episode)
        /\ position' \in [Episode -> Position]
        /\ ListsAreProper' /\ CacheAgrees' /\ PositionsOfList'
        /\ timer' = Off /\ cache' = cache
    BY <1>1, RestoreEstablishes
  <1>3. /\ playing' \in [item : Episode \cup {None}, owner : {"list", "source", "nobody"}]
        /\ playing'.owner = "nobody"
    BY DEF Start, Reload, Nothing, Inv, TypeOK
  <1>4. replies' \in 0 .. MaxReplies
    BY <1>1, CacheAssumption DEF Restore
  <1>5. TypeOK'
    BY <1>1, <1>2, <1>3, <1>4, OffType DEF Inv, TypeOK
  <1> QED
    BY <1>2, <1>3, <1>5 DEF Inv, CacheFollows, PlayingIsListed

LEMMA NextInv == Inv /\ [Next]_vars => Inv'
  <1> SUFFICES ASSUME Inv, [Next]_vars PROVE Inv'
    OBVIOUS
  <1>1. CASE Start \/ Reload
    BY <1>1, StartsInv
  <1>2. CASE Stop
    <2>1. Start0 \in [Episode -> Position]
      BY OnlyType DEF Inv, TypeOK
    <2>2. TypeOK'
      <3>1. running' \in BOOLEAN /\ replies' \in 0 .. MaxReplies
        <4>1. running' = FALSE /\ replies' = 0
          BY <1>2 DEF Stop
        <4>2. 0 \in 0 .. MaxReplies
          BY CacheAssumption
        <4> QED
          BY <4>1, <4>2
      <3>2. episodes' \in Seq(Episode)
        BY <1>2, EmptyList DEF Stop
      <3>3. position' \in [Episode -> Position]
        BY <1>2, <2>1 DEF Stop
      <3>4. timer' \in [active : BOOLEAN, left : 0 .. WriteDelay]
        BY <1>2, OffType DEF Stop
      <3>5. /\ cache' = cache
            /\ playing' \in [item : Episode \cup {None}, owner : {"list", "source", "nobody"}]
        BY <1>2, NothingType DEF Stop
      <3> QED
        BY <3>1, <3>2, <3>3, <3>4, <3>5 DEF Inv, TypeOK
    <2> QED
      BY <1>2, <2>2, EmptyList
      DEF Stop, Inv, ListsAreProper, CacheFollows, PositionsOfList, PlayingIsListed,
          Only, Start0, Nothing
  <1>3. CASE Refresh \/ ReplyFails
    <2>1. replies' \in 0 .. MaxReplies
      BY <1>3, CacheAssumption DEF Refresh, ReplyFails, Inv, TypeOK
    <2>2. UNCHANGED <<running, episodes, position, timer, cache, playing>>
      BY <1>3 DEF Refresh, ReplyFails
    <2> QED
      BY <2>1, <2>2
      DEF Inv, TypeOK, ListsAreProper, CacheFollows, CacheAgrees, CachedPosition,
          PositionsOfList, PlayingIsListed
  <1>4. CASE Icon
    <2>1. timer' \in [active : BOOLEAN, left : 0 .. WriteDelay] /\ timer'.active
      BY <1>4, DelayedWriteType DEF Icon, Inv
    <2> QED
      BY <1>4, <2>1
      DEF Icon, Inv, TypeOK, ListsAreProper, CacheFollows, PositionsOfList, PlayingIsListed
  <1>5. ASSUME NEW feed \in Feeds, Reply(feed) PROVE Inv'
    BY <1>5, ReplyInv
  <1>6. CASE Purge
    BY <1>6, PurgeInv
  <1>7. ASSUME NEW e \in Episode, Play(e) PROVE Inv'
    BY <1>7
    DEF Play, Inv, TypeOK, ListsAreProper, CacheFollows, CacheAgrees, CachedPosition,
        PositionsOfList, PlayingIsListed
  <1>8. ASSUME NEW p \in Position, PlayerMoves(p) PROVE Inv'
    BY <1>8, PlayerMovesInv
  <1>9. CASE Tick
    <2>1. timer' \in [active : BOOLEAN, left : 0 .. WriteDelay] /\ timer'.active
      BY <1>9, CacheAssumption DEF Tick, Inv, TypeOK
    <2> QED
      BY <1>9, <2>1
      DEF Tick, Inv, TypeOK, ListsAreProper, CacheFollows, PositionsOfList, PlayingIsListed
  <1>10. CASE Write
    <2>1. /\ cache' = [exists |-> TRUE, episodes |-> episodes, position |-> position]
          /\ UNCHANGED <<running, episodes, position, replies, playing>> /\ timer' = Off
      BY <1>10 DEF Write
    <2>2. CacheAgrees'
      BY <2>1 DEF CacheAgrees, CachedPosition, Inv, PositionsOfList
    <2> QED
      BY <2>1, <2>2, OffType
      DEF Inv, TypeOK, ListsAreProper, CacheFollows, PositionsOfList, PlayingIsListed
  <1>11. CASE UNCHANGED vars
    BY <1>11
    DEF vars, Inv, TypeOK, ListsAreProper, CacheFollows, CacheAgrees, CachedPosition,
        PositionsOfList, PlayingIsListed
  <1> QED
    BY <1>1, <1>2, <1>3, <1>4, <1>5, <1>6, <1>7, <1>8, <1>9, <1>10, <1>11
    DEF Next, Serializer, Network, User, Player

LEMMA Invariance == Spec => []Inv
  BY InitInv, NextInv, PTL DEF Spec

------------------------------------------------------------------------------
(* Every variable keeps its type, also where an episode was taken from the  *)
(* list while the player had it.                                            *)
THEOREM TypeCorrect == Spec => []TypeOK
  <1>1. Inv => TypeOK
    BY DEF Inv
  <1> QED
    BY <1>1, Invariance, PTL

(* The list in memory and the list in the cache file are proper, whatever   *)
(* arrives, and through purges, reloads and restarts.                       *)
THEOREM ListsAreProperHolds == Spec => []ListsAreProper
  <1>1. Inv => ListsAreProper
    BY DEF Inv
  <1> QED
    BY <1>1, Invariance, PTL

(* With no write due, a running source is what its cache file says.         *)
THEOREM CacheFollowsHolds == Spec => []CacheFollows
  <1>1. Inv => CacheFollows
    BY DEF Inv
  <1> QED
    BY <1>1, Invariance, PTL

(* A download leaves the newest of what was there and what it brought.      *)
THEOREM DownloadKeepsNewestHolds == Spec => DownloadKeepsNewest
  <1>1. Inv /\ [Next]_vars =>
            [\A feed \in Feeds :
                Reply(feed) => KeepsNewest(episodes', ToSet(episodes) \cup ToSet(feed))]_vars
    <2> SUFFICES ASSUME Inv, NEW feed \in Feeds, Reply(feed)
                 PROVE  KeepsNewest(episodes', ToSet(episodes) \cup ToSet(feed))
      BY DEF vars
    <2>1. episodes \in Seq(Episode) /\ ProperList(episodes) /\ feed \in Seq(Episode)
      BY FeedsAreSequences DEF Inv, TypeOK, ListsAreProper
    <2>2. episodes' = AddAll(episodes, feed)
      BY DEF Reply
    <2> QED
      BY <2>1, <2>2, AddAllKeepsNewest
  <1> QED
    BY <1>1, Invariance, PTL DEF Spec, DownloadKeepsNewest

(* A reload while no write is due changes neither episodes nor positions:   *)
(* what was written is what is read back.                                   *)
THEOREM ReloadIsTransparentHolds == Spec => ReloadIsTransparent
  <1>1. Inv /\ [Next]_vars =>
            [Reload /\ ~timer.active =>
                ToSet(episodes') = ToSet(episodes) /\ position' = position]_vars
    <2> SUFFICES ASSUME Inv, Reload, ~timer.active
                 PROVE  ToSet(episodes') = ToSet(episodes) /\ position' = position
      BY DEF vars
    <2>1. CacheAgrees
      BY DEF Inv, CacheFollows, Reload
    <2>2. ToSet(episodes') = ToSet(cache.episodes)
      BY RestoreEstablishes DEF Reload
    <2>3. position' = CachedPosition
      BY DEF Reload, Restore, CachedPosition
    <2> QED
      BY <2>1, <2>2, <2>3 DEF CacheAgrees
  <1> QED
    BY <1>1, Invariance, PTL DEF Spec, ReloadIsTransparent

==============================================================================
