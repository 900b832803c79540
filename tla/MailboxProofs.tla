---------------------------- MODULE MailboxProofs ---------------------------
(* Theorems about Mailbox: the ring stays typed and tidy, for any number of *)
(* slots, agents and events.                                                *)
EXTENDS Mailbox, Sequences, FiniteSetTheorems, FunctionTheorems, WellFoundedInduction,
        TLAPS

\* the slots that somebody still awaits
Awaited(mailbox) == {i \in Index : Queued(i) /\ mailbox[i].to # {}}

Slot == [ev : Events \cup {NoEvent}, to : SUBSET Agents, age : 0..TTL + 1]

\* The inductive invariant.
MailboxInv == MailboxTypeOK /\ RingIsTidy

-----------------------------------------------------------------------------
(* Numbers *)

\* A set of natural numbers has a least one.
LEMMA LeastNumber ==
  ASSUME NEW S \in SUBSET Nat, S # {}
  PROVE  \E m \in S : \A k \in S : m <= k
<1>1. PICK R : IsWellFoundedOn(R, Nat) /\ R = {ss \in Nat \X Nat : ss[1] < ss[2]}
  BY NatLessThanWellFounded DEF OpToRel
<1>2. PICK x \in S : \A y \in S : ~(<<y, x>> \in R)
  BY <1>1, WFMin
<1>3. \A y \in S : ~(y < x)
  <2> SUFFICES ASSUME NEW y \in S, y < x PROVE <<y, x>> \in R
    BY <1>2
  <2>1. <<y, x>> \in Nat \X Nat /\ <<y, x>>[1] = y /\ <<y, x>>[2] = x
    OBVIOUS
  <2> QED
    BY <1>1, <2>1
<1> QED
  BY <1>3

\* The remainder of a number below twice the divisor.
LEMMA OnceAround ==
  ASSUME NEW S \in Nat \ {0}, NEW y \in 0..2 * S - 1
  PROVE  y % S = IF y < S THEN y ELSE y - S
  OBVIOUS

\* How far a slot is behind another one, without remainders.
Ahead(h, i) == IF i >= h THEN i - h ELSE i - h + Size

LEMMA Distance ==
  ASSUME NEW h \in Index, NEW i \in Index
  PROVE  (i - h + Size) % Size = Ahead(h, i) /\ Ahead(h, i) \in Index
<1> DEFINE y == i - h + Size
<1>1. Size \in Nat \ {0} /\ y \in 0..2 * Size - 1
  BY MailboxAssumption DEF Index
<1> HIDE DEF y
<1>2. y % Size = IF y < Size THEN y ELSE y - Size
  BY <1>1, OnceAround
<1> USE DEF y
<1> QED
  BY <1>2, MailboxAssumption DEF Index, Ahead

LEMMA BehindIsAhead ==
  ASSUME head \in Index, NEW i \in Index
  PROVE  Behind(i) = Ahead(head, i) /\ Behind(i) \in Nat
  BY Distance, MailboxAssumption DEF Behind, Index

\* The next index, without remainders.
LEMMA Following ==
  ASSUME tail \in Index
  PROVE  NextTail = IF tail = Size - 1 THEN 0 ELSE tail + 1
<1> DEFINE y == tail + 1
<1>1. Size \in Nat \ {0} /\ y \in 0..2 * Size - 1
  BY MailboxAssumption DEF Index
<1> HIDE DEF y
<1>2. y % Size = IF y < Size THEN y ELSE y - Size
  BY <1>1, OnceAround
<1> USE DEF y
<1> QED
  BY <1>2, MailboxAssumption DEF Index, NextTail

\* The first of some slots is one of them, and none is ahead of it.
LEMMA OldestIsFirst ==
  ASSUME head \in Index, NEW some \in SUBSET Index, some # {}
  PROVE  /\ Oldest(some) \in some
         /\ \A j \in some : Behind(Oldest(some)) <= Behind(j)
<1> DEFINE far == {Behind(i) : i \in some}
<1>1. far \in SUBSET Nat /\ far # {}
  BY BehindIsAhead
<1>2. PICK m \in far : \A k \in far : m <= k
  BY <1>1, LeastNumber
<1>3. PICK i \in some : m = Behind(i)
  BY <1>2
<1>4. \A j \in some : Behind(i) <= Behind(j)
  BY <1>2, <1>3
<1> QED
  BY <1>3, <1>4 DEF Oldest

-----------------------------------------------------------------------------
(* Ranks *)

\* Sets that a function pairs off have the same number of members.
LEMMA SameCount ==
  ASSUME NEW S, IsFiniteSet(S), NEW T, NEW f \in [S -> T],
         \A x, y \in S : f[x] = f[y] => x = y,
         \A z \in T : \E x \in S : f[x] = z
  PROVE  IsFiniteSet(T) /\ Cardinality(T) = Cardinality(S)
<1>1. f \in Injection(S, T)
  BY Fun_IsInj
<1>2. f \in Surjection(S, T)
  BY Fun_IsSurj
<1>3. ExistsBijection(S, T)
  BY <1>1, <1>2 DEF ExistsBijection, Bijection
<1> QED
  BY <1>3, FS_Bijection

\* A finite set of numbers.
Numbers(S) == S \in SUBSET Int /\ IsFiniteSet(S)

LEMMA RankIsNat ==
  ASSUME NEW S, Numbers(S), NEW x \in S
  PROVE  /\ IsFiniteSet({y \in S : y < x})
         /\ Rank(S, x) \in Nat /\ Rank(S, x) < Cardinality(S) /\ Cardinality(S) \in Nat
<1> DEFINE below == {y \in S : y < x}
<1>1. IsFiniteSet(S) /\ Cardinality(S) \in Nat
  BY FS_CardinalityType DEF Numbers
<1>2. below \in SUBSET S /\ x \notin below /\ below \cup {x} \in SUBSET S
  <2>1. x \in Int
    BY DEF Numbers
  <2>2. ~(x < x)
    BY <2>1
  <2> QED
    BY <2>2
<1> HIDE DEF below
<1>3. IsFiniteSet(below) /\ Cardinality(below) \in Nat
  BY <1>1, <1>2, FS_Subset, FS_CardinalityType
<1>4. Cardinality(below \cup {x}) = Cardinality(below) + 1
  BY <1>2, <1>3, FS_AddElement
<1>5. Cardinality(below \cup {x}) <= Cardinality(S)
  BY <1>1, <1>2, FS_Subset
<1>6. Cardinality(below) < Cardinality(S)
  BY <1>1, <1>3, <1>4, <1>5
<1> QED
  BY <1>1, <1>3, <1>6 DEF Rank, below

LEMMA RankGrows ==
  ASSUME NEW S, Numbers(S), NEW x \in S, NEW y \in S, x < y
  PROVE  Rank(S, x) < Rank(S, y)
<1> DEFINE upto == {z \in S : z < y}
<1> DEFINE below == {z \in S : z < x}
<1>1. below \cup {x} \in SUBSET upto /\ x \notin below
  <2>1. x \in Int /\ y \in Int /\ S \in SUBSET Int
    BY DEF Numbers
  <2>2. ~(x < x) /\ \A z \in S : z < x => z < y
    BY <2>1
  <2>3. \A z \in below : z \in upto
    BY <2>2
  <2>4. x \in upto
    OBVIOUS
  <2>5. x \notin below
    BY <2>2
  <2> QED
    BY <2>3, <2>4, <2>5
<1>2. /\ IsFiniteSet(upto) /\ IsFiniteSet(below)
      /\ Rank(S, x) = Cardinality(below) /\ Rank(S, y) = Cardinality(upto)
      /\ Cardinality(below) \in Nat /\ Cardinality(upto) \in Nat
  BY RankIsNat DEF Rank
<1> HIDE DEF below, upto
<1>3. Cardinality(below \cup {x}) = Cardinality(below) + 1
  BY <1>1, <1>2, FS_AddElement
<1>4. Cardinality(below \cup {x}) <= Cardinality(upto)
  BY <1>1, <1>2, FS_Subset
<1> QED
  BY <1>2, <1>3, <1>4

LEMMA RankTells ==
  ASSUME NEW S, Numbers(S), NEW x \in S, NEW y \in S
  PROVE  /\ Rank(S, x) = Rank(S, y) => x = y
         /\ Rank(S, x) <= Rank(S, y) <=> x <= y
<1>1. x \in Int /\ y \in Int /\ Rank(S, x) \in Nat /\ Rank(S, y) \in Nat
  BY RankIsNat DEF Numbers
<1>2. x < y => Rank(S, x) < Rank(S, y)
  BY RankGrows
<1>3. y < x => Rank(S, y) < Rank(S, x)
  BY RankGrows
<1> QED
  BY <1>1, <1>2, <1>3

\* Every rank is taken: the k-th least member exists, and is the one of rank k - 1.
LEMMA NthIsMember ==
  ASSUME NEW S, Numbers(S), NEW k \in 1..Cardinality(S)
  PROVE  Nth(S, k) \in S /\ Rank(S, Nth(S, k)) = k - 1
<1> DEFINE n == Cardinality(S)
<1> DEFINE ranks == 0..n - 1
<1> DEFINE f == [x \in S |-> Rank(S, x)]
<1>1. IsFiniteSet(S) /\ n \in Nat
  BY FS_CardinalityType DEF Numbers
<1>2. IsFiniteSet(ranks) /\ Cardinality(ranks) = n
  <2>1. 0 \in Int /\ n - 1 \in Int
    BY <1>1
  <2> HIDE DEF n
  <2> QED
    BY <1>1, <2>1, FS_Interval
<1>3. f \in [S -> ranks]
  <2> SUFFICES ASSUME NEW x \in S PROVE Rank(S, x) \in ranks
    OBVIOUS
  <2>1. Rank(S, x) \in Nat /\ Rank(S, x) < n
    BY RankIsNat
  <2> QED
    BY <1>1, <2>1
<1>4. \A x, y \in S : f[x] = f[y] => x = y
  BY RankTells
<1>5. f \in Injection(S, ranks)
  BY <1>3, <1>4, Fun_IsInj
<1>6. f \in Surjection(S, ranks)
  BY <1>2, <1>5, FS_Injection
<1>7. k - 1 \in ranks
  BY <1>1
<1>8. \E x \in S : Rank(S, x) = k - 1
  BY <1>6, <1>7 DEF Surjection
<1> QED
  BY <1>8 DEF Nth

LEMMA NthOfRank ==
  ASSUME NEW S, Numbers(S), NEW x \in S
  PROVE  Rank(S, x) + 1 \in 1..Cardinality(S) /\ Nth(S, Rank(S, x) + 1) = x
<1>1. Rank(S, x) + 1 \in 1..Cardinality(S) /\ Rank(S, x) \in Nat
  <2>1. /\ Rank(S, x) \in Nat /\ Rank(S, x) < Cardinality(S)
        /\ Cardinality(S) \in Nat
    BY RankIsNat
  <2> QED
    BY <2>1
<1>2. /\ Nth(S, Rank(S, x) + 1) \in S
      /\ Rank(S, Nth(S, Rank(S, x) + 1)) = Rank(S, x) + 1 - 1
  BY <1>1, NthIsMember
<1>3. Rank(S, x) + 1 - 1 = Rank(S, x)
  BY <1>1
<1> QED
  BY <1>1, <1>2, <1>3, RankTells

LEMMA NthGrows ==
  ASSUME NEW S, Numbers(S), NEW j \in 1..Cardinality(S), NEW k \in 1..Cardinality(S), j < k
  PROVE  Nth(S, j) < Nth(S, k)
<1>1. /\ Nth(S, j) \in S /\ Nth(S, k) \in S
      /\ Rank(S, Nth(S, j)) = j - 1 /\ Rank(S, Nth(S, k)) = k - 1
  BY NthIsMember
<1>2. Nth(S, j) \in Int /\ Nth(S, k) \in Int /\ Cardinality(S) \in Nat
  BY <1>1, FS_CardinalityType DEF Numbers
<1>3. Rank(S, Nth(S, k)) <= Rank(S, Nth(S, j)) <=> Nth(S, k) <= Nth(S, j)
  BY <1>1, RankTells
<1> QED
  BY <1>1, <1>2, <1>3

\* f takes the k-th of one set to the k-th of the other.
InOrder(S, T, f) == \A k \in 1..Cardinality(S) : Nth(T, k) = f[Nth(S, k)]

\* A growing function keeps the order.
LEMMA NthOfImage ==
  ASSUME NEW S, Numbers(S), NEW T, T \in SUBSET Int, NEW f \in [S -> T],
         \A x, y \in S : x < y => f[x] < f[y],
         \A z \in T : \E x \in S : f[x] = z
  PROVE  Numbers(T) /\ Cardinality(T) = Cardinality(S) /\ InOrder(S, T, f)
<1>1. ASSUME NEW x \in S, NEW y \in S
      PROVE  (f[x] = f[y] => x = y) /\ (f[x] < f[y] <=> x < y)
  <2>1. x \in Int /\ y \in Int /\ f[x] \in Int /\ f[y] \in Int
    BY DEF Numbers
  <2>2. (x < y => f[x] < f[y]) /\ (y < x => f[y] < f[x])
    OBVIOUS
  <2> QED
    BY <2>1, <2>2
<1>2. Numbers(T) /\ Cardinality(T) = Cardinality(S)
  <2>1. IsFiniteSet(S) /\ \A x, y \in S : f[x] = f[y] => x = y
    BY <1>1 DEF Numbers
  <2>2. IsFiniteSet(T) /\ Cardinality(T) = Cardinality(S)
    BY <2>1, SameCount
  <2> QED
    BY <2>2 DEF Numbers
<1>3. ASSUME NEW x \in S
      PROVE  Rank(T, f[x]) = Rank(S, x)
  <2> DEFINE below == {y \in S : y < x}
  <2> DEFINE image == {z \in T : z < f[x]}
  <2> DEFINE g == [y \in below |-> f[y]]
  <2>1. IsFiniteSet(below)
    BY RankIsNat
  <2>2. g \in [below -> image]
    BY <1>1
  <2>3. \A y, z \in below : g[y] = g[z] => y = z
    BY <1>1
  <2>4. \A z \in image : \E y \in below : g[y] = z
    BY <1>1
  <2> HIDE DEF below, image, g
  <2>5. Cardinality(image) = Cardinality(below)
    BY <2>1, <2>2, <2>3, <2>4, SameCount
  <2> QED
    BY <2>5 DEF Rank, below, image
<1>4. ASSUME NEW k \in 1..Cardinality(S)
      PROVE  Nth(T, k) = f[Nth(S, k)]
  <2>1. Nth(S, k) \in S /\ Rank(S, Nth(S, k)) = k - 1
    BY NthIsMember
  <2>2. Rank(T, f[Nth(S, k)]) = k - 1
    BY <1>3, <2>1
  <2>3. Nth(T, k) \in T /\ Rank(T, Nth(T, k)) = k - 1
    BY <1>2, NthIsMember
  <2> QED
    BY <1>2, <2>1, <2>2, <2>3, RankTells
<1> QED
  BY <1>2, <1>4 DEF InOrder

\* One set has the members of the other at the same places.
Extends(T, S) == \A k \in 1..Cardinality(S) : Nth(T, k) = Nth(S, k)

\* A new greatest member comes last and moves no other.
LEMMA NthOfLonger ==
  ASSUME NEW S, Numbers(S), NEW m \in Int, \A x \in S : x < m,
         NEW T, T = S \cup {m}
  PROVE  /\ Numbers(T) /\ Cardinality(T) = Cardinality(S) + 1
         /\ Nth(T, Cardinality(T)) = m
         /\ Extends(T, S)
<1>1. IsFiniteSet(S) /\ Cardinality(S) \in Nat /\ m \notin S
  BY FS_CardinalityType DEF Numbers
<1>2. Numbers(T) /\ Cardinality(T) = Cardinality(S) + 1
  BY <1>1, FS_AddElement DEF Numbers
<1>3. {y \in T : y < m} = S
  <2>1. ~(m < m)
    OBVIOUS
  <2> QED
    BY <2>1
<1>4. Rank(T, m) + 1 = Cardinality(T)
  BY <1>2, <1>3 DEF Rank
<1>5. Nth(T, Cardinality(T)) = m
  BY <1>2, <1>4, NthOfRank
<1>6. ASSUME NEW k \in 1..Cardinality(S)
      PROVE  Nth(T, k) = Nth(S, k)
  <2>1. Nth(S, k) \in S /\ Rank(S, Nth(S, k)) = k - 1
    BY NthIsMember
  <2>2. {y \in T : y < Nth(S, k)} = {y \in S : y < Nth(S, k)}
    <3>1. Nth(S, k) < m /\ Nth(S, k) \in Int
      BY <2>1 DEF Numbers
    <3> HIDE DEF Nth
    <3> QED
      BY <3>1 DEF Numbers
  <2>3. Rank(T, Nth(S, k)) + 1 = k
    BY <2>1, <2>2 DEF Rank
  <2> QED
    BY <1>2, <2>1, <2>3, NthOfRank
<1> QED
  BY <1>2, <1>5, <1>6 DEF Extends

-----------------------------------------------------------------------------
(* The head *)

\* Where the head comes to rest over a mailbox in which only slots between head
\* and tail are awaited: at an awaited slot or at the tail, with every awaited
\* slot still before it.
LEMMA HeadRests ==
  ASSUME head \in Index, tail \in Index, NEW mailbox,
         NEW h, h = SkipRead(mailbox),
         \A i \in Index : mailbox[i].to # {} => Queued(i)
  PROVE  /\ h \in Index
         /\ h # tail => mailbox[h].to # {}
         /\ \A i \in Index : mailbox[i].to # {} => Ahead(h, i) < Ahead(h, tail)
<1> DEFINE awaited == Awaited(mailbox)
<1>1. h = IF awaited = {} THEN tail ELSE Oldest(awaited)
  BY DEF SkipRead, Awaited
<1>2. CASE awaited = {}
  BY <1>1, <1>2 DEF Awaited
<1>3. CASE awaited # {}
  <2>1. awaited \in SUBSET Index
    BY DEF Awaited
  <2>2. h \in awaited /\ \A j \in awaited : Behind(h) <= Behind(j)
    BY <1>1, <1>3, <2>1, OldestIsFirst
  <2>3. h \in Index /\ mailbox[h].to # {} /\ Behind(h) < Behind(tail)
    BY <2>2 DEF Awaited, Queued
  <2>4. ASSUME NEW i \in Index, mailbox[i].to # {}
        PROVE  Ahead(h, i) < Ahead(h, tail)
    <3>1. Behind(h) <= Behind(i) /\ Behind(i) < Behind(tail)
      BY <2>2, <2>4 DEF Awaited, Queued
    <3>2. /\ Behind(h) = Ahead(head, h) /\ Behind(i) = Ahead(head, i)
          /\ Behind(tail) = Ahead(head, tail)
      BY <2>3, BehindIsAhead
    <3> QED
      BY <2>3, <3>1, <3>2, MailboxAssumption DEF Ahead, Index
  <2> QED
    BY <2>3, <2>4
<1> QED
  BY <1>2, <1>3

\* What a scan leaves: typed slots, of which only queued ones are awaited, and
\* the head where it rests over them.
LEMMA Rests ==
  ASSUME MailboxInv, slots' \in [Index -> Slot],
         head' = SkipRead(slots'), tail' = tail,
         given' \in [to : Agents, ev : Events \cup {NoEvent}],
         \A i \in Index : slots'[i].to # {} => slots[i].to # {}
  PROVE  MailboxInv'
<1>1. head \in Index /\ tail \in Index
  BY DEF MailboxInv, MailboxTypeOK
<1>2. \A i \in Index : slots'[i].to # {} => Queued(i)
  BY DEF MailboxInv, RingIsTidy
<1>3. /\ head' \in Index
      /\ head' # tail => slots'[head'].to # {}
      /\ \A i \in Index : slots'[i].to # {} => Ahead(head', i) < Ahead(head', tail)
  BY <1>1, <1>2, HeadRests
<1>4. MailboxTypeOK'
  BY <1>1, <1>3 DEF MailboxTypeOK, Slot, Index
<1>5. ASSUME NEW i \in Index, slots'[i].to # {}
      PROVE  Queued(i)'
  <2>1. /\ (i - head' + Size) % Size = Ahead(head', i)
        /\ (tail - head' + Size) % Size = Ahead(head', tail)
    BY <1>1, <1>3, Distance
  <2> QED
    BY <1>3, <1>5, <2>1 DEF Queued, Behind
<1>6. RingIsTidy'
  BY <1>3, <1>5 DEF RingIsTidy, Index
<1> QED
  BY <1>4, <1>6 DEF MailboxInv

-----------------------------------------------------------------------------
(* The inboxes *)

\* the event of a slot as an inbox shows it
Entry(slot) == [ev |-> slot.ev, age |-> slot.age]

\* the place of the event of a slot in the inbox of one of its recipients
PlaceOf(a, i) == Rank(Found(a), Behind(i)) + 1

\* The slot at a distance from the head is the one at that distance.
LEMMA AtDistance ==
  ASSUME NEW h \in Index, NEW k \in Index
  PROVE  (h + k) % Size \in Index /\ Ahead(h, (h + k) % Size) = k
<1> DEFINE y == h + k
<1>1. Size \in Nat \ {0} /\ y \in 0..2 * Size - 1
  BY MailboxAssumption DEF Index
<1> HIDE DEF y
<1>2. y % Size = IF y < Size THEN y ELSE y - Size
  BY <1>1, OnceAround
<1> USE DEF y
<1> QED
  BY <1>2, MailboxAssumption DEF Index, Ahead

LEMMA BackFrom ==
  ASSUME NEW h \in Index, NEW i \in Index
  PROVE  Ahead(h, i) \in Index /\ (h + Ahead(h, i)) % Size = i
<1> DEFINE k == Ahead(h, i)
<1> DEFINE j == (h + k) % Size
<1>1. k \in Index
  BY Distance
<1>2. j \in Index /\ Ahead(h, j) = k
  BY <1>1, AtDistance
<1> HIDE DEF j
<1>3. j = i
  BY <1>2, MailboxAssumption DEF Ahead, Index
<1> QED
  BY <1>1, <1>3 DEF j

\* A scan finds for an agent the slots addressed to it, each at its distance.
LEMMA FoundSlots ==
  ASSUME MailboxInv, NEW a
  PROVE  /\ Numbers(Found(a)) /\ Found(a) \in SUBSET Index
         /\ \A i \in Index : a \in slots[i].to =>
               Behind(i) \in Found(a) /\ (head + Behind(i)) % Size = i
         /\ \A k \in Found(a) : \E i \in Index : a \in slots[i].to /\ Behind(i) = k
<1>1. head \in Index /\ tail \in Index /\ \A i \in Index : slots[i].to # {} => Queued(i)
  BY DEF MailboxInv, MailboxTypeOK, RingIsTidy
<1>2. Behind(tail) \in Index
  BY <1>1, Distance DEF Behind
<1>3. Found(a) \in SUBSET Index /\ Found(a) \in SUBSET (0..Size - 1)
  BY <1>2, MailboxAssumption DEF Found, Index
<1>4. Numbers(Found(a))
  <2>1. IsFiniteSet(0..Size - 1)
    BY FS_Interval, MailboxAssumption
  <2>2. IsFiniteSet(Found(a))
    BY <1>3, <2>1, FS_Subset
  <2> QED
    BY <1>3, <2>2 DEF Numbers
<1>5. ASSUME NEW i \in Index, a \in slots[i].to
      PROVE  Behind(i) \in Found(a) /\ (head + Behind(i)) % Size = i
  <2>1. Behind(i) = Ahead(head, i) /\ Behind(i) \in Nat
    BY <1>1, BehindIsAhead
  <2>2. (head + Behind(i)) % Size = i
    BY <1>1, <2>1, BackFrom
  <2>3. Behind(i) < Behind(tail)
    BY <1>1, <1>5 DEF Queued
  <2>4. Behind(i) \in 0..Behind(tail) - 1
    BY <1>2, <2>1, <2>3 DEF Index
  <2> QED
    BY <1>5, <2>2, <2>4 DEF Found
<1>6. ASSUME NEW k \in Found(a)
      PROVE  \E i \in Index : a \in slots[i].to /\ Behind(i) = k
  <2>1. k \in Index /\ a \in slots[(head + k) % Size].to
    BY <1>3 DEF Found
  <2>2. (head + k) % Size \in Index /\ Ahead(head, (head + k) % Size) = k
    BY <1>1, <2>1, AtDistance
  <2>3. Behind((head + k) % Size) = k
    BY <1>1, <2>2, BehindIsAhead
  <2> QED
    BY <2>1, <2>2, <2>3
<1> QED
  BY <1>3, <1>4, <1>5, <1>6

\* An inbox holds the events of the slots addressed to its agent, in the order
\* of their distance from the head, and no other.
LEMMA InboxHolds ==
  ASSUME MailboxInv, NEW a
  PROVE  /\ DOMAIN InboxOf(a) = 1..Cardinality(Found(a))
         /\ \A i \in Index : a \in slots[i].to =>
               PlaceOf(a, i) \in DOMAIN InboxOf(a) /\ InboxOf(a)[PlaceOf(a, i)] = Entry(slots[i])
         /\ \A n \in DOMAIN InboxOf(a) : \E i \in Index :
               a \in slots[i].to /\ PlaceOf(a, i) = n /\ Behind(i) = Nth(Found(a), n)
         /\ \A i, j \in Index : a \in slots[i].to /\ a \in slots[j].to =>
               /\ PlaceOf(a, i) = PlaceOf(a, j) => i = j
               /\ PlaceOf(a, i) <= PlaceOf(a, j) <=> Behind(i) <= Behind(j)
<1>1. Numbers(Found(a))
  BY FoundSlots
<1>2. DOMAIN InboxOf(a) = 1..Cardinality(Found(a))
  BY DEF InboxOf
<1>3. \A n \in 1..Cardinality(Found(a)) :
         InboxOf(a)[n] = Entry(slots[(head + Nth(Found(a), n)) % Size])
  BY DEF InboxOf, Entry
<1>4. ASSUME NEW i \in Index, a \in slots[i].to
      PROVE  /\ Behind(i) \in Found(a) /\ PlaceOf(a, i) \in 1..Cardinality(Found(a))
             /\ Nth(Found(a), PlaceOf(a, i)) = Behind(i) /\ (head + Behind(i)) % Size = i
             /\ Rank(Found(a), Behind(i)) \in Nat
  <2>1. Behind(i) \in Found(a) /\ (head + Behind(i)) % Size = i
    BY <1>4, FoundSlots
  <2> QED
    BY <1>1, <2>1, NthOfRank, RankIsNat DEF PlaceOf
<1>5. ASSUME NEW i \in Index, a \in slots[i].to
      PROVE  PlaceOf(a, i) \in DOMAIN InboxOf(a) /\ InboxOf(a)[PlaceOf(a, i)] = Entry(slots[i])
  BY <1>2, <1>3, <1>4, <1>5
<1>6. ASSUME NEW n \in DOMAIN InboxOf(a)
      PROVE  \E i \in Index : /\ a \in slots[i].to /\ PlaceOf(a, i) = n
                              /\ Behind(i) = Nth(Found(a), n)
  <2>1. n \in 1..Cardinality(Found(a))
    BY <1>2
  <2>2. Nth(Found(a), n) \in Found(a) /\ Rank(Found(a), Nth(Found(a), n)) = n - 1
    BY <1>1, <2>1, NthIsMember
  <2>3. PICK i \in Index : a \in slots[i].to /\ Behind(i) = Nth(Found(a), n)
    BY <2>2, FoundSlots
  <2>4. PlaceOf(a, i) = n - 1 + 1
    BY <2>2, <2>3 DEF PlaceOf
  <2>5. n - 1 + 1 = n
    BY <2>1
  <2> QED
    BY <2>3, <2>4, <2>5
<1>7. ASSUME NEW i \in Index, NEW j \in Index, a \in slots[i].to, a \in slots[j].to
      PROVE  /\ PlaceOf(a, i) = PlaceOf(a, j) => i = j
             /\ PlaceOf(a, i) <= PlaceOf(a, j) <=> Behind(i) <= Behind(j)
  <2>1. /\ Behind(i) \in Found(a) /\ Behind(j) \in Found(a)
        /\ Nth(Found(a), PlaceOf(a, i)) = Behind(i) /\ Nth(Found(a), PlaceOf(a, j)) = Behind(j)
        /\ (head + Behind(i)) % Size = i /\ (head + Behind(j)) % Size = j
        /\ Rank(Found(a), Behind(i)) \in Nat /\ Rank(Found(a), Behind(j)) \in Nat
    BY <1>4, <1>7
  <2>2. Rank(Found(a), Behind(i)) <= Rank(Found(a), Behind(j)) <=> Behind(i) <= Behind(j)
    BY <1>1, <2>1, RankTells
  <2>3. PlaceOf(a, i) <= PlaceOf(a, j) <=> Behind(i) <= Behind(j)
    BY <2>1, <2>2 DEF PlaceOf
  <2>4. PlaceOf(a, i) = PlaceOf(a, j) => i = j
    BY <2>1
  <2> QED
    BY <2>3, <2>4
<1> QED
  BY <1>2, <1>5, <1>6, <1>7

\* The same, of distances without remainders.
FoundFacts(a) ==
  /\ Found(a) \in SUBSET Index
  /\ \A i \in Index : a \in slots[i].to =>
        Ahead(head, i) \in Found(a) /\ (head + Ahead(head, i)) % Size = i
  /\ \A k \in Found(a) : \E i \in Index : a \in slots[i].to /\ Ahead(head, i) = k

LEMMA FoundState == MailboxInv => \A a : FoundFacts(a)
<1> SUFFICES ASSUME MailboxInv, NEW a PROVE FoundFacts(a)
  OBVIOUS
<1>1. \A i \in Index : Behind(i) = Ahead(head, i)
  BY BehindIsAhead DEF MailboxInv, MailboxTypeOK
<1> QED
  BY <1>1, FoundSlots DEF FoundFacts

LEMMA FoundNext == MailboxInv' => (\A a : FoundFacts(a))'
  BY FoundState, PTL

\* What a step leaves of an inbox when it takes some events from it and moves the
\* head: the places that stay, in their order.
LEMMA InboxKept ==
  ASSUME MailboxInv, MailboxInv', NEW a, NEW keep \in SUBSET DOMAIN InboxOf(a), NEW s \in Int,
         \A i \in Index : a \in slots'[i].to <=> a \in slots[i].to /\ PlaceOf(a, i) \in keep,
         \A i \in Index : a \in slots'[i].to =>
            Entry(slots'[i]) = Entry(slots[i]) /\ Ahead(head', i) = Ahead(head, i) - s
  PROVE  InboxOf(a)' = KeepAt(InboxOf(a), keep)
<1> DEFINE S == Found(a)
<1> DEFINE T == Found(a)'
<1> DEFINE f == [n \in keep |-> Nth(S, n) - s]
<1>1. Numbers(S) /\ Numbers(keep) /\ DOMAIN InboxOf(a) = 1..Cardinality(S)
  <2>1. Numbers(S) /\ DOMAIN InboxOf(a) = 1..Cardinality(S) /\ Cardinality(S) \in Nat
    BY FoundSlots, InboxHolds, FS_CardinalityType DEF Numbers
  <2>2. IsFiniteSet(1..Cardinality(S)) /\ keep \in SUBSET (1..Cardinality(S))
    BY <2>1, FS_Interval
  <2>3. IsFiniteSet(keep)
    BY <2>2, FS_Subset
  <2> QED
    BY <2>1, <2>2, <2>3 DEF Numbers
<1>2. \A n \in keep : Nth(S, n) \in Int
  BY <1>1, NthIsMember DEF Numbers
<1>3. \A m, n \in keep : m < n => f[m] < f[n]
  <2> SUFFICES ASSUME NEW m \in keep, NEW n \in keep, m < n PROVE f[m] < f[n]
    OBVIOUS
  <2>1. Nth(S, m) < Nth(S, n)
    BY <1>1, NthGrows
  <2> HIDE DEF S
  <2> QED
    BY <1>2, <2>1
<1>4. ASSUME NEW n \in keep
      PROVE  \E i \in Index : /\ a \in slots'[i].to /\ PlaceOf(a, i) = n /\ f[n] = Ahead(head', i)
                              /\ f[n] \in T /\ (head' + f[n]) % Size = i
                              /\ InboxOf(a)[n] = Entry(slots'[i])
  <2>1. PICK i \in Index : a \in slots[i].to /\ PlaceOf(a, i) = n /\ Behind(i) = Nth(S, n)
    BY <1>1, InboxHolds
  <2>2. a \in slots'[i].to
    BY <2>1
  <2>3. Behind(i) = Ahead(head, i)
    BY BehindIsAhead DEF MailboxInv, MailboxTypeOK
  <2>4. f[n] = Ahead(head', i)
    BY <2>1, <2>2, <2>3
  <2>5. f[n] \in T /\ (head' + f[n]) % Size = i
    BY <2>2, <2>4, FoundNext DEF FoundFacts, Index
  <2>6. InboxOf(a)[n] = Entry(slots'[i])
    BY <2>1, <2>2, InboxHolds
  <2> QED
    BY <2>1, <2>2, <2>4, <2>5, <2>6
<1>5. ASSUME NEW k \in T
      PROVE  \E n \in keep : f[n] = k
  <2>1. PICK i \in Index : a \in slots'[i].to /\ Ahead(head', i) = k
    BY FoundNext DEF FoundFacts, Index
  <2>2. a \in slots[i].to /\ PlaceOf(a, i) \in keep
    BY <2>1
  <2>3. Nth(S, PlaceOf(a, i)) = Behind(i)
    BY <1>1, <2>2, FoundSlots, NthOfRank DEF PlaceOf
  <2>4. Behind(i) = Ahead(head, i)
    BY BehindIsAhead DEF MailboxInv, MailboxTypeOK
  <2>5. f[PlaceOf(a, i)] = k
    BY <2>1, <2>2, <2>3, <2>4
  <2> QED
    BY <2>2, <2>5
<1>6. T \in SUBSET Int /\ f \in [keep -> T]
  <2>1. T \in SUBSET Int
    BY FoundNext, MailboxAssumption DEF FoundFacts, Index
  <2>2. \A n \in keep : f[n] \in T
    BY <1>4
  <2> QED
    BY <2>1, <2>2
<1>7. Cardinality(T) = Cardinality(keep) /\ InOrder(keep, T, f)
  <2>1. \A x, y \in keep : x < y => f[x] < f[y]
    BY <1>3
  <2>2. \A z \in T : \E x \in keep : f[x] = z
    BY <1>5
  <2> HIDE DEF T, f
  <2> QED
    BY <1>1, <1>6, <2>1, <2>2, NthOfImage
<1>8. InboxOf(a)' = [n \in 1..Cardinality(T) |-> Entry(slots'[(head' + Nth(T, n)) % Size])]
  BY DEF InboxOf, Entry
<1>9. ASSUME NEW k \in 1..Cardinality(keep)
      PROVE  Entry(slots'[(head' + Nth(T, k)) % Size]) = InboxOf(a)[Nth(keep, k)]
  <2>1. Nth(keep, k) \in keep
    BY <1>1, NthIsMember
  <2>2. Nth(T, k) = f[Nth(keep, k)]
    BY <1>7 DEF InOrder
  <2> HIDE DEF f, T
  <2> QED
    BY <1>4, <2>1, <2>2
<1> HIDE DEF T, f
<1> QED
  BY <1>7, <1>8, <1>9 DEF KeepAt

-----------------------------------------------------------------------------
(* The steps *)

LEMMA MailboxInitInv == MailboxInit => MailboxInv
  BY MailboxAssumption
     DEF MailboxInit, MailboxInv, MailboxTypeOK, RingIsTidy, Free, Nothing, Index

LEMMA PublishInv ==
  ASSUME MailboxInv, NEW to \in Targets, NEW ev \in Events, Publish(to, ev)
  PROVE  MailboxInv'
<1>1. /\ slots \in [Index -> Slot] /\ head \in Index /\ tail \in Index
      /\ \A i \in Index : slots[i].to # {} => Queued(i)
      /\ head # tail => slots[head].to # {}
  BY DEF MailboxInv, MailboxTypeOK, RingIsTidy, Slot
<1>2. Mask(to) \in SUBSET Agents /\ Mask(to) # {}
  BY MailboxAssumption DEF Mask
<1>3. /\ slots' = [slots EXCEPT ![tail] = [ev |-> ev, to |-> Mask(to), age |-> 0]]
      /\ tail' = NextTail /\ given' = Nothing /\ head' = head /\ NextTail # head
  BY DEF Publish, Full
<1>4. NextTail = IF tail = Size - 1 THEN 0 ELSE tail + 1
  BY <1>1, Following
<1>5. NextTail \in Index
  BY <1>1, <1>4, MailboxAssumption DEF Index
<1>6. [ev |-> ev, to |-> Mask(to), age |-> 0] \in Slot
  BY <1>2, MailboxAssumption DEF Slot
<1>7. slots' \in [Index -> Slot] /\ slots'[tail].to = Mask(to)
      /\ \A i \in Index : i # tail => slots'[i] = slots[i]
  BY <1>1, <1>3, <1>6
<1>8. MailboxTypeOK'
  BY <1>1, <1>3, <1>5, <1>7, MailboxAssumption DEF MailboxTypeOK, Slot, Nothing, Index
<1>9. ASSUME NEW i \in Index, slots'[i].to # {}
      PROVE  Queued(i)'
  <2>1. i = tail \/ Ahead(head, i) < Ahead(head, tail)
    BY <1>1, <1>7, <1>9, BehindIsAhead DEF Queued
  <2>2. Ahead(head, i) < Ahead(head, NextTail)
    BY <1>1, <1>3, <1>4, <2>1, MailboxAssumption DEF Ahead, Index
  <2>3. /\ (i - head + Size) % Size = Ahead(head, i)
        /\ (NextTail - head + Size) % Size = Ahead(head, NextTail)
    BY <1>1, <1>5, Distance
  <2> QED
    BY <1>3, <2>2, <2>3 DEF Queued, Behind
<1>10. slots'[head].to # {}
  BY <1>1, <1>2, <1>7
<1>11. RingIsTidy'
  BY <1>3, <1>9, <1>10 DEF RingIsTidy, Index
<1> QED
  BY <1>8, <1>11 DEF MailboxInv

LEMMA ReceiveInv ==
  ASSUME MailboxInv, NEW a \in Readers, Receive(a)
  PROVE  MailboxInv'
<1> DEFINE kept == DropExpired
<1> DEFINE mine == {i \in Index : Queued(i) /\ a \in kept[i].to}
<1> DEFINE o == Oldest(mine)
<1> DEFINE rest == [kept EXCEPT ![o] = TakenBy(kept[o], a)]
<1>1. slots \in [Index -> Slot] /\ head \in Index /\ tail \in Index
  BY DEF MailboxInv, MailboxTypeOK, Slot
<1>2. Free \in Slot /\ Free.to = {}
  BY MailboxAssumption DEF Free, Slot
<1>3. kept \in [Index -> Slot] /\ \A i \in Index : kept[i].to # {} => slots[i].to # {}
  <2>1. \A i \in Index : kept[i] = Free \/ kept[i] = slots[i]
    BY DEF DropExpired
  <2>2. kept = [i \in Index |-> kept[i]]
    BY DEF DropExpired
  <2> QED
    BY <1>1, <1>2, <2>1, <2>2
<1>4. tail' = tail
  BY DEF Receive
<1>5. a \in Agents /\ DefaultTo \in Agents
  BY MailboxAssumption
<1>6. CASE mine = {}
  <2>1. slots' = kept /\ head' = SkipRead(kept) /\ given' = Nothing
    BY <1>6 DEF Receive
  <2>2. given' \in [to : Agents, ev : Events \cup {NoEvent}]
    BY <1>5, <2>1 DEF Nothing
  <2> QED
    BY <1>3, <1>4, <2>1, <2>2, Rests
<1>7. CASE mine # {}
  <2>1. slots' = rest /\ head' = SkipRead(rest) /\ given' = [to |-> a, ev |-> kept[o].ev]
    BY <1>7 DEF Receive
  <2>2. o \in mine
    BY <1>1, <1>7, OldestIsFirst
  <2>3. o \in Index /\ kept[o] \in Slot /\ a \in kept[o].to
    BY <1>3, <2>2
  <2>4. TakenBy(kept[o], a) \in Slot
    <3>1. [kept[o] EXCEPT !.to = @ \ {a}] \in Slot
      BY <2>3 DEF Slot
    <3> QED
      BY <1>2, <3>1 DEF TakenBy
  <2>5. rest \in [Index -> Slot] /\ \A i \in Index : rest[i].to # {} => kept[i].to # {}
    BY <1>3, <2>3, <2>4
  <2>6. given' \in [to : Agents, ev : Events \cup {NoEvent}]
    BY <1>5, <2>1, <2>3 DEF Slot
  <2> QED
    BY <1>3, <1>4, <2>1, <2>5, <2>6, Rests
<1> QED
  BY <1>6, <1>7

LEMMA AgeInv ==
  ASSUME MailboxInv, Age
  PROVE  MailboxInv'
<1>1. slots \in [Index -> Slot] /\ head \in Index /\ tail \in Index
  BY DEF MailboxInv, MailboxTypeOK, Slot
<1>2. /\ head' = head /\ tail' = tail /\ given' = Nothing
      /\ slots' = [i \in Index |->
                      IF slots[i].to = {} \/ slots[i].age > TTL THEN slots[i]
                      ELSE [slots[i] EXCEPT !.age = @ + 1]]
  BY DEF Age
<1>3. ASSUME NEW i \in Index
      PROVE  slots'[i] \in Slot /\ slots'[i].to = slots[i].to
  BY <1>1, <1>2, MailboxAssumption DEF Slot
<1>4. MailboxTypeOK'
  BY <1>1, <1>2, <1>3, MailboxAssumption DEF MailboxTypeOK, Slot, Nothing, Index
<1>5. RingIsTidy'
  BY <1>1, <1>2, <1>3 DEF MailboxInv, RingIsTidy, Queued, Behind, Index
<1> QED
  BY <1>4, <1>5 DEF MailboxInv

\* The inductive invariant of the ring: an awaited slot is between head and
\* tail, whoever reads, publishes or throws away what is too old.
THEOREM MailboxInvariance == MailboxSpec => []MailboxInv
<1>1. MailboxInv /\ [MailboxNext]_mbVars => MailboxInv'
  <2> SUFFICES ASSUME MailboxInv, [MailboxNext]_mbVars PROVE MailboxInv'
    OBVIOUS
  <2>1. CASE UNCHANGED mbVars
    BY <2>1 DEF MailboxInv, MailboxTypeOK, RingIsTidy, Queued, Behind, mbVars, ring, Index
  <2> QED
    BY <2>1, PublishInv, ReceiveInv, AgeInv DEF MailboxNext
<1> QED
  BY <1>1, MailboxInitInv, PTL DEF MailboxSpec

\* Slots, indices and the event given keep their types (fsm_event_publish,
\* fsm_event_receive).
THEOREM MailboxTypeCorrect == MailboxSpec => []MailboxTypeOK
<1>1. MailboxInv => MailboxTypeOK
  BY DEF MailboxInv
<1> QED
  BY <1>1, MailboxInvariance, PTL

\* No event is left outside head and tail, and none already read by all stays at
\* the head, in whatever order the readers finish (fsm_event_receive).
THEOREM RingStaysTidy == MailboxSpec => []RingIsTidy
<1>1. MailboxInv => RingIsTidy
  BY DEF MailboxInv
<1> QED
  BY <1>1, MailboxInvariance, PTL

-----------------------------------------------------------------------------
(* The refinement *)

\* The operator of EventBus is the one of Ranks.
LEMMA SameKeepAt ==
  ASSUME NEW seq, NEW S
  PROVE  Bus!KeepAt(seq, S) = KeepAt(seq, S)
  BY DEF Bus!KeepAt, KeepAt, Bus!Nth, Nth, Bus!Rank, Rank, Bus!Cardinality, Cardinality

LEMMA InitOfBus == MailboxInit => Bus!BusInit
<1> SUFFICES ASSUME MailboxInit PROVE Bus!BusInit
  OBVIOUS
<1>1. ASSUME NEW a \in Agents
      PROVE  InboxOf(a) = <<>>
  <2>1. MailboxInv
    BY MailboxInitInv
  <2>2. \A i \in Index : slots[i].to = {}
    BY DEF MailboxInit, Free
  <2>3. Found(a) = {}
    BY <2>1, <2>2, FoundSlots
  <2>4. Cardinality(Found(a)) = 0
    BY <2>3, FS_EmptySet
  <2> QED
    BY <2>4 DEF InboxOf
<1> QED
  BY <1>1 DEF Bus!BusInit, Bus!Nothing, MailboxInit, Nothing

\* What a publication adds is seen by its recipients alone, and comes last.
LEMMA PublishIsOfBus ==
  ASSUME MailboxInv, NEW to \in Targets, NEW ev \in Events, Publish(to, ev)
  PROVE  Bus!BusPublish(Mask(to), ev)
<1> DEFINE new == [ev |-> ev, to |-> Mask(to), age |-> 0]
<1>1. /\ slots \in [Index -> Slot] /\ head \in Index /\ tail \in Index
      /\ \A i \in Index : slots[i].to # {} => Queued(i)
  BY DEF MailboxInv, MailboxTypeOK, RingIsTidy, Slot
<1>2. /\ slots' = [slots EXCEPT ![tail] = new] /\ tail' = NextTail /\ given' = Nothing
      /\ head' = head /\ NextTail # head
  BY DEF Publish, Full
<1>3. NextTail \in Index /\ NextTail = IF tail = Size - 1 THEN 0 ELSE tail + 1
  BY <1>1, Following, MailboxAssumption DEF Index
<1>4. /\ Behind(tail) \in Index /\ Behind(tail) \in Nat
      /\ Behind(tail) = Ahead(head, tail) /\ Behind(tail)' = Behind(tail) + 1
  <2>1. Behind(tail) = Ahead(head, tail) /\ Ahead(head, tail) \in Index
    BY <1>1, Distance DEF Behind
  <2>2. Behind(tail)' = Ahead(head, NextTail)
    BY <1>1, <1>2, <1>3, Distance DEF Behind
  <2>3. Ahead(head, NextTail) = Ahead(head, tail) + 1
    BY <1>1, <1>2, <1>3, MailboxAssumption DEF Ahead, Index
  <2> QED
    BY <2>1, <2>2, <2>3, MailboxAssumption DEF Index
<1>5. (head + Behind(tail)) % Size = tail
  BY <1>1, <1>4, BackFrom
<1>6. ASSUME NEW k \in 0..Behind(tail) - 1
      PROVE  (head + k) % Size \in Index /\ (head + k) % Size # tail
  <2>1. k \in Index
    BY <1>4, MailboxAssumption DEF Index
  <2>2. (head + k) % Size \in Index /\ Ahead(head, (head + k) % Size) = k
    BY <1>1, <2>1, AtDistance
  <2> QED
    BY <1>4, <2>2
<1>7. ASSUME NEW a \in Agents
      PROVE  InboxOf(a)' = IF a \in Mask(to) THEN Append(InboxOf(a), [ev |-> ev, age |-> 0])
                           ELSE InboxOf(a)
  <2> DEFINE F == Found(a)
  <2> DEFINE G == Found(a)'
  <2>1. Numbers(F) /\ Cardinality(F) \in Nat
    BY FoundSlots, FS_CardinalityType DEF Numbers
  <2>2. G = {k \in 0..Behind(tail) : a \in slots'[(head + k) % Size].to}
    BY <1>2, <1>4 DEF Found
  <2>3. \A k \in 0..Behind(tail) - 1 : slots'[(head + k) % Size] = slots[(head + k) % Size]
    BY <1>1, <1>2, <1>6
  <2>4. slots'[(head + Behind(tail)) % Size] = new
    BY <1>1, <1>2, <1>5
  <2>5. G = F \cup (IF a \in Mask(to) THEN {Behind(tail)} ELSE {})
    <3>1. 0..Behind(tail) = (0..Behind(tail) - 1) \cup {Behind(tail)}
      BY <1>4
    <3>2. \A k \in 0..Behind(tail) - 1 : k \in G <=> k \in F
      BY <2>2, <2>3, <3>1 DEF Found
    <3>3. Behind(tail) \in G <=> a \in Mask(to)
      BY <2>2, <2>4, <3>1
    <3>4. F \in SUBSET (0..Behind(tail) - 1)
      BY DEF Found
    <3>5. G \in SUBSET (0..Behind(tail))
      BY <2>2
    <3> HIDE DEF F, G
    <3> QED
      BY <3>1, <3>2, <3>3, <3>4, <3>5
  <2>6. \A k \in F : slots'[(head + k) % Size] = slots[(head + k) % Size]
    BY <2>3 DEF Found
  <2>7. InboxOf(a)' = [n \in 1..Cardinality(G) |-> Entry(slots'[(head + Nth(G, n)) % Size])]
    BY <1>2 DEF InboxOf, Entry
  <2>8. InboxOf(a) = [n \in 1..Cardinality(F) |-> Entry(slots[(head + Nth(F, n)) % Size])]
    BY DEF InboxOf, Entry
  <2>9. CASE a \notin Mask(to)
    <3>1. G = F
      BY <2>5, <2>9
    <3>2. \A n \in 1..Cardinality(F) : Nth(F, n) \in F
      BY <2>1, NthIsMember
    <3> HIDE DEF F, G
    <3> QED
      BY <2>6, <2>7, <2>8, <2>9, <3>1, <3>2
  <2>10. CASE a \in Mask(to)
    <3> DEFINE n == Cardinality(F)
    <3>1. G = F \cup {Behind(tail)} /\ \A k \in F : k < Behind(tail)
      BY <1>4, <2>5, <2>10 DEF Found
    <3>2. /\ Cardinality(G) = n + 1 /\ Nth(G, n + 1) = Behind(tail)
          /\ \A k \in 1..n : Nth(G, k) = Nth(F, k)
      <4>1. Behind(tail) \in Int
        BY <1>4
      <4> HIDE DEF F, G
      <4>2. /\ Cardinality(G) = Cardinality(F) + 1 /\ Nth(G, Cardinality(G)) = Behind(tail)
            /\ Extends(G, F)
        BY <2>1, <3>1, <4>1, NthOfLonger
      <4> QED
        BY <4>2 DEF Extends
    <3>3. \A k \in 1..n : Nth(F, k) \in F
      BY <2>1, NthIsMember
    <3>4. \A k \in 1..n : Entry(slots'[(head + Nth(G, k)) % Size]) = InboxOf(a)[k]
      BY <2>6, <2>8, <3>2, <3>3
    <3>5. Entry(slots'[(head + Nth(G, n + 1)) % Size]) = [ev |-> ev, age |-> 0]
      BY <2>4, <3>2 DEF Entry
    <3>6. InboxOf(a) \in Seq({Entry(slots[i]) : i \in Index}) /\ Len(InboxOf(a)) = n
      <4>1. \A k \in 1..n : (head + Nth(F, k)) % Size \in Index
        BY <1>6, <3>3 DEF Found
      <4> HIDE DEF F
      <4> QED
        BY <2>1, <2>8, <4>1
    <3> HIDE DEF F, G
    <3> QED
      BY <2>1, <2>7, <2>10, <3>2, <3>4, <3>5, <3>6
  <2> QED
    BY <2>9, <2>10
<1> QED
  BY <1>2, <1>7 DEF Bus!BusPublish, Bus!Nothing, Nothing

\* A tick ages the events in every inbox and moves none.
LEMMA AgeIsOfBus ==
  ASSUME MailboxInv, Age
  PROVE  Bus!BusTick
<1>1. /\ slots \in [Index -> Slot] /\ head \in Index /\ tail \in Index
      /\ head' = head /\ tail' = tail /\ given' = Nothing
  BY DEF MailboxInv, MailboxTypeOK, Slot, Age
<1>2. ASSUME NEW i \in Index
      PROVE  /\ slots'[i].to = slots[i].to
             /\ slots[i].to # {} =>
                   Entry(slots'[i]) = [Entry(slots[i]) EXCEPT !.age = Bus!Older(@)]
  BY <1>1, MailboxAssumption DEF Age, Slot, Entry, Bus!Older
<1>3. ASSUME NEW a \in Agents
      PROVE  InboxOf(a)' = [n \in DOMAIN InboxOf(a) |->
                               [InboxOf(a)[n] EXCEPT !.age = Bus!Older(@)]]
  <2> DEFINE F == Found(a)
  <2>1. Numbers(F) /\ F \in SUBSET Index
    BY FoundSlots
  <2>2. \A k \in Index : (head + k) % Size \in Index
    BY <1>1, AtDistance
  <2>3. Behind(tail) \in Index
    BY <1>1, Distance DEF Behind
  <2>4. Found(a)' = F
    <3>1. Behind(tail)' = Behind(tail)
      BY <1>1 DEF Behind
    <3>2. \A k \in 0..Behind(tail) - 1 :
             slots'[(head + k) % Size].to = slots[(head + k) % Size].to
      <4>1. \A k \in 0..Behind(tail) - 1 : k \in Index
        BY <2>3, MailboxAssumption DEF Index
      <4> QED
        BY <1>2, <2>2, <4>1
    <3> QED
      BY <1>1, <3>1, <3>2 DEF Found
  <2>5. InboxOf(a)' = [n \in 1..Cardinality(F) |-> Entry(slots'[(head + Nth(F, n)) % Size])]
    BY <1>1, <2>4 DEF InboxOf, Entry
  <2>6. InboxOf(a) = [n \in 1..Cardinality(F) |-> Entry(slots[(head + Nth(F, n)) % Size])]
    BY DEF InboxOf, Entry
  <2>7. ASSUME NEW n \in 1..Cardinality(F)
        PROVE  LET i == (head + Nth(F, n)) % Size
               IN  i \in Index /\ slots[i].to # {}
    <3>1. Nth(F, n) \in F
      BY <2>1, NthIsMember
    <3> QED
      BY <2>1, <2>2, <3>1 DEF Found
  <2> HIDE DEF F
  <2> QED
    BY <1>2, <2>5, <2>6, <2>7
<1> QED
  BY <1>1, <1>3 DEF Bus!BusTick, Bus!Nothing, Nothing

\* A scan takes from the inboxes what is too old, and from the reader's the
\* oldest of what is left, whatever the head moves over.
LEMMA ReceiveIsOfBus ==
  ASSUME MailboxInv, MailboxInv', NEW a \in Readers, Receive(a)
  PROVE  Bus!BusDeliver(a) \/ Bus!BusExpire(a)
<1> DEFINE kept == DropExpired
<1> DEFINE mine == {i \in Index : Queued(i) /\ a \in kept[i].to}
<1> DEFINE o == Oldest(mine)
<1> DEFINE rest == [kept EXCEPT ![o] = TakenBy(kept[o], a)]
<1> DEFINE s == Ahead(head, head')
<1> DEFINE Young(b) == {n \in DOMAIN InboxOf(b) : InboxOf(b)[n].age <= TTL}
<1>1. /\ slots \in [Index -> Slot] /\ head \in Index /\ tail \in Index /\ head' \in Index
      /\ \A i \in Index : slots[i].to # {} => Queued(i)
  BY DEF MailboxInv, MailboxTypeOK, RingIsTidy, Slot, Index
<1>2. a \in Agents /\ tail' = tail
  BY MailboxAssumption DEF Receive
<1>3. ASSUME NEW i \in Index
      PROVE  kept[i] = IF slots[i].to # {} /\ slots[i].age > TTL THEN Free ELSE slots[i]
  BY <1>1 DEF DropExpired, Expired
<1>4. ASSUME NEW i \in Index, NEW b
      PROVE  /\ b \in kept[i].to <=> b \in slots[i].to /\ slots[i].age <= TTL
             /\ b \in kept[i].to => kept[i] = slots[i]
  <2>1. slots[i].age \in 0..TTL + 1
    BY <1>1 DEF Slot
  <2> QED
    BY <1>3, <2>1, MailboxAssumption DEF Free
<1>5. head' = SkipRead(slots')
  BY DEF Receive
<1>6. ASSUME NEW i \in Index, slots'[i].to # {}, \A j \in Index : slots'[j].to # {} => slots[j].to # {}
      PROVE  Ahead(head', i) = Ahead(head, i) - s
  <2> DEFINE awaited == Awaited(slots')
  <2>1. awaited \in SUBSET Index /\ i \in awaited
    BY <1>1, <1>6 DEF Awaited
  <2>2. head' = Oldest(awaited)
    BY <1>5, <2>1 DEF SkipRead, Awaited
  <2>3. Behind(head') <= Behind(i)
    BY <1>1, <2>1, <2>2, OldestIsFirst
  <2>4. Ahead(head, head') <= Ahead(head, i)
    BY <1>1, <2>3, BehindIsAhead
  <2> QED
    BY <1>1, <2>4, MailboxAssumption DEF Ahead, Index
<1>7. s \in Int
  BY <1>1, Distance, MailboxAssumption DEF Index
<1>8. ASSUME NEW b, NEW i \in Index, b \in slots[i].to
      PROVE  /\ PlaceOf(b, i) \in Young(b) <=> slots[i].age <= TTL
             /\ InboxOf(b)[PlaceOf(b, i)] = Entry(slots[i])
  <2>1. PlaceOf(b, i) \in DOMAIN InboxOf(b) /\ InboxOf(b)[PlaceOf(b, i)] = Entry(slots[i])
    BY <1>8, InboxHolds
  <2> QED
    BY <2>1 DEF Entry
<1> HIDE DEF s
<1>9. CASE mine = {}
  <2>1. slots' = kept /\ given' = Nothing
    BY <1>9 DEF Receive
  <2>2. \A i \in Index : slots'[i].to # {} => slots[i].to # {}
    BY <1>4, <2>1
  <2>3. ASSUME NEW b \in Agents
        PROVE  InboxOf(b)' = KeepAt(InboxOf(b), Young(b))
    <3>1. \A i \in Index : b \in slots'[i].to <=> b \in slots[i].to /\ PlaceOf(b, i) \in Young(b)
      BY <1>4, <1>8, <2>1
    <3>2. \A i \in Index : b \in slots'[i].to =>
             Entry(slots'[i]) = Entry(slots[i]) /\ Ahead(head', i) = Ahead(head, i) - s
      BY <1>4, <1>6, <2>1, <2>2
    <3>3. Young(b) \in SUBSET DOMAIN InboxOf(b)
      OBVIOUS
    <3> HIDE DEF Young
    <3> QED
      BY <1>7, <3>1, <3>2, <3>3, InboxKept
  <2>4. Young(a) = {}
    <3> SUFFICES ASSUME NEW n \in Young(a) PROVE FALSE
      OBVIOUS
    <3>1. PICK i \in Index : a \in slots[i].to /\ PlaceOf(a, i) = n
      BY InboxHolds
    <3>2. slots[i].age <= TTL
      BY <1>8, <3>1
    <3>3. i \in mine
      BY <1>1, <1>4, <3>1, <3>2
    <3> QED
      BY <1>9, <3>3
  <2>5. Bus!BusExpire(a)
    <3>1. [b \in Agents |-> InboxOf(b)]' =
             [b \in Agents |-> Bus!KeepAt(InboxOf(b), Young(b))]
      BY <2>3, SameKeepAt
    <3>2. given' = Nothing /\ a \in Agents
      BY <1>2, <2>1
    <3> QED
      BY <2>4, <3>1, <3>2 DEF Bus!BusExpire, Bus!Fresh, Bus!Nothing, Nothing
  <2> QED
    BY <2>5
<1>10. CASE mine # {}
  <2> DEFINE first == PlaceOf(a, o)
  <2> DEFINE keep(b) == Young(b) \ (IF b = a THEN {first} ELSE {})
  <2>1. slots' = rest /\ given' = [to |-> a, ev |-> kept[o].ev]
    BY <1>10 DEF Receive
  <2>2. o \in Index /\ o \in mine /\ \A j \in mine : Behind(o) <= Behind(j)
    BY <1>1, <1>10, OldestIsFirst
  <2>3. a \in slots[o].to /\ slots[o].age <= TTL /\ kept[o] = slots[o]
    BY <1>4, <2>2
  <2>4. ASSUME NEW i \in Index
        PROVE  slots'[i] = IF i = o THEN TakenBy(slots[o], a) ELSE kept[i]
    <3>1. DOMAIN kept = Index
      BY DEF DropExpired
    <3> QED
      BY <2>1, <2>2, <2>3, <3>1
  <2>5. ASSUME NEW b
        PROVE  /\ b \in TakenBy(slots[o], a).to <=> b \in slots[o].to /\ b # a
               /\ b \in TakenBy(slots[o], a).to => Entry(TakenBy(slots[o], a)) = Entry(slots[o])
    <3>1. slots[o] \in Slot
      BY <1>1, <2>2
    <3> QED
      BY <2>3, <3>1 DEF TakenBy, Free, Slot, Entry
  <2>6. ASSUME NEW b, NEW i \in Index
        PROVE  /\ b \in slots'[i].to <=> b \in slots[i].to /\ slots[i].age <= TTL /\ ~(b = a /\ i = o)
               /\ b \in slots'[i].to => Entry(slots'[i]) = Entry(slots[i])
    <3>1. CASE i = o
      BY <2>3, <2>4, <2>5, <3>1
    <3>2. CASE i # o
      BY <1>4, <2>4, <3>2
    <3> QED
      BY <3>1, <3>2
  <2>7. \A i \in Index : slots'[i].to # {} => slots[i].to # {}
    BY <2>6
  <2>8. ASSUME NEW b \in Agents
        PROVE  InboxOf(b)' = KeepAt(InboxOf(b), keep(b))
    <3>1. ASSUME NEW i \in Index
          PROVE  b \in slots'[i].to <=> b \in slots[i].to /\ PlaceOf(b, i) \in keep(b)
      <4>1. b \in slots[i].to /\ b = a => (PlaceOf(b, i) = first <=> i = o)
        <5>1. a \in slots[i].to => (PlaceOf(a, i) = PlaceOf(a, o) => i = o)
          BY <2>2, <2>3, InboxHolds
        <5> HIDE DEF o
        <5> QED
          BY <5>1
      <4> HIDE DEF first
      <4> QED
        BY <1>8, <2>6, <4>1
    <3>2. \A i \in Index : b \in slots'[i].to =>
             Entry(slots'[i]) = Entry(slots[i]) /\ Ahead(head', i) = Ahead(head, i) - s
      BY <1>6, <2>6, <2>7
    <3>3. keep(b) \in SUBSET DOMAIN InboxOf(b)
      OBVIOUS
    <3> HIDE DEF keep
    <3> QED
      BY <1>7, <3>1, <3>2, <3>3, InboxKept
  <2>9. first \in Young(a) /\ InboxOf(a)[first].ev = slots[o].ev
    <3>1. /\ PlaceOf(a, o) \in Young(a) <=> slots[o].age <= TTL
          /\ InboxOf(a)[PlaceOf(a, o)] = Entry(slots[o])
      BY <1>8, <2>2, <2>3
    <3> HIDE DEF Young, o
    <3> QED
      BY <2>3, <3>1 DEF Entry
  <2>10. ASSUME NEW n \in Young(a)
         PROVE  first <= n
    <3>1. PICK i \in Index : a \in slots[i].to /\ PlaceOf(a, i) = n
      BY InboxHolds
    <3>2. i \in mine
      BY <1>1, <1>4, <1>8, <3>1
    <3>3. Behind(o) <= Behind(i)
      BY <2>2, <3>2
    <3> QED
      BY <2>2, <2>3, <3>1, <3>3, InboxHolds
  <2>11. Bus!BusDeliver(a)
    <3> HIDE DEF first
    <3>1. \A n \in Young(a) : first <= n
      BY <2>10
    <3>2. given' = [to |-> a, ev |-> InboxOf(a)[first].ev]
      BY <2>1, <2>3, <2>9
    <3>3. [b \in Agents |-> InboxOf(b)]' =
             [b \in Agents |-> Bus!KeepAt(InboxOf(b), keep(b))]
      BY <2>8, SameKeepAt
    <3>4. \E n \in Young(a) :
             /\ \A m \in Young(a) : n <= m
             /\ given' = [to |-> a, ev |-> InboxOf(a)[n].ev]
             /\ [b \in Agents |-> InboxOf(b)]' =
                   [b \in Agents |-> Bus!KeepAt(InboxOf(b),
                                               Young(b) \ IF b = a THEN {n} ELSE {})]
      <4> HIDE DEF Young
      <4> QED
        BY <2>9, <3>1, <3>2, <3>3
    <3> QED
      BY <1>2, <3>4 DEF Bus!BusDeliver, Bus!Fresh
  <2> QED
    BY <2>11
<1> QED
  BY <1>9, <1>10

\* The ring gives every agent the private inbox EventBus promises, for any number
\* of slots, agents and events: nothing is read twice by an agent, skipped,
\* reordered or delivered too old because others read the same slots
\* (fsm_event_publish, fsm_event_receive).
THEOREM BusIsImplemented == MailboxSpec => ImplementsBus
<1>1. MailboxInit => Bus!BusInit
  BY InitOfBus
<1>2. MailboxInv /\ MailboxInv' /\ [MailboxNext]_mbVars => [Bus!BusNext]_Bus!busVars
  <2> SUFFICES ASSUME MailboxInv, MailboxInv', [MailboxNext]_mbVars
               PROVE  [Bus!BusNext]_Bus!busVars
    OBVIOUS
  <2>1. ASSUME NEW to \in Targets, NEW ev \in Events, Publish(to, ev)
        PROVE  Bus!BusNext
    <3>1. Mask(to) \in SUBSET Agents /\ Mask(to) # {}
      BY MailboxAssumption DEF Mask
    <3>2. Bus!BusPublish(Mask(to), ev)
      BY <2>1, PublishIsOfBus
    <3>3. Mask(to) \in (SUBSET Agents) \ {{}}
      BY <3>1
    <3> HIDE DEF Mask
    <3> QED
      BY <3>2, <3>3 DEF Bus!BusNext
  <2>2. ASSUME NEW a \in Readers, Receive(a)
        PROVE  Bus!BusNext
    <3>1. a \in Agents
      BY MailboxAssumption
    <3>2. Bus!BusDeliver(a) \/ Bus!BusExpire(a)
      BY <2>2, ReceiveIsOfBus
    <3> QED
      BY <3>1, <3>2 DEF Bus!BusNext
  <2>3. CASE Age
    BY <2>3, AgeIsOfBus DEF Bus!BusNext
  <2>4. CASE UNCHANGED mbVars
    BY <2>4 DEF Bus!busVars, mbVars, ring, InboxOf, Found, Behind
  <2> QED
    BY <2>1, <2>2, <2>3, <2>4 DEF MailboxNext
<1> QED
  BY <1>1, <1>2, MailboxInvariance, PTL DEF MailboxSpec, ImplementsBus, Bus!BusSpec

=============================================================================
