--------------------------- MODULE CenRepCacheProofs ---------------------------
(***************************************************************************)
(* Theorems about CenRepCache: the list of idle repositories, the memory    *)
(* they take and the timer, for every set of repositories and every size.   *)
(***************************************************************************)
EXTENDS CenRepCache, InductionProofs, TLAPS

CacheEntry == [rep : Repo, left : Int]

-----------------------------------------------------------------------------
(* The memory of a list *)

\* f are the sums of the sizes of the first n entries of a list.
Sums(f, list, n) ==
    f = [i \in 0 .. n |-> IF i = 0 THEN 0 ELSE f[i - 1] + Size[list[i].rep]]

\* The recursive definition in SizeOf has a value.
LEMMA SumsExist ==
    ASSUME NEW list, NEW N \in Nat
    PROVE  \E f : Sums(f, list, N)
<1> DEFINE A == {n \in 0 .. N : \E f : Sums(f, list, n)}
<1>1. 0 \in A
    <2>1. Sums([i \in 0 .. 0 |-> 0], list, 0)
        BY DEF Sums
    <2> QED BY <2>1
<1>2. ASSUME NEW n \in 0 .. N - 1, n \in A PROVE n + 1 \in A
    <2>1. PICK f : Sums(f, list, n)
        BY <1>2
    <2> DEFINE h == [i \in 0 .. n + 1 |->
                        IF i = n + 1 THEN f[n] + Size[list[n + 1].rep] ELSE f[i]]
    <2>2. ASSUME NEW i \in 0 .. n + 1
          PROVE  h[i] = IF i = 0 THEN 0 ELSE h[i - 1] + Size[list[i].rep]
        <3>1. CASE i = n + 1
            BY <3>1
        <3>2. CASE i \in 0 .. n
            BY <2>1, <3>2 DEF Sums
        <3> QED BY <3>1, <3>2
    <2>3. Sums(h, list, n + 1)
        BY <2>2 DEF Sums
    <2> QED BY <2>3
<1>3. \A n \in 0 .. N : n \in A
    <2> HIDE DEF A
    <2> QED BY <1>1, <1>2, SetInduction, Zenon
<1> QED BY <1>3

\* There is only one such function.
LEMMA SumsUnique ==
    ASSUME NEW list, NEW N \in Nat, NEW f, NEW g, Sums(f, list, N), Sums(g, list, N)
    PROVE  \A n \in 0 .. N : f[n] = g[n]
<1> DEFINE A == {n \in 0 .. N : f[n] = g[n]}
<1>1. 0 \in A
    BY DEF Sums
<1>2. ASSUME NEW n \in 0 .. N - 1, n \in A PROVE n + 1 \in A
    BY <1>2 DEF Sums
<1>3. \A n \in 0 .. N : n \in A
    <2> HIDE DEF A
    <2> QED BY <1>1, <1>2, SetInduction, Zenon
<1> QED BY <1>3

\* So any function that adds up the sizes gives the memory.
LEMMA SizeOfSums ==
    ASSUME NEW list \in Seq(CacheEntry), NEW f, Sums(f, list, Len(list))
    PROVE  SizeOf(list) = f[Len(list)]
<1> DEFINE sum == CHOOSE g : Sums(g, list, Len(list))
<1>1. Len(list) \in Nat
    OBVIOUS
<1>2. Sums(sum, list, Len(list))
    BY <1>1, SumsExist
<1>3. SizeOf(list) = sum[Len(list)]
    BY DEF SizeOf, Sums
<1> HIDE DEF sum
<1> QED BY <1>1, <1>2, <1>3, SumsUnique

\* The sums are natural numbers and do not decrease.
LEMMA SumsNat ==
    ASSUME NEW list \in Seq(CacheEntry), NEW f, Sums(f, list, Len(list))
    PROVE  /\ f \in [0 .. Len(list) -> Nat]
           /\ f[0] = 0
           /\ \A n \in 1 .. Len(list) : f[n] = f[n - 1] + Size[list[n].rep]
<1> DEFINE A == {n \in 0 .. Len(list) : f[n] \in Nat}
<1>0. Len(list) \in Nat /\ \A n \in 1 .. Len(list) : Size[list[n].rep] \in Nat
    <2>1. Len(list) \in Nat /\ \A n \in 1 .. Len(list) : list[n] \in CacheEntry
        OBVIOUS
    <2> QED BY <2>1, SizeAssumption DEF CacheEntry
<1>1. f[0] = 0 /\ \A n \in 1 .. Len(list) : f[n] = f[n - 1] + Size[list[n].rep]
    BY <1>0 DEF Sums
<1>2. ASSUME NEW n \in 0 .. Len(list) - 1, n \in A PROVE n + 1 \in A
    BY <1>0, <1>1, <1>2
<1>3. \A n \in 0 .. Len(list) : n \in A
    <2>1. 0 \in A
        BY <1>0, <1>1
    <2> HIDE DEF A
    <2> QED BY <1>0, <1>2, <2>1, SetInduction, Zenon
<1>4. f = [n \in 0 .. Len(list) |-> f[n]]
    BY DEF Sums
<1> QED BY <1>1, <1>3, <1>4

\* The memory of the empty list, and of one with an entry more.
LEMMA SizeOfEmpty == SizeOf(<<>>) = 0
<1>1. <<>> \in Seq(CacheEntry) /\ Len(<<>>) = 0
    OBVIOUS
<1>2. Sums([i \in 0 .. 0 |-> 0], <<>>, 0)
    BY DEF Sums
<1> QED BY <1>1, <1>2, SizeOfSums

\* An entry is added at the end.
LEMMA SizeOfAppend ==
    ASSUME NEW list \in Seq(CacheEntry), NEW e \in CacheEntry
    PROVE  SizeOf(Append(list, e)) = SizeOf(list) + Size[e.rep]
<1> DEFINE more == Append(list, e)
<1>1. /\ more \in Seq(CacheEntry) /\ Len(more) = Len(list) + 1 /\ Len(list) \in Nat
      /\ \A i \in 1 .. Len(list) : more[i] = list[i]
      /\ more[Len(list) + 1] = e
    OBVIOUS
<1>2. PICK f : Sums(f, list, Len(list))
    BY <1>1, SumsExist
<1> DEFINE n == Len(list)
           g == [i \in 0 .. n + 1 |-> IF i = n + 1 THEN f[n] + Size[e.rep] ELSE f[i]]
<1> HIDE DEF more
<1>3. ASSUME NEW i \in 0 .. n + 1
      PROVE  g[i] = IF i = 0 THEN 0 ELSE g[i - 1] + Size[more[i].rep]
    <2>1. CASE i = n + 1
        BY <1>1, <2>1
    <2>2. CASE i = 0
        BY <1>1, <1>2, <2>2 DEF Sums
    <2>3. CASE i \in 1 .. n
        <3>1. g[i] = f[i] /\ g[i - 1] = f[i - 1] /\ more[i] = list[i]
            BY <1>1, <2>3
        <3>2. f[i] = f[i - 1] + Size[list[i].rep]
            BY <1>1, <1>2, <2>3 DEF Sums
        <3> QED BY <2>3, <3>1, <3>2
    <2> QED BY <1>1, <2>1, <2>2, <2>3
<1>4. Sums(g, more, Len(more))
    BY <1>1, <1>3 DEF Sums
<1>5. SizeOf(more) = g[Len(more)] /\ SizeOf(list) = f[Len(list)]
    BY <1>1, <1>2, <1>4, SizeOfSums
<1> QED BY <1>1, <1>5 DEF more
-----------------------------------------------------------------------------
(* An entry is removed *)

\* RemoveAt moves the entries behind it forward.
LEMMA RemoveAtIs ==
    ASSUME NEW list \in Seq(CacheEntry), NEW i \in 1 .. Len(list)
    PROVE  /\ RemoveAt(list, i) \in Seq(CacheEntry)
           /\ Len(RemoveAt(list, i)) = Len(list) - 1
           /\ \A k \in 1 .. Len(list) - 1 :
                 RemoveAt(list, i)[k] = IF k < i THEN list[k] ELSE list[k + 1]
<1> DEFINE a == SubSeq(list, 1, i - 1)
           b == SubSeq(list, i + 1, Len(list))
<1>0. Len(list) \in Nat /\ \A k \in 1 .. Len(list) : list[k] \in CacheEntry
    OBVIOUS
<1>1. /\ a \in Seq(CacheEntry) /\ Len(a) = i - 1
      /\ \A k \in 1 .. i - 1 : a[k] = list[k]
    BY <1>0
<1>2. /\ b \in Seq(CacheEntry) /\ Len(b) = Len(list) - i
      /\ \A k \in 1 .. Len(list) - i : b[k] = list[i + k]
    BY <1>0
<1>3. RemoveAt(list, i) = a \o b
    BY DEF RemoveAt
<1> HIDE DEF a, b
<1>4. /\ a \o b \in Seq(CacheEntry) /\ Len(a \o b) = Len(list) - 1
      /\ \A k \in 1 .. Len(list) - 1 :
            (a \o b)[k] = IF k <= Len(a) THEN a[k] ELSE b[k - Len(a)]
    <2>1. a \o b \in Seq(CacheEntry)
        BY <1>1, <1>2
    <2>2. Len(a) + Len(b) = Len(list) - 1
        BY <1>0, <1>1, <1>2
    <2>3. /\ Len(a \o b) = Len(a) + Len(b)
          /\ \A k \in 1 .. Len(a) + Len(b) :
                (a \o b)[k] = IF k <= Len(a) THEN a[k] ELSE b[k - Len(a)]
        <3>1. a \in Seq(CacheEntry) /\ b \in Seq(CacheEntry)
            BY <1>1, <1>2
        <3> QED BY <3>1
    <2> QED BY <2>1, <2>2, <2>3
<1>5. ASSUME NEW k \in 1 .. Len(list) - 1
      PROVE  (a \o b)[k] = IF k < i THEN list[k] ELSE list[k + 1]
    <2>1. CASE k < i
        BY <1>0, <1>1, <1>4, <2>1
    <2>2. CASE k >= i
        <3>1. k - (i - 1) \in 1 .. Len(list) - i /\ i + (k - (i - 1)) = k + 1
            BY <1>0, <2>2
        <3>2. (a \o b)[k] = b[k - (i - 1)]
            BY <1>0, <1>1, <1>4, <2>2
        <3>3. b[k - (i - 1)] = list[i + (k - (i - 1))]
            BY <1>2, <3>1
        <3>4. (a \o b)[k] = list[k + 1]
            BY <3>1, <3>2, <3>3
        <3>5. ~ (k < i)
            BY <2>2
        <3> QED BY <3>4, <3>5
    <2>3. k < i \/ k >= i
        OBVIOUS
    <2> QED BY <2>1, <2>2, <2>3
<1> QED BY <1>3, <1>4, <1>5

\* Its size is taken off.
LEMMA SizeOfRemoved ==
    ASSUME NEW list \in Seq(CacheEntry), NEW i \in 1 .. Len(list)
    PROVE  SizeOf(RemoveAt(list, i)) = SizeOf(list) - Size[list[i].rep]
<1> DEFINE rest == RemoveAt(list, i)
           n == Len(list)
<1>0. n \in Nat /\ \A k \in 1 .. n : list[k] \in CacheEntry
    OBVIOUS
<1>1. /\ rest \in Seq(CacheEntry) /\ Len(rest) = n - 1
      /\ \A k \in 1 .. n - 1 : rest[k] = IF k < i THEN list[k] ELSE list[k + 1]
    BY RemoveAtIs
<1>2. PICK f : Sums(f, list, n)
    BY <1>0, SumsExist
<1>3. f \in [0 .. n -> Nat] /\ f[0] = 0 /\ \A k \in 1 .. n : f[k] = f[k - 1] + Size[list[k].rep]
    BY <1>2, SumsNat
<1>4. \A k \in 1 .. n : Size[list[k].rep] \in Nat
    BY <1>0, SizeAssumption DEF CacheEntry
<1> DEFINE z == Size[list[i].rep]
           g == [k \in 0 .. n - 1 |-> IF k < i THEN f[k] ELSE f[k + 1] - z]
<1> HIDE DEF rest
<1>5. ASSUME NEW k \in 0 .. n - 1
      PROVE  g[k] = IF k = 0 THEN 0 ELSE g[k - 1] + Size[rest[k].rep]
    <2>1. CASE k = 0
        BY <1>0, <1>3, <2>1
    <2>2. CASE k \in 1 .. n - 1 /\ k < i
        <3>1. k \in 0 .. n - 1 /\ k - 1 \in 0 .. n - 1 /\ k - 1 < i /\ k \in 1 .. n
            BY <1>0, <2>2
        <3>2. g[k] = f[k] /\ g[k - 1] = f[k - 1]
            BY <2>2, <3>1
        <3>3. rest[k] = list[k]
            BY <1>1, <2>2
        <3>4. f[k] = f[k - 1] + Size[list[k].rep] /\ k # 0
            BY <1>3, <3>1
        <3> QED BY <3>2, <3>3, <3>4
    <2>3. CASE k \in 1 .. n - 1 /\ k = i
        <3>1. g[k] = f[k + 1] - z /\ g[k - 1] = f[k - 1] /\ rest[k] = list[k + 1]
            BY <1>0, <1>1, <2>3
        <3>2. f[k + 1] = f[k] + Size[list[k + 1].rep] /\ f[k] = f[k - 1] + z
            BY <1>0, <1>3, <2>3
        <3>3. f[k - 1] \in Nat /\ z \in Nat /\ Size[list[k + 1].rep] \in Nat
            <4>1. k + 1 \in 1 .. n /\ k - 1 \in 0 .. n /\ i \in 1 .. n
                BY <1>0, <2>3
            <4> QED BY <1>3, <1>4, <4>1
        <3> QED BY <2>3, <3>1, <3>2, <3>3
    <2>4. CASE k \in 1 .. n - 1 /\ k > i
        <3>1. g[k] = f[k + 1] - z /\ g[k - 1] = f[k] - z /\ rest[k] = list[k + 1]
            BY <1>0, <1>1, <2>4
        <3>2. f[k + 1] = f[k] + Size[list[k + 1].rep]
            BY <1>0, <1>3, <2>4
        <3>3. f[k] \in Nat /\ z \in Nat /\ Size[list[k + 1].rep] \in Nat
            <4>1. k + 1 \in 1 .. n /\ k \in 0 .. n /\ i \in 1 .. n
                BY <1>0, <2>4
            <4> QED BY <1>3, <1>4, <4>1
        <3> QED BY <2>4, <3>1, <3>2, <3>3
    <2> QED BY <1>0, <2>1, <2>2, <2>3, <2>4
<1>6. Sums(g, rest, Len(rest))
    BY <1>1, <1>5 DEF Sums
<1>7. SizeOf(rest) = g[n - 1] /\ SizeOf(list) = f[n]
    BY <1>1, <1>2, <1>6, SizeOfSums
<1>8. g[n - 1] = f[n] - z
    <2>1. CASE i = n
        <3>1. g[n - 1] = f[n - 1] /\ f[n] = f[n - 1] + z /\ f[n - 1] \in Nat /\ z \in Nat
            BY <1>0, <1>3, <1>4, <2>1
        <3> QED BY <3>1
    <2>2. CASE i < n
        BY <1>0, <2>2
    <2> QED BY <1>0, <2>1, <2>2
<1> QED BY <1>7, <1>8 DEF rest

\* The memory is a number, and at least that of any two of the entries.
LEMMA SizeOfAtLeast ==
    ASSUME NEW list \in Seq(CacheEntry)
    PROVE  /\ SizeOf(list) \in Nat
           /\ \A i \in 1 .. Len(list) : Size[list[i].rep] <= SizeOf(list)
           /\ \A i, j \in 1 .. Len(list) :
                 i # j => Size[list[i].rep] + Size[list[j].rep] <= SizeOf(list)
<1>0. ASSUME NEW l \in Seq(CacheEntry) PROVE SizeOf(l) \in Nat
    <2>1. Len(l) \in Nat
        OBVIOUS
    <2>2. PICK f : Sums(f, l, Len(l))
        BY <2>1, SumsExist
    <2>3. f \in [0 .. Len(l) -> Nat] /\ SizeOf(l) = f[Len(l)]
        BY <2>2, SumsNat, SizeOfSums
    <2> QED BY <2>1, <2>3
<1>1. ASSUME NEW l \in Seq(CacheEntry), NEW i \in 1 .. Len(l)
      PROVE  Size[l[i].rep] \in Nat /\ Size[l[i].rep] <= SizeOf(l)
    <2>1. SizeOf(RemoveAt(l, i)) \in Nat /\ SizeOf(l) \in Nat
        BY <1>0, RemoveAtIs
    <2>2. l[i] \in CacheEntry
        OBVIOUS
    <2>3. Size[l[i].rep] \in Nat
        BY <2>2, SizeAssumption DEF CacheEntry
    <2> QED BY <2>1, <2>3, SizeOfRemoved
<1>2. ASSUME NEW i \in 1 .. Len(list), NEW j \in 1 .. Len(list), i < j
      PROVE  Size[list[i].rep] + Size[list[j].rep] <= SizeOf(list)
    <2> DEFINE rest == RemoveAt(list, i)
    <2>1. /\ rest \in Seq(CacheEntry) /\ j - 1 \in 1 .. Len(rest) /\ rest[j - 1] = list[j]
          /\ SizeOf(rest) = SizeOf(list) - Size[list[i].rep]
        <3>1. /\ rest \in Seq(CacheEntry) /\ Len(rest) = Len(list) - 1
              /\ \A k \in 1 .. Len(list) - 1 : rest[k] = IF k < i THEN list[k] ELSE list[k + 1]
            BY RemoveAtIs
        <3>2. SizeOf(rest) = SizeOf(list) - Size[list[i].rep]
            BY SizeOfRemoved
        <3>3. Len(list) \in Nat
            OBVIOUS
        <3> HIDE DEF rest
        <3>4. j - 1 \in 1 .. Len(list) - 1 /\ ~ (j - 1 < i) /\ (j - 1) + 1 = j
            BY <1>2, <3>3
        <3>5. rest[j - 1] = list[j]
            BY <3>1, <3>4
        <3> QED BY <3>1, <3>2, <3>4, <3>5
    <2> HIDE DEF rest
    <2>2. Size[rest[j - 1].rep] <= SizeOf(rest)
        BY <1>1, <2>1
    <2>3. {SizeOf(list), Size[list[i].rep], Size[list[j].rep]} \subseteq Nat
        BY <1>0, <1>1
    <2>4. \A a, b, u \in Nat : b <= u - a => a + b <= u
        OBVIOUS
    <2>5. Size[list[j].rep] <= SizeOf(list) - Size[list[i].rep]
        BY <2>1, <2>2
    <2> QED BY <2>3, <2>4, <2>5
<1>3. ASSUME NEW i \in 1 .. Len(list), NEW j \in 1 .. Len(list), i # j
      PROVE  Size[list[i].rep] + Size[list[j].rep] <= SizeOf(list)
    <2>1. CASE i < j
        BY <1>2, <2>1
    <2>2. CASE j < i
        <3>1. Size[list[i].rep] \in Nat /\ Size[list[j].rep] \in Nat
            BY <1>1
        <3>2. Size[list[j].rep] + Size[list[i].rep] <= SizeOf(list)
            BY <1>2, <2>2
        <3> QED BY <3>1, <3>2
    <2> QED BY <1>3, <2>1, <2>2
<1> QED BY <1>0, <1>1, <1>3
-----------------------------------------------------------------------------
(* The cache *)

CacheRec == [open : SUBSET Repo, idle : Seq(CacheEntry), usage : Int,
             timer : Nat \cup {Stopped}]

Live(c) ==
    /\ \A i \in DOMAIN c.idle : c.idle[i].rep \in c.open
    /\ \A i, j \in DOMAIN c.idle : c.idle[i].rep = c.idle[j].rep => i = j
Counted(c) == c.usage = SizeOf(c.idle) /\ c.usage <= CacheSize

Sound(c) == c \in CacheRec /\ Live(c) /\ Counted(c)
Armed(c) == c.idle # <<>> => c.timer # Stopped
Covers(c, used) == \A r \in c.open \ used : Listed(c, r)

\* The domain of the list.
LEMMA IdleDomain ==
    ASSUME NEW c \in CacheRec
    PROVE  /\ c.idle \in Seq(CacheEntry) /\ Len(c.idle) \in Nat
           /\ DOMAIN c.idle = 1 .. Len(c.idle)
           /\ \A i \in 1 .. Len(c.idle) : c.idle[i] \in CacheEntry /\ c.idle[i].rep \in Repo
           /\ c.idle = <<>> <=> Len(c.idle) = 0
<1>1. c.idle \in Seq(CacheEntry)
    BY DEF CacheRec
<1>2. /\ Len(c.idle) \in Nat /\ DOMAIN c.idle = 1 .. Len(c.idle)
      /\ \A i \in 1 .. Len(c.idle) : c.idle[i] \in CacheEntry
      /\ c.idle = <<>> <=> Len(c.idle) = 0
    BY <1>1
<1> QED BY <1>1, <1>2 DEF CacheEntry

\* The timer for a list runs unless the list is empty.
LEMMA Rescheduled ==
    ASSUME NEW list \in Seq(CacheEntry)
    PROVE  /\ RescheduleTimer(list) \in Nat \cup {Stopped}
           /\ list # <<>> => RescheduleTimer(list) \in Nat /\ RescheduleTimer(list) # Stopped
<1>1. CASE list = <<>>
    BY <1>1 DEF RescheduleTimer
<1>2. CASE list # <<>>
    <2>1. list[1] \in CacheEntry
        BY <1>2
    <2>2. list[1].left \in Int
        BY <2>1 DEF CacheEntry
    <2>3. RescheduleTimer(list) \in Nat
        BY <1>2, <2>2, TimeAssumption DEF RescheduleTimer, Expired
    <2> QED BY <2>3, TimeAssumption
<1> QED BY <1>1, <1>2

\* What a removal leaves.
Removal(c, h, r) ==
    /\ Sound(h) /\ ~Listed(h, r) /\ h.open = c.open
    /\ Armed(c) => Armed(h)
    /\ \A used : Covers(c, used) => Covers(h, used \cup {r})
    /\ Len(c.idle) = 1 /\ c.idle[1].rep = r => h.idle = <<>>
    /\ Listed(c, r) => h.usage = c.usage - Size[r] /\ Len(h.idle) = Len(c.idle) - 1

\* RemoveIdleRepository.
LEMMA RemoveSound ==
    ASSUME NEW c, Sound(c), NEW r \in Repo
    PROVE  Removal(c, RemoveIdleRepository(c, r), r)
<1> DEFINE I == {k \in 1 .. Len(c.idle) : c.idle[k].rep = r}
           i == SelectInSeq(c.idle, LAMBDA e : e.rep = r)
           rest == RemoveAt(c.idle, i)
           h == RemoveIdleRepository(c, r)
<1>0. /\ c \in CacheRec /\ c.idle \in Seq(CacheEntry) /\ Len(c.idle) \in Nat
      /\ DOMAIN c.idle = 1 .. Len(c.idle)
      /\ \A k \in 1 .. Len(c.idle) : c.idle[k] \in CacheEntry /\ c.idle[k].rep \in Repo
      /\ c.idle = <<>> <=> Len(c.idle) = 0
    BY IdleDomain DEF Sound
<1>1. i = IF I # {} THEN Min(I) ELSE 0
    BY DEF SelectInSeq
<1>2. h = IF i = 0 THEN c
          ELSE [c EXCEPT !.idle = rest, !.usage = @ - Size[r],
                         !.timer = IF i = 1 THEN RescheduleTimer(rest) ELSE c.timer]
    BY DEF RemoveIdleRepository
<1>3. CASE I = {}
    <2>1. h = c
        BY <1>1, <1>2, <1>3
    <2>2. ~Listed(c, r)
        BY <1>0, <1>3 DEF Listed
    <2> HIDE DEF h
    <2>3. Len(c.idle) = 1 => c.idle[1].rep # r
        BY <1>0, <1>3
    <2>4. Removal(c, h, r)
        BY <2>1, <2>2, <2>3, Zenon DEF Removal, Covers
    <2> QED BY <2>4 DEF h
<1>4. CASE I # {}
    <2>1. i \in I
        <3>1. I \subseteq Nat
            OBVIOUS
        <3>2. \E x \in I : \A y \in I : x <= y
            BY <1>4, <3>1, LeastExists
        <3>3. Min(I) \in I
            BY <3>2 DEF Min
        <3> QED BY <1>1, <1>4, <3>3
    <2> HIDE DEF i
    <2>2. i \in 1 .. Len(c.idle) /\ i # 0 /\ c.idle[i].rep = r
        BY <1>0, <2>1
    <2>3. /\ rest \in Seq(CacheEntry) /\ Len(rest) = Len(c.idle) - 1
          /\ \A k \in 1 .. Len(c.idle) - 1 :
                rest[k] = IF k < i THEN c.idle[k] ELSE c.idle[k + 1]
          /\ SizeOf(rest) = SizeOf(c.idle) - Size[r]
        BY <1>0, <2>2, RemoveAtIs, SizeOfRemoved
    <2>4. DOMAIN rest = 1 .. Len(c.idle) - 1 /\ (rest = <<>> <=> Len(c.idle) = 1)
        <3>1. ASSUME NEW l \in Seq(CacheEntry)
              PROVE  DOMAIN l = 1 .. Len(l) /\ (l = <<>> <=> Len(l) = 0)
            OBVIOUS
        <3>2. rest \in Seq(CacheEntry) /\ Len(rest) = Len(c.idle) - 1
            BY <2>3
        <3> HIDE DEF rest
        <3>3. DOMAIN rest = 1 .. Len(rest) /\ (rest = <<>> <=> Len(rest) = 0)
            BY <3>1, <3>2
        <3>4. Len(rest) = 0 <=> Len(c.idle) = 1
            BY <1>0, <3>2
        <3> QED BY <3>2, <3>3, <3>4
    <2>5. /\ h.open = c.open /\ h.idle = rest /\ h.usage = c.usage - Size[r]
          /\ h.timer = IF i = 1 THEN RescheduleTimer(rest) ELSE c.timer
          /\ h = [open |-> h.open, idle |-> h.idle, usage |-> h.usage, timer |-> h.timer]
        BY <1>0, <1>2, <2>2 DEF CacheRec
    <2>6. Size[r] \in Nat /\ c.usage \in Int /\ SizeOf(c.idle) \in Nat /\ c.open \subseteq Repo
        BY <1>0, SizeAssumption, SizeOfAtLeast DEF CacheRec
    <2>7. RescheduleTimer(rest) \in Nat \cup {Stopped} /\ (rest # <<>> => RescheduleTimer(rest) # Stopped)
        BY <2>3, Rescheduled
    <2> HIDE DEF rest, h
    <2>8. h \in CacheRec
        BY <1>0, <2>3, <2>5, <2>6, <2>7 DEF CacheRec
    <2>9. Counted(h)
        BY <2>3, <2>5, <2>6, SizeAssumption DEF Counted, Sound
    <2>10. ASSUME NEW k \in 1 .. Len(c.idle) - 1
           PROVE  \E m \in 1 .. Len(c.idle) : m # i /\ rest[k] = c.idle[m]
                                            /\ m = IF k < i THEN k ELSE k + 1
        <3>1. CASE k < i
            BY <1>0, <2>3, <3>1
        <3>2. CASE ~ (k < i)
            BY <1>0, <2>2, <2>3, <3>2
        <3> QED BY <3>1, <3>2
    <2>11. Live(c)
        BY DEF Sound
    <2>12. Live(h)
        <3>1. ASSUME NEW k \in DOMAIN h.idle PROVE h.idle[k].rep \in h.open
            BY <1>0, <2>4, <2>5, <2>10, <2>11, <3>1 DEF Live
        <3>2. ASSUME NEW k \in DOMAIN h.idle, NEW l \in DOMAIN h.idle,
                     h.idle[k].rep = h.idle[l].rep
              PROVE  k = l
            <4>1. PICK m \in 1 .. Len(c.idle) : rest[k] = c.idle[m] /\ m = IF k < i THEN k ELSE k + 1
                BY <2>4, <2>5, <2>10
            <4>2. PICK n \in 1 .. Len(c.idle) : rest[l] = c.idle[n] /\ n = IF l < i THEN l ELSE l + 1
                BY <2>4, <2>5, <2>10
            <4>3. m = n
                BY <1>0, <2>5, <2>11, <3>2, <4>1, <4>2 DEF Live
            <4>4. k \in 1 .. Len(c.idle) - 1 /\ l \in 1 .. Len(c.idle) - 1
                BY <2>4, <2>5
            <4> QED BY <1>0, <2>2, <4>1, <4>2, <4>3, <4>4
        <3> QED BY <3>1, <3>2 DEF Live
    <2>13. ~Listed(h, r)
        <3>1. ASSUME NEW k \in DOMAIN h.idle, h.idle[k].rep = r PROVE FALSE
            BY <1>0, <2>2, <2>4, <2>5, <2>10, <2>11, <3>1 DEF Live
        <3> QED BY <3>1 DEF Listed
    <2>14. Armed(c) => Armed(h)
        BY <1>0, <2>2, <2>4, <2>5, <2>7 DEF Armed
    <2>15. ASSUME NEW used, Covers(c, used), NEW s \in h.open \ (used \cup {r})
           PROVE  Listed(h, s)
        <3>1. PICK m \in DOMAIN c.idle : c.idle[m].rep = s
            BY <2>5, <2>15 DEF Covers, Listed
        <3>2. m \in 1 .. Len(c.idle) /\ m # i
            BY <1>0, <2>2, <2>15, <3>1
        <3>3. CASE m < i
            BY <1>0, <2>2, <2>3, <2>4, <2>5, <3>1, <3>2, <3>3 DEF Listed
        <3>4. CASE m > i
            <4>1. m - 1 \in 1 .. Len(c.idle) - 1 /\ ~ (m - 1 < i) /\ (m - 1) + 1 = m
                BY <1>0, <2>2, <3>2, <3>4
            <4>2. rest[m - 1] = c.idle[m]
                BY <2>3, <4>1
            <4> QED BY <2>4, <2>5, <3>1, <4>1, <4>2 DEF Listed
        <3> QED BY <1>0, <2>2, <3>2, <3>3, <3>4
    <2>16. \A used : Covers(c, used) => Covers(h, used \cup {r})
        BY <2>15 DEF Covers
    <2>17. Len(c.idle) = 1 => h.idle = <<>>
        BY <2>4, <2>5
    <2>18. h.usage = c.usage - Size[r] /\ Len(h.idle) = Len(c.idle) - 1
        BY <2>3, <2>5
    <2> QED BY <2>5, <2>8, <2>9, <2>12, <2>13, <2>14, <2>16, <2>17, <2>18 DEF Removal, Sound, h
<1> QED BY <1>3, <1>4
-----------------------------------------------------------------------------
(* Entries are evicted *)

\* What the k-th entry e makes of x when the entries at I are evicted.
EvictOne(x, e, k, I) ==
    IF k \in I THEN [x EXCEPT !.open = @ \ {e.rep}, !.usage = @ - Size[e.rep]]
    ELSE [x EXCEPT !.idle = Append(@, e)]
Evicting(g, c, I, n) ==
    g = [k \in 0 .. n |-> IF k = 0 THEN [c EXCEPT !.idle = <<>>]
                          ELSE EvictOne(g[k - 1], c.idle[k], k, I)]

\* The recursive definition in Evict has a value.
LEMMA EvictingExists ==
    ASSUME NEW c, NEW I, NEW N \in Nat
    PROVE  \E g : Evicting(g, c, I, N)
<1> DEFINE A == {n \in 0 .. N : \E g : Evicting(g, c, I, n)}
           first == [c EXCEPT !.idle = <<>>]
<1>1. 0 \in A
    <2>1. Evicting([k \in 0 .. 0 |-> first], c, I, 0)
        BY DEF Evicting
    <2> QED BY <2>1
<1>2. ASSUME NEW n \in 0 .. N - 1, n \in A PROVE n + 1 \in A
    <2>1. PICK g : Evicting(g, c, I, n)
        BY <1>2
    <2> DEFINE h == [k \in 0 .. n + 1 |->
                        IF k = n + 1 THEN EvictOne(g[n], c.idle[n + 1], n + 1, I) ELSE g[k]]
    <2>2. ASSUME NEW k \in 0 .. n + 1
          PROVE  h[k] = IF k = 0 THEN first ELSE EvictOne(h[k - 1], c.idle[k], k, I)
        <3>1. CASE k = n + 1
            BY <3>1
        <3>2. CASE k = 0
            BY <2>1, <3>2 DEF Evicting
        <3>3. CASE k \in 1 .. n
            <4>1. h[k] = g[k] /\ h[k - 1] = g[k - 1]
                BY <3>3
            <4>2. g[k] = EvictOne(g[k - 1], c.idle[k], k, I)
                <5>1. g = [i \in 0 .. n |-> IF i = 0 THEN first
                                            ELSE EvictOne(g[i - 1], c.idle[i], i, I)]
                    BY <2>1 DEF Evicting
                <5> HIDE DEF first
                <5> QED BY <3>3, <5>1
            <4> QED BY <3>3, <4>1, <4>2
        <3> QED BY <3>1, <3>2, <3>3
    <2>3. Evicting(h, c, I, n + 1)
        BY <2>2 DEF Evicting
    <2> QED BY <2>3
<1>3. \A n \in 0 .. N : n \in A
    <2> HIDE DEF A
    <2> QED BY <1>1, <1>2, SetInduction, Zenon
<1> QED BY <1>3

\* Evict goes through the whole list.
LEMMA EvictSteps ==
    ASSUME NEW c, NEW I, Len(c.idle) \in Nat
    PROVE  \E g : Evicting(g, c, I, Len(c.idle)) /\ Evict(c, I) = g[Len(c.idle)]
<1> DEFINE seen == CHOOSE g : Evicting(g, c, I, Len(c.idle))
<1>1. Evicting(seen, c, I, Len(c.idle))
    BY EvictingExists
<1>2. Evict(c, I) = seen[Len(c.idle)]
    BY DEF Evict, Evicting, EvictOne
<1> QED BY <1>1, <1>2

\* What is left of c once the first n entries have been looked at, with f the
\* sums of the list.
Halfway(c, I, f, x, n) ==
    /\ x \in CacheRec /\ x.timer = c.timer
    /\ x.open = c.open \ {c.idle[i].rep : i \in I \cap (1 .. n)}
    /\ \A m \in 1 .. Len(x.idle) : \E i \in (1 .. n) \ I : x.idle[m] = c.idle[i]
    /\ \A i \in (1 .. n) \ I : \E m \in 1 .. Len(x.idle) : x.idle[m] = c.idle[i]
    /\ \A l, m \in 1 .. Len(x.idle) : x.idle[l].rep = x.idle[m].rep => l = m
    /\ x.usage = (c.usage - f[n]) + SizeOf(x.idle) /\ x.usage <= c.usage

\* An eviction leaves what is not evicted.
Eviction(c, h) ==
    /\ Sound(h) /\ h.timer = c.timer /\ h.open \subseteq c.open
    /\ c.idle = <<>> => h.idle = <<>>
    /\ \A used : Covers(c, used) => Covers(h, used)
    /\ \A r \in c.open : ~Listed(c, r) => r \in h.open /\ ~Listed(h, r)

\* One entry.
LEMMA HalfwayStep ==
    ASSUME NEW c, Sound(c), NEW I, NEW f, Sums(f, c.idle, Len(c.idle)),
           NEW n \in 0 .. Len(c.idle) - 1, NEW x, Halfway(c, I, f, x, n)
    PROVE  Halfway(c, I, f, EvictOne(x, c.idle[n + 1], n + 1, I), n + 1)
<1> DEFINE e == c.idle[n + 1]
           y == EvictOne(x, e, n + 1, I)
<1>0. /\ c \in CacheRec /\ c.idle \in Seq(CacheEntry) /\ Len(c.idle) \in Nat
      /\ \A i \in 1 .. Len(c.idle) : c.idle[i] \in CacheEntry /\ c.idle[i].rep \in Repo
      /\ DOMAIN c.idle = 1 .. Len(c.idle)
    BY IdleDomain DEF Sound
<1>1. n + 1 \in 1 .. Len(c.idle) /\ n \in Nat
    BY <1>0
<1>2. e \in CacheEntry /\ e.rep \in Repo /\ Size[e.rep] \in Nat
    BY <1>0, <1>1, SizeAssumption
<1>3. f[n] \in Nat /\ f[n + 1] = f[n] + Size[e.rep]
    <2>1. f \in [0 .. Len(c.idle) -> Nat] /\ \A k \in 1 .. Len(c.idle) : f[k] = f[k - 1] + Size[c.idle[k].rep]
        BY <1>0, SumsNat
    <2>2. f[n + 1] = f[(n + 1) - 1] + Size[c.idle[n + 1].rep]
        BY <1>1, <2>1
    <2>3. (n + 1) - 1 = n /\ n \in 0 .. Len(c.idle)
        BY <1>0, <1>1
    <2> QED BY <2>1, <2>2, <2>3
<1>4. x \in CacheRec /\ x.idle \in Seq(CacheEntry) /\ Len(x.idle) \in Nat /\ x.usage \in Int
      /\ SizeOf(x.idle) \in Nat /\ c.usage \in Int
    BY <1>0, IdleDomain, SizeOfAtLeast DEF Halfway, CacheRec
<1>5. 1 .. n + 1 = (1 .. n) \cup {n + 1}
    BY <1>1
<1> HIDE DEF e
<1>6. CASE n + 1 \in I
    <2>1. /\ y.open = x.open \ {e.rep} /\ y.idle = x.idle /\ y.usage = x.usage - Size[e.rep]
          /\ y.timer = x.timer /\ y \in CacheRec
        <3>1. y = [x EXCEPT !.open = @ \ {e.rep}, !.usage = @ - Size[e.rep]]
            BY <1>6 DEF EvictOne
        <3>2. x.open \ {e.rep} \subseteq Repo /\ x.usage - Size[e.rep] \in Int
            BY <1>2, <1>4 DEF CacheRec
        <3> HIDE DEF y
        <3> QED BY <1>4, <3>1, <3>2 DEF CacheRec
    <2>2. (1 .. n + 1) \ I = (1 .. n) \ I
        BY <1>5, <1>6
    <2>3. y.open = c.open \ {c.idle[i].rep : i \in I \cap (1 .. n + 1)}
        BY <1>5, <1>6, <2>1 DEF Halfway, e
    <2> HIDE DEF y
    <2>4. y.usage = (c.usage - f[n + 1]) + SizeOf(y.idle) /\ y.usage <= c.usage
        <3>1. x.usage = (c.usage - f[n]) + SizeOf(x.idle) /\ x.usage <= c.usage
            BY DEF Halfway
        <3>2. y.usage = x.usage - Size[e.rep] /\ SizeOf(y.idle) = SizeOf(x.idle)
            BY <2>1
        <3>3. \A u, v, a, b \in Int, z \in Nat :
                  v = (u - a) + b /\ v <= u => v - z = (u - (a + z)) + b /\ v - z <= u
            OBVIOUS
        <3>4. /\ c.usage \in Int /\ x.usage \in Int /\ f[n] \in Int /\ SizeOf(x.idle) \in Int
              /\ Size[e.rep] \in Nat
            BY <1>2, <1>3, <1>4
        <3> QED BY <1>3, <3>1, <3>2, <3>3, <3>4
    <2>5. Halfway(c, I, f, y, n + 1)
        <3>1. /\ \A m \in 1 .. Len(y.idle) : \E i \in (1 .. n + 1) \ I : y.idle[m] = c.idle[i]
              /\ \A i \in (1 .. n + 1) \ I : \E m \in 1 .. Len(y.idle) : y.idle[m] = c.idle[i]
              /\ \A l, m \in 1 .. Len(y.idle) : y.idle[l].rep = y.idle[m].rep => l = m
            <4>1. y.idle = x.idle
                BY <2>1
            <4>2. /\ \A m \in 1 .. Len(x.idle) : \E i \in (1 .. n) \ I : x.idle[m] = c.idle[i]
                  /\ \A i \in (1 .. n) \ I : \E m \in 1 .. Len(x.idle) : x.idle[m] = c.idle[i]
                  /\ \A l, m \in 1 .. Len(x.idle) : x.idle[l].rep = x.idle[m].rep => l = m
                BY DEF Halfway
            <4>3. ASSUME NEW m \in 1 .. Len(y.idle)
                  PROVE  \E i \in (1 .. n + 1) \ I : y.idle[m] = c.idle[i]
                <5>1. PICK i \in (1 .. n) \ I : x.idle[m] = c.idle[i]
                    BY <4>1, <4>2
                <5> QED BY <2>2, <4>1, <5>1
            <4>4. ASSUME NEW i \in (1 .. n + 1) \ I
                  PROVE  \E m \in 1 .. Len(y.idle) : y.idle[m] = c.idle[i]
                BY <2>2, <4>1, <4>2
            <4> QED BY <4>1, <4>2, <4>3, <4>4
        <3>2. y.timer = c.timer
            BY <2>1 DEF Halfway
        <3> QED BY <2>1, <2>3, <2>4, <3>1, <3>2 DEF Halfway
    <2> QED BY <2>5 DEF y, e
<1>7. CASE n + 1 \notin I
    <2>1. y.open = x.open /\ y.idle = Append(x.idle, e) /\ y.usage = x.usage /\ y.timer = x.timer
          /\ y \in CacheRec
        <3>1. y = [x EXCEPT !.idle = Append(@, e)]
            BY <1>7 DEF EvictOne
        <3>2. Append(x.idle, e) \in Seq(CacheEntry)
            BY <1>2, <1>4
        <3> HIDE DEF y
        <3> QED BY <1>4, <3>1, <3>2 DEF CacheRec
    <2>2. /\ Len(y.idle) = Len(x.idle) + 1 /\ y.idle[Len(x.idle) + 1] = e
          /\ \A m \in 1 .. Len(x.idle) : y.idle[m] = x.idle[m]
          /\ 1 .. Len(y.idle) = (1 .. Len(x.idle)) \cup {Len(x.idle) + 1}
        <3>1. /\ Len(Append(x.idle, e)) = Len(x.idle) + 1 /\ Append(x.idle, e)[Len(x.idle) + 1] = e
              /\ \A m \in 1 .. Len(x.idle) : Append(x.idle, e)[m] = x.idle[m]
            BY <1>2, <1>4
        <3>2. 1 .. Len(x.idle) + 1 = (1 .. Len(x.idle)) \cup {Len(x.idle) + 1}
            BY <1>4
        <3>3. y.idle = Append(x.idle, e)
            BY <2>1
        <3> HIDE DEF y
        <3> QED BY <3>1, <3>2, <3>3
    <2> HIDE DEF y
    <2>3. (1 .. n + 1) \ I = ((1 .. n) \ I) \cup {n + 1}
        BY <1>5, <1>7
    <2>4. I \cap (1 .. n + 1) = I \cap (1 .. n)
        BY <1>5, <1>7
    <2>5. y.open = c.open \ {c.idle[i].rep : i \in I \cap (1 .. n + 1)}
        BY <2>1, <2>4 DEF Halfway
    <2>6. ASSUME NEW m \in 1 .. Len(y.idle)
          PROVE  \E i \in (1 .. n + 1) \ I : y.idle[m] = c.idle[i]
        <3>1. CASE m = Len(x.idle) + 1
            <4>1. y.idle[m] = c.idle[n + 1] /\ n + 1 \in (1 .. n + 1) \ I
                BY <2>2, <2>3, <3>1 DEF e
            <4> QED BY <4>1
        <3>2. CASE m \in 1 .. Len(x.idle)
            <4>1. PICK i \in (1 .. n) \ I : x.idle[m] = c.idle[i]
                BY <3>2 DEF Halfway
            <4>2. y.idle[m] = c.idle[i] /\ i \in (1 .. n + 1) \ I
                BY <2>2, <2>3, <3>2, <4>1
            <4> QED BY <4>2
        <3> QED BY <2>2, <3>1, <3>2
    <2>7. ASSUME NEW i \in (1 .. n + 1) \ I
          PROVE  \E m \in 1 .. Len(y.idle) : y.idle[m] = c.idle[i]
        <3>1. CASE i = n + 1
            <4>1. y.idle[Len(x.idle) + 1] = c.idle[i] /\ Len(x.idle) + 1 \in 1 .. Len(y.idle)
                BY <2>2, <3>1 DEF e
            <4> QED BY <4>1
        <3>2. CASE i \in (1 .. n) \ I
            <4>1. PICK m \in 1 .. Len(x.idle) : x.idle[m] = c.idle[i]
                BY <3>2 DEF Halfway
            <4>2. y.idle[m] = c.idle[i] /\ m \in 1 .. Len(y.idle)
                BY <2>2, <4>1
            <4> QED BY <4>2
        <3> QED BY <2>3, <3>1, <3>2
    <2>8. ASSUME NEW m \in 1 .. Len(x.idle) PROVE x.idle[m].rep # e.rep
        <3>1. PICK i \in (1 .. n) \ I : x.idle[m] = c.idle[i]
            BY DEF Halfway
        <3>2. i \in 1 .. Len(c.idle) /\ i # n + 1
            BY <1>0, <1>1
        <3> QED BY <1>0, <1>1, <3>1, <3>2 DEF Sound, Live, e
    <2>9. ASSUME NEW l \in 1 .. Len(y.idle), NEW m \in 1 .. Len(y.idle),
                 y.idle[l].rep = y.idle[m].rep
          PROVE  l = m
        BY <2>2, <2>8, <2>9 DEF Halfway
    <2>10. y.usage = (c.usage - f[n + 1]) + SizeOf(y.idle) /\ y.usage <= c.usage
        <3>1. SizeOf(y.idle) = SizeOf(x.idle) + Size[e.rep]
            BY <1>2, <1>4, <2>1, SizeOfAppend
        <3>2. x.usage = (c.usage - f[n]) + SizeOf(x.idle) /\ x.usage <= c.usage
            BY DEF Halfway
        <3>3. y.usage = x.usage
            BY <2>1
        <3>4. \A u, v, a, b, z \in Int : v = (u - a) + b => v = (u - (a + z)) + (b + z)
            OBVIOUS
        <3>5. /\ c.usage \in Int /\ x.usage \in Int /\ f[n] \in Int /\ SizeOf(x.idle) \in Int
              /\ Size[e.rep] \in Int
            BY <1>2, <1>3, <1>4
        <3> QED BY <1>3, <3>1, <3>2, <3>3, <3>4, <3>5
    <2>11. Halfway(c, I, f, y, n + 1)
        BY <2>1, <2>5, <2>6, <2>7, <2>9, <2>10 DEF Halfway
    <2> QED BY <2>11 DEF y, e
<1> QED BY <1>6, <1>7

\* The whole list.
LEMMA EvictSound ==
    ASSUME NEW c, Sound(c), NEW I
    PROVE  /\ Eviction(c, Evict(c, I))
           /\ DOMAIN c.idle \subseteq I => Evict(c, I).idle = <<>>
<1>0. /\ c \in CacheRec /\ c.idle \in Seq(CacheEntry) /\ Len(c.idle) \in Nat
      /\ DOMAIN c.idle = 1 .. Len(c.idle) /\ (c.idle = <<>> <=> Len(c.idle) = 0)
    BY IdleDomain DEF Sound
<1>1. PICK f : Sums(f, c.idle, Len(c.idle))
    BY <1>0, SumsExist
<1>2. f[0] = 0 /\ SizeOf(c.idle) = f[Len(c.idle)] /\ f[Len(c.idle)] \in Nat
    BY <1>0, <1>1, SumsNat, SizeOfSums
<1>3. PICK g : Evicting(g, c, I, Len(c.idle)) /\ Evict(c, I) = g[Len(c.idle)]
    BY <1>0, EvictSteps
<1>4. /\ g[0] = [c EXCEPT !.idle = <<>>]
      /\ \A n \in 0 .. Len(c.idle) - 1 : g[n + 1] = EvictOne(g[n], c.idle[n + 1], n + 1, I)
    <2> DEFINE first == [c EXCEPT !.idle = <<>>]
    <2>1. g = [k \in 0 .. Len(c.idle) |-> IF k = 0 THEN first
                                          ELSE EvictOne(g[k - 1], c.idle[k], k, I)]
        BY <1>3 DEF Evicting
    <2> HIDE DEF first
    <2>2. g[0] = first
        BY <1>0, <2>1
    <2>3. ASSUME NEW n \in 0 .. Len(c.idle) - 1
          PROVE  g[n + 1] = EvictOne(g[n], c.idle[n + 1], n + 1, I)
        <3>1. n + 1 \in 0 .. Len(c.idle) /\ n + 1 # 0 /\ (n + 1) - 1 = n
            BY <1>0
        <3>2. g[n + 1] = EvictOne(g[(n + 1) - 1], c.idle[n + 1], n + 1, I)
            BY <2>1, <3>1
        <3> QED BY <3>1, <3>2
    <2> QED BY <2>2, <2>3 DEF first
<1> DEFINE A == {n \in 0 .. Len(c.idle) : Halfway(c, I, f, g[n], n)}
<1>5. 0 \in A
    <2>1. g[0].open = c.open /\ g[0].idle = <<>> /\ g[0].usage = c.usage /\ g[0].timer = c.timer
          /\ g[0] \in CacheRec /\ c.usage \in Int
        <3>1. <<>> \in Seq(CacheEntry)
            OBVIOUS
        <3> QED BY <1>0, <1>4, <3>1 DEF CacheRec
    <2>2. Len(<<>>) = 0 /\ 1 .. 0 = {}
        OBVIOUS
    <2>3. g[0].usage = (c.usage - f[0]) + SizeOf(g[0].idle)
        BY <1>2, <2>1, SizeOfEmpty
    <2> QED BY <1>0, <2>1, <2>2, <2>3 DEF Halfway
<1>6. ASSUME NEW n \in 0 .. Len(c.idle) - 1, n \in A PROVE n + 1 \in A
    BY <1>0, <1>1, <1>4, <1>6, HalfwayStep
<1>7. \A n \in 0 .. Len(c.idle) : n \in A
    <2> HIDE DEF A
    <2> QED BY <1>0, <1>5, <1>6, SetInduction, Zenon
<1> DEFINE h == Evict(c, I)
           N == Len(c.idle)
<1>8. Halfway(c, I, f, h, N)
    BY <1>0, <1>3, <1>7
<1> HIDE DEF h
<1>9. h \in CacheRec /\ h.idle \in Seq(CacheEntry) /\ Len(h.idle) \in Nat
      /\ DOMAIN h.idle = 1 .. Len(h.idle) /\ (h.idle = <<>> <=> Len(h.idle) = 0)
      /\ h.timer = c.timer /\ h.open \subseteq c.open
    BY <1>8, IdleDomain DEF Halfway
<1>10. Counted(h)
    <2>1. h.usage = (c.usage - f[N]) + SizeOf(h.idle) /\ h.usage <= c.usage
          /\ c.usage = f[N] /\ c.usage <= CacheSize /\ SizeOf(h.idle) \in Nat
        BY <1>2, <1>8, <1>9, SizeOfAtLeast DEF Halfway, Sound, Counted
    <2> QED BY <1>2, <2>1, SizeAssumption DEF Counted
<1>11. Live(h)
    <2>1. ASSUME NEW m \in DOMAIN h.idle PROVE h.idle[m].rep \in h.open
        <3>1. PICK i \in (1 .. N) \ I : h.idle[m] = c.idle[i]
            BY <1>8, <1>9 DEF Halfway
        <3>2. c.idle[i].rep \in c.open /\ \A j \in 1 .. N : c.idle[j].rep = c.idle[i].rep => j = i
            BY <1>0 DEF Sound, Live
        <3>3. c.idle[i].rep \notin {c.idle[j].rep : j \in I \cap (1 .. N)}
            BY <3>2
        <3>4. h.open = c.open \ {c.idle[j].rep : j \in I \cap (1 .. N)}
            BY <1>8 DEF Halfway
        <3> QED BY <3>1, <3>2, <3>3, <3>4
    <2> QED BY <1>8, <1>9, <2>1 DEF Live, Halfway
<1>12. ASSUME NEW used, Covers(c, used), NEW r \in h.open \ used PROVE Listed(h, r)
    <2>1. PICK i \in 1 .. N : c.idle[i].rep = r
        BY <1>0, <1>9, <1>12 DEF Covers, Listed
    <2>2. i \notin I
        BY <1>8, <1>12, <2>1 DEF Halfway
    <2> QED BY <1>8, <1>9, <2>1, <2>2 DEF Halfway, Listed
<1>13. ASSUME NEW r \in c.open, ~Listed(c, r) PROVE r \in h.open /\ ~Listed(h, r)
    <2>1. \A i \in 1 .. N : c.idle[i].rep # r
        BY <1>0, <1>13 DEF Listed
    <2>2. h.open = c.open \ {c.idle[i].rep : i \in I \cap (1 .. N)}
        BY <1>8 DEF Halfway
    <2>3. ASSUME NEW m \in 1 .. Len(h.idle) PROVE h.idle[m].rep # r
        <3>1. PICK i \in (1 .. N) \ I : h.idle[m] = c.idle[i]
            BY <1>8 DEF Halfway
        <3> QED BY <2>1, <3>1
    <2> QED BY <1>9, <2>1, <2>2, <2>3 DEF Listed
<1>14. c.idle = <<>> => h.idle = <<>>
    BY <1>0, <1>8, <1>9 DEF Halfway
<1>15. ASSUME DOMAIN c.idle \subseteq I PROVE h.idle = <<>>
    <2>1. \A i \in (1 .. N) \ I : FALSE
        BY <1>0, <1>15
    <2>2. \A m \in 1 .. Len(h.idle) : \E i \in (1 .. N) \ I : h.idle[m] = c.idle[i]
        BY <1>8 DEF Halfway
    <2>3. 1 .. Len(h.idle) = {}
        BY <2>1, <2>2
    <2>4. Len(h.idle) = 0
        <3>1. \A n \in Nat : 1 .. n = {} => n = 0
            OBVIOUS
        <3>2. Len(h.idle) \in Nat
            BY <1>9
        <3> QED BY <2>3, <3>1, <3>2, Zenon
    <2> QED BY <1>9, <2>4
<1> QED BY <1>9, <1>10, <1>11, <1>12, <1>13, <1>14, <1>15 DEF Eviction, Sound, Covers, h
-----------------------------------------------------------------------------
(* A repository starts its time *)

\* What StartEviction makes of a repository r that is in memory.
Outcome(d, r, used) ==
    Sound(d) /\ Armed(d) /\ r \in d.open /\ Covers(d, used \cup {r})

\* The new entry, if there is room.  The list was top before entries were
\* evicted to make room.
LEMMA InsertSound ==
    ASSUME NEW c, Sound(c), NEW r \in Repo, r \in c.open, ~Listed(c, r),
           NEW used, Covers(c, used \cup {r}), NEW top, top # <<>> => c.timer # Stopped,
           c.idle # <<>> => top # <<>>
    PROVE  Outcome(Insert(c, r, top), r, used)
<1> DEFINE e == [rep |-> r, left |-> Timeout]
           list == Append(c.idle, e)
           d == Insert(c, r, top)
<1>0. /\ c \in CacheRec /\ c.idle \in Seq(CacheEntry) /\ Len(c.idle) \in Nat
      /\ DOMAIN c.idle = 1 .. Len(c.idle)
      /\ \A i \in 1 .. Len(c.idle) : c.idle[i] \in CacheEntry
    BY IdleDomain DEF Sound
<1>1. CASE ~Fits(c, r)
    <2>1. d = c
        BY <1>1 DEF Insert
    <2> HIDE DEF d
    <2>2. Outcome(d, r, used)
        BY <2>1 DEF Outcome, Armed
    <2> QED BY <2>2 DEF d
<1>2. CASE Fits(c, r)
    <2>0. Timeout \in Int
        BY TimeAssumption
    <2>1. e \in CacheEntry /\ e.rep = r
        BY <2>0 DEF CacheEntry
    <2> HIDE DEF e
    <2>2. /\ list \in Seq(CacheEntry) /\ Len(list) = Len(c.idle) + 1
          /\ \A i \in 1 .. Len(c.idle) : list[i] = c.idle[i]
          /\ list[Len(c.idle) + 1] = e
        BY <1>0, <2>1
    <2>3. SizeOf(list) = SizeOf(c.idle) + Size[r]
        BY <1>0, <2>1, SizeOfAppend
    <2> DEFINE t == IF top = <<>> \/ top[1].left # list[1].left THEN RescheduleTimer(list)
                    ELSE c.timer
    <2>4. d = [c EXCEPT !.idle = list, !.usage = @ + Size[r], !.timer = t]
        BY <1>2 DEF Insert, e
    <2> HIDE DEF list, d
    <2>5. /\ list # <<>> /\ DOMAIN list = 1 .. Len(list)
          /\ 1 .. Len(list) = (1 .. Len(c.idle)) \cup {Len(c.idle) + 1}
        BY <1>0, <2>2
    <2>6. RescheduleTimer(list) \in Nat /\ RescheduleTimer(list) # Stopped
        BY <2>2, <2>5, Rescheduled
    <2>7. /\ Size[r] \in Nat /\ c.usage \in Int /\ c.timer \in Nat \cup {Stopped}
          /\ SizeOf(c.idle) \in Nat
        BY <1>0, SizeAssumption, SizeOfAtLeast DEF CacheRec
    <2>8. t \in Nat /\ t # Stopped
        BY <2>6, <2>7
    <2> HIDE DEF t
    <2>9. d \in CacheRec /\ d.open = c.open /\ d.idle = list /\ d.usage = c.usage + Size[r] /\ d.timer = t
        <3>1. c.usage + Size[r] \in Int
            BY <2>7
        <3> QED BY <1>0, <2>2, <2>4, <2>8, <3>1 DEF CacheRec
    <2>10. Counted(d)
        BY <1>2, <2>3, <2>7, <2>9 DEF Counted, Sound, Fits
    <2>11. ASSUME NEW i \in 1 .. Len(c.idle) PROVE c.idle[i].rep \in c.open /\ c.idle[i].rep # r
        BY <1>0 DEF Sound, Live, Listed
    <2>12. Live(d)
        <3>1. ASSUME NEW i \in DOMAIN d.idle PROVE d.idle[i].rep \in d.open
            BY <2>1, <2>2, <2>5, <2>9, <2>11, <3>1
        <3>2. ASSUME NEW i \in DOMAIN d.idle, NEW j \in DOMAIN d.idle,
                     d.idle[i].rep = d.idle[j].rep
              PROVE  i = j
            <4>1. \A k, l \in 1 .. Len(c.idle) : c.idle[k].rep = c.idle[l].rep => k = l
                BY <1>0 DEF Sound, Live
            <4> QED BY <2>1, <2>2, <2>5, <2>9, <2>11, <3>2, <4>1
        <3> QED BY <3>1, <3>2 DEF Live
    <2>13. ASSUME NEW s \in d.open \ (used \cup {r}) PROVE Listed(d, s)
        <3>1. PICK i \in 1 .. Len(c.idle) : c.idle[i].rep = s
            BY <1>0, <2>9, <2>13 DEF Covers, Listed
        <3> QED BY <2>2, <2>5, <2>9, <3>1 DEF Listed
    <2>14. Outcome(d, r, used)
        BY <2>8, <2>9, <2>10, <2>12, <2>13 DEF Outcome, Sound, Armed, Covers
    <2> QED BY <2>14 DEF d
<1> QED BY <1>1, <1>2

\* StartEviction of r, where the slot it is passed from is not taken by another
\* entry: it is not a slot of the list (0), or the list has no other entry.
LEMMA StartEvictionSound ==
    ASSUME NEW c, Sound(c), NEW r \in Repo, r \in c.open, NEW used, Covers(c, used),
           NEW slot,
           \/ Armed(c) /\ slot = 0
           \/ Len(c.idle) = 1 /\ c.idle[1].rep = r,
           NEW d \in StartEviction(c, r, slot)
    PROVE  Outcome(d, r, used)
<1> DEFINE h == RemoveIdleRepository(c, r)
           target == IF slot \in DOMAIN h.idle THEN h.idle[slot].rep ELSE r
<1>1. PICK f \in ForcedEvictions(h, target) : d = Insert(f, target, h.idle)
    BY DEF StartEviction
<1>2. Removal(c, h, r)
    BY RemoveSound
<1> HIDE DEF h
<1>3. h \in CacheRec /\ DOMAIN h.idle = 1 .. Len(h.idle) /\ Len(h.idle) \in Nat
      /\ (h.idle = <<>> <=> Len(h.idle) = 0)
    BY <1>2, IdleDomain DEF Removal, Sound
<1>4. target = r
    <2>1. CASE slot = 0
        BY <1>3, <2>1
    <2>2. CASE Len(c.idle) = 1 /\ c.idle[1].rep = r
        BY <1>2, <1>3, <2>2 DEF Removal
    <2> QED BY <2>1, <2>2
<1> HIDE DEF target
<1>5. h.idle # <<>> => h.timer # Stopped
    BY <1>2 DEF Removal, Armed
<1>6. Sound(h) /\ ~Listed(h, r) /\ r \in h.open /\ Covers(h, used \cup {r})
    BY <1>2 DEF Removal
<1>7. f = h \/ Eviction(h, f)
    <2>1. f \in ForcedEvictions(h, r)
        BY <1>1, <1>4
    <2>2. f = h \/ \E I : f = Evict(h, I)
        BY <2>1 DEF ForcedEvictions
    <2> QED BY <1>6, <2>2, EvictSound
<1>8. /\ Sound(f) /\ ~Listed(f, r) /\ r \in f.open /\ Covers(f, used \cup {r})
      /\ f.timer = h.timer /\ (f.idle # <<>> => h.idle # <<>>)
    BY <1>6, <1>7 DEF Eviction
<1>9. Outcome(Insert(f, r, h.idle), r, used)
    BY <1>5, <1>8, InsertSound
<1> QED BY <1>1, <1>4, <1>9
-----------------------------------------------------------------------------
(* The steps *)

\* RunL finds no repository in a transaction, or one that is alone in the list.
\* Otherwise it reuses a slot of the list that StartEviction has changed, and
\* leaves without setting the timer (see the README).
BusyAlone ==
    timer = 0 => \A i \in DOMAIN idle :
                     Expired(idle[i]) /\ idle[i].rep \in inTxn => Len(idle) = 1

\* The inductive invariant.
CacheInv ==
    /\ Sound(Cache) /\ Armed(Cache) /\ Covers(Cache, connected)
    /\ connected \subseteq Repo /\ inTxn \subseteq connected \cap TxnRepo
    /\ enabled \in BOOLEAN /\ (enabled = FALSE => idle = <<>>)

\* The state after a cache is installed.
LEMMA Installed ==
    ASSUME NEW c \in CacheRec, Install(c)
    PROVE  Cache' = c /\ idle' = c.idle
BY DEF Install, Cache, CacheRec

\* The fields of the state.
LEMMA CacheFields ==
    /\ Cache.open = open /\ Cache.idle = idle /\ Cache.usage = usage /\ Cache.timer = timer
    /\ [Cache EXCEPT !.timer = Stopped]
            = [open |-> open, idle |-> idle, usage |-> usage, timer |-> Stopped]
BY DEF Cache

\* Loading a repository, and removing one that is not in the list.
LEMMA LoadedSound ==
    ASSUME NEW c, Sound(c), NEW r \in Repo
    PROVE  LET l == [c EXCEPT !.open = @ \cup {r}]
           IN  /\ Sound(l) /\ l.open = c.open \cup {r} /\ l.idle = c.idle /\ l.timer = c.timer
               /\ \A used : Covers(c, used) => Covers(l, used \cup {r})
<1> DEFINE l == [c EXCEPT !.open = @ \cup {r}]
<1>1. c \in CacheRec
    BY DEF Sound
<1>2. /\ l.open = c.open \cup {r} /\ l.idle = c.idle /\ l.usage = c.usage /\ l.timer = c.timer
      /\ l \in CacheRec
    BY <1>1 DEF CacheRec
<1> HIDE DEF l
<1>3. Live(l) /\ Counted(l)
    BY <1>2 DEF Sound, Live, Counted
<1>4. \A used : Covers(c, used) => Covers(l, used \cup {r})
    BY <1>2 DEF Covers, Listed
<1>5. Sound(l)
    BY <1>2, <1>3 DEF Sound
<1> QED BY <1>2, <1>4, <1>5 DEF l

\* The opposite.
LEMMA UnloadedSound ==
    ASSUME NEW c, Sound(c), NEW r \in Repo, ~Listed(c, r)
    PROVE  LET l == [c EXCEPT !.open = @ \ {r}]
           IN  /\ Sound(l) /\ l.idle = c.idle /\ l.timer = c.timer
               /\ \A used : Covers(c, used) => Covers(l, used \ {r})
<1> DEFINE l == [c EXCEPT !.open = @ \ {r}]
<1>1. c \in CacheRec
    BY DEF Sound
<1>2. /\ l.open = c.open \ {r} /\ l.idle = c.idle /\ l.usage = c.usage /\ l.timer = c.timer
      /\ l \in CacheRec
    BY <1>1 DEF CacheRec
<1> HIDE DEF l
<1>3. Live(l) /\ Counted(l)
    BY <1>2 DEF Sound, Live, Counted, Listed
<1>4. \A used : Covers(c, used) => Covers(l, used \ {r})
    BY <1>2 DEF Covers, Listed
<1>5. Sound(l)
    BY <1>2, <1>3 DEF Sound
<1> QED BY <1>2, <1>4, <1>5 DEF l

\* FlushCache: nothing is idle, and what nobody uses is unloaded.
LEMMA FlushSound ==
    ASSUME NEW c, Sound(c), Covers(c, connected), NEW full \in BOOLEAN
    PROVE  /\ Sound(FlushCache(c, full)) /\ FlushCache(c, full).idle = <<>>
           /\ Covers(FlushCache(c, full), connected)
<1> DEFINE J == {j \in DOMAIN c.idle : full \/ c.idle[j].rep \notin connected}
           gone == {c.idle[i].rep : i \in J}
           h == FlushCache(c, full)
<1>1. h = [c EXCEPT !.open = @ \ gone, !.idle = <<>>, !.usage = 0]
    BY DEF FlushCache
<1>2. \A j \in DOMAIN c.idle : c.idle[j].rep \notin connected => j \in J
    BY Zenon
<1> HIDE DEF J
<1>3. \A s \in c.open \ connected : s \in gone
    BY <1>2 DEF Covers, Listed
<1> HIDE DEF gone, h
<1>4. c \in CacheRec /\ <<>> \in Seq(CacheEntry)
    BY DEF Sound
<1>5. h \in CacheRec /\ h.open = c.open \ gone /\ h.idle = <<>> /\ h.usage = 0
    <2>1. c.open \ gone \subseteq Repo
        BY <1>4 DEF CacheRec
    <2> DEFINE o == c.open \ gone
               none == <<>>
    <2>2. h = [c EXCEPT !.open = o, !.idle = none, !.usage = 0] /\ o \in SUBSET Repo
          /\ none \in Seq(CacheEntry)
        BY <1>1, <1>4, <2>1
    <2> HIDE DEF o, none
    <2>3. c = [open |-> c.open, idle |-> c.idle, usage |-> c.usage, timer |-> c.timer]
          /\ c.timer \in Nat \cup {Stopped}
        BY <1>4 DEF CacheRec
    <2>4. h = [open |-> o, idle |-> none, usage |-> 0, timer |-> c.timer]
        BY <2>2, <2>3
    <2>5. h \in CacheRec /\ h.open = o /\ h.idle = none /\ h.usage = 0
        BY <2>2, <2>3, <2>4 DEF CacheRec
    <2> QED BY <2>5 DEF o, none
<1>6. Sound(h) /\ Covers(h, connected)
    BY <1>3, <1>5, SizeOfEmpty, SizeAssumption DEF Sound, Live, Counted, Covers
<1> QED BY <1>5, <1>6 DEF h

\* An access to r, on a cache that is as good as the invariant says.
LEMMA AccessSound ==
    ASSUME NEW c, Sound(c), Armed(c), Covers(c, connected), NEW r \in Repo,
           enabled \in BOOLEAN, enabled = FALSE => c.idle = <<>>, Access(c, r)
    PROVE  /\ Sound(Cache') /\ Armed(Cache') /\ Covers(Cache', connected \cup {r})
           /\ enabled = FALSE => idle' = <<>>
<1> DEFINE l == [c EXCEPT !.open = @ \cup {r}]
<1>1. /\ Sound(l) /\ l.open = c.open \cup {r} /\ l.idle = c.idle /\ l.timer = c.timer
      /\ Covers(l, connected \cup {r})
    BY LoadedSound
<1>2. IF enabled THEN \E d \in StartEviction(l, r, 0) : Install(d) ELSE Install(l)
    BY DEF Access
<1> HIDE DEF l
<1>3. CASE enabled = TRUE
    <2>1. PICK d \in StartEviction(l, r, 0) : Install(d)
        BY <1>2, <1>3
    <2>2. Armed(l)
        BY <1>1 DEF Armed
    <2>3. Outcome(d, r, connected \cup {r})
        BY <1>1, <2>2, StartEvictionSound
    <2>4. Cache' = d
        BY <2>1, <2>3, Installed DEF Outcome, Sound
    <2>5. (connected \cup {r}) \cup {r} = connected \cup {r}
        OBVIOUS
    <2> QED BY <1>3, <2>3, <2>4, <2>5 DEF Outcome
<1>4. CASE enabled = FALSE
    <2>1. Install(l)
        BY <1>2, <1>4
    <2>2. Cache' = l /\ idle' = l.idle
        BY <1>1, <2>1, Installed DEF Sound
    <2> QED BY <1>1, <1>4, <2>2 DEF Armed
<1> QED BY <1>3, <1>4
\* A step of RunL.
LEMMA RunLSound ==
    ASSUME CacheInv, BusyAlone, RunL
    PROVE  /\ Sound(Cache') /\ Armed(Cache') /\ Covers(Cache', connected)
           /\ enabled = FALSE => idle' = <<>>
<1> DEFINE expired == {i \in DOMAIN idle : Expired(idle[i])}
           busy == {i \in expired : idle[i].rep \in inTxn}
           served == [Cache EXCEPT !.timer = Stopped]
           left == Evict(served, expired)
<1>0. /\ Sound(Cache) /\ Cache \in CacheRec /\ Armed(Cache) /\ Covers(Cache, connected)
      /\ idle \in Seq(CacheEntry) /\ Len(idle) \in Nat /\ DOMAIN idle = 1 .. Len(idle)
      /\ idle = <<>> <=> Len(idle) = 0
    BY IdleDomain, CacheFields DEF CacheInv, Sound
<1>1. /\ served.open = open /\ served.idle = idle /\ served.usage = usage
      /\ served \in CacheRec
    BY <1>0, CacheFields DEF CacheRec
<1>2. /\ timer = 0
      /\ IF busy # {}
         THEN \E c \in StartEviction(served, idle[Min(busy)].rep, Min(busy)) : Install(c)
         ELSE Install([left EXCEPT !.timer = RescheduleTimer(left.idle)])
    BY DEF RunL
<1> HIDE DEF served
<1>3. Sound(served) /\ Covers(served, connected)
    BY <1>0, <1>1, CacheFields DEF Sound, Live, Counted, Covers, Listed
<1>4. CASE busy # {}
    <2>1. PICK i \in busy : TRUE
        BY <1>4
    <2>2. Len(idle) = 1
        BY <1>2, <2>1 DEF BusyAlone
    <2>3. busy = {1}
        BY <1>0, <2>1, <2>2
    <2>4. Min({1}) = 1
        <3>1. \E x \in {1} : \A y \in {1} : x =< y
            OBVIOUS
        <3>2. Min({1}) \in {1}
            BY <3>1 DEF Min
        <3> QED BY <3>2
    <2>5. Min(busy) = 1 /\ idle[1].rep \in inTxn
        BY <2>3, <2>4
    <2> HIDE DEF busy
    <2>6. PICK c \in StartEviction(served, idle[1].rep, 1) : Install(c)
        BY <1>2, <1>4, <2>5
    <2>7. idle[1].rep \in Repo /\ idle[1].rep \in connected /\ idle[1].rep \in served.open
        BY <1>0, <1>1, <2>2, <2>5, <1>3 DEF CacheInv, Sound, Live
    <2>8. Outcome(c, idle[1].rep, connected)
        BY <1>1, <1>3, <2>2, <2>6, <2>7, StartEvictionSound
    <2>9. Cache' = c
        BY <2>6, <2>8, Installed DEF Outcome, Sound
    <2>10. connected \cup {idle[1].rep} = connected
        BY <2>7
    <2>11. enabled # FALSE
        <3>1. idle # <<>>
            BY <1>0, <2>2
        <3> QED BY <3>1, Zenon DEF CacheInv
    <2> QED BY <2>8, <2>9, <2>10, <2>11 DEF Outcome
<1>5. CASE busy = {}
    <2> DEFINE d == [left EXCEPT !.timer = RescheduleTimer(left.idle)]
    <2>1. Install(d)
        BY <1>2, <1>5
    <2>2. Eviction(served, left)
        BY <1>3, EvictSound
    <2> HIDE DEF left
    <2>3. /\ left \in CacheRec /\ left.idle \in Seq(CacheEntry) /\ Sound(left)
          /\ Covers(left, connected) /\ (idle = <<>> => left.idle = <<>>)
        BY <1>1, <1>3, <2>2, IdleDomain DEF Eviction, Sound
    <2>4. /\ RescheduleTimer(left.idle) \in Nat \cup {Stopped}
          /\ left.idle # <<>> => RescheduleTimer(left.idle) # Stopped
        BY <2>3, Rescheduled
    <2>5. /\ d \in CacheRec /\ d.open = left.open /\ d.idle = left.idle /\ d.usage = left.usage
          /\ d.timer = RescheduleTimer(left.idle)
        BY <2>3, <2>4 DEF CacheRec
    <2> HIDE DEF d
    <2>6. Sound(d) /\ Armed(d) /\ Covers(d, connected)
        BY <2>3, <2>4, <2>5 DEF Sound, Live, Counted, Armed, Covers, Listed
    <2>7. Cache' = d /\ idle' = d.idle
        BY <2>1, <2>5, Installed
    <2>8. enabled = FALSE => idle' = <<>>
        BY <2>3, <2>5, <2>7 DEF CacheInv
    <2> QED BY <2>6, <2>7, <2>8
<1> QED BY <1>4, <1>5

\* The last client of r leaves.
LEMMA RemoveObserverSound ==
    ASSUME CacheInv, NEW r \in Repo, RemoveObserver(r)
    PROVE  /\ Sound(Cache') /\ Armed(Cache') /\ Covers(Cache', connected')
           /\ enabled = FALSE => idle' = <<>>
<1>0. Sound(Cache) /\ Armed(Cache) /\ Covers(Cache, connected) /\ connected' = connected \ {r}
    BY DEF CacheInv, RemoveObserver
<1>1. CASE r \in open /\ enabled = TRUE
    <2>1. PICK c \in StartEviction(Cache, r, 0) :
              Install(IF Listed(c, r) THEN c ELSE [c EXCEPT !.open = @ \ {r}])
        BY <1>1 DEF RemoveObserver
    <2>2. Outcome(c, r, connected)
        BY <1>0, <1>1, CacheFields, StartEvictionSound
    <2>3. CASE Listed(c, r)
        <3>1. Install(c)
            BY <2>1, <2>3
        <3>2. Cache' = c
            BY <2>2, <3>1, Installed DEF Outcome, Sound
        <3>3. Covers(c, connected \ {r})
            BY <2>2, <2>3 DEF Outcome, Covers
        <3> QED BY <1>0, <1>1, <2>2, <3>2, <3>3 DEF Outcome
    <2>4. CASE ~Listed(c, r)
        <3> DEFINE l == [c EXCEPT !.open = @ \ {r}]
        <3>1. Install(l)
            BY <2>1, <2>4
        <3>2. Sound(l) /\ l.idle = c.idle /\ l.timer = c.timer /\ Covers(l, (connected \cup {r}) \ {r})
            BY <2>2, <2>4, UnloadedSound DEF Outcome
        <3> HIDE DEF l
        <3>3. (connected \cup {r}) \ {r} = connected \ {r}
            OBVIOUS
        <3>4. Armed(l)
            BY <2>2, <3>2 DEF Outcome, Armed
        <3>5. Cache' = l
            BY <3>1, <3>2, Installed DEF Sound
        <3> QED BY <1>0, <1>1, <3>2, <3>3, <3>4, <3>5
    <2> QED BY <2>3, <2>4
<1>2. CASE r \notin open \/ enabled = FALSE
    <2> DEFINE l == [Cache EXCEPT !.open = @ \ {r}]
    <2>1. Install(l)
        BY <1>2 DEF RemoveObserver
    <2>2. ~Listed(Cache, r)
        <3>1. CASE r \notin open
            BY <1>0, <3>1, CacheFields DEF Sound, Live, Listed
        <3>2. CASE enabled = FALSE
            BY <3>2, CacheFields DEF CacheInv, Listed
        <3> QED BY <1>2, <3>1, <3>2
    <2>3. Sound(l) /\ l.idle = idle /\ l.timer = timer /\ Covers(l, connected \ {r})
        BY <1>0, <2>2, UnloadedSound, CacheFields
    <2> HIDE DEF l
    <2>4. Armed(l)
        BY <1>0, <2>3, CacheFields DEF Armed
    <2>5. Cache' = l /\ idle' = l.idle
        BY <2>1, <2>3, Installed DEF Sound
    <2>6. enabled = FALSE => idle' = <<>>
        BY <2>3, <2>5 DEF CacheInv
    <2> QED BY <1>0, <2>3, <2>4, <2>5, <2>6
<1>3. enabled = TRUE \/ enabled = FALSE
    BY DEF CacheInv
<1> QED BY <1>1, <1>2, <1>3
\* Every step keeps the invariant.
LEMMA CacheInvStep ==
    ASSUME CacheInv, RunL => BusyAlone, [Next]_cacheVars
    PROVE  CacheInv'
<1> DEFINE Kept == /\ Sound(Cache') /\ Armed(Cache') /\ Covers(Cache', connected')
                   /\ enabled' = FALSE => idle' = <<>>
<1>0. /\ Sound(Cache) /\ Armed(Cache) /\ Covers(Cache, connected) /\ Cache \in CacheRec
      /\ connected \subseteq Repo /\ inTxn \subseteq connected \cap TxnRepo
      /\ enabled \in BOOLEAN /\ (enabled = FALSE => Cache.idle = <<>>)
    BY CacheFields DEF CacheInv, Sound
<1>1. ASSUME Kept, connected' \subseteq Repo, inTxn' \subseteq connected' \cap TxnRepo,
             enabled' \in BOOLEAN
      PROVE  CacheInv'
    <2>1. Sound(Cache)' /\ Armed(Cache)' /\ Covers(Cache, connected)'
        BY <1>1 DEF Sound, Armed, Covers, Live, Counted, Listed
    <2> QED BY <1>1, <2>1, Zenon DEF CacheInv
<1>2. ASSUME NEW r \in Repo, OpenL(r) PROVE CacheInv'
    <2>1. /\ Access(Cache, r) /\ connected' = connected \cup {r} /\ inTxn' = inTxn
          /\ enabled' = enabled
        BY <1>2 DEF OpenL
    <2>2. Kept
        BY <1>0, <2>1, AccessSound
    <2> HIDE DEF Kept
    <2> QED BY <1>0, <1>1, <2>1, <2>2
<1>3. ASSUME NEW r \in Repo, TransactionRequest(r) PROVE CacheInv'
    <2>1. /\ Access(Cache, r) /\ connected' = connected /\ r \in connected \cap TxnRepo
          /\ inTxn' \in {inTxn \cup {r}, inTxn \ {r}} /\ enabled' = enabled
        BY <1>3 DEF TransactionRequest
    <2>2. connected \cup {r} = connected
        BY <2>1
    <2>3. Kept
        BY <1>0, <2>1, <2>2, AccessSound
    <2> HIDE DEF Kept
    <2> QED BY <1>0, <1>1, <2>1, <2>3
<1>4. ASSUME NEW r \in Repo, RemoveObserver(r) PROVE CacheInv'
    <2>1. connected' = connected \ {r} /\ inTxn' = inTxn \ {r} /\ enabled' = enabled
        BY <1>4 DEF RemoveObserver
    <2>2. Kept
        BY <1>4, <2>1, RemoveObserverSound
    <2> HIDE DEF Kept
    <2> QED BY <1>0, <1>1, <2>1, <2>2
<1>5. ASSUME NEW r \in Repo, NEW full \in BOOLEAN, OpenOutOfMemory(r, full) PROVE CacheInv'
    <2> DEFINE h == FlushCache(Cache, full)
    <2>1. /\ Access(h, r) /\ connected' = connected \cup {r} /\ inTxn' = inTxn
          /\ enabled' = enabled
        BY <1>5 DEF OpenOutOfMemory
    <2>2. Sound(h) /\ h.idle = <<>> /\ Covers(h, connected)
        BY <1>0, FlushSound
    <2> HIDE DEF h
    <2>3. Armed(h)
        BY <2>2 DEF Armed
    <2>4. Kept
        BY <1>0, <2>1, <2>2, <2>3, AccessSound
    <2> HIDE DEF Kept
    <2> QED BY <1>0, <1>1, <2>1, <2>4
<1>6. ASSUME RunL PROVE CacheInv'
    <2>1. connected' = connected /\ inTxn' = inTxn /\ enabled' = enabled
        BY <1>6 DEF RunL
    <2>2. Kept
        BY <1>6, <2>1, RunLSound
    <2> HIDE DEF Kept
    <2> QED BY <1>0, <1>1, <2>1, <2>2
<1>7. ASSUME DisableCache PROVE CacheInv'
    <2> DEFINE f == FlushCache(Cache, FALSE)
               h == [f EXCEPT !.timer = Stopped]
    <2>1. Install(h) /\ connected' = connected /\ inTxn' = inTxn /\ enabled' = FALSE
        BY <1>7 DEF DisableCache
    <2>2. Sound(f) /\ f.idle = <<>> /\ Covers(f, connected)
        BY <1>0, FlushSound
    <2> HIDE DEF f
    <2>3. h \in CacheRec /\ h.open = f.open /\ h.idle = f.idle /\ h.usage = f.usage
        BY <2>2 DEF Sound, CacheRec
    <2> HIDE DEF h
    <2>4. Sound(h) /\ Armed(h) /\ Covers(h, connected) /\ h.idle = <<>>
        BY <2>2, <2>3 DEF Sound, Live, Counted, Armed, Covers, Listed
    <2>5. Cache' = h /\ idle' = h.idle
        BY <2>1, <2>3, Installed
    <2>6. Kept
        BY <2>1, <2>4, <2>5
    <2> HIDE DEF Kept
    <2> QED BY <1>0, <1>1, <2>1, <2>6
<1>8. ASSUME EnableCache PROVE CacheInv'
    <2>1. /\ Cache' = Cache /\ connected' = connected /\ inTxn' = inTxn /\ enabled' = TRUE
        BY <1>8 DEF EnableCache, Cache
    <2>2. Kept
        BY <1>0, <2>1
    <2> HIDE DEF Kept
    <2> QED BY <1>0, <1>1, <2>1, <2>2
<1>9. ASSUME Tick PROVE CacheInv'
    <2>0. /\ idle \in Seq(CacheEntry) /\ Len(idle) \in Nat /\ DOMAIN idle = 1 .. Len(idle)
          /\ \A i \in 1 .. Len(idle) : idle[i] \in CacheEntry
          /\ (idle = <<>> <=> Len(idle) = 0)
        BY <1>0, IdleDomain, CacheFields
    <2> DEFINE late(i) == [idle[i] EXCEPT !.left = IF @ > -MaxLate THEN @ - 1 ELSE @]
    <2>1. /\ idle' = [i \in DOMAIN idle |-> late(i)]
          /\ timer' = IF timer \in {Stopped, 0} THEN timer ELSE timer - 1
          /\ open' = open /\ usage' = usage
          /\ connected' = connected /\ inTxn' = inTxn /\ enabled' = enabled
        BY <1>9 DEF Tick
    <2>2. ASSUME NEW i \in 1 .. Len(idle)
          PROVE  late(i) \in CacheEntry /\ late(i).rep = idle[i].rep
        <3>1. idle[i] \in CacheEntry
            BY <2>0
        <3> QED BY <3>1, TimeAssumption DEF CacheEntry
    <2> HIDE DEF late
    <2>3. /\ idle' \in Seq(CacheEntry) /\ Len(idle') = Len(idle) /\ DOMAIN idle' = 1 .. Len(idle)
          /\ \A i \in 1 .. Len(idle) : idle'[i].rep = idle[i].rep
          /\ (idle' = <<>> <=> Len(idle) = 0)
        <3>1. idle' = [i \in 1 .. Len(idle) |-> late(i)]
            BY <2>0, <2>1
        <3>2. idle' \in [1 .. Len(idle) -> CacheEntry]
            BY <2>2, <3>1
        <3>3. idle' \in Seq(CacheEntry) /\ Len(idle') = Len(idle) /\ DOMAIN idle' = 1 .. Len(idle)
            BY <2>0, <3>2
        <3>4. \A i \in 1 .. Len(idle) : idle'[i].rep = idle[i].rep
            BY <2>2, <3>1
        <3>5. idle' = <<>> <=> Len(idle') = 0
            BY <3>3
        <3> QED BY <3>3, <3>4, <3>5
    <2>4. SizeOf(idle') = SizeOf(idle)
        <3>1. PICK f : Sums(f, idle, Len(idle))
            BY <2>0, SumsExist
        <3>2. Sums(f, idle', Len(idle'))
            <4>1. f = [i \in 0 .. Len(idle) |-> IF i = 0 THEN 0 ELSE f[i - 1] + Size[idle[i].rep]]
                BY <3>1 DEF Sums
            <4>2. \A i \in 0 .. Len(idle) : i = 0 \/ Size[idle[i].rep] = Size[idle'[i].rep]
                BY <2>0, <2>3
            <4>3. f = [i \in 0 .. Len(idle) |-> IF i = 0 THEN 0 ELSE f[i - 1] + Size[idle'[i].rep]]
                BY <4>1, <4>2
            <4> QED BY <2>3, <4>3 DEF Sums
        <3>3. SizeOf(idle) = f[Len(idle)]
            BY <2>0, <3>1, SizeOfSums
        <3>4. SizeOf(idle') = f[Len(idle')]
            BY <2>3, <3>2, SizeOfSums
        <3> QED BY <2>3, <3>3, <3>4
    <2>5. timer' \in Nat \cup {Stopped} /\ (timer # Stopped => timer' # Stopped)
        <3>1. timer \in Nat \cup {Stopped}
            BY <1>0, CacheFields DEF CacheRec
        <3> QED BY <2>1, <3>1, TimeAssumption
    <2>6. /\ Cache'.open = Cache.open /\ Cache'.idle = idle' /\ Cache'.usage = Cache.usage
          /\ Cache'.timer = timer' /\ Cache' \in CacheRec
        BY <1>0, <2>1, <2>3, <2>5 DEF Cache, CacheRec
    <2>7. Live(Cache')
        BY <1>0, <2>0, <2>3, <2>6, CacheFields DEF Live, Sound
    <2>8. Counted(Cache')
        BY <1>0, <2>4, <2>6, CacheFields DEF Counted, Sound
    <2>9. Covers(Cache', connected')
        BY <1>0, <2>0, <2>1, <2>3, <2>6, CacheFields DEF Covers, Listed
    <2>10. Armed(Cache')
        BY <1>0, <2>0, <2>3, <2>5, <2>6, CacheFields DEF Armed
    <2>11. enabled' = FALSE => idle' = <<>>
        BY <1>0, <2>0, <2>1, <2>3, CacheFields
    <2>12. Kept
        BY <2>6, <2>7, <2>8, <2>9, <2>10, <2>11 DEF Sound
    <2> HIDE DEF Kept
    <2> QED BY <1>0, <1>1, <2>1, <2>12
<1>10. CASE UNCHANGED cacheVars
    <2>1. Cache' = Cache /\ connected' = connected /\ inTxn' = inTxn /\ enabled' = enabled
          /\ idle' = idle
        BY <1>10 DEF cacheVars, Cache
    <2>2. Kept
        BY <1>0, <2>1, CacheFields
    <2> HIDE DEF Kept
    <2> QED BY <1>0, <1>1, <2>1, <2>2
<1> HIDE DEF Kept
<1> QED BY <1>2, <1>3, <1>4, <1>5, <1>6, <1>7, <1>8, <1>9, <1>10 DEF Next

\* It holds when the server starts.
LEMMA CacheInvInit == Init => CacheInv
<1> SUFFICES ASSUME Init PROVE CacheInv
    OBVIOUS
<1>1. /\ open = {} /\ connected = {} /\ inTxn = {} /\ idle = <<>> /\ usage = 0
      /\ timer = Stopped /\ enabled = TRUE /\ <<>> \in Seq(CacheEntry)
    BY DEF Init
<1>2. Cache \in CacheRec
    BY <1>1 DEF Cache, CacheRec
<1>3. Live(Cache) /\ Counted(Cache) /\ Armed(Cache) /\ Covers(Cache, connected)
    BY <1>1, CacheFields, SizeOfEmpty, SizeAssumption DEF Live, Counted, Armed, Covers
<1> QED BY <1>1, <1>2, <1>3 DEF CacheInv, Sound

\* The invariant has the four properties as its parts.
LEMMA CacheInvParts ==
    CacheInv => IdleEntriesLive /\ UsageWithinLimit /\ TimerArmed /\ UnusedIsIdle
BY CacheFields DEF CacheInv, Sound, Live, Counted, Armed, Covers,
                   IdleEntriesLive, UsageWithinLimit, TimerArmed, UnusedIsIdle
-----------------------------------------------------------------------------
(* Theorems *)

\* The four properties, together with what makes them inductive, are lost in no
\* other step than RunL finding a repository in a transaction beside another
\* entry: whatever is opened, closed, evicted, flushed and disabled, with any
\* sizes.  (For RunL then see the next theorem and the README.)
THEOREM OnlyTheTimerBreaks ==
    Spec => /\ CacheInv
            /\ [][CacheInv /\ ~CacheInv' => RunL /\ ~BusyAlone]_cacheVars
<1>1. Init => CacheInv
    BY CacheInvInit
<1>2. [Next]_cacheVars => [CacheInv /\ ~CacheInv' => RunL /\ ~BusyAlone]_cacheVars
    <2>1. ASSUME [Next]_cacheVars, CacheInv, ~CacheInv' PROVE RunL /\ ~BusyAlone
        BY <2>1, CacheInvStep
    <2> QED BY <2>1
<1> QED BY <1>1, <1>2, PTL DEF Spec

\* The list is broken whenever RunL puts back a repository that is not the last
\* entry: the slot it passes to StartEviction holds the next one by then, which
\* enters the list a second time, or after it was evicted (cachemgr.cpp:384).
THEOREM TimerBreaksTheList ==
    ASSUME CacheInv, RunL,
           NEW i \in DOMAIN idle, Expired(idle[i]), idle[i].rep \in inTxn, i # Len(idle),
           \A j \in DOMAIN idle : Expired(idle[j]) /\ idle[j].rep \in inTxn => i <= j
    PROVE  ~IdleEntriesLive'
<1> DEFINE expired == {k \in DOMAIN idle : Expired(idle[k])}
           busy == {k \in expired : idle[k].rep \in inTxn}
           served == [Cache EXCEPT !.timer = Stopped]
           r == idle[i].rep
           h == RemoveIdleRepository(served, r)
<1>0. /\ Sound(Cache) /\ Cache \in CacheRec
      /\ idle \in Seq(CacheEntry) /\ Len(idle) \in Nat /\ DOMAIN idle = 1 .. Len(idle)
    BY IdleDomain, CacheFields DEF CacheInv, Sound
<1>1. /\ served.open = open /\ served.idle = idle /\ served.usage = usage
      /\ served \in CacheRec
    BY <1>0, CacheFields DEF CacheRec
<1>2. busy # {} /\ Min(busy) = i
    <2>1. i \in busy /\ \A j \in busy : i <= j
        OBVIOUS
    <2>2. \A x, y \in busy : x <= y /\ y <= x => x = y
        BY <1>0
    <2> HIDE DEF busy
    <2> QED BY <2>1, <2>2 DEF Min
<1>3. PICK c \in StartEviction(served, r, i) : Install(c)
    BY <1>2, Zenon DEF RunL
<1> HIDE DEF served
<1>4. Sound(served) /\ r \in Repo /\ Listed(served, r)
    BY <1>0, <1>1, CacheFields, IdleDomain DEF Sound, Live, Counted, Listed
<1>5. Removal(served, h, r)
    BY <1>4, RemoveSound
<1> HIDE DEF h
<1>6. /\ Sound(h) /\ h \in CacheRec /\ DOMAIN h.idle = 1 .. Len(h.idle) /\ Len(h.idle) \in Nat
      /\ Len(h.idle) = Len(idle) - 1 /\ h.usage = usage - Size[r] /\ h.idle # <<>>
      /\ \A k \in 1 .. Len(h.idle) : h.idle[k].rep \in Repo
    <2>1. /\ Sound(h) /\ h.usage = usage - Size[r] /\ Len(h.idle) = Len(idle) - 1
        BY <1>1, <1>4, <1>5 DEF Removal
    <2>2. /\ h \in CacheRec /\ DOMAIN h.idle = 1 .. Len(h.idle) /\ Len(h.idle) \in Nat
          /\ (h.idle = <<>> <=> Len(h.idle) = 0)
          /\ \A k \in 1 .. Len(h.idle) : h.idle[k].rep \in Repo
        BY <2>1, IdleDomain DEF Sound
    <2>3. i \in 1 .. Len(idle) /\ i # Len(idle)
        BY <1>0
    <2>4. Len(idle) - 1 # 0
        BY <1>0, <2>3
    <2> HIDE DEF r
    <2> QED BY <2>1, <2>2, <2>4
<1> DEFINE e == h.idle[i].rep
<1>7. i \in 1 .. Len(h.idle) /\ e \in Repo /\ Listed(h, e)
    <2>1. i \in 1 .. Len(idle) /\ i # Len(idle)
        BY <1>0
    <2>2. i \in 1 .. Len(h.idle)
        <3>1. \A n \in Nat : \A k \in 1 .. n : k # n => k \in 1 .. n - 1
            OBVIOUS
        <3>2. i \in 1 .. Len(idle) - 1
            BY <1>0, <2>1, <3>1
        <3>3. Len(h.idle) = Len(idle) - 1
            BY <1>6
        <3> QED BY <3>2, <3>3
    <2> QED BY <1>6, <2>2 DEF Listed
<1>8. PICK f \in ForcedEvictions(h, e) : c = Insert(f, e, h.idle)
    BY <1>3, <1>6, <1>7 DEF StartEviction, h
<1>9. /\ Size[e] \in Nat /\ Size[e] < CacheSize /\ CacheSize \in Nat
    <2>1. Size[r] \in Nat \ {0} /\ Size[e] \in Nat /\ CacheSize \in Nat
        BY <1>4, <1>7, SizeAssumption
    <2>2. usage \in Int /\ usage <= CacheSize /\ h.usage = SizeOf(h.idle)
        BY <1>0, <1>6, CacheFields DEF Sound, Counted, CacheRec
    <2>3. Size[e] <= SizeOf(h.idle) /\ SizeOf(h.idle) \in Nat
        BY <1>6, <1>7, SizeOfAtLeast DEF CacheRec
    <2> QED BY <1>6, <2>1, <2>2, <2>3
<1> HIDE DEF e
<1>10. /\ Sound(f) /\ (e \in f.open => Listed(f, e)) /\ Fits(f, e)
    <2>1. CASE f = h /\ Fits(h, e)
        BY <1>6, <1>7, <2>1
    <2>2. CASE ~Fits(h, e)
        <3>1. PICK J \in SUBSET DOMAIN h.idle :
                  f = Evict(h, J) /\ (J = DOMAIN h.idle \/ Fits(Evict(h, J), e))
            BY <1>6, <1>8, <1>9, <2>2 DEF ForcedEvictions
        <3>2. Eviction(h, f) /\ (DOMAIN h.idle \subseteq J => f.idle = <<>>)
            BY <1>6, <3>1, EvictSound
        <3>3. Sound(f) /\ \A used : Covers(h, used) => Covers(f, used)
            BY <3>2 DEF Eviction
        <3>4. e \in f.open => Listed(f, e)
            <4>1. Covers(h, h.open \ {e})
                BY <1>7 DEF Covers
            <4>2. Covers(f, h.open \ {e})
                BY <3>3, <4>1
            <4> QED BY <4>2 DEF Covers
        <3>5. J = DOMAIN h.idle => Fits(f, e)
            <4>1. f.idle = <<>> => f.usage = 0
                BY <3>3, SizeOfEmpty DEF Sound, Counted
            <4> QED BY <1>9, <3>2, <4>1 DEF Fits
        <3> QED BY <3>1, <3>3, <3>4, <3>5
    <2>3. Fits(h, e) => f = h
        BY <1>8 DEF ForcedEvictions
    <2> QED BY <2>1, <2>2, <2>3
<1> DEFINE new == [rep |-> e, left |-> Timeout]
<1>11. /\ f \in CacheRec /\ f.idle \in Seq(CacheEntry) /\ Len(f.idle) \in Nat
       /\ DOMAIN f.idle = 1 .. Len(f.idle)
    BY <1>10, IdleDomain DEF Sound
<1>12. new \in CacheEntry /\ new.rep = e
    BY <1>7, TimeAssumption DEF CacheEntry
<1> HIDE DEF new
<1>13. c.open = f.open /\ c.idle = Append(f.idle, new)
    <2>1. \E t : c = [f EXCEPT !.idle = Append(f.idle, new), !.usage = @ + Size[e], !.timer = t]
        BY <1>8, <1>10 DEF Insert, new
    <2> QED BY <1>11, <2>1 DEF CacheRec
<1>14. open' = f.open /\ idle' = Append(f.idle, new)
    BY <1>3, <1>13 DEF Install
<1>15. /\ DOMAIN idle' = 1 .. Len(f.idle) + 1 /\ idle'[Len(f.idle) + 1].rep = e
       /\ \A k \in 1 .. Len(f.idle) : idle'[k] = f.idle[k]
    BY <1>11, <1>12, <1>14
<1>16. CASE e \notin f.open
    BY <1>11, <1>14, <1>15, <1>16 DEF IdleEntriesLive
<1>17. CASE Listed(f, e)
    <2>1. PICK k \in 1 .. Len(f.idle) : f.idle[k].rep = e
        BY <1>11, <1>17 DEF Listed
    <2>2. /\ k \in DOMAIN idle' /\ Len(f.idle) + 1 \in DOMAIN idle' /\ k # Len(f.idle) + 1
          /\ idle'[k].rep = idle'[Len(f.idle) + 1].rep
        BY <1>11, <1>15, <2>1
    <2> QED BY <2>2 DEF IdleEntriesLive
<1> QED BY <1>10, <1>16, <1>17
=============================================================================
