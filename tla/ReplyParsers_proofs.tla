------------------------- MODULE ReplyParsers_proofs -------------------------
(* Theorems about ReplyParsers, for replies of every size, cut into pieces *)
(* at any place.                                                           *)
EXTENDS ReplyParsers, SequenceTheorems, WellFoundedInduction, TLAPS

(***************************************************************************)
(* The least number of a set.  What is shown by induction below is shown   *)
(* of the least counterexample.                                            *)
(***************************************************************************)
LEMMA LeastNumber ==
    ASSUME NEW T \in SUBSET Nat, T # {}
    PROVE  \E m \in T : \A k \in T : m <= k
<1>1. PICK m \in T : \A k \in T : ~ (<<k, m>> \in OpToRel(<, Nat))
    BY WFMin, NatLessThanWellFounded, Zenon
<1>2. \A k \in T : ~ (k < m)
    BY <1>1 DEF OpToRel
<1>3. \A k \in T : k \in Int
    OBVIOUS
<1> QED
    BY <1>2, <1>3

(***************************************************************************)
(* Texts                                                                   *)
(***************************************************************************)
Chars == {Space, Letter}

LEMMA TextsAre ==
    ASSUME NEW s
    PROVE  s \in Texts <=> s \in Seq(Chars) /\ Len(s) <= MaxText
<1>1. ASSUME s \in Texts
      PROVE  s \in Seq(Chars) /\ Len(s) <= MaxText
    <2>1. PICK m \in 0 .. MaxText : s \in [1 .. m -> Chars]
        BY <1>1 DEF Texts, BoundedSeq, SeqOf, Chars
    <2>2. m \in Nat /\ m <= MaxText
        BY BoundsAssumption
    <2>3. s \in Seq(Chars)
        BY <2>1, <2>2
    <2> QED
        BY <2>1, <2>2, <2>3
<1>2. ASSUME s \in Seq(Chars), Len(s) <= MaxText
      PROVE  s \in Texts
    <2>1. Len(s) \in 0 .. MaxText /\ s \in [1 .. Len(s) -> Chars]
        BY <1>2, LenProperties, BoundsAssumption
    <2> QED
        BY <2>1 DEF Texts, BoundedSeq, SeqOf, Chars
<1> QED
    BY <1>1, <1>2

\* No text at all is a text.
LEMMA NoText == <<>> \in Texts
<1> DEFINE none == <<>>
<1>1. none \in Seq(Chars) /\ Len(none) = 0
    OBVIOUS
<1> HIDE DEF none
<1>2. none \in Texts
    <2>1. Len(none) <= MaxText
        BY <1>1, BoundsAssumption
    <2> QED
        BY <1>1, <2>1, TextsAre
<1> QED
    BY <1>2 DEF none

LEMMA BlankMeans ==
    ASSUME NEW s \in Seq(Chars)
    PROVE  IsBlank(s) <=> \A i \in 1 .. Len(s) : s[i] = Space
BY DEF IsBlank

\* A text that is not blank is trimmed to what begins with its first letter.
LEMMA TrimStartFrom ==
    ASSUME NEW s \in Seq(Chars), ~IsBlank(s)
    PROVE  \E i \in 1 .. Len(s) :
              /\ s[i] # Space
              /\ \A j \in 1 .. i - 1 : s[j] = Space
              /\ TrimStart(s) = SubSeq(s, i, Len(s))
<1> DEFINE I == { i \in 1 .. Len(s) : s[i] # Space }
<1>1. I # {} /\ I \in SUBSET Nat
    BY DEF IsBlank
<1>2. PICK i \in I : \A j \in I : i <= j
    BY <1>1, LeastNumber
<1>3. Min(I) = i
    BY <1>2 DEF Min
<1>4. TrimStart(s) = SubSeq(s, i, Len(s))
    BY <1>1, <1>3 DEF TrimStart, SelectInSeq
<1> QED
    BY <1>2, <1>4

LEMMA TrimStartBlank ==
    ASSUME NEW s \in Seq(Chars)
    PROVE  /\ TrimStart(s) = <<>> <=> IsBlank(s)
           /\ TrimStart(s) \in Seq(Chars)
           /\ Len(TrimStart(s)) <= Len(s)
<1>1. CASE IsBlank(s)
    BY <1>1, EmptySeq, LenProperties DEF TrimStart
<1>2. CASE ~IsBlank(s)
    <2>1. PICK i \in 1 .. Len(s) : TrimStart(s) = SubSeq(s, i, Len(s))
        BY <1>2, TrimStartFrom
    <2>2. \A j \in i .. Len(s) : s[j] \in Chars
        OBVIOUS
    <2>3. /\ SubSeq(s, i, Len(s)) \in Seq(Chars)
          /\ Len(SubSeq(s, i, Len(s))) = Len(s) - i + 1
        BY <2>2, SubSeqProperties
    <2>4. Len(s) - i + 1 > 0 /\ Len(s) - i + 1 <= Len(s)
        BY <2>1
    <2>5. TrimStart(s) # <<>>
        <3> DEFINE u == SubSeq(s, i, Len(s))
        <3>1. Len(u) > 0 /\ u \in Seq(Chars)
            BY <2>3, <2>4
        <3> HIDE DEF u
        <3>2. u # <<>>
            BY <3>1
        <3> QED
            BY <2>1, <3>2 DEF u
    <2> QED
        BY <1>2, <2>1, <2>3, <2>4, <2>5
<1> QED
    BY <1>1, <1>2

\* A text that comes in pieces is collected as the whole text would be.
LEMMA TrimStartPieces ==
    ASSUME NEW s \in Seq(Chars), NEW t \in Seq(Chars)
    PROVE  TrimStart(s \o t) =
             IF TrimStart(s) = <<>> THEN TrimStart(t) ELSE TrimStart(s) \o t
<1> DEFINE st == s \o t
<1>0. /\ st \in Seq(Chars) /\ Len(st) = Len(s) + Len(t)
      /\ \A i \in 1 .. Len(s) : st[i] = s[i]
      /\ \A i \in 1 .. Len(t) : st[Len(s) + i] = t[i]
    BY ConcatProperties
<1>c. \A i \in 1 .. Len(s) : \A j \in 1 .. Len(s) : SubSeq(st, i, j) = SubSeq(s, i, j)
    BY SubSeqOfConcat1
<1>d. \A i, j \in Len(s) + 1 .. Len(s) + Len(t) :
         SubSeq(st, i, j) = SubSeq(t, i - Len(s), j - Len(s))
    BY SubSeqOfConcat2
<1>e. t = <<>> => st = s
    BY ConcatEmptySeq
<1> HIDE DEF st
<1>a. IsBlank(st) <=> IsBlank(s) /\ IsBlank(t)
    <2>1. ASSUME IsBlank(st)
          PROVE  IsBlank(s) /\ IsBlank(t)
        <3>1. \A i \in 1 .. Len(st) : st[i] = Space
            BY <1>0, <2>1, BlankMeans
        <3>2. \A i \in 1 .. Len(s) : i \in 1 .. Len(st)
            BY <1>0
        <3>3. \A i \in 1 .. Len(t) : Len(s) + i \in 1 .. Len(st)
            BY <1>0
        <3>4. IsBlank(s)
            BY <1>0, <3>1, <3>2, BlankMeans
        <3>5. IsBlank(t)
            BY <1>0, <3>1, <3>3, BlankMeans
        <3> QED
            BY <3>4, <3>5
    <2>2. ASSUME IsBlank(s), IsBlank(t), NEW i \in 1 .. Len(st)
          PROVE  st[i] = Space
        <3>1. CASE i <= Len(s)
            BY <1>0, <2>2, <3>1, BlankMeans
        <3>2. CASE i > Len(s)
            <4>1. i - Len(s) \in 1 .. Len(t) /\ i = Len(s) + (i - Len(s))
                BY <1>0, <3>2
            <4> QED
                BY <1>0, <2>2, <4>1, BlankMeans
        <3> QED
            BY <3>1, <3>2, <1>0
    <2> QED
        BY <1>0, <2>1, <2>2, BlankMeans
<1>b. ASSUME NEW i \in 1 .. Len(st), st[i] # Space, \A j \in 1 .. i - 1 : st[j] = Space
      PROVE  TrimStart(st) = SubSeq(st, i, Len(st))
    <2>1. ~IsBlank(st)
        <3>1. st \in Seq(Chars)
            BY <1>0
        <3> QED
            BY <1>b, <3>1, BlankMeans
    <2>2. PICK k \in 1 .. Len(st) : /\ st[k] # Space
                                    /\ \A j \in 1 .. k - 1 : st[j] = Space
                                    /\ TrimStart(st) = SubSeq(st, k, Len(st))
        BY <1>0, <2>1, TrimStartFrom
    <2>3. k = i
        BY <1>0, <1>b, <2>2
    <2> QED
        BY <2>2, <2>3
<1>1. CASE IsBlank(s) /\ IsBlank(t)
    BY <1>1, <1>a DEF TrimStart, st
<1>2. CASE IsBlank(s) /\ ~IsBlank(t)
    <2>1. PICK i \in 1 .. Len(t) : /\ t[i] # Space
                                   /\ \A j \in 1 .. i - 1 : t[j] = Space
                                   /\ TrimStart(t) = SubSeq(t, i, Len(t))
        BY <1>2, TrimStartFrom
    <2>2. Len(s) + i \in 1 .. Len(st) /\ st[Len(s) + i] # Space
        BY <1>0, <2>1
    <2>3. \A j \in 1 .. Len(s) + i - 1 : st[j] = Space
        <3>1. SUFFICES ASSUME NEW j \in 1 .. Len(s) + i - 1
                       PROVE  st[j] = Space
            OBVIOUS
        <3>2. CASE j <= Len(s)
            BY <1>0, <1>2, <3>2 DEF IsBlank
        <3>3. CASE j > Len(s)
            <4>1. j - Len(s) \in 1 .. i - 1 /\ j = Len(s) + (j - Len(s))
                BY <3>3
            <4> QED
                <5>1. Len(t) \in Nat /\ Len(s) \in Nat
                    BY LenProperties
                <5>2. j - Len(s) \in 1 .. i - 1
                    BY <4>1
                <5>3. t[j - Len(s)] = Space /\ j - Len(s) \in 1 .. Len(t)
                    BY <2>1, <5>1, <5>2
                <5>4. st[Len(s) + (j - Len(s))] = t[j - Len(s)]
                    BY <1>0, <5>3
                <5>5. Len(s) + (j - Len(s)) = j
                    BY <5>1
                <5> QED
                    BY <5>3, <5>4, <5>5
        <3> QED
            BY <3>2, <3>3
    <2>4. TrimStart(st) = SubSeq(st, Len(s) + i, Len(st))
        BY <1>b, <2>2, <2>3
    <2>5. SubSeq(st, Len(s) + i, Len(st)) = SubSeq(t, i, Len(t))
        <3>1. Len(s) + i \in Len(s) + 1 .. Len(s) + Len(t)
            BY <2>1
        <3>2. Len(st) \in Len(s) + 1 .. Len(s) + Len(t)
            BY <1>0, <2>1
        <3> QED
            BY <1>0, <1>d, <3>1, <3>2
    <2> QED
        BY <1>2, <2>1, <2>4, <2>5, TrimStartBlank DEF st
<1>3. CASE ~IsBlank(s)
    <2>1. PICK i \in 1 .. Len(s) : /\ s[i] # Space
                                   /\ \A j \in 1 .. i - 1 : s[j] = Space
                                   /\ TrimStart(s) = SubSeq(s, i, Len(s))
        BY <1>3, TrimStartFrom
    <2>2. i \in 1 .. Len(st) /\ st[i] # Space /\ \A j \in 1 .. i - 1 : st[j] = Space
        <3>1. Len(s) \in Nat /\ Len(t) \in Nat /\ Len(st) = Len(s) + Len(t)
            BY <1>0, LenProperties
        <3>2. \A j \in 1 .. i - 1 : j \in 1 .. Len(s)
            BY <2>1, <3>1
        <3>3. \A j \in 1 .. Len(s) : st[j] = s[j]
            BY <1>0
        <3>4. i \in 1 .. Len(st)
            BY <2>1, <3>1
        <3>5. \A j \in 1 .. i - 1 : s[j] = Space
            BY <2>1
        <3>6. s[i] # Space
            BY <2>1
        <3> QED
            BY <3>2, <3>3, <3>4, <3>5, <3>6
    <2>3. TrimStart(st) = SubSeq(st, i, Len(st))
        BY <1>b, <2>2
    <2>4. SubSeq(st, i, Len(s)) = SubSeq(s, i, Len(s))
        BY <1>c, <2>1
    <2>5. CASE t = <<>>
        <3>1. st = s
            BY <1>e, <2>5
        <3>2. TrimStart(s) \o t = TrimStart(s)
            BY <2>5, ConcatEmptySeq, TrimStartBlank
        <3> QED
            BY <1>3, <3>1, <3>2, TrimStartBlank DEF st
    <2>6. CASE t # <<>>
        <3>1. SubSeq(st, Len(s) + 1, Len(st)) = t
            <4>1. Len(t) \in Nat \ {0}
                BY <2>6, EmptySeq
            <4>2. SubSeq(st, Len(s) + 1, Len(s) + Len(t)) = SubSeq(t, 1, Len(t))
                BY <1>d, <4>1
            <4> QED
                BY <1>0, <4>2, SubSeqFull
        <3>2. SubSeq(st, i, Len(s)) \o SubSeq(st, Len(s) + 1, Len(st))
                = SubSeq(st, i, Len(st))
            <4>1. /\ i \in 1 .. Len(st) + 1 /\ Len(s) \in i - 1 .. Len(st)
                  /\ Len(st) \in Len(s) .. Len(st)
                BY <1>0, <2>1
            <4> QED
                BY <1>0, <4>1, ConcatAdjacentSubSeq
        <3> QED
            BY <1>3, <2>1, <2>3, <2>4, <3>1, <3>2, TrimStartBlank DEF st
    <2> QED
        BY <2>5, <2>6
<1> QED
    BY <1>1, <1>2, <1>3

\* Trimming does not make texts longer.
LEMMA TrimStartTyped ==
    ASSUME NEW s \in Texts
    PROVE  TrimStart(s) \in Texts
<1>1. s \in Seq(Chars) /\ Len(s) <= MaxText
    BY TextsAre
<1>2. Len(s) \in Nat /\ Len(TrimStart(s)) \in Nat
    BY <1>1, TrimStartBlank
<1> QED
    BY <1>1, <1>2, TrimStartBlank, TextsAre, BoundsAssumption

LEMMA TrimEndTyped ==
    ASSUME NEW s \in Texts
    PROVE  TrimEnd(s) \in Texts
<1> DEFINE I == { i \in 1 .. Len(s) : s[i] # Space }
           n == IF I # {} THEN Max(I) ELSE 0
<1>1. s \in Seq(Chars) /\ Len(s) <= MaxText
    BY TextsAre
<1>2. n \in 0 .. Len(s)
    <2>1. CASE I = {}
        BY <1>1, <2>1
    <2>2. CASE I # {}
        <3> DEFINE T == { Len(s) - i : i \in I }
        <3>1. T \in SUBSET Nat /\ T # {}
            BY <1>1, <2>2
        <3>2. PICK m \in T : \A k \in T : m <= k
            BY <3>1, LeastNumber
        <3>3. PICK i \in I : m = Len(s) - i
            OBVIOUS
        <3>4. \A j \in I : i >= j
            <4>1. \A j \in I : Len(s) - i <= Len(s) - j
                BY <3>2, <3>3
            <4> QED
                BY <1>1, <4>1
        <3>5. Max(I) \in I
            BY <3>4 DEF Max
        <3> QED
            BY <1>1, <2>2, <3>5
    <2> QED
        BY <2>1, <2>2
<1>3. TrimEnd(s) = SubSeq(s, 1, n)
    BY DEF TrimEnd, SelectLastInSeq
<1>4. \A i \in 1 .. n : s[i] \in Chars
    BY <1>1, <1>2
<1>5. SubSeq(s, 1, n) \in Seq(Chars) /\ Len(SubSeq(s, 1, n)) = n
    <2> HIDE DEF n
    <2> QED
        BY <1>2, <1>4, SubSeqProperties
<1>6. n <= MaxText
    <2> HIDE DEF n
    <2> QED
        BY <1>1, <1>2, BoundsAssumption
<1> QED
    BY <1>3, <1>5, <1>6, TextsAre

LEMMA TrimEndEmpty == TrimEnd(<<>>) = <<>>
<1>1. TrimEnd(<<>>) = SubSeq(<<>>, 1, 0)
    BY EmptySeq DEF TrimEnd, SelectLastInSeq
<1> QED
    BY <1>1, SubSeqEmpty

(***************************************************************************)
(* The list of the named items of a kind                                   *)
(***************************************************************************)
Extended(list, kind, item) ==
    IF item.kind = kind /\ item.name # <<>> THEN Append(list, item) ELSE list

\* f[n] is the list of the first n items, for every n up to m.
ListsUpTo(f, kind, items, m) ==
    f = [n \in 0 .. m |-> IF n = 0 THEN <<>>
                          ELSE IF items[n].kind = kind /\ items[n].name # <<>>
                               THEN Append(f[n - 1], items[n])
                               ELSE f[n - 1]]

\* There is such a function: the recursive definition of Listed defines one.
LEMMA ListsExist ==
    ASSUME NEW kind, NEW items, NEW m \in Nat
    PROVE  \E f : ListsUpTo(f, kind, items, m)
<1> DEFINE T == { n \in Nat : ~ \E f : ListsUpTo(f, kind, items, n) }
<1>1. SUFFICES T = {}
    OBVIOUS
<1>2. ASSUME T # {}
      PROVE  FALSE
    <2>1. PICK n \in T : \A k \in T : n <= k
        BY <1>2, LeastNumber
    <2>2. CASE n = 0
        <3> DEFINE f == [i \in 0 .. 0 |-> <<>>]
        <3>1. ListsUpTo(f, kind, items, 0)
            BY DEF ListsUpTo
        <3> QED
            BY <2>1, <2>2, <3>1
    <2>3. CASE n # 0
        <3>1. n - 1 \in Nat /\ n - 1 \notin T
            BY <2>1, <2>3
        <3>2. PICK f : ListsUpTo(f, kind, items, n - 1)
            BY <3>1
        <3> DEFINE g == [i \in 0 .. n |-> IF i < n THEN f[i]
                                           ELSE Extended(f[n - 1], kind, items[n])]
        <3>3. \A i \in 0 .. n - 1 : g[i] = f[i]
            OBVIOUS
        <3>4. \A i \in 0 .. n :
                 g[i] = IF i = 0 THEN <<>>
                        ELSE IF items[i].kind = kind /\ items[i].name # <<>>
                             THEN Append(g[i - 1], items[i])
                             ELSE g[i - 1]
            <4>1. SUFFICES ASSUME NEW i \in 0 .. n
                           PROVE  g[i] = IF i = 0 THEN <<>>
                                         ELSE IF items[i].kind = kind /\ items[i].name # <<>>
                                              THEN Append(g[i - 1], items[i])
                                              ELSE g[i - 1]
                OBVIOUS
            <4>2. CASE i = n
                <5>1. g[n] = Extended(f[n - 1], kind, items[n])
                    OBVIOUS
                <5>2. g[n - 1] = f[n - 1]
                    BY <2>3, <3>3
                <5> HIDE DEF g
                <5> QED
                    BY <2>3, <4>2, <5>1, <5>2 DEF Extended
            <4>3. CASE i < n
                <5>1. i \in 0 .. n - 1 /\ (i # 0 => i - 1 \in 0 .. n - 1)
                    BY <4>3
                <5>2. f[i] = IF i = 0 THEN <<>>
                             ELSE IF items[i].kind = kind /\ items[i].name # <<>>
                                  THEN Append(f[i - 1], items[i])
                                  ELSE f[i - 1]
                    BY <3>2, <5>1 DEF ListsUpTo
                <5>3. g[i] = f[i] /\ (i # 0 => g[i - 1] = f[i - 1])
                    BY <3>3, <5>1
                <5> HIDE DEF g
                <5> QED
                    BY <5>2, <5>3
            <4> QED
                BY <4>2, <4>3
        <3>5. ListsUpTo(g, kind, items, n)
            <4>1. g = [i \in 0 .. n |-> g[i]]
                OBVIOUS
            <4> HIDE DEF g
            <4> QED
                BY <3>4, <4>1 DEF ListsUpTo
        <3> QED
            BY <2>1, <3>5
    <2> QED
        BY <2>2, <2>3
<1> QED
    BY <1>2

LEMMA ListedIs ==
    ASSUME NEW kind, NEW S, NEW items \in Seq(S)
    PROVE  \E f : ListsUpTo(f, kind, items, Len(items)) /\ Listed(kind, items) = f[Len(items)]
<1> DEFINE F == CHOOSE f : ListsUpTo(f, kind, items, Len(items))
<1>1. ListsUpTo(F, kind, items, Len(items))
    <2>1. Len(items) \in Nat
        BY LenProperties
    <2>2. \E f : ListsUpTo(f, kind, items, Len(items))
        BY <2>1, ListsExist
    <2> QED
        BY <2>2, Zenon
<1>2. Listed(kind, items) = F[Len(items)]
    BY Zenon DEF Listed, ListsUpTo
<1> QED
    BY <1>1, <1>2

\* Items that agree up to a point give the same list up to it.
LEMMA ListsAgree ==
    ASSUME NEW kind, NEW items, NEW others, NEW m \in Nat, NEW n \in Nat, m <= n,
           \A i \in 1 .. m : items[i] = others[i],
           NEW f, ListsUpTo(f, kind, items, m),
           NEW g, ListsUpTo(g, kind, others, n)
    PROVE  \A i \in 0 .. m : f[i] = g[i]
<1> DEFINE T == { i \in 0 .. m : f[i] # g[i] }
<1>1. ASSUME T # {}
      PROVE  FALSE
    <2>1. T \in SUBSET Nat
        OBVIOUS
    <2>2. PICK i \in T : \A k \in T : i <= k
        BY <1>1, <2>1, LeastNumber
    <2>3. i \in 0 .. m /\ i \in 0 .. n
        OBVIOUS
    <2>4. CASE i = 0
        <3>1. f[0] = <<>> /\ g[0] = <<>>
            BY <2>3, <2>4 DEF ListsUpTo
        <3> QED
            BY <2>2, <2>4, <3>1
    <2>5. CASE i # 0
        <3>1. i - 1 \in 0 .. m /\ i - 1 \notin T
            BY <2>2, <2>3, <2>5
        <3>2. f[i - 1] = g[i - 1] /\ items[i] = others[i]
            BY <2>3, <2>5, <3>1
        <3>3. f[i] = IF items[i].kind = kind /\ items[i].name # <<>>
                     THEN Append(f[i - 1], items[i]) ELSE f[i - 1]
            BY <2>3, <2>5 DEF ListsUpTo
        <3>4. g[i] = IF others[i].kind = kind /\ others[i].name # <<>>
                     THEN Append(g[i - 1], others[i]) ELSE g[i - 1]
            BY <2>3, <2>5 DEF ListsUpTo
        <3> QED
            BY <2>2, <3>2, <3>3, <3>4
    <2> QED
        BY <2>4, <2>5
<1> QED
    BY <1>1

LEMMA ListedNone ==
    ASSUME NEW kind
    PROVE  Listed(kind, <<>>) = <<>>
<1> DEFINE none == <<>>
<1>1. none \in Seq({}) /\ Len(none) = 0
    OBVIOUS
<1> HIDE DEF none
<1>2. PICK f : ListsUpTo(f, kind, none, 0) /\ Listed(kind, none) = f[0]
    BY <1>1, ListedIs
<1>3. f[0] = <<>>
    BY <1>2 DEF ListsUpTo
<1> QED
    BY <1>2, <1>3 DEF none

LEMMA FrontOf ==
    ASSUME NEW S, NEW items \in Seq(S), items # <<>>
    PROVE  /\ Len(items) \in Nat \ {0} /\ Front(items) \in Seq(S)
           /\ Len(Front(items)) = Len(items) - 1
           /\ \A i \in 1 .. Len(items) - 1 : Front(items)[i] = items[i]
<1> DEFINE n == Len(items)
<1>1. \A i \in 1 .. n - 1 : items[i] \in S
    OBVIOUS
<1>2. n \in Nat \ {0}
    BY EmptySeq
<1>3. /\ SubSeq(items, 1, n - 1) \in Seq(S)
      /\ Len(SubSeq(items, 1, n - 1)) = IF 1 <= n - 1 THEN n - 1 - 1 + 1 ELSE 0
      /\ \A i \in 1 .. n - 1 - 1 + 1 : SubSeq(items, 1, n - 1)[i] = items[1 + i - 1]
    <2> HIDE DEF n
    <2>1. 1 \in Int /\ n - 1 \in Int
        BY <1>2
    <2> QED
        BY <1>1, <2>1, SubSeqProperties
<1>4. Len(SubSeq(items, 1, n - 1)) = n - 1
    <2> HIDE DEF n
    <2> QED
        BY <1>2, <1>3
<1>5. \A i \in 1 .. n - 1 : SubSeq(items, 1, n - 1)[i] = items[i]
    <2> HIDE DEF n
    <2>1. \A i \in 1 .. n - 1 : i \in 1 .. n - 1 - 1 + 1 /\ 1 + i - 1 = i
        BY <1>2
    <2> QED
        BY <1>3, <2>1
<1> QED
    BY <1>2, <1>3, <1>4, <1>5 DEF Front

\* The last item comes at the end of the list, if it belongs there.
LEMMA ListedLast ==
    ASSUME NEW kind, NEW S, NEW items \in Seq(S), items # <<>>
    PROVE  Listed(kind, items) = Extended(Listed(kind, Front(items)), kind, Last(items))
<1> DEFINE n == Len(items)
<1>1. /\ n \in Nat \ {0} /\ Front(items) \in Seq(S) /\ Len(Front(items)) = n - 1
      /\ \A i \in 1 .. n - 1 : Front(items)[i] = items[i]
    BY FrontOf
<1>2. PICK f : ListsUpTo(f, kind, items, n) /\ Listed(kind, items) = f[n]
    BY ListedIs
<1>3. PICK g : ListsUpTo(g, kind, Front(items), n - 1) /\ Listed(kind, Front(items)) = g[n - 1]
    BY <1>1, ListedIs
<1>4. \A i \in 0 .. n - 1 : g[i] = f[i]
    <2> HIDE DEF n
    <2>1. n - 1 \in Nat /\ n - 1 <= n
        BY <1>1
    <2> QED
        <3> DEFINE front == Front(items)
                   m == n - 1
        <3>1. \A i \in 1 .. m : front[i] = items[i]
            BY <1>1
        <3>2. ListsUpTo(g, kind, front, m)
            BY <1>3
        <3>3. n \in Nat /\ m \in Nat /\ m <= n
            BY <1>1, <2>1
        <3> HIDE DEF front, m
        <3>4. \A i \in 0 .. m : g[i] = f[i]
            BY <1>2, <3>1, <3>2, <3>3, ListsAgree, SMTT(30)
        <3> QED
            BY <3>4 DEF m
<1>5. f[n] = Extended(f[n - 1], kind, items[n])
    <2> HIDE DEF n
    <2> QED
        <3>1. n \in 0 .. n /\ n # 0
            BY <1>1
        <3> QED
            BY <1>2, <3>1 DEF ListsUpTo, Extended
<1> QED
    <2>1. g[n - 1] = f[n - 1]
        <3> HIDE DEF n
        <3> QED
            BY <1>1, <1>4
    <2> QED
        BY <1>2, <1>3, <1>5, <2>1 DEF Last

(***************************************************************************)
(* Where in a reply we are                                                 *)
(***************************************************************************)
FieldNames == {"name", "value", "slot", "other", "core_client_release"} \cup AccountFields

Names == Parsers \cup FieldNames \cup {"active_task"}

Depth == Len(open)

InTask == Depth > 2 /\ open[3] = "active_task"

\* The open elements, from the root: an item in the state, a field or the
\* active task in the item, a field in the active task; or a field of an
\* account.
PathOK ==
    /\ open \in Seq(Names)
    /\ Depth <= 4
    /\ Depth > 0 => open[1] \in {"client_state", "account_out"}
    /\ Depth > 1 /\ open[1] = "client_state" => open[2] \in Kinds \cup {"core_client_release"}
    /\ Depth > 1 /\ open[1] = "account_out" => open[2] \in AccountFields
    /\ Depth > 2 => /\ open[1] = "client_state"
                    /\ open[2] \in Kinds
                    /\ open[3] \in {"name", "value", "other", "active_task"}
                    /\ InTask => open[2] = "result"
    /\ Depth > 3 => InTask /\ open[4] = "slot"

\* mIn says in which item we are.
FlagsOK ==
    /\ mIn \in [Kinds -> BOOLEAN]
    /\ \A k \in Kinds : mIn[k] <=> Depth > 1 /\ open[2] = k

\* We are in the root element `root', in an item of kind `kind' or in none,
\* in its active task or not, in the field `field' or in none.
At(root, kind, task, field) ==
    /\ open # <<>> /\ open[1] = root
    /\ \A k \in Kinds : mIn[k] <=> k = kind
    /\ InTask <=> task
    /\ IsField <=> field # "none"
    /\ field # "none" => Last(open) = field

AtEnd ==
    /\ open = <<>>
    /\ \A k \in Kinds : ~mIn[k]
    /\ ~InTask /\ ~IsField

LEMMA DepthPositive ==
    ASSUME PathOK, open # <<>>
    PROVE  Depth \in 1 .. 4 /\ Last(open) = open[Depth] /\ open[Depth] \in Names
<1>1. open \in Seq(Names) /\ Len(open) \in Nat \ {0} /\ Len(open) <= 4
    BY EmptySeq DEF PathOK, Depth
<1>2. open[Len(open)] \in Names
    BY <1>1
<1>3. Len(open) \in 1 .. 4
    <2> DEFINE n == Len(open)
    <2>1. n \in Nat \ {0} /\ n <= 4
        BY <1>1
    <2> HIDE DEF n
    <2>2. n \in 1 .. 4
        BY <2>1
    <2> QED
        BY <2>2 DEF n
<1> QED
    BY <1>2, <1>3 DEF Depth, Last

\* What the guards of the actions say of the place.
LEMMA InsideRoot ==
    ASSUME PathOK, FlagsOK, NEW root \in {"client_state", "account_out"}, Inside(root)
    PROVE  Depth = 1 /\ At(root, "none", FALSE, "none")
<1>1. open # <<>> /\ Depth \in 1 .. 4 /\ open[Depth] = root
    BY DepthPositive DEF Inside
<1>2. Depth = 1
    BY <1>1 DEF PathOK, InTask, Kinds, AccountFields
<1> QED
    BY <1>1, <1>2, DepthPositive DEF At, FlagsOK, IsField, InTask, Kinds, AccountFields

LEMMA InsideItem ==
    ASSUME PathOK, FlagsOK, NEW kind \in Kinds, Inside(kind)
    PROVE  Depth = 2 /\ open[2] = kind /\ At("client_state", kind, FALSE, "none")
<1>1. open # <<>> /\ Depth \in 1 .. 4 /\ open[Depth] = kind
    BY DepthPositive DEF Inside
<1>2. Depth = 2
    BY <1>1 DEF PathOK, InTask, Kinds
<1>3. open[1] = "client_state"
    BY <1>1, <1>2 DEF PathOK, Kinds, AccountFields
<1> QED
    BY <1>1, <1>2, <1>3, DepthPositive DEF At, FlagsOK, IsField, InTask, Kinds, AccountFields

LEMMA InsideTask ==
    ASSUME PathOK, FlagsOK, Inside("active_task")
    PROVE  Depth = 3 /\ At("client_state", "result", TRUE, "none")
<1>1. open # <<>> /\ Depth \in 1 .. 4 /\ open[Depth] = "active_task"
    BY DepthPositive DEF Inside
<1>2. Depth = 3
    BY <1>1 DEF PathOK, InTask, Kinds, AccountFields
<1>3. open[1] = "client_state" /\ open[2] = "result" /\ InTask
    BY <1>1, <1>2 DEF PathOK, InTask
<1> QED
    BY <1>1, <1>2, <1>3, DepthPositive DEF At, FlagsOK, IsField, InTask, Kinds, AccountFields

\* The four places a field can be in.
FieldPlace(root, kind, task, field) ==
    \/ /\ root = "client_state" /\ kind \in Kinds
       /\ task = FALSE /\ field \in {"name", "value", "other"}
    \/ root = "client_state" /\ kind = "result" /\ task = TRUE /\ field = "slot"
    \/ root = "client_state" /\ kind = "none" /\ task = FALSE /\ field = "core_client_release"
    \/ root = "account_out" /\ kind = "none" /\ task = FALSE /\ field \in AccountFields

\* n elements are open there, besides an item and an active task.
DepthAt(kind, task, n) ==
    /\ kind = "none" => Depth = n
    /\ kind # "none" /\ ~task => Depth = n + 1
    /\ kind # "none" /\ task => Depth = n + 2

Roots == {"client_state", "account_out"}
Places == Kinds \cup {"none"}

LEMMA InsideField ==
    ASSUME PathOK, FlagsOK, IsField
    PROVE  \E root \in Roots, kind \in Places, task \in BOOLEAN :
              /\ At(root, kind, task, Last(open))
              /\ FieldPlace(root, kind, task, Last(open))
              /\ DepthAt(kind, task, 2)
<1>1. open # <<>> /\ Depth \in 1 .. 4 /\ open[Depth] = Last(open) /\ open[Depth] \in FieldNames
    BY DepthPositive DEF IsField, FieldNames
<1>2. Last(open) # "none"
    BY <1>1 DEF FieldNames, AccountFields
<1>3. Depth # 1
    BY <1>1 DEF PathOK, FieldNames, AccountFields
<1>4. CASE Depth = 2 /\ open[1] = "client_state"
    <2>1. open[2] = "core_client_release"
        BY <1>1, <1>4 DEF PathOK, FieldNames, AccountFields, Kinds
    <2>2. At("client_state", "none", FALSE, Last(open))
        BY <1>1, <1>2, <1>4, <2>1 DEF At, FlagsOK, InTask, Kinds
    <2>3. FieldPlace("client_state", "none", FALSE, Last(open))
        BY <1>1, <1>4, <2>1 DEF FieldPlace
    <2>4. "client_state" \in Roots /\ "none" \in Places /\ FALSE \in BOOLEAN
        BY <2>1 DEF Roots, Places, Kinds
    <2>5. DepthAt("none", FALSE, 2)
        BY <1>4, <2>1 DEF DepthAt, Kinds
    <2> QED
        BY <2>2, <2>3, <2>4, <2>5
<1>5. CASE Depth = 2 /\ open[1] = "account_out"
    <2>1. open[2] \in AccountFields
        BY <1>1, <1>5 DEF PathOK
    <2>2. At("account_out", "none", FALSE, Last(open))
        BY <1>1, <1>2, <1>5, <2>1 DEF At, FlagsOK, InTask, Kinds, AccountFields
    <2>3. FieldPlace("account_out", "none", FALSE, Last(open))
        BY <1>1, <1>5, <2>1 DEF FieldPlace
    <2>4. "account_out" \in Roots /\ "none" \in Places /\ FALSE \in BOOLEAN
        BY <2>1 DEF Roots, Places, Kinds
    <2>5. DepthAt("none", FALSE, 2)
        BY <1>5, <2>1 DEF DepthAt, Kinds
    <2> QED
        BY <2>2, <2>3, <2>4, <2>5
<1>6. CASE Depth = 3
    <2>1. open[1] = "client_state" /\ open[2] \in Kinds /\ open[3] \in {"name", "value", "other"}
        BY <1>1, <1>6 DEF PathOK, FieldNames, AccountFields
    <2>2. At("client_state", open[2], FALSE, Last(open))
        BY <1>1, <1>2, <1>6, <2>1 DEF At, FlagsOK, InTask
    <2>3. FieldPlace("client_state", open[2], FALSE, Last(open))
        BY <1>1, <1>6, <2>1 DEF FieldPlace
    <2>4. "client_state" \in Roots /\ open[2] \in Places /\ FALSE \in BOOLEAN
        BY <2>1 DEF Roots, Places, Kinds
    <2>5. DepthAt(open[2], FALSE, 2)
        BY <1>6, <2>1 DEF DepthAt, Kinds
    <2> QED
        BY <2>2, <2>3, <2>4, <2>5
<1>7. CASE Depth = 4
    <2>1. open[1] = "client_state" /\ open[2] = "result" /\ InTask /\ open[4] = "slot"
        BY <1>1, <1>7 DEF PathOK
    <2>2. At("client_state", "result", TRUE, Last(open))
        BY <1>1, <1>2, <1>7, <2>1 DEF At, FlagsOK, Kinds
    <2>3. FieldPlace("client_state", "result", TRUE, Last(open))
        BY <1>1, <1>7, <2>1 DEF FieldPlace
    <2>4. "client_state" \in Roots /\ "result" \in Places /\ TRUE \in BOOLEAN
        BY <2>1 DEF Roots, Places, Kinds
    <2>5. DepthAt("result", TRUE, 2)
        BY <1>7, <2>1 DEF DepthAt, Kinds
    <2> QED
        BY <2>2, <2>3, <2>4, <2>5
<1>8. open[1] \in {"client_state", "account_out"}
    BY <1>1 DEF PathOK
<1> QED
    BY <1>1, <1>3, <1>4, <1>5, <1>6, <1>7, <1>8

(***************************************************************************)
(* How the actions move in a reply                                         *)
(***************************************************************************)

Opened(name) == open' = Append(open, name)

Pushed(name) ==
    /\ open # <<>>
    /\ Opened(name)
    /\ mIn' = [k \in Kinds |-> mIn[k] \/ k = name]

LEMMA PushedPath ==
    ASSUME PathOK, FlagsOK, NEW name \in Names, open # <<>>, Opened(name)
    PROVE  /\ open' \in Seq(Names) /\ Depth' = Depth + 1 /\ open' # <<>>
           /\ open'[1] = open[1]
           /\ Depth > 1 => open'[2] = open[2]
           /\ Depth > 2 => open'[3] = open[3]
           /\ \A n \in 1 .. 3 : Depth = n => Depth' = n + 1 /\ open'[n + 1] = name
           /\ Last(open)' = name
<1>1. open \in Seq(Names) /\ Len(open) \in 1 .. 4
    BY DepthPositive DEF PathOK, Depth
<1>2. /\ open' \in Seq(Names) /\ Len(open') = Len(open) + 1 /\ open' # <<>>
      /\ \A i \in 1 .. Len(open) : open'[i] = open[i]
      /\ open'[Len(open) + 1] = name
    BY <1>1, AppendProperties DEF Opened
<1>3. \A n \in 1 .. 3 : Len(open) = n => Len(open') = n + 1 /\ open'[n + 1] = name
    BY <1>2
<1> QED
    BY <1>1, <1>2, <1>3 DEF Depth, Last

LEMMA OpensItem ==
    ASSUME PathOK, FlagsOK, NEW kind \in Kinds, Inside("client_state"), Pushed(kind)
    PROVE  /\ PathOK' /\ FlagsOK'
           /\ At("client_state", kind, FALSE, "none")'
<1>1. Depth = 1 /\ At("client_state", "none", FALSE, "none")
    BY InsideRoot
<1>2. kind \in Names
    BY DEF Names, Parsers
<1>3. /\ open' \in Seq(Names) /\ Depth' = 2 /\ open' # <<>>
      /\ open'[1] = "client_state" /\ open'[2] = kind /\ Last(open)' = kind
    BY <1>1, <1>2, PushedPath DEF Pushed, At
<1>4. PathOK'
    BY <1>3 DEF PathOK, InTask, Kinds
<1>5. mIn' = [k \in Kinds |-> k = kind]
    BY <1>1, Zenon DEF Pushed, At, Kinds
<1>6. mIn' \in [Kinds -> BOOLEAN] /\ \A k \in Kinds : mIn'[k] <=> k = kind
    BY <1>5
<1>7. FlagsOK'
    BY <1>3, <1>6 DEF FlagsOK
<1> QED
    BY <1>3, <1>4, <1>6, <1>7 DEF At, InTask, IsField, Kinds, AccountFields

LEMMA OpensTask ==
    ASSUME PathOK, FlagsOK, Inside("result"), Pushed("active_task")
    PROVE  /\ PathOK' /\ FlagsOK'
           /\ At("client_state", "result", TRUE, "none")'
<1>1. Depth = 2 /\ open[2] = "result" /\ At("client_state", "result", FALSE, "none")
    BY InsideItem DEF Kinds
<1>2. "active_task" \in Names
    BY DEF Names
<1>3. /\ open' \in Seq(Names) /\ Depth' = 3 /\ open' # <<>>
      /\ open'[1] = "client_state" /\ open'[2] = "result" /\ open'[3] = "active_task"
      /\ Last(open)' = "active_task"
    BY <1>1, <1>2, PushedPath DEF Pushed, At
<1>4. PathOK'
    BY <1>3 DEF PathOK, InTask, Kinds
<1>5. \A k \in Kinds : k # "active_task"
    BY DEF Kinds
<1>6. mIn' \in [Kinds -> BOOLEAN] /\ \A k \in Kinds : mIn'[k] <=> k = "result"
    BY <1>1, <1>5 DEF Pushed, At, FlagsOK
<1>7. FlagsOK'
    BY <1>3, <1>6 DEF FlagsOK
<1> QED
    BY <1>3, <1>4, <1>6, <1>7 DEF At, InTask, IsField, AccountFields

\* A field is opened at the place it may come at.
LEMMA OpensField ==
    ASSUME PathOK, FlagsOK, NEW root \in Roots, NEW kind \in Places, NEW task \in BOOLEAN,
           NEW name, At(root, kind, task, "none"), FieldPlace(root, kind, task, name),
           DepthAt(kind, task, 1),
           Opened(name), mIn' = mIn
    PROVE  PathOK' /\ FlagsOK' /\ At(root, kind, task, name)'
<1>1. name \in FieldNames /\ name \in Names
    BY DEF FieldPlace, FieldNames, Names, AccountFields
<1>2. /\ open' \in Seq(Names) /\ Depth' = Depth + 1 /\ open' # <<>>
      /\ open'[1] = root
      /\ Depth > 1 => open'[2] = open[2]
      /\ Depth > 2 => open'[3] = open[3]
      /\ Depth = 1 => Depth' = 2 /\ open'[2] = name
      /\ Depth = 2 => Depth' = 3 /\ open'[3] = name
      /\ Depth = 3 => Depth' = 4 /\ open'[4] = name
      /\ Last(open)' = name
    <2>1. open # <<>> /\ open[1] = root
        BY DEF At
    <2>2. 1 \in 1 .. 3 /\ 2 \in 1 .. 3 /\ 3 \in 1 .. 3
        OBVIOUS
    <2> QED
        BY <1>1, <2>1, <2>2, PushedPath
<1>3. CASE kind = "none"
    <2>0. Depth = 1 /\ ~task
        BY <1>3 DEF FieldPlace, DepthAt, Kinds
    <2>1. Depth' = 2 /\ open'[2] = name
        BY <1>2, <2>0
    <2>2. PathOK' /\ ~InTask'
        BY <1>2, <1>3, <2>0, <2>1 DEF PathOK, InTask, FieldPlace, Kinds, AccountFields
    <2>3. FlagsOK'
        BY <1>2, <1>3, <2>0, <2>1 DEF FlagsOK, At, FieldPlace, Kinds, AccountFields
    <2> QED
        BY <1>1, <1>2, <1>3, <2>0, <2>1, <2>2, <2>3 DEF At, IsField, FieldNames, AccountFields
<1>4. CASE kind # "none" /\ ~task
    <2>0. Depth = 2
        BY <1>4 DEF DepthAt
    <2>1. Depth' = 3 /\ open'[2] = open[2] /\ open'[3] = name
        BY <1>2, <2>0
    <2>2. open[2] = kind /\ root = "client_state" /\ name \in {"name", "value", "other"}
        BY <1>4, <2>0 DEF At, FlagsOK, Places, FieldPlace
    <2>3. PathOK' /\ ~InTask'
        BY <1>2, <2>1, <2>2, <1>4 DEF PathOK, InTask, Places
    <2>4. FlagsOK'
        BY <1>2, <2>0, <2>1 DEF FlagsOK
    <2> QED
        BY <1>1, <1>2, <1>4, <2>2, <2>3, <2>4 DEF At, IsField, FieldNames
<1>5. CASE task
    <2>1. kind = "result" /\ name = "slot" /\ root = "client_state"
        BY <1>5 DEF FieldPlace
    <2>0. Depth = 3
        BY <1>5, <2>1 DEF DepthAt
    <2>2. Depth' = 4 /\ open'[2] = open[2] /\ open'[3] = open[3] /\ open'[4] = name
        BY <1>2, <2>0
    <2>3. open[2] = kind /\ open[3] = "active_task"
        BY <1>5, <2>0, <2>1 DEF At, FlagsOK, InTask, Kinds
    <2>4. PathOK' /\ InTask'
        BY <1>2, <2>1, <2>2, <2>3 DEF PathOK, InTask, Kinds
    <2>5. FlagsOK'
        BY <2>0, <2>2 DEF FlagsOK
    <2> QED
        BY <1>1, <1>2, <1>5, <2>1, <2>4, <2>5 DEF At, IsField, FieldNames
<1> QED
    BY <1>3, <1>4, <1>5

LEMMA PoppedPath ==
    ASSUME PathOK, open # <<>>, open' = Front(open)
    PROVE  /\ open' \in Seq(Names) /\ Depth' = Depth - 1
           /\ Depth > 1 => open' # <<>> /\ open'[1] = open[1]
           /\ Depth > 2 => open'[2] = open[2]
           /\ Depth > 3 => open'[3] = open[3]
           /\ Depth = 1 => open' = <<>>
<1>1. open \in Seq(Names) /\ Len(open) \in 1 .. 4
    BY DepthPositive DEF PathOK, Depth
<1>2. \A i \in 1 .. Len(open) - 1 : open[i] \in Names
    BY <1>1
<1>3. /\ open' \in Seq(Names) /\ Len(open') = Len(open) - 1
      /\ \A i \in 1 .. Len(open) - 1 : open'[i] = open[i]
    BY <1>1, FrontOf
<1>4. Len(open) > 1 => open' # <<>>
    BY <1>1, <1>3
<1>5. Len(open) = 1 => open' = <<>>
    BY <1>1, <1>3, EmptySeq
<1> QED
    BY <1>1, <1>3, <1>4, <1>5 DEF Depth

\* A closed field leaves us where it was opened.
LEMMA ClosesField ==
    ASSUME PathOK, FlagsOK, NEW root \in Roots, NEW kind \in Places, NEW task \in BOOLEAN,
           NEW name, At(root, kind, task, name), FieldPlace(root, kind, task, name),
           DepthAt(kind, task, 2),
           open' = Front(open), mIn' = mIn
    PROVE  PathOK' /\ FlagsOK' /\ At(root, kind, task, "none")'
<1>1. open # <<>> /\ open[1] = root
    BY DEF At
<1>2. /\ open' \in Seq(Names) /\ Depth' = Depth - 1
      /\ Depth > 1 => open' # <<>> /\ open'[1] = root
      /\ Depth > 2 => open'[2] = open[2]
      /\ Depth > 3 => open'[3] = open[3]
    BY <1>1, PoppedPath
<1>3. \A k \in Kinds : mIn'[k] <=> k = kind
    BY DEF At
<1>4. CASE kind = "none"
    <2>0. Depth = 2 /\ ~task
        BY <1>4 DEF FieldPlace, DepthAt, Kinds
    <2>1. Depth' = 1
        BY <1>2, <2>0
    <2>2. PathOK' /\ ~InTask'
        BY <1>2, <2>0, <2>1 DEF PathOK, InTask, Roots
    <2>3. FlagsOK'
        BY <1>3, <1>4, <2>1 DEF FlagsOK, Kinds
    <2>4. Last(open)' = root
        <3>1. Len(open') = 1 /\ open'[1] = root
            BY <1>2, <2>0, <2>1 DEF Depth
        <3> QED
            BY <3>1 DEF Last
    <2>5. ~IsField'
        BY <2>4 DEF IsField, AccountFields, Roots
    <2> QED
        BY <1>2, <1>3, <2>0, <2>2, <2>3, <2>5 DEF At
<1>5. CASE kind # "none" /\ ~task
    <2>0. Depth = 3
        BY <1>5 DEF DepthAt
    <2>1. Depth' = 2 /\ open'[2] = open[2]
        BY <1>2, <2>0
    <2>2. open[2] = kind /\ root = "client_state" /\ kind \in Kinds
        BY <1>5, <2>0 DEF At, FlagsOK, Places, FieldPlace
    <2>3. PathOK' /\ ~InTask'
        BY <1>2, <2>0, <2>1, <2>2 DEF PathOK, InTask
    <2>4. FlagsOK'
        BY <2>0, <2>1 DEF FlagsOK
    <2>5. Last(open)' = kind
        BY <2>1, <2>2 DEF Last, Depth
    <2>6. ~IsField'
        BY <2>2, <2>5 DEF IsField, AccountFields, Kinds
    <2> QED
        BY <1>2, <1>3, <1>5, <2>0, <2>3, <2>4, <2>6 DEF At
<1>6. CASE task
    <2>1. kind = "result" /\ name = "slot" /\ root = "client_state"
        BY <1>6 DEF FieldPlace
    <2>0. Depth = 4
        BY <1>6, <2>1 DEF DepthAt
    <2>2. Depth' = 3 /\ open'[2] = open[2] /\ open'[3] = open[3]
        BY <1>2, <2>0
    <2>3. open[2] = kind /\ open[3] = "active_task"
        BY <1>6, <2>0, <2>1 DEF At, FlagsOK, InTask, Kinds
    <2>4. PathOK' /\ InTask'
        BY <1>2, <2>0, <2>1, <2>2, <2>3 DEF PathOK, InTask, Kinds
    <2>5. FlagsOK'
        BY <2>0, <2>2 DEF FlagsOK
    <2>6. Last(open)' = "active_task"
        BY <2>2, <2>3 DEF Last, Depth
    <2>7. ~IsField'
        BY <2>6 DEF IsField, AccountFields
    <2> QED
        BY <1>2, <1>3, <1>6, <2>0, <2>4, <2>5, <2>7 DEF At
<1> QED
    BY <1>4, <1>5, <1>6

LEMMA ClosesItem ==
    ASSUME PathOK, FlagsOK, NEW kind \in Kinds, Inside(kind), open' = Front(open),
           mIn' = [k \in Kinds |-> mIn[k] /\ k # kind]
    PROVE  /\ PathOK' /\ FlagsOK'
           /\ At("client_state", "none", FALSE, "none")'
<1>1. Depth = 2 /\ open # <<>> /\ At("client_state", kind, FALSE, "none")
    BY InsideItem DEF At
<1>2. open' \in Seq(Names) /\ Depth' = 1 /\ open' # <<>> /\ open'[1] = "client_state"
    BY <1>1, PoppedPath DEF At
<1>3. PathOK' /\ ~InTask'
    BY <1>2 DEF PathOK, InTask
<1>4. mIn' = [k \in Kinds |-> FALSE]
    BY <1>1, Zenon DEF At
<1>5. mIn' \in [Kinds -> BOOLEAN] /\ \A k \in Kinds : ~mIn'[k] /\ k # "none"
    BY <1>4 DEF Kinds
<1>6. FlagsOK'
    BY <1>2, <1>5 DEF FlagsOK
<1>7. Last(open)' = "client_state"
    BY <1>2 DEF Last, Depth
<1>8. ~IsField'
    BY <1>7 DEF IsField, AccountFields
<1> QED
    BY <1>2, <1>3, <1>5, <1>6, <1>8 DEF At

LEMMA ClosesTask ==
    ASSUME PathOK, FlagsOK, Inside("active_task"), open' = Front(open), mIn' = mIn
    PROVE  /\ PathOK' /\ FlagsOK'
           /\ At("client_state", "result", FALSE, "none")'
<1>1. Depth = 3 /\ open # <<>> /\ At("client_state", "result", TRUE, "none")
    BY InsideTask DEF At
<1>2. /\ open' \in Seq(Names) /\ Depth' = 2 /\ open' # <<>> /\ open'[1] = "client_state"
      /\ open'[2] = open[2]
    BY <1>1, PoppedPath DEF At
<1>3. open[2] = "result"
    BY <1>1 DEF At, FlagsOK, Kinds
<1>4. PathOK' /\ ~InTask'
    BY <1>2, <1>3 DEF PathOK, InTask, Kinds
<1>5. FlagsOK'
    BY <1>1, <1>2 DEF FlagsOK
<1>6. Last(open)' = "result"
    BY <1>2, <1>3 DEF Last, Depth
<1>7. ~IsField'
    BY <1>6 DEF IsField, AccountFields
<1> QED
    BY <1>1, <1>2, <1>4, <1>5, <1>7 DEF At

LEMMA ClosesRoot ==
    ASSUME PathOK, FlagsOK, NEW root \in Roots, Inside(root), open' = Front(open), mIn' = mIn
    PROVE  PathOK' /\ FlagsOK' /\ AtEnd'
<1>1. Depth = 1 /\ open # <<>> /\ At(root, "none", FALSE, "none")
    BY InsideRoot DEF At, Roots
<1>2. open' \in Seq(Names) /\ Depth' = 0 /\ open' = <<>>
    BY <1>1, PoppedPath
<1>3. PathOK' /\ ~InTask' /\ ~IsField'
    BY <1>2 DEF PathOK, InTask, IsField
<1>4. FlagsOK' /\ \A k \in Kinds : ~mIn'[k]
    BY <1>1, <1>2 DEF FlagsOK, At, Kinds
<1> QED
    BY <1>2, <1>3, <1>4 DEF AtEnd

(***************************************************************************)
(* What the handlers do to a parser                                        *)
(***************************************************************************)
Shape(r) ==
    r = [mElementStarted |-> r.mElementStarted, mCurrentElement |-> r.mCurrentElement,
         mInActiveTask |-> r.mInActiveTask, item |-> r.item, list |-> r.list]

Item(kind) ==
    [kind : {kind}, name : Texts, value : Texts, active : BOOLEAN, slot : Texts]

Account == [kind : {"account"}, error_num : Texts, error_msg : Texts,
            authenticator : Texts]

ItemOf(p) == {r \in Item(p) : p \in Kinds} \cup {r \in Account : p = "account_out"}

TypedParser(p, r) ==
    /\ Shape(r)
    /\ r.mElementStarted \in BOOLEAN
    /\ r.mCurrentElement \in Texts
    /\ r.mInActiveTask \in BOOLEAN
    /\ r.item = NoItem \/ r.item \in ItemOf(p)

\* An item is not null.
LEMMA ItemIsThere ==
    ASSUME NEW p, NEW item \in ItemOf(p)
    PROVE  item # NoItem
<1>1. CASE p \in Kinds /\ item \in Item(p)
    <2>1. item.kind = p /\ p # "null"
        BY <1>1 DEF Item, Kinds
    <2> QED
        BY <2>1 DEF NoItem
<1>2. CASE item \in Account
    <2>1. item.kind = "account"
        BY <1>2 DEF Account
    <2> QED
        BY <2>1 DEF NoItem
<1> QED
    BY <1>1, <1>2 DEF ItemOf

LEMMA NewItemTyped ==
    ASSUME NEW kind \in Kinds
    PROVE  NewItem(kind) \in Item(kind) /\ NewItem(kind) \in ItemOf(kind)
<1>1. NewItem(kind) \in Item(kind)
    BY NoText DEF NewItem, Item
<1> QED
    BY <1>1 DEF ItemOf

LEMMA Collecting ==
    ASSUME NEW r, Shape(r)
    PROVE  /\ Shape(CollectText(r))
           /\ CollectText(r).mElementStarted
           /\ CollectText(r).mCurrentElement = <<>>
           /\ CollectText(r).mInActiveTask = r.mInActiveTask
           /\ CollectText(r).item = r.item
           /\ CollectText(r).list = r.list
<1> DEFINE none == <<>>
<1>1. CollectText(r) = [r EXCEPT !.mElementStarted = TRUE, !.mCurrentElement = none]
    BY DEF CollectText
<1> HIDE DEF none
<1>2. /\ Shape(CollectText(r))
      /\ CollectText(r).mElementStarted
      /\ CollectText(r).mCurrentElement = none
      /\ CollectText(r).mInActiveTask = r.mInActiveTask
      /\ CollectText(r).item = r.item
      /\ CollectText(r).list = r.list
    BY <1>1 DEF Shape
<1> QED
    BY <1>2 DEF none

LEMMA Reading ==
    ASSUME NEW r, Shape(r), NEW ch
    PROVE  /\ Shape(Characters(r, ch))
           /\ Characters(r, ch).mElementStarted = r.mElementStarted
           /\ Characters(r, ch).mInActiveTask = r.mInActiveTask
           /\ Characters(r, ch).item = r.item
           /\ Characters(r, ch).list = r.list
           /\ Characters(r, ch).mCurrentElement =
                IF ~r.mElementStarted THEN r.mCurrentElement
                ELSE IF r.mCurrentElement = <<>> THEN TrimStart(ch)
                     ELSE r.mCurrentElement \o ch
<1>1. CASE ~r.mElementStarted
    BY <1>1 DEF Characters
<1>2. CASE r.mElementStarted
    BY <1>2 DEF Characters, Shape
<1> QED
    BY <1>1, <1>2

\* The fields a parser takes into its item.
IsTaken(r, name) == name \in IF r.mInActiveTask THEN {"slot"} ELSE {"name", "value"}

\* The item of a parser after the closing tag of a field.
ReadInto(r, name) ==
    CASE name = "active_task" -> [r.item EXCEPT !.active = TRUE]
      [] name # "active_task" /\ IsTaken(r, name) ->
           [r.item EXCEPT ![name] = TrimEnd(r.mCurrentElement)]
      [] OTHER -> r.item

LEMMA ClosingItem ==
    ASSUME NEW r, Shape(r), r.item # NoItem, NEW kind
    PROVE  /\ Shape(SubEnd(kind, r, kind))
           /\ SubEnd(kind, r, kind).mElementStarted = FALSE
           /\ SubEnd(kind, r, kind).mCurrentElement = r.mCurrentElement
           /\ SubEnd(kind, r, kind).mInActiveTask = r.mInActiveTask
           /\ SubEnd(kind, r, kind).item = NoItem
           /\ SubEnd(kind, r, kind).list =
                IF r.item.name = <<>> THEN r.list ELSE Append(r.list, r.item)
<1> DEFINE list == IF r.item.name = <<>> THEN r.list ELSE Append(r.list, r.item)
<1>1. SubEnd(kind, r, kind) = [CloseItem(r) EXCEPT !.mElementStarted = FALSE]
    BY DEF SubEnd
<1>2. CloseItem(r) = [r EXCEPT !.item = NoItem, !.list = list]
    BY DEF CloseItem, Shape
<1> HIDE DEF list
<1>3. /\ Shape(SubEnd(kind, r, kind))
      /\ SubEnd(kind, r, kind).mElementStarted = FALSE
      /\ SubEnd(kind, r, kind).mCurrentElement = r.mCurrentElement
      /\ SubEnd(kind, r, kind).mInActiveTask = r.mInActiveTask
      /\ SubEnd(kind, r, kind).item = NoItem
      /\ SubEnd(kind, r, kind).list = list
    BY <1>1, <1>2 DEF Shape
<1> QED
    BY <1>3 DEF list

LEMMA ClosingNothing ==
    ASSUME NEW r, Shape(r), r.item = NoItem, NEW kind, NEW name
    PROVE  /\ Shape(SubEnd(kind, r, name))
           /\ SubEnd(kind, r, name).mElementStarted = FALSE
           /\ SubEnd(kind, r, name).mCurrentElement = r.mCurrentElement
           /\ SubEnd(kind, r, name).mInActiveTask = r.mInActiveTask
           /\ SubEnd(kind, r, name).item = NoItem
           /\ SubEnd(kind, r, name).list = r.list
<1>1. SubEnd(kind, r, name) = [r EXCEPT !.mElementStarted = FALSE]
    BY DEF SubEnd, Shape
<1> QED
    BY <1>1 DEF Shape

LEMMA ClosingField ==
    ASSUME NEW r, Shape(r), r.item # NoItem, NEW kind, NEW name, name # kind
    PROVE  /\ Shape(SubEnd(kind, r, name))
           /\ SubEnd(kind, r, name).mElementStarted \in {FALSE}
           /\ SubEnd(kind, r, name).mCurrentElement = TrimEnd(r.mCurrentElement)
           /\ SubEnd(kind, r, name).mInActiveTask = (r.mInActiveTask /\ name # "active_task")
           /\ SubEnd(kind, r, name).item = ReadInto(r, name)
           /\ SubEnd(kind, r, name).list = r.list
<1> DEFINE content == TrimEnd(r.mCurrentElement)
           item == ReadInto(r, name)
           task == r.mInActiveTask /\ name # "active_task"
<1>1. SubEnd(kind, r, name) = [Decode(r, name) EXCEPT !.mElementStarted = FALSE]
    BY DEF SubEnd
<1>2. Decode(r, name) = [r EXCEPT !.item = item, !.mCurrentElement = content,
                                  !.mInActiveTask = task]
    <2>1. Decode(r, name).item = item
        BY DEF Decode, ReadInto, IsTaken, Shape
    <2> QED
        BY <2>1 DEF Decode, Shape
<1> HIDE DEF content, item, task
<1>3. /\ Shape(SubEnd(kind, r, name))
      /\ SubEnd(kind, r, name).mElementStarted \in {FALSE}
      /\ SubEnd(kind, r, name).mCurrentElement = content
      /\ SubEnd(kind, r, name).mInActiveTask = task
      /\ SubEnd(kind, r, name).item = item
      /\ SubEnd(kind, r, name).list = r.list
    BY <1>1, <1>2 DEF Shape
<1> QED
    BY <1>3 DEF content, item, task

LEMMA ReleaseEnding ==
    ASSUME NEW r, Shape(r), NEW name
    PROVE  /\ Shape(ReleaseEnd(r, name))
           /\ ReleaseEnd(r, name).mInActiveTask = r.mInActiveTask
           /\ ReleaseEnd(r, name).item = r.item
           /\ ReleaseEnd(r, name).mCurrentElement =
                IF r.mElementStarted THEN TrimEnd(r.mCurrentElement) ELSE r.mCurrentElement
           /\ r.mElementStarted \in BOOLEAN =>
                ReleaseEnd(r, name).mElementStarted \in BOOLEAN
           /\ ReleaseEnd(r, name).mElementStarted <=>
                /\ r.mElementStarted /\ name = "core_client_release"
                /\ TrimEnd(r.mCurrentElement) = <<>>
           /\ ReleaseEnd(r, name).list =
                IF r.mElementStarted /\ name = "core_client_release"
                   /\ TrimEnd(r.mCurrentElement) # <<>>
                THEN << TrimEnd(r.mCurrentElement) >> ELSE r.list
<1> DEFINE content == TrimEnd(r.mCurrentElement)
           none == <<>>
           one == << content >>
<1>1. ReleaseEnd(r, name) =
         IF ~r.mElementStarted THEN r
         ELSE IF name # "core_client_release"
              THEN [r EXCEPT !.mCurrentElement = content, !.mElementStarted = FALSE]
              ELSE IF content = none THEN [r EXCEPT !.mCurrentElement = content]
              ELSE [r EXCEPT !.mCurrentElement = content, !.mElementStarted = FALSE,
                             !.list = one]
    BY DEF ReleaseEnd
<1> HIDE DEF content, none, one
<1>2. CASE ~r.mElementStarted
    <2>1. ReleaseEnd(r, name) = r
        BY <1>1, <1>2
    <2> QED
        BY <1>2, <2>1 DEF content, none, one
<1>3. CASE r.mElementStarted /\ name # "core_client_release"
    <2>1. ReleaseEnd(r, name) = [r EXCEPT !.mCurrentElement = content, !.mElementStarted = FALSE]
        BY <1>1, <1>3
    <2>2. /\ Shape(ReleaseEnd(r, name))
          /\ ReleaseEnd(r, name).mInActiveTask = r.mInActiveTask
          /\ ReleaseEnd(r, name).item = r.item
          /\ ReleaseEnd(r, name).mCurrentElement = content
          /\ ReleaseEnd(r, name).mElementStarted = FALSE
          /\ ReleaseEnd(r, name).list = r.list
        BY <2>1 DEF Shape
    <2> QED
        BY <1>3, <2>2 DEF content
<1>4. CASE r.mElementStarted /\ name = "core_client_release" /\ content = none
    <2>1. ReleaseEnd(r, name) = [r EXCEPT !.mCurrentElement = content]
        BY <1>1, <1>4
    <2>2. /\ Shape(ReleaseEnd(r, name))
          /\ ReleaseEnd(r, name).mInActiveTask = r.mInActiveTask
          /\ ReleaseEnd(r, name).item = r.item
          /\ ReleaseEnd(r, name).mCurrentElement = content
          /\ ReleaseEnd(r, name).mElementStarted = r.mElementStarted
          /\ ReleaseEnd(r, name).list = r.list
        BY <2>1 DEF Shape
    <2> QED
        BY <1>4, <2>2 DEF content, none
<1>5. CASE r.mElementStarted /\ name = "core_client_release" /\ content # none
    <2>1. ReleaseEnd(r, name) =
             [r EXCEPT !.mCurrentElement = content, !.mElementStarted = FALSE, !.list = one]
        BY <1>1, <1>5
    <2>2. /\ Shape(ReleaseEnd(r, name))
          /\ ReleaseEnd(r, name).mInActiveTask = r.mInActiveTask
          /\ ReleaseEnd(r, name).item = r.item
          /\ ReleaseEnd(r, name).mCurrentElement = content
          /\ ReleaseEnd(r, name).mElementStarted = FALSE
          /\ ReleaseEnd(r, name).list = one
        BY <2>1 DEF Shape
    <2> QED
        BY <1>5, <2>2 DEF content, none, one
<1> QED
    BY <1>2, <1>3, <1>4, <1>5

LEMMA AccountOpening ==
    ASSUME NEW r, Shape(r), NEW name \in AccountFields
    PROVE  /\ Shape(AccountStart(r, name))
           /\ AccountStart(r, name).mElementStarted = r.mElementStarted
           /\ AccountStart(r, name).mCurrentElement = r.mCurrentElement
           /\ AccountStart(r, name).mInActiveTask = r.mInActiveTask
           /\ AccountStart(r, name).item = IF r.item = NoItem THEN NewAccount ELSE r.item
           /\ AccountStart(r, name).list = r.list
BY DEF AccountStart, Shape

LEMMA AccountClosing ==
    ASSUME NEW r, Shape(r), NEW name
    PROVE  /\ Shape(AccountEnd(r, name))
           /\ AccountEnd(r, name).mElementStarted = FALSE
           /\ AccountEnd(r, name).mCurrentElement =
                IF r.item = NoItem THEN r.mCurrentElement ELSE TrimEnd(r.mCurrentElement)
           /\ AccountEnd(r, name).mInActiveTask = r.mInActiveTask
           /\ AccountEnd(r, name).item =
                IF r.item # NoItem /\ IsDecoded(name, TrimEnd(r.mCurrentElement))
                THEN [r.item EXCEPT ![name] = TrimEnd(r.mCurrentElement)]
                ELSE r.item
           /\ AccountEnd(r, name).list = r.list
<1> DEFINE content == TrimEnd(r.mCurrentElement)
           item == IF IsDecoded(name, content) THEN [r.item EXCEPT ![name] = content]
                   ELSE r.item
<1>1. AccountEnd(r, name) =
         IF r.item = NoItem THEN [r EXCEPT !.mElementStarted = FALSE]
         ELSE [r EXCEPT !.item = item, !.mCurrentElement = content, !.mElementStarted = FALSE]
    BY DEF AccountEnd
<1>2. CASE r.item = NoItem
    <2>1. AccountEnd(r, name) = [r EXCEPT !.mElementStarted = FALSE]
        BY <1>1, <1>2
    <2> QED
        BY <1>2, <2>1 DEF Shape
<1>3. CASE r.item # NoItem
    <2> HIDE DEF content, item
    <2>1. AccountEnd(r, name) =
             [r EXCEPT !.item = item, !.mCurrentElement = content, !.mElementStarted = FALSE]
        BY <1>1, <1>3
    <2>2. /\ Shape(AccountEnd(r, name))
          /\ AccountEnd(r, name).mElementStarted = FALSE
          /\ AccountEnd(r, name).mCurrentElement = content
          /\ AccountEnd(r, name).mInActiveTask = r.mInActiveTask
          /\ AccountEnd(r, name).item = item
          /\ AccountEnd(r, name).list = r.list
        BY <2>1 DEF Shape
    <2> QED
        BY <1>3, <2>2 DEF content, item
<1> QED
    BY <1>2, <1>3

\* The opening tag of an item makes a new one, that of the active task sets a
\* flag, any other starts a text, but for an application version.
LEMMA SubOpening ==
    ASSUME NEW kind \in Kinds, NEW r, Shape(r), NEW name
    PROVE  /\ Shape(SubStart(kind, r, name))
           /\ SubStart(kind, r, name).list = r.list
           /\ name = kind =>
                /\ SubStart(kind, r, name).item = NewItem(kind)
                /\ SubStart(kind, r, name).mElementStarted = r.mElementStarted
                /\ SubStart(kind, r, name).mCurrentElement = r.mCurrentElement
                /\ SubStart(kind, r, name).mInActiveTask = r.mInActiveTask
           /\ name # kind /\ kind = "app_version" => SubStart(kind, r, name) = r
           /\ name # kind /\ kind = "result" /\ name = "active_task" =>
                /\ SubStart(kind, r, name).item = r.item
                /\ SubStart(kind, r, name).mElementStarted = r.mElementStarted
                /\ SubStart(kind, r, name).mCurrentElement = r.mCurrentElement
                /\ SubStart(kind, r, name).mInActiveTask
           /\ name # kind /\ kind # "app_version" /\ name # "active_task" =>
                SubStart(kind, r, name) = CollectText(r)
           /\ name # kind /\ kind \notin {"app_version", "result"} =>
                SubStart(kind, r, name) = CollectText(r)
<1>1. CASE name = kind
    <2>1. SubStart(kind, r, name) = [r EXCEPT !.item = NewItem(kind)]
        BY <1>1 DEF SubStart, Kinds
    <2> QED
        BY <1>1, <2>1 DEF Shape
<1>2. CASE name # kind /\ kind = "app_version"
    <2>1. SubStart(kind, r, name) = r
        BY <1>2 DEF SubStart
    <2> QED
        BY <1>2, <2>1
<1>3. CASE name # kind /\ kind = "result" /\ name = "active_task"
    <2>1. SubStart(kind, r, name) = [r EXCEPT !.mInActiveTask = TRUE]
        BY <1>3 DEF SubStart
    <2> QED
        BY <1>3, <2>1 DEF Shape
<1>4. CASE name # kind /\ kind # "app_version" /\ (kind = "result" => name # "active_task")
    <2>1. SubStart(kind, r, name) = CollectText(r)
        BY <1>4 DEF SubStart
    <2> QED
        BY <1>4, <2>1, Collecting
<1> QED
    BY <1>1, <1>2, <1>3, <1>4

LEMMA ReadIntoTyped ==
    ASSUME NEW p \in Kinds, NEW r, r.item \in Item(p), TrimEnd(r.mCurrentElement) \in Texts,
           NEW name
    PROVE  ReadInto(r, name) \in Item(p)
<1>1. CASE name = "active_task"
    BY <1>1 DEF ReadInto, Item
<1>2. CASE name # "active_task" /\ IsTaken(r, name)
    <2>1. ReadInto(r, name) = [r.item EXCEPT ![name] = TrimEnd(r.mCurrentElement)]
        BY <1>2 DEF ReadInto
    <2>2. name \in {"name", "value", "slot"}
        BY <1>2 DEF IsTaken
    <2> QED
        BY <2>1, <2>2 DEF Item
<1>3. CASE name # "active_task" /\ ~IsTaken(r, name)
    BY <1>3 DEF ReadInto
<1> QED
    BY <1>1, <1>2, <1>3

LEMMA StartTyped ==
    ASSUME NEW p \in Kinds, NEW r, TypedParser(p, r), NEW name
    PROVE  TypedParser(p, SubStart(p, r, name))
<1>1. Shape(r)
    BY DEF TypedParser
<1>2. CASE name = p
    BY <1>1, <1>2, SubOpening, NewItemTyped DEF TypedParser
<1>3. CASE name # p /\ p = "app_version"
    BY <1>1, <1>3, SubOpening
<1>4. CASE name # p /\ p = "result" /\ name = "active_task"
    <2>1. SubStart(p, r, name) = [r EXCEPT !.mInActiveTask = TRUE]
        BY <1>4 DEF SubStart
    <2>2. SubStart(p, r, name).mInActiveTask = TRUE
        BY <1>1, <2>1 DEF Shape
    <2> DEFINE s == SubStart(p, r, name)
    <2>3. /\ Shape(s) /\ s.item = r.item
          /\ s.mElementStarted = r.mElementStarted /\ s.mCurrentElement = r.mCurrentElement
        BY <1>1, <1>4, SubOpening
    <2>4. s.mElementStarted \in BOOLEAN /\ s.mCurrentElement \in Texts
        BY <2>3 DEF TypedParser
    <2>5. s.item = NoItem \/ s.item \in ItemOf(p)
        BY <2>3 DEF TypedParser
    <2>6. s.mInActiveTask \in BOOLEAN
        BY <2>2
    <2> HIDE DEF s
    <2>7. TypedParser(p, s)
        BY <2>3, <2>4, <2>5, <2>6 DEF TypedParser
    <2> QED
        BY <2>7 DEF s
<1>5. CASE name # p /\ p # "app_version" /\ (p = "result" => name # "active_task")
    <2>1. SubStart(p, r, name) = CollectText(r)
        BY <1>1, <1>5, SubOpening
    <2>2. CollectText(r).mElementStarted = TRUE
        BY <1>1 DEF CollectText, Shape
    <2> QED
        BY <1>1, <2>1, <2>2, Collecting, NoText DEF TypedParser
<1> QED
    BY <1>2, <1>3, <1>4, <1>5

LEMMA CollectTyped ==
    ASSUME NEW p, NEW r, TypedParser(p, r)
    PROVE  TypedParser(p, CollectText(r))
<1>1. Shape(r)
    BY DEF TypedParser
<1>2. CollectText(r).mElementStarted = TRUE
    BY <1>1 DEF CollectText, Shape
<1> QED
    BY <1>1, <1>2, Collecting, NoText DEF TypedParser

LEMMA EndTyped ==
    ASSUME NEW p \in Kinds, NEW r, TypedParser(p, r), NEW name
    PROVE  TypedParser(p, SubEnd(p, r, name))
<1>1. Shape(r) /\ TrimEnd(r.mCurrentElement) \in Texts
    BY TrimEndTyped DEF TypedParser
<1> DEFINE s == SubEnd(p, r, name)
<1>2. CASE r.item = NoItem
    <2>1. /\ Shape(s) /\ s.item = NoItem /\ s.mElementStarted \in BOOLEAN
          /\ s.mCurrentElement = r.mCurrentElement /\ s.mInActiveTask = r.mInActiveTask
        <3>1. s = [r EXCEPT !.mElementStarted = FALSE]
            BY <1>1, <1>2 DEF SubEnd
        <3> HIDE DEF s
        <3> QED
            BY <1>1, <1>2, <3>1 DEF Shape
    <2>2. r.mCurrentElement \in Texts /\ r.mInActiveTask \in BOOLEAN
        BY DEF TypedParser
    <2> HIDE DEF s
    <2>3. s.mElementStarted \in BOOLEAN /\ s.mInActiveTask \in BOOLEAN
        BY <2>1, <2>2
    <2>4. TypedParser(p, s)
        BY <2>1, <2>2, <2>3 DEF TypedParser
    <2> QED
        BY <2>4 DEF s
<1>3. CASE r.item # NoItem /\ name = p
    BY <1>1, <1>3, ClosingItem DEF TypedParser
<1>4. CASE r.item # NoItem /\ name # p
    <2>1. r.item \in Item(p)
        BY <1>4 DEF TypedParser, ItemOf, Kinds
    <2>2. ReadInto(r, name) \in ItemOf(p)
        BY <1>1, <2>1, ReadIntoTyped DEF ItemOf
    <2>3. (r.mInActiveTask /\ name # "active_task") \in BOOLEAN
        OBVIOUS
    <2>4. s.mElementStarted \in {FALSE}
        BY <1>1, <1>4, ClosingField
    <2>5. Shape(s)
        BY <1>1, <1>4, ClosingField
    <2>6. s.mInActiveTask = (r.mInActiveTask /\ name # "active_task")
        BY <1>1, <1>4, ClosingField
    <2>7. s.mCurrentElement = TrimEnd(r.mCurrentElement)
        BY <1>1, <1>4, ClosingField
    <2>8. s.item = ReadInto(r, name)
        BY <1>1, <1>4, ClosingField
    <2>9. s.mElementStarted \in BOOLEAN /\ s.mInActiveTask \in BOOLEAN
        BY <2>3, <2>4, <2>6
    <2>10. s.mCurrentElement \in Texts /\ s.item \in ItemOf(p)
        BY <1>1, <2>2, <2>7, <2>8
    <2> HIDE DEF s
    <2>11. TypedParser(p, s)
        BY <2>5, <2>9, <2>10 DEF TypedParser
    <2> QED
        BY <2>11 DEF s
<1> QED
    BY <1>2, <1>3, <1>4

LEMMA ReleaseTyped ==
    ASSUME NEW p, NEW r, TypedParser(p, r), NEW name
    PROVE  TypedParser(p, ReleaseEnd(r, name))
<1>1. Shape(r) /\ TrimEnd(r.mCurrentElement) \in Texts
    BY TrimEndTyped DEF TypedParser
<1> QED
    BY <1>1, ReleaseEnding DEF TypedParser

LEMMA AccountTyped ==
    ASSUME NEW r, TypedParser("account_out", r), NEW name
    PROVE  /\ name \in AccountFields => TypedParser("account_out", AccountStart(r, name))
           /\ TypedParser("account_out", AccountEnd(r, name))
<1>1. Shape(r) /\ TrimEnd(r.mCurrentElement) \in Texts
    BY TrimEndTyped DEF TypedParser
<1>2. NewAccount \in ItemOf("account_out")
    BY NoText DEF NewAccount, ItemOf, Account
<1>3. ASSUME name \in AccountFields
      PROVE  TypedParser("account_out", AccountStart(r, name))
    BY <1>1, <1>2, <1>3, AccountOpening DEF TypedParser
<1> DEFINE content == TrimEnd(r.mCurrentElement)
<1>4. CASE r.item # NoItem /\ IsDecoded(name, content)
    <2>1. r.item \in Account
        BY <1>4 DEF TypedParser, ItemOf, Kinds
    <2>2. [r.item EXCEPT ![name] = content] \in ItemOf("account_out")
        BY <1>1, <1>4, <2>1 DEF ItemOf, Account, AccountFields, IsDecoded
    <2> QED
        BY <1>1, <1>3, <1>4, <2>2, AccountClosing DEF TypedParser
<1>5. CASE ~ (r.item # NoItem /\ IsDecoded(name, content))
    BY <1>1, <1>3, <1>5, AccountClosing DEF TypedParser
<1> QED
    BY <1>4, <1>5

(***************************************************************************)
(* What the handlers do to all of the parsers                              *)
(***************************************************************************)
ParsersOK ==
    /\ parser = [p \in Parsers |-> parser[p]]
    /\ \A p \in Parsers : TypedParser(p, parser[p])

\* An opening tag in a place of kind `kind', which is that of the tag, if it is
\* an item's.
StateStarted(kind, name) ==
    /\ parser' = [p \in Parsers |-> parser'[p]]
    /\ \A p \in Parsers :
          parser'[p] =
             IF p = kind THEN SubStart(p, parser[p], name)
             ELSE IF p = "client_state" /\ name = "core_client_release"
                  THEN CollectText(parser[p])
                  ELSE parser[p]

StateEnded(kind, name) ==
    /\ parser' = [p \in Parsers |-> parser'[p]]
    /\ \A p \in Parsers :
          parser'[p] =
             IF p = "client_state" THEN ReleaseEnd(parser[p], name)
             ELSE IF p = EndGoesTo(kind) THEN SubEnd(p, parser[p], name)
                  ELSE parser[p]

AccountStarted(name) ==
    /\ parser' = [p \in Parsers |-> parser'[p]]
    /\ \A p \in Parsers :
          parser'[p] = IF p = "account_out" THEN AccountStart(parser[p], name) ELSE parser[p]

AccountEnded(name) ==
    /\ parser' = [p \in Parsers |-> parser'[p]]
    /\ \A p \in Parsers :
          parser'[p] = IF p = "account_out" THEN AccountEnd(parser[p], name) ELSE parser[p]

AllRead(ch) ==
    /\ parser' = [p \in Parsers |-> parser'[p]]
    /\ \A p \in Parsers : parser'[p] = Characters(parser[p], ch)

LEMMA KindsAreParsers ==
    /\ \A k \in Kinds : k \in Parsers /\ k \notin {"client_state", "account_out", "none"}
    /\ "client_state" \in Parsers /\ "account_out" \in Parsers /\ "none" \notin Parsers
    /\ \A k \in Kinds : EndGoesTo(k) \in Kinds /\ EndGoesTo(k) # "app_version"
    /\ EndGoesTo("none") = "none"
    /\ \A k \in Kinds \ {"app_version"} : EndGoesTo(k) = k
    /\ EndGoesTo("app_version") = "app"
BY DEF Kinds, Parsers, EndGoesTo

LEMMA StateStarts ==
    ASSUME NEW name, NEW kind \in Places, StateStart(name), \A k \in Kinds : mIn'[k] <=> k = kind
    PROVE  StateStarted(kind, name)
<1>1. \A k \in Kinds : (mIn[k] \/ k = name) <=> k = kind
    BY DEF StateStart
<1>2. parser' =
        [p \in Parsers |->
            IF p \in Kinds /\ [k \in Kinds |-> mIn[k] \/ k = name][p]
            THEN SubStart(p, parser[p], name)
            ELSE IF p = "client_state" /\ name = "core_client_release"
                 THEN CollectText(parser[p])
                 ELSE parser[p]]
    BY KindsAreParsers DEF StateStart
<1>3. parser' = [p \in Parsers |-> parser'[p]]
    BY <1>2
<1>4. ASSUME NEW p \in Parsers
      PROVE  parser'[p] =
               IF p = kind THEN SubStart(p, parser[p], name)
               ELSE IF p = "client_state" /\ name = "core_client_release"
                    THEN CollectText(parser[p])
                    ELSE parser[p]
    <2>1. p \in Kinds /\ [k \in Kinds |-> mIn[k] \/ k = name][p] <=> p = kind
        BY <1>1, KindsAreParsers DEF Places
    <2> QED
        BY <1>2, <2>1
<1> QED
    BY <1>3, <1>4 DEF StateStarted

LEMMA StateEnds ==
    ASSUME NEW name, NEW kind \in Places, StateEnd(name), \A k \in Kinds : mIn[k] <=> k = kind
    PROVE  StateEnded(kind, name)
<1>1. parser' =
        [p \in Parsers |->
            IF p = "client_state" THEN ReleaseEnd(parser[p], name)
            ELSE IF \E k \in Kinds : mIn[k] /\ EndGoesTo(k) = p
                 THEN SubEnd(p, parser[p], name)
                 ELSE parser[p]]
    BY KindsAreParsers DEF StateEnd
<1>2. parser' = [p \in Parsers |-> parser'[p]]
    BY <1>1
<1>3. ASSUME NEW p \in Parsers
      PROVE  parser'[p] =
               IF p = "client_state" THEN ReleaseEnd(parser[p], name)
               ELSE IF p = EndGoesTo(kind) THEN SubEnd(p, parser[p], name)
                    ELSE parser[p]
    <2>1. (\E k \in Kinds : mIn[k] /\ EndGoesTo(k) = p) <=> p = EndGoesTo(kind)
        BY KindsAreParsers DEF Places
    <2> QED
        BY <1>1, <2>1
<1> QED
    BY <1>2, <1>3 DEF StateEnded

LEMMA AccountStarts ==
    ASSUME ParsersOK, NEW name,
           parser' = [parser EXCEPT !["account_out"] = AccountStart(@, name)]
    PROVE  AccountStarted(name)
BY KindsAreParsers DEF ParsersOK, AccountStarted

LEMMA AccountEnds ==
    ASSUME ParsersOK, NEW name,
           parser' = [parser EXCEPT !["account_out"] = AccountEnd(@, name)]
    PROVE  AccountEnded(name)
BY KindsAreParsers DEF ParsersOK, AccountEnded

(***************************************************************************)
(* What the reply has said                                                 *)
(***************************************************************************)
LEMMA AppendedLast ==
    ASSUME NEW S, NEW s \in Seq(S), NEW x \in S
    PROVE  /\ Append(s, x) \in Seq(S) /\ Append(s, x) # <<>>
           /\ Len(Append(s, x)) = Len(s) + 1
           /\ \A i \in 1 .. Len(s) : Append(s, x)[i] = s[i]
           /\ Last(Append(s, x)) = x
           /\ Front(Append(s, x)) = s
<1> DEFINE t == Append(s, x)
<1>1. /\ t \in Seq(S) /\ t # <<>> /\ Len(t) = Len(s) + 1 /\ t[Len(s) + 1] = x
      /\ \A i \in 1 .. Len(s) : t[i] = s[i]
    BY AppendProperties
<1> HIDE DEF t
<1>2. Last(t) = x
    BY <1>1 DEF Last
<1>3. /\ Front(t) \in Seq(S) /\ Len(Front(t)) = Len(t) - 1
      /\ \A i \in 1 .. Len(t) - 1 : Front(t)[i] = t[i]
    BY <1>1, FrontOf
<1>4. Len(s) \in Nat
    OBVIOUS
<1>5. Len(Front(t)) = Len(s) /\ \A i \in 1 .. Len(s) : Front(t)[i] = s[i]
    <2>1. Len(t) - 1 = Len(s)
        BY <1>1, <1>4
    <2> QED
        BY <1>1, <1>3, <2>1
<1>6. Front(t) = s
    BY <1>3, <1>5, SeqEqual
<1> QED
    BY <1>1, <1>2, <1>6 DEF t

LEMMA LastReplaced ==
    ASSUME NEW S, NEW s \in Seq(S), s # <<>>, NEW x \in S
    PROVE  LET t == [s EXCEPT ![Len(s)] = x]
           IN /\ t \in Seq(S) /\ t # <<>> /\ Len(t) = Len(s)
              /\ \A i \in 1 .. Len(s) - 1 : t[i] = s[i]
              /\ Last(t) = x
              /\ Front(t) = Front(s)
<1> DEFINE t == [s EXCEPT ![Len(s)] = x]
<1>1. /\ Len(s) \in Nat \ {0} /\ Front(s) \in Seq(S) /\ Len(Front(s)) = Len(s) - 1
      /\ \A i \in 1 .. Len(s) - 1 : Front(s)[i] = s[i]
    BY FrontOf
<1>2. /\ t \in Seq(S) /\ Len(t) = Len(s) /\ t[Len(s)] = x
      /\ \A i \in 1 .. Len(s) - 1 : t[i] = s[i]
    <2>1. s \in [1 .. Len(s) -> S] /\ Len(s) \in 1 .. Len(s)
        BY <1>1
    <2>2. t \in [1 .. Len(s) -> S]
        BY <2>1
    <2>3. t \in Seq(S) /\ Len(t) = Len(s)
        <3> HIDE DEF t
        <3> QED
            BY <1>1, <2>2
    <2> QED
        BY <1>1, <2>1, <2>3
<1> HIDE DEF t
<1>3. t # <<>> /\ Last(t) = x
    BY <1>1, <1>2 DEF Last
<1>4. /\ Front(t) \in Seq(S) /\ Len(Front(t)) = Len(t) - 1
      /\ \A i \in 1 .. Len(t) - 1 : Front(t)[i] = t[i]
    BY <1>2, <1>3, FrontOf
<1>5. Len(Front(t)) = Len(Front(s)) /\ \A i \in 1 .. Len(Front(t)) : Front(t)[i] = Front(s)[i]
    BY <1>1, <1>2, <1>4
<1>6. Front(t) = Front(s)
    BY <1>1, <1>4, <1>5, SeqEqual
<1> QED
    BY <1>2, <1>3, <1>6 DEF t

Items == UNION {Item(k) : k \in Kinds}

Field == [name : FieldNames, text : Texts]

LEMMA ItemsAre ==
    ASSUME NEW item \in Items
    PROVE  item.kind \in Kinds /\ item \in Item(item.kind)
BY DEF Items, Item

\* An item of another kind does not matter to a list.
LEMMA ListedAppended ==
    ASSUME NEW kind, NEW items \in Seq(Items), NEW x \in Items, x.kind # kind
    PROVE  Listed(kind, Append(items, x)) = Listed(kind, items)
<1> DEFINE t == Append(items, x)
<1>1. t \in Seq(Items) /\ t # <<>> /\ Last(t) = x /\ Front(t) = items
    BY AppendedLast
<1> HIDE DEF t
<1>2. Listed(kind, t) = Extended(Listed(kind, Front(t)), kind, Last(t))
    BY <1>1, ListedLast
<1> QED
    BY <1>1, <1>2 DEF Extended, t

LEMMA ListedReplaced ==
    ASSUME NEW kind, NEW items \in Seq(Items), items # <<>>, NEW others \in Seq(Items),
           others # <<>>, Front(others) = Front(items),
           Last(items).kind # kind, Last(others).kind # kind
    PROVE  Listed(kind, others) = Listed(kind, items)
<1>1. Listed(kind, items) = Extended(Listed(kind, Front(items)), kind, Last(items))
    BY ListedLast
<1>2. Listed(kind, others) = Extended(Listed(kind, Front(others)), kind, Last(others))
    BY ListedLast
<1> QED
    BY <1>1, <1>2 DEF Extended

(***************************************************************************)
(* The invariant                                                           *)
(***************************************************************************)

\* What the reply says of the open item and the open field comes last.
SaidOK ==
    /\ said = [items |-> said.items, fields |-> said.fields, length |-> said.length]
    /\ said.items \in Seq(Items) /\ Len(said.items) <= MaxItems
    /\ said.fields \in Seq(Field) /\ Len(said.fields) <= MaxFields
    /\ said.length \in Nat
    /\ IsField => /\ said.fields # <<>>
                  /\ Last(said.fields) = [name |-> Last(open), text |-> <<>>]
    /\ \A k \in Kinds : mIn[k] => /\ said.items # <<>>
                                  /\ Last(said.items).kind = k
                                  /\ InTask => Last(said.items).active

\* Between the elements there is white space only.
TextOK ==
    /\ text \in Texts
    /\ ~IsField => TrimStart(text) = <<>>

Released == parser["client_state"]

AccountRead == parser["account_out"]

\* The parser of the open item collects a text while a field is open, and the
\* others do not.
StartedOK ==
    /\ \A k \in Kinds \ {"app_version"} : parser[k].mElementStarted <=> mIn[k] /\ IsField
    /\ ~parser["app_version"].mElementStarted
    /\ open # <<>> /\ open[1] = "client_state" => ~AccountRead.mElementStarted
    /\ open # <<>> /\ open[1] = "account_out" => ~Released.mElementStarted
    /\ Inside("core_client_release") => Released.mElementStarted

\* What is collected is the text without the white space before it.
Collected ==
    \A p \in Parsers : parser[p].mElementStarted => parser[p].mCurrentElement = TrimStart(text)

\* The parser of the open item has what the reply has said of it; the lists
\* are those of the closed ones.
ItemRead(k) ==
    /\ mIn[k] =>
         /\ parser[k].mInActiveTask <=> InTask
         /\ parser[k].item = IF InTask THEN [Last(said.items) EXCEPT !.active = FALSE]
                             ELSE Last(said.items)
         /\ parser[k].list = Listed(k, Front(said.items))
    /\ ~mIn[k] =>
         /\ ~parser[k].mInActiveTask
         /\ parser[k].item = NoItem
         /\ parser[k].list = Listed(k, said.items)

ItemInv == \A k \in Kinds \ {"app_version"} : ItemRead(k)

IsRelease(i) == said.fields[i].name = "core_client_release"

\* There is one release at most, and it is the one that has been parsed.
ReleaseInv ==
    /\ \A i, j \in 1 .. Len(said.fields) : IsRelease(i) /\ IsRelease(j) => i = j
    /\ \/ Releases = {} /\ Released.list = <<>>
       \/ \E release \in Texts : Releases = {release} /\ Released.list = <<release>>

OnlyFirst == \A i \in DOMAIN said.fields \ {1} : said.fields[i].name # said.fields[1].name

\* The first field of an account gets its text, and no later one changes it.
AccountInv ==
    (IF open # <<>> THEN open[1] = "account_out" ELSE result.root = "account_out") =>
        /\ said.fields = <<>> =>
             AccountRead.item = NoItem /\ (open # <<>> => AccountRead.mElementStarted)
        /\ said.fields # <<>> =>
             /\ said.fields[1].name \in AccountFields
             /\ AccountRead.item \in Account
             /\ Len(said.fields) = 1 /\ IsField => AccountRead.mElementStarted
             /\ OnlyFirst => AccountRead.item[said.fields[1].name] = said.fields[1].text

ResultInv ==
    /\ open # <<>> => result = NoResult
    /\ open = <<>> =>
         /\ \A k \in Kinds : result.lists[k] = parser[k].list
         /\ result.release = Released.list
         /\ result.account = AccountRead.item

PlaceOK == PathOK /\ FlagsOK

RunOK == StartedOK /\ Collected

ReadOK == ItemInv /\ ReleaseInv /\ AccountInv /\ ResultInv

IInv == PlaceOK /\ SaidOK /\ TextOK /\ ParsersOK /\ RunOK /\ ReadOK

(***************************************************************************)
(* What the actions do                                                     *)
(***************************************************************************)
Moves(root, kind1, task1, field1, kind2, task2, field2) ==
    /\ At(root, kind1, task1, field1)
    /\ At(root, kind2, task2, field2)'
    /\ PlaceOK'

OpensAnItem(kind) ==
    /\ Moves("client_state", "none", FALSE, "none", kind, FALSE, "none")
    /\ StateStarted(kind, kind)
    /\ Len(said.items) < MaxItems
    /\ said' = [said EXCEPT !.items = Append(@, NewItem(kind))]
    /\ text' = <<>> /\ result' = result

OpensATask ==
    /\ Moves("client_state", "result", FALSE, "none", "result", TRUE, "none")
    /\ StateStarted("result", "active_task")
    /\ ~Last(said.items).active
    /\ said' = [said EXCEPT !.items[Len(said.items)].active = TRUE]
    /\ text' = <<>> /\ result' = result

SaysField(name) ==
    /\ Len(said.fields) < MaxFields
    /\ Say(name)
    /\ name = "core_client_release" => \A i \in DOMAIN said.fields : ~IsRelease(i)
    /\ text' = <<>> /\ result' = result

OpensAStateField(kind, task, name) ==
    /\ Moves("client_state", kind, task, "none", kind, task, name)
    /\ FieldPlace("client_state", kind, task, name)
    /\ StateStarted(kind, name)
    /\ SaysField(name)

OpensAnAccountField(name) ==
    /\ Moves("account_out", "none", FALSE, "none", "none", FALSE, name)
    /\ name \in AccountFields
    /\ AccountStarted(name)
    /\ SaysField(name)

ReadsText(ch) ==
    /\ AllRead(ch)
    /\ ch \in Texts
    /\ IF IsField THEN said.length + Len(text \o ch) <= MaxText
       ELSE text = <<>> /\ ch = <<Space>>
    /\ text' = text \o ch
    /\ UNCHANGED <<open, said, mIn, result>>

SaysText(name) ==
    /\ said' = [items |->
                   IF name \in {"name", "value", "slot"}
                   THEN [said.items EXCEPT ![Len(said.items)] = [@ EXCEPT ![name] = Trimmed(text)]]
                   ELSE said.items,
                fields |-> [said.fields EXCEPT ![Len(said.fields)].text = Trimmed(text)],
                length |-> said.length + Len(text)]
    /\ text' = <<>> /\ result' = result

ClosesAStateField(kind, task, name) ==
    /\ Moves("client_state", kind, task, name, kind, task, "none")
    /\ FieldPlace("client_state", kind, task, name)
    /\ StateEnded(kind, name)
    /\ SaysText(name)

ClosesAnAccountField(name) ==
    /\ Moves("account_out", "none", FALSE, name, "none", FALSE, "none")
    /\ name \in AccountFields
    /\ AccountEnded(name)
    /\ SaysText(name)

ClosesAnItem(kind) ==
    /\ Moves("client_state", kind, FALSE, "none", "none", FALSE, "none")
    /\ StateEnded(kind, kind)
    /\ text' = <<>> /\ said' = said /\ result' = result

ClosesATask ==
    /\ Moves("client_state", "result", TRUE, "none", "result", FALSE, "none")
    /\ StateEnded("result", "active_task")
    /\ text' = <<>> /\ said' = said /\ result' = result

Ends(root) ==
    /\ At(root, "none", FALSE, "none") /\ AtEnd' /\ PlaceOK'
    /\ text' = <<>> /\ said' = said
    /\ result' =
         [returned |-> TRUE, root |-> root,
          lists |-> [k \in Kinds |-> parser'[k].list],
          release |-> Released'.list,
          account |-> AccountRead'.item]

\* The flags change with the tags of items only.
LEMMA SameFlags ==
    ASSUME FlagsOK, NEW name, name \notin Kinds
    PROVE  /\ [k \in Kinds |-> mIn[k] \/ k = name] = mIn
           /\ [k \in Kinds |-> mIn[k] /\ k # name] = mIn
<1>1. \A k \in Kinds : mIn[k] \in BOOLEAN /\ k # name
    BY DEF FlagsOK
<1>2. mIn = [k \in Kinds |-> mIn[k]]
    BY DEF FlagsOK
<1>3. \A k \in Kinds : (mIn[k] \/ k = name) = mIn[k] /\ (mIn[k] /\ k # name) = mIn[k]
    BY <1>1
<1> QED
    BY <1>2, <1>3, Zenon

LEMMA OpenItemDoes ==
    ASSUME IInv, OpenItem
    PROVE  \E kind \in Kinds : OpensAnItem(kind)
<1>1. PathOK /\ FlagsOK
    BY DEF IInv, PlaceOK
<1>2. PICK kind \in Kinds : /\ startElement(kind)
                            /\ said' = [said EXCEPT !.items = Append(@, NewItem(kind))]
    BY DEF OpenItem
<1>3. Inside("client_state") /\ Len(said.items) < MaxItems
    BY DEF OpenItem
<1>4. At("client_state", "none", FALSE, "none")
    BY <1>1, <1>3, InsideRoot
<1>5. StateStart(kind)
    BY <1>2, <1>4 DEF startElement, At, RootIs
<1>6. Pushed(kind)
    BY <1>2, <1>4, <1>5 DEF startElement, StateStart, Pushed, Opened, At
<1>7. PathOK' /\ FlagsOK' /\ At("client_state", kind, FALSE, "none")'
    BY <1>1, <1>3, <1>6, OpensItem
<1>8. StateStarted(kind, kind)
    <2>1. kind \in Places
        BY DEF Places
    <2>2. \A k \in Kinds : mIn'[k] <=> k = kind
        BY <1>7 DEF At
    <2> QED
        BY <1>5, <2>1, <2>2, StateStarts
<1> QED
    BY <1>2, <1>3, <1>4, <1>7, <1>8 DEF OpensAnItem, Moves, PlaceOK, startElement

LEMMA OpenActiveTaskDoes ==
    ASSUME IInv, OpenActiveTask
    PROVE  OpensATask
<1>1. PathOK /\ FlagsOK
    BY DEF IInv, PlaceOK
<1>2. /\ Inside("result") /\ ~Last(said.items).active /\ startElement("active_task")
      /\ said' = [said EXCEPT !.items[Len(said.items)].active = TRUE]
    BY DEF OpenActiveTask
<1>3. "result" \in Kinds
    BY DEF Kinds
<1>4. At("client_state", "result", FALSE, "none")
    BY <1>1, <1>2, <1>3, InsideItem
<1>5. StateStart("active_task")
    BY <1>2, <1>4 DEF startElement, At, RootIs
<1>6. Pushed("active_task")
    BY <1>2, <1>4, <1>5 DEF startElement, StateStart, Pushed, Opened, At
<1>7. PathOK' /\ FlagsOK' /\ At("client_state", "result", TRUE, "none")'
    BY <1>1, <1>2, <1>6, OpensTask
<1>8. StateStarted("result", "active_task")
    <2>1. "result" \in Places
        BY <1>3 DEF Places
    <2>2. \A k \in Kinds : mIn'[k] <=> k = "result"
        BY <1>7 DEF At
    <2> QED
        BY <1>5, <2>1, <2>2, StateStarts
<1> QED
    BY <1>2, <1>4, <1>7, <1>8 DEF OpensATask, Moves, PlaceOK, startElement

\* The places of fields, with what OpensField wants of them.
LEMMA FieldOpensAt ==
    ASSUME PathOK, FlagsOK, NEW name,
           \/ name \in {"name", "value", "other"} /\ InItem
           \/ name = "slot" /\ Inside("active_task")
           \/ name = "core_client_release" /\ Inside("client_state")
           \/ name \in AccountFields /\ Inside("account_out")
    PROVE  \E root \in Roots, kind \in Places, task \in BOOLEAN :
              /\ At(root, kind, task, "none")
              /\ FieldPlace(root, kind, task, name)
              /\ DepthAt(kind, task, 1)
<1>1. CASE name \in {"name", "value", "other"} /\ InItem
    <2>1. PICK kind \in Kinds : Inside(kind)
        BY <1>1 DEF InItem, Inside
    <2>2. Depth = 2 /\ At("client_state", kind, FALSE, "none")
        BY <2>1, InsideItem
    <2>3. DepthAt(kind, FALSE, 1) /\ FieldPlace("client_state", kind, FALSE, name)
        BY <1>1, <2>2 DEF DepthAt, FieldPlace, Kinds
    <2>4. "client_state" \in Roots /\ kind \in Places /\ FALSE \in BOOLEAN
        BY DEF Roots, Places
    <2> QED
        BY <2>2, <2>3, <2>4
<1>2. CASE name = "slot" /\ Inside("active_task")
    <2>2. Depth = 3 /\ At("client_state", "result", TRUE, "none")
        BY <1>2, InsideTask
    <2>3. DepthAt("result", TRUE, 1) /\ FieldPlace("client_state", "result", TRUE, name)
        BY <1>2, <2>2 DEF DepthAt, FieldPlace
    <2>4. "client_state" \in Roots /\ "result" \in Places /\ TRUE \in BOOLEAN
        BY DEF Roots, Places, Kinds
    <2> QED
        BY <2>2, <2>3, <2>4
<1>3. CASE name = "core_client_release" /\ Inside("client_state")
    <2>2. Depth = 1 /\ At("client_state", "none", FALSE, "none")
        BY <1>3, InsideRoot
    <2>3. DepthAt("none", FALSE, 1) /\ FieldPlace("client_state", "none", FALSE, name)
        BY <1>3, <2>2 DEF DepthAt, FieldPlace
    <2>4. "client_state" \in Roots /\ "none" \in Places /\ FALSE \in BOOLEAN
        BY DEF Roots, Places, Kinds
    <2> QED
        BY <2>2, <2>3, <2>4
<1>4. CASE name \in AccountFields /\ Inside("account_out")
    <2>2. Depth = 1 /\ At("account_out", "none", FALSE, "none")
        BY <1>4, InsideRoot
    <2>3. DepthAt("none", FALSE, 1) /\ FieldPlace("account_out", "none", FALSE, name)
        BY <1>4, <2>2 DEF DepthAt, FieldPlace
    <2>4. "account_out" \in Roots /\ "none" \in Places /\ FALSE \in BOOLEAN
        BY DEF Roots, Places, Kinds
    <2> QED
        BY <2>2, <2>3, <2>4
<1> QED
    BY <1>1, <1>2, <1>3, <1>4

LEMMA OpenFieldDoes ==
    ASSUME IInv, OpenField
    PROVE  \/ \E kind \in Places, task \in BOOLEAN, name \in FieldNames :
                 OpensAStateField(kind, task, name)
           \/ \E name \in AccountFields : OpensAnAccountField(name)
<1>1. PathOK /\ FlagsOK /\ ParsersOK
    BY DEF IInv, PlaceOK
<1>2. PICK name \in FieldNames :
        /\ CASE name \in {"name", "value", "other"} -> InItem
             [] name = "slot" -> Inside("active_task")
             [] name = "core_client_release" ->
                  /\ Inside("client_state")
                  /\ \A i \in DOMAIN said.fields : said.fields[i].name # name
             [] OTHER -> Inside("account_out")
        /\ startElement(name)
        /\ Say(name)
    BY DEF OpenField, FieldNames
<1>3. \/ name \in {"name", "value", "other"} /\ InItem
      \/ name = "slot" /\ Inside("active_task")
      \/ name = "core_client_release" /\ Inside("client_state")
      \/ name \in AccountFields /\ Inside("account_out")
    BY <1>2 DEF FieldNames
<1>4. PICK root \in Roots, kind \in Places, task \in BOOLEAN :
        /\ At(root, kind, task, "none")
        /\ FieldPlace(root, kind, task, name)
        /\ DepthAt(kind, task, 1)
    BY <1>1, <1>3, FieldOpensAt
<1>5. name \notin Kinds
    BY <1>2 DEF FieldNames, AccountFields, Kinds
<1>6. open # <<>> /\ open[1] = root
    BY <1>4 DEF At
<1>7. Opened(name) /\ mIn' = mIn
    <2>1. StateStart(name) => mIn' = mIn
        BY <1>1, <1>5, SameFlags DEF StateStart
    <2> QED
        BY <1>2, <2>1 DEF startElement, Opened
<1>8. PathOK' /\ FlagsOK' /\ At(root, kind, task, name)'
    BY <1>1, <1>4, <1>7, OpensField
<1>9. SaysField(name)
    <2>1. name = "core_client_release" => \A i \in DOMAIN said.fields : ~IsRelease(i)
        BY <1>2 DEF IsRelease
    <2>2. Len(said.fields) < MaxFields
        BY DEF OpenField
    <2> QED
        BY <1>2, <2>1, <2>2 DEF SaysField, startElement
<1>10. CASE root = "client_state"
    <2>1. StateStart(name)
        BY <1>2, <1>6, <1>10 DEF startElement, RootIs
    <2>2. \A k \in Kinds : mIn'[k] <=> k = kind
        BY <1>8 DEF At
    <2>3. StateStarted(kind, name)
        BY <2>1, <2>2, StateStarts
    <2>4. OpensAStateField(kind, task, name)
        BY <1>4, <1>8, <1>9, <1>10, <2>3 DEF OpensAStateField, Moves, PlaceOK
    <2> QED
        BY <2>4
<1>11. CASE root = "account_out"
    <2>1. kind = "none" /\ task = FALSE /\ name \in AccountFields
        BY <1>4, <1>11 DEF FieldPlace
    <2>2. AccountStarted(name)
        BY <1>1, <1>2, <1>6, <1>11, AccountStarts DEF startElement, RootIs
    <2>3. OpensAnAccountField(name)
        BY <1>4, <1>8, <1>9, <1>11, <2>1, <2>2 DEF OpensAnAccountField, Moves, PlaceOK
    <2> QED
        BY <2>1, <2>3
<1> QED
    BY <1>10, <1>11 DEF Roots

LEMMA OpenIsAt ==
    ASSUME PathOK, open # <<>>
    PROVE  open[1] = "client_state" \/ open[1] = "account_out"
BY DepthPositive DEF PathOK

\* A piece of a text gets to every parser that collects one.
LEMMA CharactersDo ==
    ASSUME IInv, characters
    PROVE  \E ch \in Texts : ReadsText(ch)
<1>1. PathOK /\ FlagsOK /\ ParsersOK /\ StartedOK
    BY DEF IInv, PlaceOK, RunOK
<1>2. PICK ch \in Texts \ { <<>> } :
        /\ IF IsField THEN said.length + Len(text \o ch) <= MaxText
           ELSE text = <<>> /\ ch = <<Space>>
        /\ text' = text \o ch
        /\ \/ /\ RootIs("client_state")
              /\ StateCharacters(ch)
           \/ /\ RootIs("account_out")
              /\ parser' = [parser EXCEPT !["account_out"] = Characters(@, ch)]
    BY DEF characters
<1>3. open # <<>> /\ UNCHANGED <<open, said, mIn, result>>
    BY DEF characters
<1>4. \A p \in Parsers : ~parser[p].mElementStarted => Characters(parser[p], ch) = parser[p]
    BY DEF Characters
<1>5. ASSUME open[1] = "client_state"
      PROVE  AllRead(ch)
    <2>1. StateCharacters(ch)
        BY <1>2, <1>5 DEF RootIs
    <2>2. \A p \in Parsers :
             p = "client_state" \/ (p \in Kinds \ {"app_version"} /\ mIn[p])
               \/ ~parser[p].mElementStarted
        BY <1>1, <1>3, <1>5 DEF StartedOK, Parsers, AccountRead
    <2>3. \A p \in Parsers :
             parser'[p] = IF p = "client_state" \/ (p \in Kinds \ {"app_version"} /\ mIn[p])
                          THEN Characters(parser[p], ch) ELSE parser[p]
        BY <2>1 DEF StateCharacters
    <2>4. \A p \in Parsers : parser'[p] = Characters(parser[p], ch)
        BY <1>4, <2>2, <2>3
    <2>5. parser' = [p \in Parsers |-> parser'[p]]
        BY <2>1 DEF StateCharacters
    <2> QED
        BY <2>4, <2>5 DEF AllRead
<1>6. ASSUME open[1] = "account_out"
      PROVE  AllRead(ch)
    <2>1. parser' = [parser EXCEPT !["account_out"] = Characters(@, ch)]
        BY <1>2, <1>6 DEF RootIs
    <2>2. \A k \in Kinds : ~mIn[k]
        BY <1>1, <1>6 DEF FlagsOK, PathOK, Depth, Kinds, AccountFields
    <2>3. \A p \in Parsers : p # "account_out" => ~parser[p].mElementStarted
        BY <1>1, <1>3, <1>6, <2>2 DEF StartedOK, Parsers, Released
    <2>4. \A p \in Parsers : parser'[p] = Characters(parser[p], ch)
        BY <1>1, <1>4, <2>1, <2>3 DEF ParsersOK
    <2>5. parser' = [p \in Parsers |-> parser'[p]]
        BY <1>1, <2>1 DEF ParsersOK
    <2> QED
        BY <2>4, <2>5 DEF AllRead
<1> QED
    BY <1>1, <1>2, <1>3, <1>5, <1>6, OpenIsAt DEF ReadsText

LEMMA CloseFieldDoes ==
    ASSUME IInv, CloseField
    PROVE  \/ \E kind \in Places, task \in BOOLEAN, name \in FieldNames :
                 ClosesAStateField(kind, task, name)
           \/ \E name \in AccountFields : ClosesAnAccountField(name)
<1> DEFINE name == Last(open)
<1>1. PathOK /\ FlagsOK /\ ParsersOK
    BY DEF IInv, PlaceOK
<1>2. IsField /\ endElement(name) /\ SaysText(name)
    BY DEF CloseField, SaysText, endElement
<1>3. name \in FieldNames /\ name \notin Kinds
    BY <1>2 DEF IsField, FieldNames, AccountFields, Kinds
<1> HIDE DEF name
<1>4. PICK root \in Roots, kind \in Places, task \in BOOLEAN :
        /\ At(root, kind, task, name)
        /\ FieldPlace(root, kind, task, name)
        /\ DepthAt(kind, task, 2)
    BY <1>1, <1>2, InsideField DEF name
<1>5. open # <<>> /\ open[1] = root
    BY <1>4 DEF At
<1>6. open' = Front(open) /\ mIn' = mIn
    <2>1. StateEnd(name) => mIn' = mIn
        BY <1>1, <1>3, SameFlags DEF StateEnd
    <2> QED
        BY <1>2, <2>1 DEF endElement
<1>7. PathOK' /\ FlagsOK' /\ At(root, kind, task, "none")'
    BY <1>1, <1>4, <1>6, ClosesField
<1>8. CASE root = "client_state"
    <2>1. StateEnd(name)
        BY <1>2, <1>5, <1>8 DEF endElement, RootIs
    <2>2. \A k \in Kinds : mIn[k] <=> k = kind
        BY <1>4 DEF At
    <2>3. StateEnded(kind, name)
        BY <2>1, <2>2, StateEnds
    <2>4. ClosesAStateField(kind, task, name)
        BY <1>2, <1>4, <1>7, <1>8, <2>3 DEF ClosesAStateField, Moves, PlaceOK
    <2> QED
        BY <1>3, <2>4
<1>9. CASE root = "account_out"
    <2>1. kind = "none" /\ task = FALSE /\ name \in AccountFields
        BY <1>4, <1>9 DEF FieldPlace
    <2>2. AccountEnded(name)
        BY <1>1, <1>2, <1>5, <1>9, AccountEnds DEF endElement, RootIs
    <2>3. ClosesAnAccountField(name)
        BY <1>2, <1>4, <1>7, <1>9, <2>1, <2>2 DEF ClosesAnAccountField, Moves, PlaceOK
    <2> QED
        BY <2>1, <2>3
<1> QED
    BY <1>8, <1>9 DEF Roots

LEMMA CloseItemOrTaskDoes ==
    ASSUME IInv, CloseItemOrTask
    PROVE  (\E kind \in Kinds : ClosesAnItem(kind)) \/ ClosesATask
<1>1. PathOK /\ FlagsOK /\ ParsersOK
    BY DEF IInv, PlaceOK
<1>2. CASE InItem
    <2>1. PICK kind \in Kinds : Inside(kind) /\ Last(open) = kind
        BY <1>2 DEF InItem, Inside
    <2>2. At("client_state", kind, FALSE, "none")
        BY <1>1, <2>1, InsideItem
    <2>3. open # <<>> /\ open[1] = "client_state"
        BY <2>2 DEF At
    <2>4. StateEnd(kind) /\ open' = Front(open) /\ text' = <<>> /\ said' = said
          /\ result' = result
        BY <2>1, <2>3 DEF CloseItemOrTask, endElement, RootIs
    <2>5. PathOK' /\ FlagsOK' /\ At("client_state", "none", FALSE, "none")'
        BY <1>1, <2>1, <2>4, ClosesItem DEF StateEnd
    <2>6. kind \in Places
        BY DEF Places
    <2>7. \A k \in Kinds : mIn[k] <=> k = kind
        BY <2>2 DEF At
    <2>8. StateEnded(kind, kind)
        BY <2>4, <2>6, <2>7, StateEnds
    <2>9. ClosesAnItem(kind)
        BY <2>2, <2>4, <2>5, <2>8 DEF ClosesAnItem, Moves, PlaceOK
    <2> QED
        BY <2>9
<1>3. CASE Inside("active_task")
    <2>1. At("client_state", "result", TRUE, "none")
        BY <1>1, <1>3, InsideTask
    <2>2. open # <<>> /\ open[1] = "client_state" /\ Last(open) = "active_task"
        BY <1>3, <2>1 DEF At, Inside
    <2>3. StateEnd("active_task") /\ open' = Front(open) /\ text' = <<>> /\ said' = said
          /\ result' = result
        BY <2>2 DEF CloseItemOrTask, endElement, RootIs
    <2>4. mIn' = mIn
        <3>1. "active_task" \notin Kinds
            BY DEF Kinds
        <3> QED
            BY <1>1, <2>3, <3>1, SameFlags DEF StateEnd
    <2>5. PathOK' /\ FlagsOK' /\ At("client_state", "result", FALSE, "none")'
        BY <1>1, <1>3, <2>3, <2>4, ClosesTask
    <2>6. "result" \in Places
        BY DEF Places, Kinds
    <2>7. \A k \in Kinds : mIn[k] <=> k = "result"
        BY <2>1 DEF At
    <2>8. StateEnded("result", "active_task")
        BY <2>3, <2>6, <2>7, StateEnds
    <2> QED
        BY <2>1, <2>3, <2>5, <2>8 DEF ClosesATask, Moves, PlaceOK
<1> QED
    BY <1>2, <1>3 DEF CloseItemOrTask

LEMMA EndDoes ==
    ASSUME IInv, endDocument
    PROVE  \/ Ends("client_state") /\ StateEnded("none", "client_state")
           \/ Ends("account_out") /\ AccountEnded("account_out")
<1>1. PathOK /\ FlagsOK /\ ParsersOK
    BY DEF IInv, PlaceOK
<1>2. PICK root \in Roots : open = <<root>>
    BY DEF endDocument, Roots
<1>3. open # <<>> /\ open[1] = root /\ Last(open) = root
    BY <1>2 DEF Last
<1>4. /\ Inside(root) /\ open' = Front(open) /\ text' = <<>> /\ said' = said
      /\ root = "client_state" => StateEnd(root)
      /\ root = "account_out" =>
           /\ parser' = [parser EXCEPT !["account_out"] = AccountEnd(@, root)]
           /\ UNCHANGED mIn
    BY <1>3 DEF endDocument, endElement, RootIs, Inside
<1>5. root \notin Kinds
    BY DEF Roots, Kinds
<1>6. mIn' = mIn
    BY <1>1, <1>4, <1>5, SameFlags DEF StateEnd, Roots
<1>7. At(root, "none", FALSE, "none") /\ PathOK' /\ FlagsOK' /\ AtEnd'
    BY <1>1, <1>4, <1>6, InsideRoot, ClosesRoot DEF Roots
<1>8. Ends(root)
    BY <1>3, <1>4, <1>7 DEF Ends, endDocument, PlaceOK, Released, AccountRead
<1>9. CASE root = "client_state"
    <2>1. \A k \in Kinds : mIn[k] <=> k = "none"
        BY <1>7 DEF At
    <2>2. "none" \in Places
        BY DEF Places
    <2> QED
        BY <1>4, <1>8, <1>9, <2>1, <2>2, StateEnds
<1>10. CASE root = "account_out"
    BY <1>1, <1>4, <1>8, <1>10, AccountEnds
<1> QED
    BY <1>9, <1>10 DEF Roots

(***************************************************************************)
(* The parsers keep their types                                            *)
(***************************************************************************)
LEMMA StateStartedTyped ==
    ASSUME ParsersOK, NEW kind \in Places, NEW name, StateStarted(kind, name)
    PROVE  ParsersOK'
<1>1. ASSUME NEW p \in Parsers
      PROVE  TypedParser(p, parser'[p])
    <2>1. TypedParser(p, parser[p])
        BY DEF ParsersOK
    <2>2. CASE p = kind
        <3>1. p \in Kinds
            BY <2>2, KindsAreParsers DEF Places
        <3> QED
            BY <2>1, <2>2, <3>1, StartTyped DEF StateStarted
    <2>3. CASE p # kind /\ p = "client_state" /\ name = "core_client_release"
        BY <2>1, <2>3, CollectTyped DEF StateStarted
    <2>4. CASE p # kind /\ ~ (p = "client_state" /\ name = "core_client_release")
        BY <2>1, <2>4 DEF StateStarted
    <2> QED
        BY <2>2, <2>3, <2>4
<1> QED
    BY <1>1 DEF ParsersOK, StateStarted, TypedParser, Shape

LEMMA StateEndedTyped ==
    ASSUME ParsersOK, NEW kind \in Places, NEW name, StateEnded(kind, name)
    PROVE  ParsersOK'
<1>1. ASSUME NEW p \in Parsers
      PROVE  TypedParser(p, parser'[p])
    <2>1. TypedParser(p, parser[p])
        BY DEF ParsersOK
    <2>2. CASE p = "client_state"
        BY <2>1, <2>2, ReleaseTyped DEF StateEnded
    <2>3. CASE p # "client_state" /\ p = EndGoesTo(kind)
        <3>1. p \in Kinds
            BY <2>3, KindsAreParsers DEF Places
        <3> QED
            BY <2>1, <2>3, <3>1, EndTyped DEF StateEnded
    <2>4. CASE p # "client_state" /\ p # EndGoesTo(kind)
        BY <2>1, <2>4 DEF StateEnded
    <2> QED
        BY <2>2, <2>3, <2>4
<1> QED
    BY <1>1 DEF ParsersOK, StateEnded, TypedParser, Shape

LEMMA AccountStartedTyped ==
    ASSUME ParsersOK, NEW name \in AccountFields, AccountStarted(name)
    PROVE  ParsersOK'
<1>1. ASSUME NEW p \in Parsers
      PROVE  TypedParser(p, parser'[p])
    <2>1. TypedParser(p, parser[p])
        BY DEF ParsersOK
    <2>2. CASE p = "account_out"
        BY <2>1, <2>2, AccountTyped DEF AccountStarted
    <2>3. CASE p # "account_out"
        BY <2>1, <2>3 DEF AccountStarted
    <2> QED
        BY <2>2, <2>3
<1> QED
    BY <1>1 DEF ParsersOK, AccountStarted, TypedParser, Shape

LEMMA AccountEndedTyped ==
    ASSUME ParsersOK, NEW name, AccountEnded(name)
    PROVE  ParsersOK'
<1>1. ASSUME NEW p \in Parsers
      PROVE  TypedParser(p, parser'[p])
    <2>1. TypedParser(p, parser[p])
        BY DEF ParsersOK
    <2>2. CASE p = "account_out"
        BY <2>1, <2>2, AccountTyped DEF AccountEnded
    <2>3. CASE p # "account_out"
        BY <2>1, <2>3 DEF AccountEnded
    <2> QED
        BY <2>2, <2>3
<1> QED
    BY <1>1 DEF ParsersOK, AccountEnded, TypedParser, Shape

(***************************************************************************)
(* Texts are collected                                                     *)
(***************************************************************************)
LEMMA EmptyTrimmed == TrimStart(<<>>) = <<>>
<1> DEFINE none == <<>>
<1>1. IsBlank(none)
    BY DEF IsBlank
<1>2. TrimStart(none) = none
    BY <1>1 DEF TrimStart
<1> QED
    BY <1>2

LEMMA TextRead ==
    ASSUME IInv, NEW ch, ReadsText(ch)
    PROVE  TextOK' /\ TrimStart(text') =
             IF TrimStart(text) = <<>> THEN TrimStart(ch) ELSE TrimStart(text) \o ch
<1>1. text \in Seq(Chars) /\ ch \in Seq(Chars) /\ Len(text) \in Nat /\ Len(ch) \in Nat
    BY TextsAre, LenProperties DEF IInv, TextOK, ReadsText
<1>2. TrimStart(text \o ch) = IF TrimStart(text) = <<>> THEN TrimStart(ch)
                              ELSE TrimStart(text) \o ch
    BY <1>1, TrimStartPieces
<1>3. IsField' = IsField
    BY DEF ReadsText, IsField
<1>4. CASE IsField
    <2>1. said.length \in Nat /\ Len(text \o ch) \in Nat /\ text \o ch \in Seq(Chars)
        BY <1>1, ConcatProperties, LenProperties DEF IInv, SaidOK
    <2>2. said.length + Len(text \o ch) <= MaxText
        BY <1>4 DEF ReadsText
    <2>3. Len(text \o ch) <= MaxText
        BY <2>1, <2>2, BoundsAssumption
    <2>4. text' \in Texts
        BY <2>1, <2>3, TextsAre DEF ReadsText
    <2> QED
        BY <1>2, <1>3, <1>4, <2>4 DEF TextOK, ReadsText
<1>5. CASE ~IsField
    <2> DEFINE none == <<>>
               one == <<Space>>
    <2>1. text = none /\ ch = one
        BY <1>5 DEF ReadsText
    <2>2. none \o ch = ch
        BY <1>1, ConcatEmptySeq
    <2>3. text' = ch
        BY <2>1, <2>2 DEF ReadsText
    <2>4. IsBlank(one)
        BY DEF IsBlank
    <2>5. TrimStart(ch) = <<>>
        BY <1>1, <2>1, <2>4, TrimStartBlank
    <2> QED
        BY <1>2, <1>3, <1>5, <2>3, <2>5 DEF TextOK, ReadsText
<1> QED
    BY <1>4, <1>5

LEMMA ReadTyped ==
    ASSUME IInv, NEW ch, ReadsText(ch)
    PROVE  ParsersOK' /\ Collected'
<1>1. ParsersOK /\ Collected /\ AllRead(ch)
    BY DEF IInv, RunOK, ReadsText
<1>2. text' \in Texts /\ TrimStart(text') =
         IF TrimStart(text) = <<>> THEN TrimStart(ch) ELSE TrimStart(text) \o ch
    BY TextRead DEF TextOK
<1>3. TrimStart(text') \in Texts
    BY <1>2, TrimStartTyped
<1>4. ASSUME NEW p \in Parsers
      PROVE  /\ TypedParser(p, parser'[p])
             /\ parser'[p].mElementStarted => parser'[p].mCurrentElement = TrimStart(text')
    <2> DEFINE r == parser[p]
               s == parser'[p]
    <2>1. TypedParser(p, r) /\ s = Characters(r, ch)
        BY <1>1 DEF ParsersOK, AllRead
    <2>2. r.mElementStarted => r.mCurrentElement = TrimStart(text)
        BY <1>1 DEF Collected
    <2> HIDE DEF r, s
    <2>3. Shape(r)
        BY <2>1 DEF TypedParser
    <2>4. CASE ~r.mElementStarted
        <3>1. s = r
            BY <2>1, <2>4 DEF Characters
        <3>2. TypedParser(p, s) /\ ~s.mElementStarted
            BY <2>1, <2>4, <3>1
        <3> QED
            BY <3>2 DEF s
    <2>5. CASE r.mElementStarted
        <3>1. s.mCurrentElement = TrimStart(text')
            BY <1>2, <2>1, <2>2, <2>3, <2>5, Reading
        <3>2. /\ Shape(s) /\ s.mElementStarted = r.mElementStarted
              /\ s.mInActiveTask = r.mInActiveTask /\ s.item = r.item
            BY <2>1, <2>3, Reading
        <3>3. TypedParser(p, s)
            BY <1>3, <2>1, <3>1, <3>2 DEF TypedParser
        <3> QED
            BY <3>1, <3>3 DEF s
    <2> QED
        BY <2>4, <2>5
<1> QED
    BY <1>1, <1>4 DEF ParsersOK, Collected, AllRead

\* Between the elements nothing has been collected.
LEMMA NothingCollected ==
    ASSUME IInv, ~IsField
    PROVE  \A p \in Parsers : parser[p].mElementStarted => parser[p].mCurrentElement = <<>>
BY DEF IInv, RunOK, TextOK, Collected

\* Which parsers collect a text, in the place where we are.
LEMMA CollectingAt ==
    ASSUME IInv, NEW root \in Roots, NEW kind \in Places, NEW task, NEW field,
           At(root, kind, task, field)
    PROVE  \A p \in Parsers : parser[p].mElementStarted =>
              \/ p = kind /\ p # "app_version" /\ field # "none" /\ root = "client_state"
              \/ p = "client_state" /\ root = "client_state"
              \/ p = "account_out" /\ root = "account_out"
<1>1. StartedOK /\ PathOK /\ FlagsOK
    BY DEF IInv, RunOK, PlaceOK
<1>2. \A k \in Kinds : mIn[k] <=> k = kind
    BY DEF At
<1>3. open # <<>> /\ open[1] = root /\ (IsField <=> field # "none")
    BY DEF At
<1>4. (\E k \in Kinds : mIn[k]) => root = "client_state"
    BY <1>1, <1>3 DEF FlagsOK, PathOK, Kinds, AccountFields, Roots
<1>5. ASSUME NEW p \in Parsers, parser[p].mElementStarted
      PROVE  \/ p = kind /\ p # "app_version" /\ field # "none" /\ root = "client_state"
             \/ p = "client_state" /\ root = "client_state"
             \/ p = "account_out" /\ root = "account_out"
    <2>1. CASE p \in Kinds
        BY <1>1, <1>2, <1>3, <1>4, <1>5, <2>1 DEF StartedOK
    <2>2. CASE p = "client_state"
        BY <1>1, <1>3, <1>5, <2>2 DEF StartedOK, Roots, Released
    <2>3. CASE p = "account_out"
        BY <1>1, <1>3, <1>5, <2>3 DEF StartedOK, Roots, AccountRead
    <2> QED
        BY <2>1, <2>2, <2>3 DEF Parsers
<1> QED
    BY <1>5

LEMMA StateStartedCollected ==
    ASSUME IInv, ~IsField, NEW kind \in Places, NEW name, StateStarted(kind, name), text' = <<>>
    PROVE  Collected'
<1>1. ASSUME NEW p \in Parsers, parser'[p].mElementStarted
      PROVE  parser'[p].mCurrentElement = <<>>
    <2>1. Shape(parser[p])
        BY DEF IInv, ParsersOK, TypedParser
    <2>2. parser[p].mElementStarted => parser[p].mCurrentElement = <<>>
        BY NothingCollected
    <2>3. CASE p = kind
        <3>1. p \in Kinds
            BY <2>3, KindsAreParsers DEF Places
        <3>2. parser'[p] = SubStart(p, parser[p], name)
            BY <2>3 DEF StateStarted
        <3>3. CASE name = p
            BY <1>1, <2>1, <2>2, <3>1, <3>2, <3>3, SubOpening
        <3>4. CASE name # p /\ p = "app_version"
            BY <1>1, <2>1, <2>2, <3>1, <3>2, <3>4, SubOpening
        <3>5. CASE name # p /\ p = "result" /\ name = "active_task"
            BY <1>1, <2>1, <2>2, <3>1, <3>2, <3>5, SubOpening
        <3>6. CASE name # p /\ p # "app_version" /\ (p = "result" => name # "active_task")
            <4>1. parser'[p] = CollectText(parser[p])
                BY <2>1, <3>1, <3>2, <3>6, SubOpening
            <4> QED
                BY <2>1, <4>1, Collecting
        <3> QED
            BY <3>3, <3>4, <3>5, <3>6
    <2>4. CASE p # kind /\ p = "client_state" /\ name = "core_client_release"
        BY <2>1, <2>4, Collecting DEF StateStarted
    <2>5. CASE p # kind /\ ~ (p = "client_state" /\ name = "core_client_release")
        BY <1>1, <2>2, <2>5 DEF StateStarted
    <2> QED
        BY <2>3, <2>4, <2>5
<1> QED
    BY <1>1, EmptyTrimmed DEF Collected

\* After a closing tag only an empty release goes on.
LEMMA StateEndedQuiet ==
    ASSUME IInv, NEW kind \in Places, NEW task, NEW field, NEW name,
           At("client_state", kind, task, field), StateEnded(kind, name)
    PROVE  /\ \A p \in Parsers \ {"client_state"} : ~parser'[p].mElementStarted
           /\ Released'.mElementStarted => Released'.mCurrentElement = <<>>
<1>1. \A p \in Parsers : TypedParser(p, parser[p]) /\ Shape(parser[p])
    BY DEF IInv, ParsersOK, TypedParser
<1>2. ASSUME NEW p \in Parsers \ {"client_state"}
      PROVE  ~parser'[p].mElementStarted
    <2>1. CASE p = EndGoesTo(kind)
        <3>1. parser'[p] = SubEnd(p, parser[p], name)
            BY <2>1 DEF StateEnded
        <3>2. CASE parser[p].item = NoItem
            BY <1>1, <3>1, <3>2, ClosingNothing
        <3>3. CASE parser[p].item # NoItem /\ name = p
            BY <1>1, <3>1, <3>3, ClosingItem
        <3>4. CASE parser[p].item # NoItem /\ name # p
            BY <1>1, <3>1, <3>4, ClosingField
        <3> QED
            BY <3>2, <3>3, <3>4
    <2>2. CASE p # EndGoesTo(kind)
        <3>1. parser'[p] = parser[p]
            BY <2>2 DEF StateEnded
        <3>2. p # kind \/ p = "app_version"
            BY <2>2, KindsAreParsers DEF Places
        <3>3. "client_state" \in Roots
            BY DEF Roots
        <3> QED
            BY <3>1, <3>2, <3>3, CollectingAt
    <2> QED
        BY <2>1, <2>2
<1>3. ASSUME Released'.mElementStarted
      PROVE  Released'.mCurrentElement = <<>>
    <2>1. Released' = ReleaseEnd(Released, name) /\ Shape(Released)
        BY <1>1, KindsAreParsers DEF StateEnded, Released
    <2> QED
        BY <1>3, <2>1, ReleaseEnding
<1> QED
    BY <1>2, <1>3

LEMMA StateEndedCollected ==
    ASSUME IInv, NEW kind \in Places, NEW task, NEW field, NEW name, text' = <<>>,
           At("client_state", kind, task, field), StateEnded(kind, name)
    PROVE  Collected'
<1>1. \A p \in Parsers : parser'[p].mElementStarted => parser'[p].mCurrentElement = <<>>
    BY StateEndedQuiet DEF Released
<1> QED
    BY <1>1, EmptyTrimmed DEF Collected

LEMMA AccountStartedCollected ==
    ASSUME IInv, ~IsField, NEW name \in AccountFields, AccountStarted(name), text' = <<>>
    PROVE  Collected'
<1>1. ASSUME NEW p \in Parsers, parser'[p].mElementStarted
      PROVE  parser'[p].mCurrentElement = <<>>
    <2>1. Shape(parser[p])
        BY DEF IInv, ParsersOK, TypedParser
    <2>2. parser[p].mElementStarted => parser[p].mCurrentElement = <<>>
        BY NothingCollected
    <2>3. CASE p = "account_out"
        BY <1>1, <2>1, <2>2, <2>3, AccountOpening DEF AccountStarted
    <2>4. CASE p # "account_out"
        BY <1>1, <2>2, <2>4 DEF AccountStarted
    <2> QED
        BY <2>3, <2>4
<1> QED
    BY <1>1, EmptyTrimmed DEF Collected

LEMMA AccountEndedQuiet ==
    ASSUME IInv, NEW task, NEW field, NEW name, At("account_out", "none", task, field),
           AccountEnded(name)
    PROVE  \A p \in Parsers : ~parser'[p].mElementStarted
<1>1. ASSUME NEW p \in Parsers
      PROVE  ~parser'[p].mElementStarted
    <2>1. CASE p = "account_out"
        <3>1. Shape(parser[p]) /\ parser'[p] = AccountEnd(parser[p], name)
            BY <2>1 DEF IInv, ParsersOK, TypedParser, AccountEnded
        <3> QED
            BY <3>1, AccountClosing
    <2>2. CASE p # "account_out"
        <3>1. parser'[p] = parser[p]
            BY <2>2 DEF AccountEnded
        <3>2. "account_out" \in Roots /\ "none" \in Places
            BY DEF Roots, Places
        <3> QED
            BY <2>2, <3>1, <3>2, CollectingAt
    <2> QED
        BY <2>1, <2>2
<1> QED
    BY <1>1

LEMMA ItemOpenedStarted ==
    ASSUME IInv, NEW kind \in Kinds, OpensAnItem(kind)
    PROVE  StartedOK'
<1>1. /\ At("client_state", "none", FALSE, "none") /\ At("client_state", kind, FALSE, "none")'
      /\ StateStarted(kind, kind)
    BY DEF OpensAnItem, Moves
<1>2. "client_state" \in Roots /\ "none" \in Places
    BY DEF Roots, Places
<1>3. \A p \in Parsers : parser[p].mElementStarted => p = "client_state"
    BY <1>1, <1>2, CollectingAt, KindsAreParsers
<1>4. \A p \in Parsers : parser'[p].mElementStarted <=> parser[p].mElementStarted
    <2>1. Shape(parser[kind]) /\ kind \in Parsers
        BY KindsAreParsers DEF IInv, ParsersOK, TypedParser
    <2>2. SubStart(kind, parser[kind], kind).mElementStarted = parser[kind].mElementStarted
        BY <2>1, SubOpening
    <2>3. kind # "core_client_release"
        BY DEF Kinds
    <2> QED
        BY <1>1, <2>2, <2>3 DEF StateStarted
<1>5. ~IsField' /\ open' # <<>> /\ open'[1] = "client_state"
    BY <1>1 DEF At
<1>6. ~Inside("core_client_release")'
    BY <1>5 DEF Inside, IsField
<1> QED
    BY <1>3, <1>4, <1>5, <1>6, KindsAreParsers DEF StartedOK, AccountRead, Released, Kinds

LEMMA TaskOpenedStarted ==
    ASSUME IInv, OpensATask
    PROVE  StartedOK'
<1>1. /\ At("client_state", "result", FALSE, "none") /\ At("client_state", "result", TRUE, "none")'
      /\ StateStarted("result", "active_task")
    BY DEF OpensATask, Moves
<1>2. "client_state" \in Roots /\ "result" \in Places /\ "result" \in Kinds
    BY DEF Roots, Places, Kinds
<1>3. \A p \in Parsers : parser[p].mElementStarted => p = "client_state"
    BY <1>1, <1>2, CollectingAt
<1>4. \A p \in Parsers : parser'[p].mElementStarted <=> parser[p].mElementStarted
    <2>1. Shape(parser["result"]) /\ "result" \in Parsers
        BY <1>2, KindsAreParsers DEF IInv, ParsersOK, TypedParser
    <2>2. SubStart("result", parser["result"], "active_task").mElementStarted
             = parser["result"].mElementStarted
        BY <1>2, <2>1, SubOpening
    <2> QED
        BY <1>1, <2>2 DEF StateStarted
<1>5. ~IsField' /\ open' # <<>> /\ open'[1] = "client_state"
    BY <1>1 DEF At
<1>6. ~Inside("core_client_release")'
    BY <1>5 DEF Inside, IsField
<1> QED
    BY <1>3, <1>4, <1>5, <1>6, KindsAreParsers DEF StartedOK, AccountRead, Released, Kinds

LEMMA StateFieldOpenedStarted ==
    ASSUME IInv, NEW kind \in Places, NEW task, NEW name, OpensAStateField(kind, task, name)
    PROVE  StartedOK'
<1>1. /\ At("client_state", kind, task, "none") /\ At("client_state", kind, task, name)'
      /\ StateStarted(kind, name) /\ FieldPlace("client_state", kind, task, name)
    BY DEF OpensAStateField, Moves
<1>2. "client_state" \in Roots
    BY DEF Roots
<1>3. \A p \in Parsers : parser[p].mElementStarted => p = "client_state"
    BY <1>1, <1>2, CollectingAt
<1>4. name # "none" /\ name \notin Kinds /\ name # "active_task"
    BY <1>1 DEF FieldPlace, Kinds, AccountFields
<1>5. IsField' /\ open' # <<>> /\ open'[1] = "client_state" /\ Last(open)' = name
      /\ \A k \in Kinds : mIn'[k] <=> k = kind
    BY <1>1, <1>4 DEF At
<1>6. \A p \in Parsers : Shape(parser[p])
    BY DEF IInv, ParsersOK, TypedParser
<1>7. ASSUME NEW k \in Kinds \ {"app_version"}
      PROVE  parser'[k].mElementStarted <=> mIn'[k] /\ IsField'
    <2>1. CASE k = kind
        <3>1. parser'[k] = CollectText(parser[k])
            BY <1>1, <1>4, <1>6, <2>1, KindsAreParsers, SubOpening DEF StateStarted
        <3> QED
            BY <1>5, <1>6, <2>1, <3>1, Collecting, KindsAreParsers
    <2>2. CASE k # kind
        BY <1>1, <1>3, <1>5, <2>2, KindsAreParsers DEF StateStarted
    <2> QED
        BY <2>1, <2>2
<1>8. ~parser'["app_version"].mElementStarted
    <2>1. "app_version" \in Kinds /\ "app_version" \in Parsers
        BY DEF Kinds, Parsers
    <2>2. SubStart("app_version", parser["app_version"], name) = parser["app_version"]
        BY <1>4, <1>6, <2>1, SubOpening
    <2>3. parser'["app_version"] = parser["app_version"]
        BY <1>1, <2>1, <2>2 DEF StateStarted
    <2> QED
        BY <1>3, <2>1, <2>3
<1>9. ~AccountRead'.mElementStarted
    BY <1>1, <1>3, KindsAreParsers DEF StateStarted, AccountRead, Places
<1>10. ASSUME Inside("core_client_release")'
       PROVE  Released'.mElementStarted
    <2>1. name = "core_client_release"
        BY <1>5, <1>10 DEF Inside
    <2>2. Released' = CollectText(Released) /\ Shape(Released)
        BY <1>1, <1>6, <2>1, KindsAreParsers DEF StateStarted, Released, Places
    <2> QED
        BY <2>2, Collecting
<1> QED
    BY <1>5, <1>7, <1>8, <1>9, <1>10 DEF StartedOK

LEMMA AccountFieldOpenedStarted ==
    ASSUME IInv, NEW name, OpensAnAccountField(name)
    PROVE  StartedOK'
<1>1. /\ At("account_out", "none", FALSE, "none") /\ At("account_out", "none", FALSE, name)'
      /\ AccountStarted(name) /\ name \in AccountFields
    BY DEF OpensAnAccountField, Moves
<1>2. "account_out" \in Roots /\ "none" \in Places
    BY DEF Roots, Places
<1>3. \A p \in Parsers : parser[p].mElementStarted => p = "account_out"
    BY <1>1, <1>2, CollectingAt
<1>4. \A p \in Parsers \ {"account_out"} : ~parser'[p].mElementStarted
    BY <1>1, <1>3 DEF AccountStarted
<1>5. open' # <<>> /\ open'[1] = "account_out" /\ Last(open)' = name /\ \A k \in Kinds : ~mIn'[k]
    BY <1>1, KindsAreParsers DEF At, AccountFields
<1>6. ~Inside("core_client_release")'
    BY <1>1, <1>5 DEF Inside, AccountFields
<1> QED
    BY <1>4, <1>5, <1>6, KindsAreParsers DEF StartedOK, AccountRead, Released, Kinds

LEMMA ReadStarted ==
    ASSUME IInv, NEW ch, ReadsText(ch)
    PROVE  StartedOK'
<1>1. \A p \in Parsers : parser'[p].mElementStarted = parser[p].mElementStarted
    <2>1. \A p \in Parsers : Shape(parser[p]) /\ parser'[p] = Characters(parser[p], ch)
        BY DEF IInv, ParsersOK, TypedParser, ReadsText, AllRead
    <2> QED
        BY <2>1, Reading
<1>2. StartedOK /\ open' = open /\ mIn' = mIn
    BY DEF IInv, RunOK, ReadsText
<1>3. IsField' = IsField /\ Inside("core_client_release")' = Inside("core_client_release")
    BY <1>2 DEF IsField, Inside
<1> QED
    BY <1>1, <1>2, <1>3, KindsAreParsers DEF StartedOK, AccountRead, Released, Kinds

\* After a closing tag.
LEMMA QuietStarted ==
    ASSUME ~IsField', open' # <<>> => open'[1] \in Roots,
           \A p \in Parsers \ {"client_state"} : ~parser'[p].mElementStarted,
           open' # <<>> /\ open'[1] = "account_out" => ~Released'.mElementStarted
    PROVE  StartedOK'
<1>1. ~Inside("core_client_release")'
    BY DEF Inside, IsField
<1> QED
    BY <1>1, KindsAreParsers DEF StartedOK, AccountRead, Released, Kinds

LEMMA StateEndedStarted ==
    ASSUME IInv, NEW kind \in Places, NEW task, NEW field, NEW name,
           At("client_state", kind, task, field), StateEnded(kind, name),
           AtEnd' \/ \E k, t : At("client_state", k, t, "none")'
    PROVE  StartedOK'
<1>1. ~IsField' /\ (open' # <<>> => open'[1] = "client_state")
    BY DEF At, AtEnd
<1>2. \A p \in Parsers \ {"client_state"} : ~parser'[p].mElementStarted
    BY StateEndedQuiet
<1> QED
    BY <1>1, <1>2, QuietStarted DEF Roots

LEMMA AccountEndedStarted ==
    ASSUME IInv, NEW task, NEW field, NEW name,
           At("account_out", "none", task, field), AccountEnded(name),
           AtEnd' \/ \E k, t : At("account_out", k, t, "none")'
    PROVE  StartedOK'
<1>1. ~IsField' /\ (open' # <<>> => open'[1] = "account_out")
    BY DEF At, AtEnd
<1>2. \A p \in Parsers : ~parser'[p].mElementStarted
    BY AccountEndedQuiet
<1> QED
    BY <1>1, <1>2, KindsAreParsers, QuietStarted DEF Roots, Released

(***************************************************************************)
(* What is said stays in order                                             *)
(***************************************************************************)
SaidShape == said = [items |-> said.items, fields |-> said.fields, length |-> said.length]

LEMMA TrimmedTyped ==
    ASSUME NEW s \in Texts
    PROVE  Trimmed(s) \in Texts
BY TrimStartTyped, TrimEndTyped DEF Trimmed

LEMMA ItemSaid ==
    ASSUME IInv, NEW kind \in Kinds, OpensAnItem(kind)
    PROVE  /\ SaidShape'
           /\ said'.fields = said.fields /\ said'.length = said.length
           /\ said'.items \in Seq(Items) /\ said'.items # <<>>
           /\ said'.items = Append(said.items, NewItem(kind)) /\ NewItem(kind) \in Items
           /\ Len(said'.items) = Len(said.items) + 1
           /\ Last(said'.items) = NewItem(kind)
           /\ Front(said'.items) = said.items
<1>1. SaidShape /\ said.items \in Seq(Items)
    BY DEF IInv, SaidOK, SaidShape
<1> DEFINE items == Append(said.items, NewItem(kind))
<1>2. said' = [said EXCEPT !.items = items]
    BY DEF OpensAnItem
<1>3. NewItem(kind) \in Items
    BY NewItemTyped DEF Items
<1>4. /\ items \in Seq(Items) /\ items # <<>> /\ Len(items) = Len(said.items) + 1
      /\ Last(items) = NewItem(kind) /\ Front(items) = said.items
    BY <1>1, <1>3, AppendedLast
<1>5. items = Append(said.items, NewItem(kind))
    OBVIOUS
<1> HIDE DEF items
<1>6. SaidShape' /\ said'.items = items /\ said'.fields = said.fields
      /\ said'.length = said.length
    BY <1>1, <1>2 DEF SaidShape
<1> QED
    BY <1>3, <1>4, <1>5, <1>6

LEMMA TaskSaid ==
    ASSUME IInv, OpensATask
    PROVE  /\ SaidShape'
           /\ said'.fields = said.fields /\ said'.length = said.length
           /\ said.items # <<>> /\ Last(said.items) \in Item("result")
           /\ said'.items \in Seq(Items) /\ said'.items # <<>>
           /\ Len(said'.items) = Len(said.items)
           /\ Last(said'.items) = [Last(said.items) EXCEPT !.active = TRUE]
           /\ Front(said'.items) = Front(said.items)
<1>1. SaidShape /\ said.items \in Seq(Items)
    BY DEF IInv, SaidOK, SaidShape
<1>2. "result" \in Kinds /\ mIn["result"]
    BY DEF OpensATask, Moves, At, Kinds
<1>3. said.items # <<>> /\ Last(said.items).kind = "result"
    BY <1>2 DEF IInv, SaidOK
<1> DEFINE last == Last(said.items)
           new == [last EXCEPT !.active = TRUE]
           items == [said.items EXCEPT ![Len(said.items)] = new]
<1>4. last \in Items
    BY <1>1, <1>3 DEF Last
<1>5. last \in Item("result")
    BY <1>3, <1>4, ItemsAre
<1>6. new \in Items
    <2>1. new \in Item("result")
        BY <1>5 DEF Item
    <2> QED
        BY <1>2, <2>1 DEF Items
<1>7. said' = [said EXCEPT !.items = items]
    BY DEF OpensATask, Last
<1> HIDE DEF new
<1>8. /\ items \in Seq(Items) /\ items # <<>> /\ Len(items) = Len(said.items)
      /\ Last(items) = new /\ Front(items) = Front(said.items)
    BY <1>1, <1>3, <1>6, LastReplaced
<1> HIDE DEF items
<1>9. SaidShape' /\ said'.items = items /\ said'.fields = said.fields
      /\ said'.length = said.length
    BY <1>1, <1>7 DEF SaidShape
<1> QED
    BY <1>3, <1>5, <1>8, <1>9 DEF new

LEMMA FieldSaid ==
    ASSUME IInv, NEW name \in FieldNames, SaysField(name)
    PROVE  /\ SaidShape'
           /\ said'.items = said.items /\ said'.length = said.length
           /\ said'.fields \in Seq(Field) /\ said'.fields # <<>>
           /\ Len(said'.fields) = Len(said.fields) + 1
           /\ \A i \in 1 .. Len(said.fields) : said'.fields[i] = said.fields[i]
           /\ Last(said'.fields) = [name |-> name, text |-> <<>>]
<1>1. SaidShape /\ said.fields \in Seq(Field)
    BY DEF IInv, SaidOK, SaidShape
<1> DEFINE new == [name |-> name, text |-> <<>>]
           fields == Append(said.fields, new)
<1>2. said' = [said EXCEPT !.fields = fields]
    BY DEF SaysField, Say
<1>3. new \in Field
    BY NoText DEF Field
<1> HIDE DEF new
<1>4. /\ fields \in Seq(Field) /\ fields # <<>> /\ Len(fields) = Len(said.fields) + 1
      /\ \A i \in 1 .. Len(said.fields) : fields[i] = said.fields[i]
      /\ Last(fields) = new
    BY <1>1, <1>3, AppendedLast
<1> HIDE DEF fields
<1>5. SaidShape' /\ said'.items = said.items /\ said'.fields = fields
      /\ said'.length = said.length
    BY <1>1, <1>2 DEF SaidShape
<1> QED
    BY <1>4, <1>5 DEF new

\* A closed field is said in the fields and, if it is one of an item, there.
LEMMA TextSaid ==
    ASSUME IInv, NEW kind \in Places, NEW name \in FieldNames, SaysText(name), IsField,
           \A k \in Kinds : mIn[k] <=> k = kind,
           kind = "none" => name \notin {"name", "value", "slot"}
    PROVE  /\ SaidShape' /\ said'.length \in Nat
           /\ said.fields # <<>>
           /\ said'.fields \in Seq(Field) /\ said'.fields # <<>>
           /\ Len(said'.fields) = Len(said.fields)
           /\ \A i \in 1 .. Len(said.fields) - 1 : said'.fields[i] = said.fields[i]
           /\ Last(said'.fields) = [Last(said.fields) EXCEPT !.text = Trimmed(text)]
           /\ said'.items \in Seq(Items)
           /\ Len(said'.items) = Len(said.items)
           /\ kind = "none" => said'.items = said.items
           /\ kind # "none" =>
                /\ said.items # <<>> /\ Last(said.items) \in Item(kind)
                /\ said'.items # <<>>
                /\ Front(said'.items) = Front(said.items)
                /\ Last(said'.items) =
                     IF name \in {"name", "value", "slot"}
                     THEN [Last(said.items) EXCEPT ![name] = Trimmed(text)]
                     ELSE Last(said.items)
<1>1. /\ said.items \in Seq(Items) /\ said.fields \in Seq(Field) /\ said.length \in Nat
      /\ said.fields # <<>> /\ Trimmed(text) \in Texts /\ Len(text) \in Nat
    BY TrimmedTyped, TextsAre, LenProperties DEF IInv, SaidOK, TextOK
<1> DEFINE field == [Last(said.fields) EXCEPT !.text = Trimmed(text)]
           fields == [said.fields EXCEPT ![Len(said.fields)] = field]
           item == [Last(said.items) EXCEPT ![name] = Trimmed(text)]
           replaced == [said.items EXCEPT ![Len(said.items)] = item]
           items == IF name \in {"name", "value", "slot"} THEN replaced ELSE said.items
           length == said.length + Len(text)
<1>2. said' = [items |-> items, fields |-> fields, length |-> length]
    BY DEF SaysText, Last
<1>3. length \in Nat
    BY <1>1
<1>4. field \in Field
    <2>1. Last(said.fields) \in Field
        BY <1>1 DEF Last
    <2> QED
        BY <1>1, <2>1 DEF Field
<1>5. /\ fields \in Seq(Field) /\ fields # <<>> /\ Len(fields) = Len(said.fields)
      /\ \A i \in 1 .. Len(said.fields) - 1 : fields[i] = said.fields[i]
      /\ Last(fields) = field
    <2> HIDE DEF field
    <2> QED
        BY <1>1, <1>4, LastReplaced
<1>6. ASSUME kind # "none"
      PROVE  /\ said.items # <<>> /\ Last(said.items) \in Item(kind)
             /\ items \in Seq(Items) /\ Len(items) = Len(said.items) /\ items # <<>>
             /\ Front(items) = Front(said.items)
             /\ Last(items) = IF name \in {"name", "value", "slot"} THEN item
                              ELSE Last(said.items)
    <2>1. kind \in Kinds
        BY <1>6 DEF Places
    <2>2. said.items # <<>> /\ Last(said.items).kind = kind
        BY <2>1 DEF IInv, SaidOK
    <2>3. Last(said.items) \in Items
        BY <1>1, <2>2 DEF Last
    <2>4. Last(said.items) \in Item(kind)
        BY <2>2, <2>3, ItemsAre
    <2>5. CASE name \in {"name", "value", "slot"}
        <3>1. item \in Item(kind)
            BY <1>1, <2>4, <2>5 DEF Item
        <3>2. item \in Items
            BY <2>1, <3>1 DEF Items
        <3>3. items = replaced
            BY <2>5
        <3> HIDE DEF item
        <3>4. /\ replaced \in Seq(Items) /\ replaced # <<>> /\ Len(replaced) = Len(said.items)
              /\ Last(replaced) = item /\ Front(replaced) = Front(said.items)
            BY <1>1, <2>2, <3>2, LastReplaced
        <3> HIDE DEF replaced, items
        <3> QED
            BY <2>2, <2>4, <2>5, <3>3, <3>4
    <2>6. CASE name \notin {"name", "value", "slot"}
        BY <1>1, <2>2, <2>4, <2>6
    <2> QED
        BY <2>5, <2>6
<1>7. kind = "none" => items = said.items
    OBVIOUS
<1> HIDE DEF items, fields, length
<1>8. /\ SaidShape' /\ said'.items = items /\ said'.fields = fields /\ said'.length = length
    BY <1>2 DEF SaidShape
<1> QED
    BY <1>1, <1>3, <1>5, <1>6, <1>7, <1>8

LEMMA NoTextOK ==
    ASSUME text' = <<>>
    PROVE  TextOK'
BY NoText, EmptyTrimmed DEF TextOK

LEMMA ItemOpenedSaid ==
    ASSUME IInv, NEW kind \in Kinds, OpensAnItem(kind)
    PROVE  SaidOK'
<1>1. /\ SaidShape'
      /\ said'.fields = said.fields /\ said'.length = said.length
      /\ said'.items \in Seq(Items) /\ said'.items # <<>>
      /\ Len(said'.items) = Len(said.items) + 1
      /\ Last(said'.items) = NewItem(kind)
    BY ItemSaid
<1>2. /\ said.items \in Seq(Items) /\ Len(said.items) \in Nat /\ Len(said.items) < MaxItems
      /\ said.fields \in Seq(Field) /\ Len(said.fields) <= MaxFields /\ said.length \in Nat
    BY LenProperties DEF IInv, SaidOK, OpensAnItem
<1>3. Len(said'.items) <= MaxItems
    BY <1>1, <1>2, BoundsAssumption
<1>4. ~IsField' /\ ~InTask' /\ \A k \in Kinds : mIn'[k] <=> k = kind
    BY DEF OpensAnItem, Moves, At
<1>5. NewItem(kind).kind = kind
    BY DEF NewItem
<1> QED
    BY <1>1, <1>2, <1>3, <1>4, <1>5 DEF SaidOK, SaidShape

LEMMA TaskOpenedSaid ==
    ASSUME IInv, OpensATask
    PROVE  SaidOK'
<1>1. /\ SaidShape'
      /\ said'.fields = said.fields /\ said'.length = said.length
      /\ Last(said.items) \in Item("result")
      /\ said'.items \in Seq(Items) /\ said'.items # <<>>
      /\ Len(said'.items) = Len(said.items)
      /\ Last(said'.items) = [Last(said.items) EXCEPT !.active = TRUE]
    BY TaskSaid
<1>2. /\ Len(said.items) <= MaxItems
      /\ said.fields \in Seq(Field) /\ Len(said.fields) <= MaxFields /\ said.length \in Nat
    BY DEF IInv, SaidOK
<1>3. ~IsField' /\ \A k \in Kinds : mIn'[k] <=> k = "result"
    BY DEF OpensATask, Moves, At
<1>4. Last(said'.items).kind = "result" /\ Last(said'.items).active
    BY <1>1 DEF Item
<1> QED
    BY <1>1, <1>2, <1>3, <1>4 DEF SaidOK, SaidShape

LEMMA FieldOpenedSaid ==
    ASSUME IInv, NEW root, NEW kind, NEW task, NEW name \in FieldNames,
           Moves(root, kind, task, "none", kind, task, name), SaysField(name)
    PROVE  SaidOK'
<1>1. /\ SaidShape'
      /\ said'.items = said.items /\ said'.length = said.length
      /\ said'.fields \in Seq(Field) /\ said'.fields # <<>>
      /\ Len(said'.fields) = Len(said.fields) + 1
      /\ Last(said'.fields) = [name |-> name, text |-> <<>>]
    BY FieldSaid
<1>2. /\ said.items \in Seq(Items) /\ Len(said.items) <= MaxItems /\ said.length \in Nat
      /\ Len(said.fields) \in Nat /\ Len(said.fields) < MaxFields
    BY LenProperties DEF IInv, SaidOK, SaysField
<1>3. Len(said'.fields) <= MaxFields
    BY <1>1, <1>2, BoundsAssumption
<1>4. /\ IsField' => Last(open)' = name
      /\ \A k \in Kinds : mIn'[k] <=> mIn[k]
      /\ InTask' <=> InTask
    BY DEF Moves, At
<1>5. \A k \in Kinds : mIn[k] => /\ said.items # <<>>
                                 /\ Last(said.items).kind = k
                                 /\ InTask => Last(said.items).active
    BY DEF IInv, SaidOK
<1> QED
    BY <1>1, <1>2, <1>3, <1>4, <1>5 DEF SaidOK, SaidShape

LEMMA FieldClosedSaid ==
    ASSUME IInv, NEW root, NEW kind \in Places, NEW task, NEW name \in FieldNames,
           Moves(root, kind, task, name, kind, task, "none"),
           FieldPlace(root, kind, task, name), SaysText(name)
    PROVE  SaidOK'
<1>1. /\ name # "none" /\ IsField /\ ~IsField'
      /\ \A k \in Kinds : mIn[k] <=> k = kind
      /\ \A k \in Kinds : mIn'[k] <=> k = kind
      /\ InTask' <=> InTask
    BY DEF Moves, At, FieldPlace, AccountFields
<1>2. kind = "none" => name \notin {"name", "value", "slot"}
    BY DEF FieldPlace, AccountFields, Kinds
<1>3. /\ SaidShape' /\ said'.length \in Nat
      /\ said'.fields \in Seq(Field) /\ Len(said'.fields) = Len(said.fields)
      /\ said'.items \in Seq(Items) /\ Len(said'.items) = Len(said.items)
      /\ kind # "none" =>
           /\ said.items # <<>> /\ Last(said.items) \in Item(kind)
           /\ said'.items # <<>>
           /\ Last(said'.items) =
                IF name \in {"name", "value", "slot"}
                THEN [Last(said.items) EXCEPT ![name] = Trimmed(text)]
                ELSE Last(said.items)
    BY <1>1, <1>2, TextSaid
<1>4. Len(said.items) <= MaxItems /\ Len(said.fields) <= MaxFields
    BY DEF IInv, SaidOK
<1>5. ASSUME NEW k \in Kinds, mIn'[k]
      PROVE  /\ said'.items # <<>> /\ Last(said'.items).kind = k
             /\ InTask' => Last(said'.items).active
    <2>1. k = kind /\ kind # "none" /\ mIn[k]
        BY <1>1, <1>5, KindsAreParsers
    <2>2. Last(said.items).kind = k /\ (InTask => Last(said.items).active)
        BY <2>1 DEF IInv, SaidOK
    <2>3. Last(said'.items).kind = Last(said.items).kind
        BY <1>3, <2>1 DEF Item
    <2>4. Last(said.items).active => Last(said'.items).active
        BY <1>3, <2>1 DEF Item
    <2> QED
        BY <1>1, <1>3, <2>1, <2>2, <2>3, <2>4
<1> QED
    BY <1>1, <1>3, <1>4, <1>5 DEF SaidOK, SaidShape

\* Nothing is said by the other closing tags, nor by a piece of a text.
LEMMA NothingSaid ==
    ASSUME IInv, said' = said, ~IsField' \/ (IsField /\ Last(open)' = Last(open)),
           \A k \in Kinds : mIn'[k] => mIn[k], InTask' => InTask
    PROVE  SaidOK'
BY DEF IInv, SaidOK

(***************************************************************************)
(* The items are read                                                      *)
(***************************************************************************)
Untouched(k) ==
    /\ parser'[k].mInActiveTask = parser[k].mInActiveTask
    /\ parser'[k].item = parser[k].item
    /\ parser'[k].list = parser[k].list

LEMMA SameItemRead ==
    ASSUME NEW k, ItemRead(k), Untouched(k), said'.items = said.items,
           mIn'[k] <=> mIn[k], InTask' <=> InTask
    PROVE  ItemRead(k)'
BY DEF ItemRead, Untouched

\* A parser whose item is not open does not care for what is said of another.
LEMMA OtherItemRead ==
    ASSUME NEW k, ItemRead(k), Untouched(k), ~mIn[k], ~mIn'[k],
           Listed(k, said'.items) = Listed(k, said.items)
    PROVE  ItemRead(k)'
BY DEF ItemRead, Untouched

LEMMA ItemOpenedRead ==
    ASSUME IInv, NEW kind \in Kinds, OpensAnItem(kind)
    PROVE  ItemInv'
<1>1. /\ \A k \in Kinds : ~mIn[k]
      /\ \A k \in Kinds : mIn'[k] <=> k = kind
      /\ ~InTask' /\ StateStarted(kind, kind)
    BY KindsAreParsers DEF OpensAnItem, Moves, At
<1>2. /\ said.items \in Seq(Items)
      /\ said'.items = Append(said.items, NewItem(kind)) /\ NewItem(kind) \in Items
      /\ Last(said'.items) = NewItem(kind)
      /\ Front(said'.items) = said.items
    BY ItemSaid DEF IInv, SaidOK
<1>3. ASSUME NEW k \in Kinds \ {"app_version"}
      PROVE  ItemRead(k)'
    <2>1. Shape(parser[k]) /\ ItemRead(k) /\ k \in Parsers
        BY KindsAreParsers DEF IInv, ReadOK, ItemInv, ParsersOK, TypedParser
    <2>2. CASE k = kind
        <3>1. parser'[k] = SubStart(k, parser[k], k)
            BY <1>1, <2>1, <2>2 DEF StateStarted
        <3>2. /\ parser'[k].item = NewItem(k) /\ parser'[k].list = parser[k].list
              /\ parser'[k].mInActiveTask = parser[k].mInActiveTask
            BY <2>1, <3>1, SubOpening
        <3>3. ~parser[k].mInActiveTask /\ parser[k].list = Listed(k, said.items)
            BY <1>1, <2>1 DEF ItemRead
        <3> QED
            BY <1>1, <1>2, <2>2, <3>2, <3>3 DEF ItemRead
    <2>3. CASE k # kind
        <3>1. Untouched(k)
            BY <1>1, <2>1, <2>3, KindsAreParsers DEF StateStarted, Untouched
        <3>2. NewItem(kind).kind # k
            BY <2>3 DEF NewItem
        <3>3. Listed(k, said'.items) = Listed(k, said.items)
            BY <1>2, <3>2, ListedAppended
        <3> QED
            BY <1>1, <2>1, <2>3, <3>1, <3>3, OtherItemRead
    <2> QED
        BY <2>2, <2>3
<1> QED
    BY <1>3 DEF ItemInv

LEMMA TaskOpenedRead ==
    ASSUME IInv, OpensATask
    PROVE  ItemInv'
<1>1. /\ \A k \in Kinds : mIn[k] <=> k = "result"
      /\ \A k \in Kinds : mIn'[k] <=> k = "result"
      /\ ~InTask /\ InTask' /\ StateStarted("result", "active_task")
      /\ ~Last(said.items).active
    BY DEF OpensATask, Moves, At
<1>2. /\ said.items \in Seq(Items) /\ said.items # <<>>
      /\ Last(said.items) \in Item("result")
      /\ said'.items \in Seq(Items) /\ said'.items # <<>>
      /\ Last(said'.items) = [Last(said.items) EXCEPT !.active = TRUE]
      /\ Front(said'.items) = Front(said.items)
    BY TaskSaid DEF IInv, SaidOK
<1>3. ASSUME NEW k \in Kinds \ {"app_version"}
      PROVE  ItemRead(k)'
    <2>1. Shape(parser[k]) /\ ItemRead(k) /\ k \in Parsers
        BY KindsAreParsers DEF IInv, ReadOK, ItemInv, ParsersOK, TypedParser
    <2>2. CASE k = "result"
        <3>1. parser'[k] = SubStart(k, parser[k], "active_task")
            BY <1>1, <2>1, <2>2 DEF StateStarted
        <3>2. /\ parser'[k].item = parser[k].item /\ parser'[k].list = parser[k].list
              /\ parser'[k].mInActiveTask
            BY <2>1, <2>2, <3>1, SubOpening
        <3>3. parser[k].item = Last(said.items) /\ parser[k].list = Listed(k, Front(said.items))
            BY <1>1, <2>1, <2>2 DEF ItemRead
        <3>4. Last(said.items) = [Last(said'.items) EXCEPT !.active = FALSE]
            BY <1>1, <1>2 DEF Item
        <3> QED
            BY <1>1, <1>2, <2>2, <3>2, <3>3, <3>4 DEF ItemRead
    <2>3. CASE k # "result"
        <3>1. Untouched(k)
            BY <1>1, <2>1, <2>3, KindsAreParsers DEF StateStarted, Untouched
        <3>2. Last(said.items).kind # k /\ Last(said'.items).kind # k
            BY <1>2, <2>3 DEF Item
        <3>3. Listed(k, said'.items) = Listed(k, said.items)
            BY <1>2, <3>2, ListedReplaced
        <3> QED
            BY <1>1, <2>1, <2>3, <3>1, <3>3, OtherItemRead
    <2> QED
        BY <2>2, <2>3
<1> QED
    BY <1>3 DEF ItemInv

LEMMA StateFieldOpenedRead ==
    ASSUME IInv, NEW kind \in Places, NEW task, NEW name \in FieldNames,
           OpensAStateField(kind, task, name)
    PROVE  ItemInv'
<1>1. /\ \A k \in Kinds : mIn'[k] <=> mIn[k]
      /\ InTask' <=> InTask
      /\ StateStarted(kind, name)
    BY DEF OpensAStateField, Moves, At
<1>2. said'.items = said.items
    BY FieldSaid DEF OpensAStateField
<1>3. name \notin Kinds /\ name # "active_task"
    BY DEF FieldNames, AccountFields, Kinds
<1>4. ASSUME NEW k \in Kinds \ {"app_version"}
      PROVE  ItemRead(k)'
    <2>1. Shape(parser[k]) /\ ItemRead(k) /\ k \in Parsers
        BY KindsAreParsers DEF IInv, ReadOK, ItemInv, ParsersOK, TypedParser
    <2>2. parser'[k] = CollectText(parser[k]) \/ parser'[k] = parser[k]
        BY <1>1, <1>3, <2>1, SubOpening, KindsAreParsers DEF StateStarted
    <2>3. Untouched(k)
        BY <2>1, <2>2, Collecting DEF Untouched
    <2> QED
        BY <1>1, <1>2, <2>1, <2>3, SameItemRead
<1> QED
    BY <1>4 DEF ItemInv

LEMMA ReadRead ==
    ASSUME IInv, NEW ch, ReadsText(ch)
    PROVE  ItemInv'
<1>1. UNCHANGED <<open, said, mIn>> /\ AllRead(ch)
    BY DEF ReadsText
<1>2. InTask' <=> InTask
    BY <1>1 DEF InTask, Depth
<1>3. ASSUME NEW k \in Kinds \ {"app_version"}
      PROVE  ItemRead(k)'
    <2>1. Shape(parser[k]) /\ ItemRead(k) /\ k \in Parsers
        BY KindsAreParsers DEF IInv, ReadOK, ItemInv, ParsersOK, TypedParser
    <2>2. Untouched(k)
        BY <1>1, <2>1, Reading DEF Untouched, AllRead
    <2> QED
        BY <1>1, <1>2, <2>1, <2>2, SameItemRead
<1> QED
    BY <1>3 DEF ItemInv

\* In the reply of an account there are no items.
LEMMA AccountStepRead ==
    ASSUME IInv, \A k \in Kinds : parser'[k] = parser[k], said'.items = said.items,
           \A k \in Kinds : ~mIn[k] /\ ~mIn'[k]
    PROVE  ItemInv'
<1>1. ASSUME NEW k \in Kinds \ {"app_version"}
      PROVE  ItemRead(k)'
    <2>1. ItemRead(k)
        BY DEF IInv, ReadOK, ItemInv
    <2>2. Untouched(k)
        BY DEF Untouched
    <2> QED
        BY <2>1, <2>2, OtherItemRead
<1> QED
    BY <1>1 DEF ItemInv

\* A closing tag goes to the parser of the open item.
LEMMA OthersUntouched ==
    ASSUME IInv, NEW kind \in Places, NEW name, StateEnded(kind, name),
           NEW k \in Kinds \ {"app_version"}, k # kind, ~mIn[k]
    PROVE  Untouched(k)
<1>1. Shape(parser[k]) /\ ItemRead(k) /\ k \in Parsers
    BY KindsAreParsers DEF IInv, ReadOK, ItemInv, ParsersOK, TypedParser
<1>2. parser[k].item = NoItem
    BY <1>1 DEF ItemRead
<1>3. CASE k = EndGoesTo(kind)
    <2>1. parser'[k] = SubEnd(k, parser[k], name)
        BY <1>1, <1>3, KindsAreParsers DEF StateEnded
    <2> DEFINE r == parser[k]
               closed == SubEnd(k, r, name)
    <2>2. Shape(r) /\ r.item = NoItem
        BY <1>1, <1>2
    <2> HIDE DEF r
    <2>3. closed.mInActiveTask = r.mInActiveTask
        BY <2>2, ClosingNothing
    <2>4. closed.item = r.item /\ closed.list = r.list
        BY <2>2, ClosingNothing
    <2> QED
        BY <2>1, <2>3, <2>4 DEF Untouched, r
<1>4. CASE k # EndGoesTo(kind)
    BY <1>1, <1>4, KindsAreParsers DEF StateEnded, Untouched
<1> QED
    BY <1>3, <1>4

LEMMA ItemClosedRead ==
    ASSUME IInv, NEW kind \in Kinds, ClosesAnItem(kind)
    PROVE  ItemInv'
<1>1. /\ \A k \in Kinds : mIn[k] <=> k = kind
      /\ \A k \in Kinds : ~mIn'[k]
      /\ ~InTask /\ StateEnded(kind, kind) /\ said' = said
    BY KindsAreParsers DEF ClosesAnItem, Moves, At
<1>2. said.items \in Seq(Items) /\ said.items # <<>> /\ Last(said.items).kind = kind
    BY <1>1 DEF IInv, SaidOK
<1>3. ASSUME NEW k \in Kinds \ {"app_version"}
      PROVE  ItemRead(k)'
    <2>1. Shape(parser[k]) /\ ItemRead(k) /\ k \in Parsers
        BY KindsAreParsers DEF IInv, ReadOK, ItemInv, ParsersOK, TypedParser
    <2>2. CASE k = kind
        <3>1. parser'[k] = SubEnd(k, parser[k], k)
            BY <1>1, <2>1, <2>2, KindsAreParsers DEF StateEnded
        <3>2. /\ ~parser[k].mInActiveTask /\ parser[k].item = Last(said.items)
              /\ parser[k].list = Listed(k, Front(said.items))
            BY <1>1, <2>1, <2>2 DEF ItemRead
        <3>3. Last(said.items) # NoItem
            BY <1>2 DEF NoItem, Kinds
        <3>4. /\ parser'[k].item = NoItem
              /\ ~parser'[k].mInActiveTask
              /\ parser'[k].list = IF Last(said.items).name = <<>> THEN Listed(k, Front(said.items))
                                   ELSE Append(Listed(k, Front(said.items)), Last(said.items))
            <4> DEFINE r == parser[k]
                       closed == SubEnd(k, r, k)
                       last == Last(said.items)
                       list == Listed(k, Front(said.items))
            <4>1. Shape(r) /\ ~r.mInActiveTask /\ r.item = last /\ r.list = list /\ last # NoItem
                BY <2>1, <3>2, <3>3
            <4>2. parser'[k] = closed
                BY <3>1
            <4> HIDE DEF r, last, list
            <4>3. r.item # NoItem
                BY <4>1
            <4>4. closed.item = NoItem
                BY <4>1, <4>3, ClosingItem
            <4>5. closed.mInActiveTask = r.mInActiveTask
                BY <4>1, <4>3, ClosingItem
            <4>6. closed.list = IF r.item.name = <<>> THEN r.list ELSE Append(r.list, r.item)
                BY <4>1, <4>3, ClosingItem
            <4> HIDE DEF closed
            <4> QED
                BY <4>1, <4>2, <4>4, <4>5, <4>6 DEF last, list
        <3>5. Listed(k, said.items) = Extended(Listed(k, Front(said.items)), k, Last(said.items))
            BY <1>2, ListedLast
        <3>6. parser'[k].list = Listed(k, said.items)
            BY <1>2, <2>2, <3>4, <3>5 DEF Extended
        <3> QED
            BY <1>1, <3>2, <3>4, <3>6 DEF ItemRead
    <2>3. CASE k # kind
        <3>1. Untouched(k)
            BY <1>1, <2>3, OthersUntouched DEF Places
        <3> QED
            BY <1>1, <2>1, <2>3, <3>1, OtherItemRead
    <2> QED
        BY <2>2, <2>3
<1> QED
    BY <1>3 DEF ItemInv

\* What the parser of the open item does at the closing tag of a field.
LEMMA FieldRead ==
    ASSUME IInv, NEW kind \in Kinds \ {"app_version"}, NEW name, name # kind,
           mIn[kind], StateEnded(kind, name)
    PROVE  /\ parser'[kind].mInActiveTask <=> InTask /\ name # "active_task"
           /\ parser'[kind].list = Listed(kind, Front(said.items))
           /\ parser[kind].item = IF InTask THEN [Last(said.items) EXCEPT !.active = FALSE]
                                  ELSE Last(said.items)
           /\ parser[kind].mInActiveTask <=> InTask
           /\ Last(said.items) \in Item(kind)
           /\ parser'[kind].item = ReadInto(parser[kind], name)
<1> DEFINE r == parser[kind]
           closed == SubEnd(kind, r, name)
           list == Listed(kind, Front(said.items))
           last == Last(said.items)
<1>1. Shape(r) /\ ItemRead(kind) /\ kind \in Parsers
    BY KindsAreParsers DEF IInv, ReadOK, ItemInv, ParsersOK, TypedParser
<1>2. said.items \in Seq(Items) /\ said.items # <<>> /\ last.kind = kind
    BY DEF IInv, SaidOK
<1>3. last \in Item(kind)
    <2>1. last \in Items
        BY <1>2 DEF Last
    <2> QED
        BY <1>2, <2>1, ItemsAre
<1>4. /\ r.mInActiveTask <=> InTask
      /\ r.item = IF InTask THEN [last EXCEPT !.active = FALSE] ELSE last
      /\ r.list = list
    BY <1>1 DEF ItemRead
<1>5. r.item.kind = kind
    BY <1>3, <1>4 DEF Item
<1>6. r.item # NoItem
    BY <1>5 DEF NoItem, Kinds
<1>7. parser'[kind] = closed
    BY <1>1, KindsAreParsers DEF StateEnded
<1> HIDE DEF r, list, last
<1>8. Shape(r)
    BY <1>1
<1>9. closed.mInActiveTask <=> r.mInActiveTask /\ name # "active_task"
    BY ONLY <1>6, <1>8, name # kind, ClosingField
<1>10. closed.item = ReadInto(r, name) /\ closed.list = r.list
    BY ONLY <1>6, <1>8, name # kind, ClosingField
<1> HIDE DEF closed
<1>11. parser'[kind].mInActiveTask <=> InTask /\ name # "active_task"
    BY <1>4, <1>7, <1>9
<1>12. parser'[kind].list = list /\ parser'[kind].item = ReadInto(r, name)
    BY <1>4, <1>7, <1>10
<1> QED
    BY <1>3, <1>4, <1>11, <1>12 DEF r, list, last

LEMMA StateFieldClosedRead ==
    ASSUME IInv, NEW kind \in Places, NEW task \in BOOLEAN, NEW name \in FieldNames,
           ClosesAStateField(kind, task, name)
    PROVE  ItemInv'
<1>1. /\ \A k \in Kinds : mIn[k] <=> k = kind
      /\ \A k \in Kinds : mIn'[k] <=> k = kind
      /\ (InTask <=> task) /\ (InTask' <=> InTask) /\ IsField
      /\ StateEnded(kind, name) /\ SaysText(name)
      /\ FieldPlace("client_state", kind, task, name)
    BY DEF ClosesAStateField, Moves, At, FieldPlace, AccountFields
<1>2. name \notin Kinds /\ name # "active_task"
    BY DEF FieldNames, AccountFields, Kinds
<1>3. kind = "none" => name \notin {"name", "value", "slot"}
    BY <1>1 DEF FieldPlace, AccountFields, Kinds
<1>4. /\ said'.items \in Seq(Items)
      /\ kind = "none" => said'.items = said.items
      /\ kind # "none" =>
           /\ said.items # <<>> /\ Last(said.items) \in Item(kind)
           /\ said'.items # <<>>
           /\ Front(said'.items) = Front(said.items)
           /\ Last(said'.items) =
                IF name \in {"name", "value", "slot"}
                THEN [Last(said.items) EXCEPT ![name] = Trimmed(text)]
                ELSE Last(said.items)
    BY <1>1, <1>3, TextSaid
<1>5. ASSUME NEW k \in Kinds \ {"app_version"}
      PROVE  ItemRead(k)'
    <2>1. ItemRead(k)
        BY DEF IInv, ReadOK, ItemInv
    <2>2. CASE k = kind
        <3> DEFINE r == parser[k]
                   last == Last(said.items)
                   new == Last(said'.items)
                   content == Trimmed(text)
        <3>1. /\ parser'[k].mInActiveTask <=> InTask
              /\ parser'[k].list = Listed(k, Front(said.items))
              /\ r.item = IF InTask THEN [last EXCEPT !.active = FALSE] ELSE last
              /\ r.mInActiveTask <=> InTask
              /\ last \in Item(k)
              /\ parser'[k].item = ReadInto(r, name)
            BY <1>1, <1>2, <2>2, FieldRead
        <3>2. k # "none"
            BY KindsAreParsers
        <3>3. TrimEnd(r.mCurrentElement) = content
            <4>1. r.mElementStarted
                BY <1>1, <2>2 DEF IInv, RunOK, StartedOK
            <4>2. r.mCurrentElement = TrimStart(text)
                BY <4>1, KindsAreParsers DEF IInv, RunOK, Collected
            <4> QED
                BY <4>2 DEF Trimmed
        <3>4. new = IF name \in {"name", "value", "slot"}
                    THEN [last EXCEPT ![name] = content] ELSE last
            BY <1>4, <2>2, <3>2
        <3>5. IsTaken(r, name) <=> name \in {"name", "value", "slot"}
            <4>1. r.mInActiveTask <=> task
                BY <1>1, <3>1
            <4>2. CASE task
                BY <1>1, <2>2, <3>2, <4>1, <4>2 DEF IsTaken, FieldPlace
            <4>3. CASE ~task
                BY <1>1, <2>2, <3>2, <4>1, <4>3 DEF IsTaken, FieldPlace
            <4> QED
                BY <4>2, <4>3
        <3>6. ReadInto(r, name) = IF name \in {"name", "value", "slot"}
                                  THEN [r.item EXCEPT ![name] = content] ELSE r.item
            BY <1>2, <3>3, <3>5 DEF ReadInto
        <3> HIDE DEF r, last, new, content
        <3>7. ReadInto(r, name) = IF InTask THEN [new EXCEPT !.active = FALSE] ELSE new
            <4>1. CASE name \in {"name", "value", "slot"}
                <5>1. ReadInto(r, name) = [r.item EXCEPT ![name] = content]
                    BY <3>6, <4>1
                <5>2. new = [last EXCEPT ![name] = content]
                    BY <3>4, <4>1
                <5>3. [ [last EXCEPT !.active = FALSE] EXCEPT ![name] = content]
                         = [ [last EXCEPT ![name] = content] EXCEPT !.active = FALSE]
                    BY <3>1, <4>1 DEF Item
                <5> QED
                    BY <3>1, <5>1, <5>2, <5>3
            <4>2. CASE name \notin {"name", "value", "slot"}
                BY <3>1, <3>4, <3>6, <4>2
            <4> QED
                BY <4>1, <4>2
        <3>8. mIn'[k]
            BY <1>1, <2>2
        <3>9. Front(said'.items) = Front(said.items)
            BY <1>4, <2>2, <3>2
        <3> QED
            BY <1>1, <3>1, <3>7, <3>8, <3>9 DEF ItemRead, new
    <2>3. CASE k # kind
        <3>1. ~mIn[k] /\ ~mIn'[k]
            BY <1>1, <2>3
        <3>2. Untouched(k)
            BY <1>1, <2>3, <3>1, OthersUntouched
        <3>3. Listed(k, said'.items) = Listed(k, said.items)
            <4>1. CASE kind = "none"
                BY <1>4, <4>1
            <4>2. CASE kind # "none"
                <5>1. Last(said.items).kind = kind /\ Last(said'.items).kind = kind
                    BY <1>4, <4>2 DEF Item
                <5> QED
                    BY <1>4, <2>3, <4>2, <5>1, ListedReplaced DEF IInv, SaidOK
            <4> QED
                BY <4>1, <4>2
        <3> QED
            BY <2>1, <3>1, <3>2, <3>3, OtherItemRead
    <2> QED
        BY <2>2, <2>3
<1> QED
    BY <1>5 DEF ItemInv

LEMMA TaskClosedRead ==
    ASSUME IInv, ClosesATask
    PROVE  ItemInv'
<1>1. /\ \A k \in Kinds : mIn[k] <=> k = "result"
      /\ \A k \in Kinds : mIn'[k] <=> k = "result"
      /\ InTask /\ ~InTask'
      /\ StateEnded("result", "active_task") /\ said' = said
    BY DEF ClosesATask, Moves, At
<1>2. "result" \in Kinds \ {"app_version"} /\ "result" \in Places
    BY DEF Kinds, Places
<1>3. ASSUME NEW k \in Kinds \ {"app_version"}
      PROVE  ItemRead(k)'
    <2>1. ItemRead(k)
        BY DEF IInv, ReadOK, ItemInv
    <2>2. CASE k = "result"
        <3>1. /\ ~parser'[k].mInActiveTask
              /\ parser'[k].list = Listed(k, Front(said.items))
              /\ parser[k].item = [Last(said.items) EXCEPT !.active = FALSE]
              /\ Last(said.items) \in Item(k)
              /\ parser'[k].item = ReadInto(parser[k], "active_task")
            BY <1>1, <1>2, <2>2, FieldRead
        <3>2. Last(said.items).active
            BY <1>1, <1>2 DEF IInv, SaidOK
        <3>3. ReadInto(parser[k], "active_task") = [parser[k].item EXCEPT !.active = TRUE]
            BY DEF ReadInto
        <3>4. parser'[k].item = Last(said.items)
            <4> DEFINE last == Last(said.items)
            <4>1. last \in Item(k) /\ last.active
                BY <3>1, <3>2
            <4>2. parser'[k].item = [ [last EXCEPT !.active = FALSE] EXCEPT !.active = TRUE]
                BY <3>1, <3>3
            <4> HIDE DEF last
            <4>3. [ [last EXCEPT !.active = FALSE] EXCEPT !.active = TRUE] = last
                BY <4>1 DEF Item
            <4>4. parser'[k].item = last
                BY <4>2, <4>3
            <4> QED
                BY <4>4 DEF last
        <3> QED
            BY <1>1, <2>2, <3>1, <3>4 DEF ItemRead
    <2>3. CASE k # "result"
        <3>1. ~mIn[k] /\ ~mIn'[k]
            BY <1>1, <2>3
        <3>2. Untouched(k)
            BY <1>1, <1>2, <2>3, <3>1, OthersUntouched
        <3> QED
            BY <1>1, <2>1, <3>1, <3>2, OtherItemRead
    <2> QED
        BY <2>2, <2>3
<1> QED
    BY <1>3 DEF ItemInv

LEMMA EndRead ==
    ASSUME IInv, NEW root \in Roots, Ends(root),
           root = "client_state" => StateEnded("none", "client_state"),
           root = "account_out" => AccountEnded("account_out")
    PROVE  ItemInv'
<1>1. /\ \A k \in Kinds : ~mIn[k]
      /\ \A k \in Kinds : ~mIn'[k]
      /\ said' = said
    BY KindsAreParsers DEF Ends, At, AtEnd
<1>2. CASE root = "client_state"
    <2>1. "none" \in Places
        BY DEF Places
    <2>2. ASSUME NEW k \in Kinds \ {"app_version"}
          PROVE  ItemRead(k)'
        <3>1. ItemRead(k) /\ k # "none"
            BY KindsAreParsers DEF IInv, ReadOK, ItemInv
        <3>2. Untouched(k)
            BY <1>1, <1>2, <2>1, <3>1, OthersUntouched
        <3> QED
            BY <1>1, <3>1, <3>2, OtherItemRead
    <2> QED
        BY <2>2 DEF ItemInv
<1>3. CASE root = "account_out"
    <2>1. \A k \in Kinds : parser'[k] = parser[k]
        BY <1>3, KindsAreParsers DEF AccountEnded
    <2> QED
        BY <1>1, <2>1, AccountStepRead
<1> QED
    BY <1>2, <1>3 DEF Roots

(***************************************************************************)
(* The release is read                                                     *)
(***************************************************************************)
ReleasesIn(fields) ==
    { fields[i].text : i \in
        {j \in DOMAIN fields : fields[j].name = "core_client_release"} } \ {<<>>}

LEMMA ReleasesAre ==
    ASSUME NEW fields \in Seq(Field), NEW release
    PROVE  release \in ReleasesIn(fields) <=>
              /\ release # <<>>
              /\ \E i \in 1 .. Len(fields) :
                    fields[i].name = "core_client_release" /\ fields[i].text = release
<1>1. DOMAIN fields = 1 .. Len(fields)
    OBVIOUS
<1> QED
    BY <1>1 DEF ReleasesIn

LEMMA SameRelease ==
    ASSUME IInv, said'.fields = said.fields, Released'.list = Released.list
    PROVE  ReleaseInv'
<1>1. ReleaseInv
    BY DEF IInv, ReadOK
<1>2. Releases' = Releases
    BY DEF Releases
<1> QED
    BY <1>1, <1>2 DEF ReleaseInv, IsRelease

\* A field that has just been opened says nothing yet.
LEMMA FieldOpenedRelease ==
    ASSUME IInv, NEW name \in FieldNames, SaysField(name), Released'.list = Released.list
    PROVE  ReleaseInv'
<1>1. ReleaseInv /\ said.fields \in Seq(Field)
    BY DEF IInv, ReadOK, SaidOK
<1> DEFINE n == Len(said.fields)
<1>2. /\ said'.fields \in Seq(Field) /\ n \in Nat
      /\ Len(said'.fields) = n + 1
      /\ \A i \in 1 .. n : said'.fields[i] = said.fields[i]
      /\ said'.fields[n + 1].name = name
      /\ said'.fields[n + 1].text = <<>>
    <2>1. /\ said'.fields \in Seq(Field) /\ said'.fields # <<>> /\ n \in Nat
          /\ Len(said'.fields) = n + 1
          /\ \A i \in 1 .. n : said'.fields[i] = said.fields[i]
          /\ Last(said'.fields) = [name |-> name, text |-> <<>>]
        BY <1>1, LenProperties, FieldSaid
    <2> QED
        BY <2>1 DEF Last
<1>3. name = "core_client_release" => \A i \in 1 .. n : ~IsRelease(i)
    <2>1. DOMAIN said.fields = 1 .. n
        BY <1>1
    <2> QED
        BY <2>1 DEF SaysField
<1>4. \A i \in 1 .. n : IsRelease(i)' <=> IsRelease(i)
    <2>1. \A i \in 1 .. n : said'.fields[i].name = said.fields[i].name
        BY <1>2
    <2> HIDE DEF n
    <2> QED
        BY <2>1 DEF IsRelease
<1>5. said'.fields[n + 1].name = "core_client_release" => name = "core_client_release"
    BY <1>2
<1>6. Releases' = Releases
    <2>1. Releases = ReleasesIn(said.fields) /\ Releases' = ReleasesIn(said'.fields)
        BY DEF Releases, ReleasesIn
    <2>2. ASSUME NEW release
          PROVE  release \in ReleasesIn(said'.fields) <=> release \in ReleasesIn(said.fields)
        <3>1. \A i \in 1 .. n + 1 : i \in 1 .. n \/ i = n + 1
            BY <1>2
        <3>2. \A i \in 1 .. n : i \in 1 .. n + 1
            BY <1>2
        <3> HIDE DEF n
        <3>3. release \in ReleasesIn(said'.fields) <=>
                 /\ release # <<>>
                 /\ \E i \in 1 .. n + 1 :
                      said'.fields[i].name = "core_client_release" /\ said'.fields[i].text = release
            BY <1>2, ReleasesAre
        <3>4. release \in ReleasesIn(said.fields) <=>
                 /\ release # <<>>
                 /\ \E i \in 1 .. n :
                      said.fields[i].name = "core_client_release" /\ said.fields[i].text = release
            BY <1>1, ReleasesAre DEF n
        <3> QED
            BY <1>2, <3>1, <3>2, <3>3, <3>4
    <2>3. ReleasesIn(said'.fields) = ReleasesIn(said.fields)
        BY <2>2
    <2> QED
        BY <2>1, <2>3
<1>7. \A i, j \in 1 .. Len(said'.fields) : IsRelease(i)' /\ IsRelease(j)' => i = j
    <2>1. \A i \in 1 .. Len(said'.fields) : i \in 1 .. n \/ i = n + 1
        BY <1>2
    <2>2. \A i, j \in 1 .. n : IsRelease(i) /\ IsRelease(j) => i = j
        BY <1>1 DEF ReleaseInv
    <2>3. n + 1 \notin 1 .. n
        BY <1>2
    <2> HIDE DEF n
    <2>4. ASSUME NEW i \in 1 .. Len(said'.fields), NEW j \in 1 .. Len(said'.fields),
                 IsRelease(i)', IsRelease(j)'
          PROVE  i = j
        <3>1. CASE i \in 1 .. n /\ j \in 1 .. n
            BY <1>4, <2>2, <2>4, <3>1
        <3>2. CASE i = n + 1 \/ j = n + 1
            <4>1. name = "core_client_release"
                BY <1>5, <2>4, <3>2 DEF IsRelease
            <4>2. i \notin 1 .. n /\ j \notin 1 .. n
                BY <1>3, <1>4, <2>4, <4>1
            <4> QED
                BY <2>1, <4>2
        <3> QED
            BY <2>1, <3>1, <3>2
    <2> QED
        BY <2>4
<1>8. \/ Releases' = {} /\ Released'.list = <<>>
      \/ \E release \in Texts : Releases' = {release} /\ Released'.list = <<release>>
    BY <1>1, <1>6 DEF ReleaseInv
<1> QED
    BY <1>7, <1>8 DEF ReleaseInv

\* The last field gets its text.
LastFieldSaid ==
    /\ said.fields \in Seq(Field) /\ said.fields # <<>>
    /\ said'.fields \in Seq(Field)
    /\ Len(said'.fields) = Len(said.fields)
    /\ \A i \in 1 .. Len(said.fields) - 1 : said'.fields[i] = said.fields[i]
    /\ said.fields[Len(said.fields)] = [name |-> Last(open), text |-> <<>>]
    /\ said'.fields[Len(said.fields)] = [name |-> Last(open), text |-> Trimmed(text)]

LEMMA LastFieldIsSaid ==
    ASSUME IInv, NEW root, NEW kind \in Places, NEW task, NEW name \in FieldNames,
           At(root, kind, task, name), FieldPlace(root, kind, task, name), SaysText(name)
    PROVE  LastFieldSaid /\ Last(open) = name
<1>1. /\ name # "none" /\ IsField /\ Last(open) = name
      /\ \A k \in Kinds : mIn[k] <=> k = kind
    BY DEF At, FieldPlace, AccountFields
<1>2. kind = "none" => name \notin {"name", "value", "slot"}
    BY DEF FieldPlace, AccountFields, Kinds
<1>3. /\ said.fields # <<>>
      /\ said'.fields \in Seq(Field) /\ said'.fields # <<>>
      /\ Len(said'.fields) = Len(said.fields)
      /\ \A i \in 1 .. Len(said.fields) - 1 : said'.fields[i] = said.fields[i]
      /\ Last(said'.fields) = [Last(said.fields) EXCEPT !.text = Trimmed(text)]
    BY <1>1, <1>2, TextSaid
<1>4. said.fields \in Seq(Field) /\ Last(said.fields) = [name |-> Last(open), text |-> <<>>]
    BY <1>1 DEF IInv, SaidOK
<1>5. Last(said'.fields) = [name |-> Last(open), text |-> Trimmed(text)]
    BY <1>3, <1>4
<1> QED
    BY <1>1, <1>3, <1>4, <1>5 DEF LastFieldSaid, Last

\* If it is the release, there was none before.
LEMMA FieldClosedReleases ==
    ASSUME IInv, LastFieldSaid
    PROVE  /\ \A i, j \in 1 .. Len(said'.fields) : IsRelease(i)' /\ IsRelease(j)' => i = j
           /\ Last(open) # "core_client_release" => Releases' = Releases
           /\ Last(open) = "core_client_release" =>
                Releases = {} /\ Releases' = {Trimmed(text)} \ {<<>>}
<1> DEFINE n == Len(said.fields)
           content == Trimmed(text)
           last == Last(open)
<1>1. ReleaseInv /\ said.fields \in Seq(Field) /\ said'.fields \in Seq(Field)
      /\ n \in Nat \ {0} /\ Len(said'.fields) = n
    BY LenProperties, EmptySeq DEF IInv, ReadOK, LastFieldSaid
<1>2. /\ \A i \in 1 .. n - 1 : said'.fields[i] = said.fields[i]
      /\ said.fields[n].name = last /\ said'.fields[n].name = last
      /\ said.fields[n].text = <<>> /\ said'.fields[n].text = content
    BY DEF LastFieldSaid
<1>3. n \in 1 .. n /\ \A i \in 1 .. n : i \in 1 .. n - 1 \/ i = n
    BY <1>1
<1>4. \A i \in 1 .. n - 1 : i \in 1 .. n /\ i # n
    BY <1>1
<1>5. Releases = ReleasesIn(said.fields) /\ Releases' = ReleasesIn(said'.fields)
    BY DEF Releases, ReleasesIn
<1>6. \A i, j \in 1 .. n : IsRelease(i) /\ IsRelease(j) => i = j
    BY <1>1 DEF ReleaseInv
<1>7. \A release : release \in Releases <=>
         /\ release # <<>>
         /\ \E i \in 1 .. n :
              said.fields[i].name = "core_client_release" /\ said.fields[i].text = release
    BY <1>1, <1>5, ReleasesAre
<1>8. \A release : release \in Releases' <=>
         /\ release # <<>>
         /\ \E i \in 1 .. n :
              said'.fields[i].name = "core_client_release" /\ said'.fields[i].text = release
    BY <1>1, <1>5, ReleasesAre
<1> HIDE DEF n, content, last
<1>9. \A i \in 1 .. n : IsRelease(i)' <=> IsRelease(i)
    BY <1>2, <1>3 DEF IsRelease
<1>10. \A i, j \in 1 .. Len(said'.fields) : IsRelease(i)' /\ IsRelease(j)' => i = j
    BY <1>1, <1>6, <1>9
<1>11. ASSUME last # "core_client_release"
       PROVE  Releases' = Releases
    <2>1. \A release : release \in Releases' <=> release \in Releases
        BY <1>2, <1>3, <1>4, <1>7, <1>8, <1>11
    <2> QED
        BY <2>1 DEF Releases
<1>12. ASSUME last = "core_client_release"
       PROVE  Releases = {} /\ Releases' = {content} \ {<<>>}
    <2>1. \A i \in 1 .. n : said.fields[i].name = "core_client_release" <=> i = n
        BY <1>2, <1>3, <1>6, <1>12 DEF IsRelease
    <2>2. \A i \in 1 .. n : said'.fields[i].name = "core_client_release" <=> i = n
        BY <1>2, <1>3, <1>4, <1>12, <2>1
    <2>3. \A release : release \notin Releases
        BY <1>2, <1>7, <2>1
    <2>4. \A release : release \in Releases' <=> release # <<>> /\ release = content
        BY <1>2, <1>3, <1>8, <2>2
    <2> QED
        BY <2>3, <2>4
<1> QED
    BY <1>10, <1>11, <1>12 DEF last, content

LEMMA StateFieldClosedRelease ==
    ASSUME IInv, NEW kind \in Places, NEW task \in BOOLEAN, NEW name \in FieldNames,
           ClosesAStateField(kind, task, name)
    PROVE  ReleaseInv'
<1>1. LastFieldSaid /\ Last(open) = name /\ StateEnded(kind, name)
    BY LastFieldIsSaid DEF ClosesAStateField, Moves
<1>2. /\ \A i, j \in 1 .. Len(said'.fields) : IsRelease(i)' /\ IsRelease(j)' => i = j
      /\ name # "core_client_release" => Releases' = Releases
      /\ name = "core_client_release" =>
           Releases = {} /\ Releases' = {Trimmed(text)} \ {<<>>}
    BY <1>1, FieldClosedReleases
<1>3. Released' = ReleaseEnd(Released, name) /\ Shape(Released)
    BY <1>1, KindsAreParsers DEF StateEnded, Released, IInv, ParsersOK, TypedParser
<1>4. ReleaseInv /\ text \in Texts
    BY DEF IInv, ReadOK, TextOK
<1>5. CASE name # "core_client_release"
    <2>1. Released'.list = Released.list
        BY <1>3, <1>5, ReleaseEnding
    <2> QED
        BY <1>2, <1>4, <1>5, <2>1 DEF ReleaseInv
<1>6. CASE name = "core_client_release"
    <2> DEFINE content == Trimmed(text)
    <2>1. Released.mElementStarted
        <3>1. Inside("core_client_release")
            BY <1>1, <1>6 DEF ClosesAStateField, Moves, At, Inside
        <3> QED
            BY <3>1 DEF IInv, RunOK, StartedOK
    <2>2. TrimEnd(Released.mCurrentElement) = content
        BY <2>1, KindsAreParsers DEF IInv, RunOK, Collected, Released, Trimmed
    <2>3. Released.list = <<>>
        BY <1>2, <1>4, <1>6 DEF ReleaseInv
    <2>4. Released'.list = IF content # <<>> THEN <<content>> ELSE Released.list
        BY <1>3, <1>6, <2>1, <2>2, ReleaseEnding
    <2>5. content \in Texts
        BY <1>4, TrimmedTyped
    <2>6. Releases' = {content} \ {<<>>}
        BY <1>2, <1>6
    <2> HIDE DEF content
    <2>7. \/ Releases' = {} /\ Released'.list = <<>>
          \/ \E release \in Texts : Releases' = {release} /\ Released'.list = <<release>>
        BY <2>3, <2>4, <2>5, <2>6
    <2> QED
        BY <1>2, <2>7 DEF ReleaseInv
<1> QED
    BY <1>5, <1>6

LEMMA AccountFieldClosedRelease ==
    ASSUME IInv, NEW name, ClosesAnAccountField(name)
    PROVE  ReleaseInv'
<1>1. /\ name \in FieldNames /\ name # "core_client_release" /\ "none" \in Places
      /\ FieldPlace("account_out", "none", FALSE, name)
    BY DEF ClosesAnAccountField, FieldNames, AccountFields, Places, FieldPlace
<1>2. LastFieldSaid /\ Last(open) = name
    BY <1>1, LastFieldIsSaid DEF ClosesAnAccountField, Moves
<1>3. /\ \A i, j \in 1 .. Len(said'.fields) : IsRelease(i)' /\ IsRelease(j)' => i = j
      /\ Releases' = Releases
    BY <1>1, <1>2, FieldClosedReleases
<1>4. Released' = Released
    BY KindsAreParsers DEF ClosesAnAccountField, AccountEnded, Released
<1> QED
    BY <1>3, <1>4 DEF IInv, ReadOK, ReleaseInv

(***************************************************************************)
(* The account is read                                                     *)
(***************************************************************************)
LEMMA NotAnAccount ==
    ASSUME \/ open' # <<>> /\ open'[1] = "client_state"
           \/ open' = <<>> /\ result'.root = "client_state"
    PROVE  AccountInv'
BY DEF AccountInv

\* What AccountInv says where the reply of an account is.
AccountFollows ==
    /\ said.fields = <<>> =>
         AccountRead.item = NoItem /\ (open # <<>> => AccountRead.mElementStarted)
    /\ said.fields # <<>> =>
         /\ said.fields[1].name \in AccountFields
         /\ AccountRead.item \in Account
         /\ Len(said.fields) = 1 /\ IsField => AccountRead.mElementStarted
         /\ OnlyFirst => AccountRead.item[said.fields[1].name] = said.fields[1].text

LEMMA AnAccount ==
    ASSUME IInv, open # <<>>, open[1] = "account_out"
    PROVE  /\ AccountFollows /\ Shape(AccountRead) /\ said.fields \in Seq(Field)
           /\ DOMAIN said.fields = 1 .. Len(said.fields)
           /\ AccountRead.mCurrentElement \in Texts
<1>1. AccountFollows
    BY DEF IInv, ReadOK, AccountInv, AccountFollows
<1>2. TypedParser("account_out", AccountRead)
    BY KindsAreParsers DEF IInv, ParsersOK, AccountRead
<1>3. said.fields \in Seq(Field)
    BY DEF IInv, SaidOK
<1>4. DOMAIN said.fields = 1 .. Len(said.fields)
    BY <1>3
<1> QED
    BY <1>1, <1>2, <1>3, <1>4 DEF TypedParser

LEMMA AccountFieldOpenedRead ==
    ASSUME IInv, NEW name, OpensAnAccountField(name)
    PROVE  AccountInv'
<1>1. /\ open # <<>> /\ open[1] = "account_out"
      /\ name \in AccountFields /\ name \in FieldNames
      /\ SaysField(name) /\ AccountStarted(name)
    BY DEF OpensAnAccountField, Moves, At, FieldNames
<1>2. /\ AccountFollows /\ Shape(AccountRead) /\ said.fields \in Seq(Field)
      /\ DOMAIN said.fields = 1 .. Len(said.fields)
    BY <1>1, AnAccount
<1>3. AccountRead' = AccountStart(AccountRead, name)
    BY <1>1, KindsAreParsers DEF AccountStarted, AccountRead
<1>4. /\ AccountRead'.mElementStarted = AccountRead.mElementStarted
      /\ AccountRead'.item = IF AccountRead.item = NoItem THEN NewAccount ELSE AccountRead.item
    BY <1>1, <1>2, <1>3, AccountOpening
<1> DEFINE n == Len(said.fields)
<1>5. /\ said'.fields \in Seq(Field) /\ said'.fields # <<>>
      /\ n \in Nat /\ Len(said'.fields) = n + 1
      /\ \A i \in 1 .. n : said'.fields[i] = said.fields[i]
      /\ said'.fields[n + 1] = [name |-> name, text |-> <<>>]
    BY <1>1, <1>2, LenProperties, FieldSaid DEF Last
<1>6. AccountFollows'
    <2>1. CASE said.fields = <<>>
        <3>1. AccountRead.item = NoItem /\ AccountRead.mElementStarted
            BY <1>1, <1>2, <2>1 DEF AccountFollows
        <3>2. AccountRead'.item = NewAccount /\ AccountRead'.mElementStarted
            BY <1>4, <3>1
        <3>3. n = 0
            BY <2>1
        <3>4. said'.fields[1] = [name |-> name, text |-> <<>>]
            BY <1>5, <3>3
        <3>5. NewAccount \in Account /\ NewAccount[name] = <<>>
            BY <1>1, NoText DEF NewAccount, Account, AccountFields
        <3> QED
            BY <1>1, <1>5, <3>2, <3>4, <3>5 DEF AccountFollows
    <2>2. CASE said.fields # <<>>
        <3>1. AccountRead.item \in Account /\ said.fields[1].name \in AccountFields
            BY <1>2, <2>2 DEF AccountFollows
        <3>2. AccountRead.item # NoItem
            BY <3>1 DEF Account, NoItem
        <3>3. AccountRead'.item = AccountRead.item
            BY <1>4, <3>2
        <3>4. n # 0 /\ 1 \in 1 .. n
            BY <1>2, <1>5, <2>2, EmptySeq
        <3>5. Len(said'.fields) # 1
            BY <1>5, <3>4
        <3>6. said'.fields[1] = said.fields[1]
            BY <1>5, <3>4
        <3>7. OnlyFirst' => OnlyFirst
            <4>1. DOMAIN said'.fields = 1 .. n + 1
                BY <1>5
            <4>2. \A i \in 1 .. n : i \in 1 .. n + 1
                BY <1>5
            <4>3. \A i \in 1 .. n : said'.fields[i] = said.fields[i]
                BY <1>5
            <4>4. DOMAIN said.fields = 1 .. n
                BY <1>2
            <4> HIDE DEF n
            <4> QED
                BY <3>6, <4>1, <4>2, <4>3, <4>4 DEF OnlyFirst
        <3>8. OnlyFirst => AccountRead.item[said.fields[1].name] = said.fields[1].text
            BY <1>2, <2>2 DEF AccountFollows
        <3> QED
            BY <1>5, <3>1, <3>3, <3>5, <3>6, <3>7, <3>8 DEF AccountFollows
    <2> QED
        BY <2>1, <2>2
<1> QED
    BY <1>6 DEF AccountInv, AccountFollows

LEMMA AccountFieldClosedRead ==
    ASSUME IInv, NEW name, ClosesAnAccountField(name)
    PROVE  AccountInv'
<1>1. /\ open # <<>> /\ open[1] = "account_out" /\ IsField /\ ~IsField'
      /\ name \in AccountFields /\ name \in FieldNames /\ "none" \in Places
      /\ FieldPlace("account_out", "none", FALSE, name)
      /\ SaysText(name) /\ AccountEnded(name)
    BY DEF ClosesAnAccountField, Moves, At, FieldNames, AccountFields, Places, FieldPlace
<1>2. /\ AccountFollows /\ Shape(AccountRead) /\ said.fields \in Seq(Field)
      /\ DOMAIN said.fields = 1 .. Len(said.fields)
      /\ AccountRead.mCurrentElement \in Texts
    BY <1>1, AnAccount
<1>3. LastFieldSaid /\ Last(open) = name
    BY <1>1, LastFieldIsSaid DEF ClosesAnAccountField, Moves
<1> DEFINE n == Len(said.fields)
           content == TrimEnd(AccountRead.mCurrentElement)
           first == said.fields[1].name
<1>4. /\ said.fields # <<>> /\ n \in Nat \ {0} /\ said'.fields \in Seq(Field)
      /\ Len(said'.fields) = n /\ said'.fields # <<>>
      /\ \A i \in 1 .. n - 1 : said'.fields[i] = said.fields[i]
      /\ said.fields[n].name = name /\ said'.fields[n].name = name
      /\ said'.fields[n].text = Trimmed(text)
    <2>1. n \in Nat \ {0} /\ Len(said'.fields) = n /\ said'.fields \in Seq(Field)
        BY <1>2, <1>3, LenProperties, EmptySeq DEF LastFieldSaid
    <2>2. said'.fields # <<>>
        BY <2>1, EmptySeq
    <2> QED
        BY <1>3, <2>1, <2>2 DEF LastFieldSaid
<1>5. /\ first \in AccountFields /\ AccountRead.item \in Account
      /\ n = 1 => AccountRead.mElementStarted
      /\ OnlyFirst => AccountRead.item[first] = said.fields[1].text
    BY <1>1, <1>2, <1>4 DEF AccountFollows
<1>6. AccountRead.item # NoItem
    BY <1>5 DEF Account, NoItem
<1>7. AccountRead' = AccountEnd(AccountRead, name)
    BY <1>1, KindsAreParsers DEF AccountEnded, AccountRead
<1>8. AccountRead'.item = IF IsDecoded(name, content)
                          THEN [AccountRead.item EXCEPT ![name] = content]
                          ELSE AccountRead.item
    BY <1>1, <1>2, <1>6, <1>7, AccountClosing
<1>9. content \in Texts
    BY <1>2, TrimEndTyped
<1>10. n = 1 => content = Trimmed(text)
    BY <1>5, KindsAreParsers DEF IInv, RunOK, Collected, AccountRead, Trimmed
<1> DEFINE item == AccountRead.item
<1> HIDE DEF content, item, first
<1>11. /\ AccountRead'.item \in Account
       /\ n = 1 => AccountRead'.item[name] = content
       /\ first # name => AccountRead'.item[first] = item[first]
    <2>1. CASE IsDecoded(name, content)
        <3>1. item \in Account /\ AccountRead'.item = [item EXCEPT ![name] = content]
            BY <1>5, <1>8, <2>1 DEF item
        <3> QED
            BY <1>1, <1>5, <1>9, <3>1 DEF Account, AccountFields
    \* The number of an empty text: error_num has been empty before.
    <2>2. CASE ~IsDecoded(name, content)
        <3>1. content = <<>> /\ AccountRead'.item = item
            BY <1>1, <1>8, <2>2 DEF IsDecoded, item
        <3>2. ASSUME n = 1
              PROVE  item[name] = <<>>
            <4>1. said.fields[1].name = name /\ said.fields[1].text = <<>>
                BY <1>3, <3>2 DEF LastFieldSaid
            <4>2. OnlyFirst
                BY <1>2, <3>2 DEF OnlyFirst
            <4> QED
                BY <1>5, <4>1, <4>2 DEF first, item
        <3> QED
            BY <1>5, <3>1, <3>2 DEF item
    <2> QED
        BY <2>1, <2>2
<1>12. \A i \in 1 .. n : said'.fields[i].name = said.fields[i].name
    <2>1. \A i \in 1 .. n : i \in 1 .. n - 1 \/ i = n
        BY <1>4
    <2> HIDE DEF n
    <2> QED
        BY <1>4, <2>1
<1>13. 1 \in 1 .. n
    BY <1>4
<1>14. said'.fields[1].name = first
    BY <1>12, <1>13 DEF first
<1>15. OnlyFirst' => AccountRead'.item[first] = said'.fields[1].text
    <2>1. CASE n = 1
        <3>1. first = name /\ said'.fields[1].text = Trimmed(text)
            BY <1>4, <2>1 DEF first
        <3> QED
            BY <1>10, <1>11, <2>1, <3>1
    <2>2. CASE n # 1
        <3>1. 1 \in 1 .. n - 1 /\ n \in 1 .. n
            <4>1. n \in Nat \ {0} /\ n # 1
                BY <1>4, <2>2
            <4> HIDE DEF n
            <4> QED
                BY <4>1
        <3>2. said'.fields[1] = said.fields[1]
            BY <1>4, <3>1
        <3>3. DOMAIN said'.fields = 1 .. n /\ DOMAIN said.fields = 1 .. n
            BY <1>2, <1>4
        <3> HIDE DEF n
        <3>4. ASSUME OnlyFirst'
              PROVE  OnlyFirst /\ first # name
            <4>1. \A i \in 1 .. n \ {1} : said'.fields[i].name # first
                BY <1>14, <3>3, <3>4 DEF OnlyFirst
            <4>2. first # name
                BY <1>4, <2>2, <3>1, <4>1
            <4>3. OnlyFirst
                BY <1>12, <3>3, <4>1 DEF OnlyFirst, first
            <4> QED
                BY <4>2, <4>3
        <3> QED
            BY <1>5, <1>11, <3>2, <3>4 DEF item
    <2> QED
        BY <2>1, <2>2
<1> HIDE DEF n
<1>16. AccountFollows'
    BY <1>1, <1>4, <1>5, <1>11, <1>14, <1>15 DEF AccountFollows
<1> QED
    BY <1>16 DEF AccountInv, AccountFollows

\* The text of an account's field is collected, and the root closes, without
\* another word about the account.
LEMMA AccountKept ==
    ASSUME IInv, open # <<>>, open[1] = "account_out", said'.fields = said.fields,
           AccountRead'.item = AccountRead.item,
           (IsField' => IsField) /\ (open' # <<>> => open # <<>>),
           open' # <<>> => (AccountRead'.mElementStarted <=> AccountRead.mElementStarted)
    PROVE  AccountInv'
<1>1. AccountFollows
    BY AnAccount
<1>2. OnlyFirst' <=> OnlyFirst
    BY DEF OnlyFirst
<1>3. IsField' => open' # <<>>
    BY DEF IsField
<1>4. AccountFollows'
    BY <1>1, <1>2, <1>3 DEF AccountFollows
<1> QED
    BY <1>4 DEF AccountInv, AccountFollows

LEMMA CharactersAccount ==
    ASSUME IInv, NEW ch, ReadsText(ch), open # <<>>
    PROVE  AccountInv'
<1>1. open' = open /\ said' = said /\ AllRead(ch)
    BY DEF ReadsText
<1>2. IsField' <=> IsField
    BY <1>1 DEF IsField
<1>3. open[1] = "client_state" \/ open[1] = "account_out"
    BY OpenIsAt DEF IInv, PlaceOK
<1>4. AccountRead' = Characters(AccountRead, ch) /\ Shape(AccountRead)
    BY <1>1, KindsAreParsers DEF AllRead, AccountRead, IInv, ParsersOK, TypedParser
<1>5. AccountRead'.item = AccountRead.item
    BY <1>4, Reading
<1>6. AccountRead'.mElementStarted <=> AccountRead.mElementStarted
    BY <1>4, Reading
<1>7. CASE open[1] = "client_state"
    <2>1. open' # <<>> /\ open'[1] = "client_state"
        BY <1>1, <1>7
    <2> QED
        BY <2>1, NotAnAccount
<1>8. CASE open[1] = "account_out"
    BY <1>1, <1>2, <1>5, <1>6, <1>8, AccountKept
<1> QED
    BY <1>3, <1>7, <1>8

LEMMA EndAccount ==
    ASSUME IInv, NEW root \in Roots, Ends(root),
           root = "account_out" => AccountEnded("account_out")
    PROVE  AccountInv'
<1>1. /\ open # <<>> /\ open[1] = root /\ open' = <<>> /\ ~IsField'
      /\ said' = said /\ result'.root = root
    BY DEF Ends, At, AtEnd
<1>2. CASE root = "client_state"
    BY <1>1, <1>2, NotAnAccount
<1>3. CASE root = "account_out"
    <2>1. AccountRead' = AccountEnd(AccountRead, "account_out") /\ Shape(AccountRead)
        BY <1>1, <1>3, AnAccount, KindsAreParsers DEF AccountEnded, AccountRead
    <2>2. "account_out" \notin AccountFields
        BY DEF AccountFields
    <2>3. AccountRead'.item = AccountRead.item
        BY <2>1, <2>2, AccountClosing DEF IsDecoded
    <2> QED
        BY <1>1, <1>3, <2>3, AccountKept
<1> QED
    BY <1>2, <1>3 DEF Roots

\* Nothing is returned before the root closes.
LEMMA NothingReturned ==
    ASSUME IInv, open # <<>>, open' # <<>>, result' = result
    PROVE  ResultInv'
BY DEF IInv, ReadOK, ResultInv

LEMMA EndReturns ==
    ASSUME NEW root, Ends(root)
    PROVE  ResultInv'
BY DEF Ends, AtEnd, ResultInv

(***************************************************************************)
(* Every action preserves the invariant                                    *)
(***************************************************************************)
LEMMA InStateStill ==
    ASSUME IInv, NEW kind1, NEW task1, NEW field1, NEW kind2, NEW task2, NEW field2,
           Moves("client_state", kind1, task1, field1, kind2, task2, field2), result' = result
    PROVE  PlaceOK' /\ AccountInv' /\ ResultInv' /\ (IsField <=> field1 # "none")
<1>1. open # <<>> /\ open' # <<>> /\ open'[1] = "client_state" /\ PlaceOK'
      /\ (IsField <=> field1 # "none")
    BY DEF Moves, At
<1> QED
    BY <1>1, NotAnAccount, NothingReturned

LEMMA InAccountStill ==
    ASSUME IInv, NEW field1, NEW field2,
           Moves("account_out", "none", FALSE, field1, "none", FALSE, field2), result' = result
    PROVE  PlaceOK' /\ ResultInv' /\ (IsField <=> field1 # "none")
           /\ \A k \in Kinds : ~mIn[k] /\ ~mIn'[k]
<1>1. open # <<>> /\ open' # <<>> /\ PlaceOK' /\ (IsField <=> field1 # "none")
    BY DEF Moves, At
<1>2. \A k \in Kinds : ~mIn[k] /\ ~mIn'[k]
    BY KindsAreParsers DEF Moves, At
<1> QED
    BY <1>1, <1>2, NothingReturned

\* The release changes with its own tags only.
LEMMA ReleaseStarted ==
    ASSUME IInv, NEW kind \in Places, NEW name, StateStarted(kind, name)
    PROVE  Released'.list = Released.list
<1>1. Shape(Released) /\ "client_state" # kind
    BY KindsAreParsers DEF IInv, ParsersOK, TypedParser, Released, Places
<1>2. Released' = CollectText(Released) \/ Released' = Released
    BY <1>1, KindsAreParsers DEF StateStarted, Released
<1> QED
    BY <1>1, <1>2, Collecting

LEMMA ReleaseEnded ==
    ASSUME IInv, NEW kind \in Places, NEW name, StateEnded(kind, name),
           name # "core_client_release"
    PROVE  Released'.list = Released.list
<1>1. Shape(Released) /\ Released' = ReleaseEnd(Released, name)
    BY KindsAreParsers DEF IInv, ParsersOK, TypedParser, Released, StateEnded
<1> QED
    BY <1>1, ReleaseEnding

LEMMA ItemOpenedOK ==
    ASSUME IInv, NEW kind \in Kinds, OpensAnItem(kind)
    PROVE  IInv'
<1>1. /\ Moves("client_state", "none", FALSE, "none", kind, FALSE, "none")
      /\ StateStarted(kind, kind) /\ text' = <<>> /\ result' = result
    BY DEF OpensAnItem
<1>2. kind \in Places /\ ParsersOK
    BY DEF Places, IInv
<1>3. PlaceOK' /\ AccountInv' /\ ResultInv' /\ ~IsField
    BY <1>1, InStateStill
<1>4. SaidOK' /\ TextOK'
    BY <1>1, ItemOpenedSaid, NoTextOK
<1>5. ParsersOK'
    BY <1>1, <1>2, StateStartedTyped
<1>6. StartedOK' /\ Collected'
    BY <1>1, <1>2, <1>3, ItemOpenedStarted, StateStartedCollected
<1>7. ReleaseInv'
    <2>1. said'.fields = said.fields
        BY ItemSaid
    <2>2. Released'.list = Released.list
        BY <1>1, <1>2, ReleaseStarted
    <2> QED
        BY <2>1, <2>2, SameRelease
<1> QED
    BY <1>3, <1>4, <1>5, <1>6, <1>7, ItemOpenedRead DEF IInv, RunOK, ReadOK

LEMMA TaskOpenedOK ==
    ASSUME IInv, OpensATask
    PROVE  IInv'
<1>1. /\ Moves("client_state", "result", FALSE, "none", "result", TRUE, "none")
      /\ StateStarted("result", "active_task") /\ text' = <<>> /\ result' = result
    BY DEF OpensATask
<1>2. "result" \in Places /\ ParsersOK
    BY DEF Places, Kinds, IInv
<1>3. PlaceOK' /\ AccountInv' /\ ResultInv' /\ ~IsField
    BY <1>1, InStateStill
<1>4. SaidOK' /\ TextOK'
    BY <1>1, TaskOpenedSaid, NoTextOK
<1>5. ParsersOK'
    BY <1>1, <1>2, StateStartedTyped
<1>6. StartedOK' /\ Collected'
    BY <1>1, <1>2, <1>3, TaskOpenedStarted, StateStartedCollected
<1>7. ReleaseInv'
    <2>1. said'.fields = said.fields
        BY TaskSaid
    <2>2. Released'.list = Released.list
        BY <1>1, <1>2, ReleaseStarted
    <2> QED
        BY <2>1, <2>2, SameRelease
<1> QED
    BY <1>3, <1>4, <1>5, <1>6, <1>7, TaskOpenedRead DEF IInv, RunOK, ReadOK

LEMMA StateFieldOpenedOK ==
    ASSUME IInv, NEW kind \in Places, NEW task \in BOOLEAN, NEW name \in FieldNames,
           OpensAStateField(kind, task, name)
    PROVE  IInv'
<1>1. /\ Moves("client_state", kind, task, "none", kind, task, name)
      /\ StateStarted(kind, name) /\ SaysField(name) /\ text' = <<>> /\ result' = result
    BY DEF OpensAStateField, SaysField
<1>2. ParsersOK
    BY DEF IInv
<1>3. PlaceOK' /\ AccountInv' /\ ResultInv' /\ ~IsField
    BY <1>1, InStateStill
<1>4. SaidOK' /\ TextOK'
    BY <1>1, FieldOpenedSaid, NoTextOK
<1>5. ParsersOK'
    BY <1>1, <1>2, StateStartedTyped
<1>6. StartedOK' /\ Collected'
    BY <1>1, <1>3, StateFieldOpenedStarted, StateStartedCollected
<1>7. ReleaseInv'
    BY <1>1, ReleaseStarted, FieldOpenedRelease
<1> QED
    BY <1>3, <1>4, <1>5, <1>6, <1>7, StateFieldOpenedRead DEF IInv, RunOK, ReadOK

LEMMA AccountFieldOpenedOK ==
    ASSUME IInv, NEW name \in AccountFields, OpensAnAccountField(name)
    PROVE  IInv'
<1>1. /\ Moves("account_out", "none", FALSE, "none", "none", FALSE, name)
      /\ AccountStarted(name) /\ SaysField(name) /\ text' = <<>> /\ result' = result
    BY DEF OpensAnAccountField, SaysField
<1>2. ParsersOK /\ name \in FieldNames
    BY DEF IInv, FieldNames
<1>3. PlaceOK' /\ ResultInv' /\ ~IsField /\ \A k \in Kinds : ~mIn[k] /\ ~mIn'[k]
    BY <1>1, InAccountStill
<1>4. SaidOK' /\ TextOK'
    BY <1>1, <1>2, FieldOpenedSaid, NoTextOK
<1>5. ParsersOK'
    BY <1>1, <1>2, AccountStartedTyped
<1>6. StartedOK' /\ Collected'
    BY <1>1, <1>3, AccountFieldOpenedStarted, AccountStartedCollected
<1>7. \A p \in Parsers \ {"account_out"} : parser'[p] = parser[p]
    BY <1>1 DEF AccountStarted
<1>8. ReleaseInv'
    <2>1. Released' = Released
        BY <1>7, KindsAreParsers DEF Released
    <2> QED
        BY <1>1, <1>2, <2>1, FieldOpenedRelease
<1>9. ItemInv'
    <2>1. said'.items = said.items
        BY <1>1, <1>2, FieldSaid
    <2>2. \A k \in Kinds : parser'[k] = parser[k]
        BY <1>7, KindsAreParsers
    <2> QED
        BY <1>3, <2>1, <2>2, AccountStepRead
<1> QED
    BY <1>3, <1>4, <1>5, <1>6, <1>8, <1>9, AccountFieldOpenedRead DEF IInv, RunOK, ReadOK

LEMMA CharactersOK ==
    ASSUME IInv, NEW ch \in Texts, ReadsText(ch), open # <<>>
    PROVE  IInv'
<1>1. UNCHANGED <<open, said, mIn, result>> /\ AllRead(ch)
    BY DEF ReadsText
<1>2. PlaceOK'
    BY <1>1 DEF IInv, PlaceOK, PathOK, FlagsOK, Depth, InTask
<1>3. SaidOK'
    BY <1>1 DEF IInv, SaidOK, IsField, InTask, Depth
<1>4. TextOK' /\ ParsersOK' /\ Collected'
    BY TextRead, ReadTyped
<1>5. StartedOK' /\ ItemInv' /\ AccountInv'
    BY ReadStarted, ReadRead, CharactersAccount
<1>6. ReleaseInv'
    <2>1. Released' = Characters(Released, ch) /\ Shape(Released)
        BY <1>1, KindsAreParsers DEF AllRead, Released, IInv, ParsersOK, TypedParser
    <2>2. Released'.list = Released.list
        BY <2>1, Reading
    <2> QED
        BY <1>1, <2>2, SameRelease
<1>7. ResultInv'
    BY <1>1, NothingReturned
<1> QED
    BY <1>2, <1>3, <1>4, <1>5, <1>6, <1>7 DEF IInv, RunOK, ReadOK

LEMMA StateFieldClosedOK ==
    ASSUME IInv, NEW kind \in Places, NEW task \in BOOLEAN, NEW name \in FieldNames,
           ClosesAStateField(kind, task, name)
    PROVE  IInv'
<1>1. /\ Moves("client_state", kind, task, name, kind, task, "none")
      /\ FieldPlace("client_state", kind, task, name)
      /\ StateEnded(kind, name) /\ SaysText(name) /\ text' = <<>> /\ result' = result
    BY DEF ClosesAStateField, SaysText
<1>2. ParsersOK /\ At("client_state", kind, task, name) /\ At("client_state", kind, task, "none")'
    BY <1>1 DEF IInv, Moves
<1>3. PlaceOK' /\ AccountInv' /\ ResultInv'
    BY <1>1, InStateStill
<1>4. SaidOK' /\ TextOK'
    BY <1>1, FieldClosedSaid, NoTextOK
<1>5. ParsersOK'
    BY <1>1, <1>2, StateEndedTyped
<1>6. StartedOK' /\ Collected'
    BY <1>1, <1>2, StateEndedStarted, StateEndedCollected
<1> QED
    BY <1>3, <1>4, <1>5, <1>6, StateFieldClosedRelease, StateFieldClosedRead
    DEF IInv, RunOK, ReadOK

LEMMA AccountFieldClosedOK ==
    ASSUME IInv, NEW name \in AccountFields, ClosesAnAccountField(name)
    PROVE  IInv'
<1>1. /\ Moves("account_out", "none", FALSE, name, "none", FALSE, "none")
      /\ AccountEnded(name) /\ SaysText(name) /\ text' = <<>> /\ result' = result
    BY DEF ClosesAnAccountField, SaysText
<1>2. /\ ParsersOK /\ name \in FieldNames /\ "none" \in Places
      /\ FieldPlace("account_out", "none", FALSE, name)
    BY DEF IInv, FieldNames, Places, FieldPlace
<1>3. /\ At("account_out", "none", FALSE, name) /\ At("account_out", "none", FALSE, "none")'
    BY <1>1 DEF Moves
<1>4. PlaceOK' /\ ResultInv' /\ \A k \in Kinds : ~mIn[k] /\ ~mIn'[k]
    BY <1>1, InAccountStill
<1>5. SaidOK' /\ TextOK'
    BY <1>1, <1>2, FieldClosedSaid, NoTextOK
<1>6. ParsersOK'
    BY <1>1, <1>2, AccountEndedTyped
<1>7. StartedOK'
    BY <1>1, <1>3, AccountEndedStarted
<1>8. Collected'
    <2>1. \A p \in Parsers : ~parser'[p].mElementStarted
        BY <1>1, <1>3, AccountEndedQuiet
    <2> QED
        BY <2>1 DEF Collected
<1>9. ItemInv'
    <2>1. name \notin {"name", "value", "slot"}
        BY DEF AccountFields
    <2>2. said'.items = said.items
        BY <1>1, <2>1 DEF SaysText
    <2>3. \A k \in Kinds : parser'[k] = parser[k]
        BY <1>1, KindsAreParsers DEF AccountEnded
    <2> QED
        BY <1>4, <2>2, <2>3, AccountStepRead
<1> QED
    BY <1>4, <1>5, <1>6, <1>7, <1>8, <1>9, AccountFieldClosedRelease, AccountFieldClosedRead
    DEF IInv, RunOK, ReadOK

LEMMA ItemClosedOK ==
    ASSUME IInv, NEW kind \in Kinds, ClosesAnItem(kind)
    PROVE  IInv'
<1>1. /\ Moves("client_state", kind, FALSE, "none", "none", FALSE, "none")
      /\ StateEnded(kind, kind) /\ text' = <<>> /\ said' = said /\ result' = result
    BY DEF ClosesAnItem
<1>2. /\ ParsersOK /\ kind \in Places /\ kind # "core_client_release"
      /\ At("client_state", kind, FALSE, "none") /\ At("client_state", "none", FALSE, "none")'
    BY <1>1 DEF IInv, Places, Moves, Kinds
<1>3. PlaceOK' /\ AccountInv' /\ ResultInv'
    BY <1>1, InStateStill
<1>4. SaidOK' /\ TextOK'
    <2>1. ~IsField' /\ ~InTask' /\ \A k \in Kinds : ~mIn'[k]
        BY <1>2, KindsAreParsers DEF At
    <2> QED
        BY <1>1, <2>1, NothingSaid, NoTextOK
<1>5. ParsersOK'
    BY <1>1, <1>2, StateEndedTyped
<1>6. StartedOK' /\ Collected'
    BY <1>1, <1>2, StateEndedStarted, StateEndedCollected
<1>7. ReleaseInv'
    <2>1. Released'.list = Released.list
        BY <1>1, <1>2, ReleaseEnded
    <2> QED
        BY <1>1, <2>1, SameRelease
<1> QED
    BY <1>3, <1>4, <1>5, <1>6, <1>7, ItemClosedRead DEF IInv, RunOK, ReadOK

LEMMA TaskClosedOK ==
    ASSUME IInv, ClosesATask
    PROVE  IInv'
<1>1. /\ Moves("client_state", "result", TRUE, "none", "result", FALSE, "none")
      /\ StateEnded("result", "active_task") /\ text' = <<>> /\ said' = said /\ result' = result
    BY DEF ClosesATask
<1>2. /\ ParsersOK /\ "result" \in Places
      /\ At("client_state", "result", TRUE, "none") /\ At("client_state", "result", FALSE, "none")'
    BY <1>1 DEF IInv, Places, Moves, Kinds
<1>3. PlaceOK' /\ AccountInv' /\ ResultInv'
    BY <1>1, InStateStill
<1>4. SaidOK' /\ TextOK'
    <2>1. ~IsField' /\ ~InTask' /\ \A k \in Kinds : mIn'[k] => mIn[k]
        BY <1>2 DEF At
    <2> QED
        BY <1>1, <2>1, NothingSaid, NoTextOK
<1>5. ParsersOK'
    BY <1>1, <1>2, StateEndedTyped
<1>6. StartedOK' /\ Collected'
    BY <1>1, <1>2, StateEndedStarted, StateEndedCollected
<1>7. ReleaseInv'
    <2>1. Released'.list = Released.list
        BY <1>1, <1>2, ReleaseEnded
    <2> QED
        BY <1>1, <2>1, SameRelease
<1> QED
    BY <1>3, <1>4, <1>5, <1>6, <1>7, TaskClosedRead DEF IInv, RunOK, ReadOK

LEMMA EndOK ==
    ASSUME IInv, NEW root \in Roots, Ends(root),
           root = "client_state" => StateEnded("none", "client_state"),
           root = "account_out" => AccountEnded("account_out")
    PROVE  IInv'
<1>1. At(root, "none", FALSE, "none") /\ AtEnd' /\ PlaceOK' /\ text' = <<>> /\ said' = said
    BY DEF Ends
<1>2. ParsersOK /\ "none" \in Places
    BY DEF IInv, Places
<1>3. SaidOK' /\ TextOK'
    <2>1. ~IsField' /\ ~InTask' /\ \A k \in Kinds : ~mIn'[k]
        BY <1>1 DEF AtEnd
    <2> QED
        BY <1>1, <2>1, NothingSaid, NoTextOK
<1>4. ItemInv' /\ AccountInv' /\ ResultInv'
    BY EndRead, EndAccount, EndReturns
<1>5. ParsersOK' /\ StartedOK' /\ Collected' /\ ReleaseInv'
    <2>1. CASE root = "client_state"
        <3>1. StateEnded("none", "client_state") /\ At("client_state", "none", FALSE, "none")
            BY <1>1, <2>1
        <3>2. ParsersOK' /\ StartedOK' /\ Collected'
            BY <1>1, <1>2, <3>1, StateEndedTyped, StateEndedStarted, StateEndedCollected
        <3>3. Released'.list = Released.list
            BY <1>2, <3>1, ReleaseEnded
        <3> QED
            BY <1>1, <3>2, <3>3, SameRelease
    <2>2. CASE root = "account_out"
        <3>1. AccountEnded("account_out") /\ At("account_out", "none", FALSE, "none")
            BY <1>1, <2>2
        <3>2. ParsersOK' /\ StartedOK'
            BY <1>1, <1>2, <3>1, AccountEndedTyped, AccountEndedStarted
        <3>3. Collected'
            <4>1. \A p \in Parsers : ~parser'[p].mElementStarted
                BY <3>1, AccountEndedQuiet
            <4> QED
                BY <4>1 DEF Collected
        <3>4. Released' = Released
            BY <3>1, KindsAreParsers DEF AccountEnded, Released
        <3> QED
            BY <1>1, <3>2, <3>3, <3>4, SameRelease
    <2> QED
        BY <2>1, <2>2 DEF Roots
<1> QED
    BY <1>1, <1>3, <1>4, <1>5 DEF IInv, RunOK, ReadOK

LEMMA InitOK ==
    ASSUME Init
    PROVE  IInv
<1> DEFINE none == <<>>
<1>1. PICK root \in Roots : open = <<root>>
    BY DEF Init, Roots
<1>2. /\ text = none /\ said = [items |-> none, fields |-> none, length |-> 0]
      /\ mIn = [k \in Kinds |-> FALSE] /\ result = NoResult
      /\ parser = [p \in Parsers |->
                      IF p = "account_out" /\ open = <<p>>
                      THEN [NewParser EXCEPT !.mElementStarted = TRUE]
                      ELSE NewParser]
    BY DEF Init
<1>3. /\ open \in Seq(Names) /\ Depth = 1 /\ open[1] = root /\ open # <<>> /\ Last(open) = root
      /\ DOMAIN open = {1}
    BY <1>1 DEF Names, Roots, Parsers, Depth, Last
<1>4. ~InTask /\ ~IsField /\ \A k \in Kinds : ~mIn[k]
    BY <1>2, <1>3 DEF InTask, IsField, Roots, AccountFields
<1>5. PlaceOK
    BY <1>2, <1>3 DEF PlaceOK, PathOK, FlagsOK, InTask, Roots
<1>6. /\ none \in Seq(Items) /\ none \in Seq(Field) /\ Len(none) = 0 /\ none \in Texts
      /\ TrimStart(none) = none /\ DOMAIN none = {}
    BY NoText, EmptyTrimmed
<1>7. /\ said.items = none /\ said.fields = none /\ said.length = 0
    BY <1>2
<1> HIDE DEF none
<1>8. SaidOK
    BY <1>2, <1>4, <1>6, <1>7, BoundsAssumption DEF SaidOK
<1>9. TextOK
    BY <1>2, <1>6 DEF TextOK, none
<1>10. ASSUME NEW p \in Parsers
       PROVE  /\ Shape(parser[p])
              /\ parser[p].mElementStarted <=> p = "account_out" /\ root = "account_out"
              /\ parser[p].mElementStarted \in BOOLEAN
              /\ parser[p].mCurrentElement = none
              /\ parser[p].mInActiveTask \in {FALSE}
              /\ parser[p].item = NoItem
              /\ parser[p].list = none
    <2>1. open = <<p>> <=> p = root
        BY <1>1
    <2>2. CASE p = "account_out" /\ root = "account_out"
        <3>1. parser[p] = [NewParser EXCEPT !.mElementStarted = TRUE]
            BY <1>2, <2>1, <2>2
        <3> QED
            BY <2>2, <3>1 DEF NewParser, Shape, none
    <2>3. CASE ~ (p = "account_out" /\ root = "account_out")
        <3>1. parser[p] = NewParser
            BY <1>2, <2>1, <2>3
        <3> QED
            BY <2>3, <3>1 DEF NewParser, Shape, none
    <2> QED
        BY <2>2, <2>3
<1>11. ParsersOK
    <2>1. parser = [p \in Parsers |-> parser[p]]
        BY <1>2
    <2>2. \A p \in Parsers : TypedParser(p, parser[p])
        BY <1>6, <1>10 DEF TypedParser
    <2> QED
        BY <2>1, <2>2 DEF ParsersOK
<1>12. StartedOK
    <2>1. ~Inside("core_client_release")
        BY <1>3 DEF Inside, Roots
    <2> QED
        BY <1>3, <1>4, <1>10, <2>1, KindsAreParsers DEF StartedOK, AccountRead, Released, Kinds
<1>13. Collected
    BY <1>2, <1>6, <1>10 DEF Collected
<1>14. ItemInv
    <2>1. \A k \in Kinds : Listed(k, none) = none
        BY ListedNone DEF none
    <2> QED
        BY <1>4, <1>7, <1>10, <2>1, KindsAreParsers DEF ItemInv, ItemRead
<1>15. ReleaseInv
    <2>1. Releases = {}
        BY <1>6, <1>7 DEF Releases
    <2>2. 1 .. Len(said.fields) = {}
        BY <1>6, <1>7
    <2>3. Released.list = <<>>
        BY <1>10, KindsAreParsers DEF Released, none
    <2> QED
        BY <2>1, <2>2, <2>3 DEF ReleaseInv
<1>16. AccountInv
    <2>1. said.fields = <<>>
        BY <1>7 DEF none
    <2>2. AccountRead.item = NoItem
        BY <1>10, KindsAreParsers DEF AccountRead
    <2>3. root = "account_out" => AccountRead.mElementStarted
        BY <1>10, KindsAreParsers DEF AccountRead
    <2> QED
        BY <1>3, <2>1, <2>2, <2>3 DEF AccountInv
<1>17. ResultInv
    BY <1>2, <1>3 DEF ResultInv
<1> QED
    BY <1>5, <1>8, <1>9, <1>11, <1>12, <1>13, <1>14, <1>15, <1>16, <1>17
    DEF IInv, RunOK, ReadOK

LEMMA NextOK ==
    ASSUME IInv, [Next]_vars
    PROVE  IInv'
<1>1. CASE OpenItem
    BY <1>1, OpenItemDoes, ItemOpenedOK
<1>2. CASE OpenActiveTask
    BY <1>2, OpenActiveTaskDoes, TaskOpenedOK
<1>3. CASE OpenField
    BY <1>3, OpenFieldDoes, StateFieldOpenedOK, AccountFieldOpenedOK
<1>4. CASE characters
    <2>1. open # <<>>
        BY <1>4 DEF characters
    <2> QED
        BY <1>4, <2>1, CharactersDo, CharactersOK
<1>5. CASE CloseField
    BY <1>5, CloseFieldDoes, StateFieldClosedOK, AccountFieldClosedOK
<1>6. CASE CloseItemOrTask
    BY <1>6, CloseItemOrTaskDoes, ItemClosedOK, TaskClosedOK
<1>7. CASE endDocument
    BY <1>7, EndDoes, EndOK DEF Roots
<1>8. CASE UNCHANGED vars
    <2>1. UNCHANGED <<open, text, said, mIn, parser, result>>
        BY <1>8 DEF vars
    <2>2. PlaceOK'
        BY <2>1 DEF IInv, PlaceOK, PathOK, FlagsOK, Depth, InTask
    <2>3. SaidOK' /\ TextOK'
        BY <2>1 DEF IInv, SaidOK, TextOK, IsField, InTask, Depth
    <2>4. ParsersOK'
        BY <2>1 DEF IInv, ParsersOK
    <2>5. StartedOK' /\ Collected'
        BY <2>1 DEF IInv, RunOK, StartedOK, Collected, IsField, Inside, Released, AccountRead
    <2>6. ItemInv'
        BY <2>1 DEF IInv, ReadOK, ItemInv, ItemRead, InTask, Depth
    <2>7. ReleaseInv'
        BY <2>1, SameRelease DEF Released
    <2>8. AccountInv'
        BY <2>1 DEF IInv, ReadOK, AccountInv, OnlyFirst, AccountRead, IsField
    <2>9. ResultInv'
        BY <2>1 DEF IInv, ReadOK, ResultInv, Released, AccountRead
    <2> QED
        BY <2>2, <2>3, <2>4, <2>5, <2>6, <2>7, <2>8, <2>9 DEF IInv, RunOK, ReadOK
<1> QED
    BY <1>1, <1>2, <1>3, <1>4, <1>5, <1>6, <1>7, <1>8 DEF Next

LEMMA Invariance == Spec => []IInv
<1>1. Init => IInv
    BY InitOK
<1>2. IInv /\ [Next]_vars => IInv'
    BY NextOK
<1> QED
    BY <1>1, <1>2, PTL DEF Spec

(***************************************************************************)
(* What the invariant says of a reply                                      *)
(***************************************************************************)

\* Handlers that are called in the order of a well-formed reply keep the
\* parsers' types, and the flags mInProject, mInApp, ... of CcStateParser say
\* of which item an element is open.
THEOREM TypeCorrect == Spec => []TypeOK
<1>1. IInv => TypeOK
    <2> SUFFICES ASSUME IInv PROVE TypeOK
        OBVIOUS
    <2>1. PathOK /\ FlagsOK /\ TextOK /\ SaidOK
        BY DEF IInv, PlaceOK
    <2>2. mIn = [k \in Kinds |-> \E i \in DOMAIN open : open[i] = k]
        <3>1. DOMAIN open = 1 .. Depth /\ Depth \in Nat /\ Depth <= 4
            BY <2>1, LenProperties DEF PathOK, Depth
        <3>2. ASSUME NEW k \in Kinds
              PROVE  mIn[k] = \E i \in DOMAIN open : open[i] = k
            <4>1. mIn[k] \in BOOLEAN /\ (mIn[k] <=> Depth > 1 /\ open[2] = k)
                BY <2>1 DEF FlagsOK
            <4>2. ASSUME NEW i \in DOMAIN open, open[i] = k
                  PROVE  Depth > 1 /\ open[2] = k
                <5>1. i \in 1 .. 4 /\ i <= Depth
                    BY <3>1
                <5>2. CASE i = 1
                    BY <4>2, <5>1, <5>2, <2>1, <3>1 DEF PathOK, Kinds
                <5>3. CASE i = 2
                    BY <4>2, <5>1, <5>3, <3>1
                <5>4. CASE i = 3
                    BY <4>2, <5>1, <5>4, <2>1, <3>1 DEF PathOK, Kinds
                <5>5. CASE i = 4
                    BY <4>2, <5>1, <5>5, <2>1, <3>1 DEF PathOK, Kinds
                <5> QED
                    BY <5>1, <5>2, <5>3, <5>4, <5>5
            <4>3. ASSUME Depth > 1, open[2] = k
                  PROVE  \E i \in DOMAIN open : open[i] = k
                <5>1. 2 \in DOMAIN open
                    BY <3>1, <4>3
                <5> QED
                    BY <4>3, <5>1
            <4>4. mIn[k] <=> \E i \in DOMAIN open : open[i] = k
                BY <4>1, <4>2, <4>3
            <4> QED
                BY <4>1, <4>4
        <3>3. mIn \in [Kinds -> BOOLEAN]
            BY <2>1 DEF FlagsOK
        <3> QED
            BY <3>2, <3>3
    <2>3. ASSUME NEW p \in Parsers
          PROVE  /\ parser[p].mElementStarted \in BOOLEAN
                 /\ parser[p].mInActiveTask \in BOOLEAN
                 /\ parser[p].mCurrentElement \in Texts
                 /\ parser[p].item.kind \in {"null", "account", p}
        <3>1. TypedParser(p, parser[p])
            BY DEF IInv, ParsersOK
        <3>2. parser[p].item.kind \in {"null", "account", p}
            BY <3>1 DEF TypedParser, NoItem, ItemOf, Item, Account
        <3> QED
            BY <3>1, <3>2 DEF TypedParser
    <2> QED
        BY <2>1, <2>2, <2>3 DEF TypeOK, TextOK, SaidOK
<1> QED
    BY <1>1, Invariance, PTL

LEMMA ReturnedAtEnd ==
    ASSUME IInv, NEW root, Returned(root)
    PROVE  /\ open = <<>> /\ result.root = root /\ ResultInv
           /\ \A k \in Kinds : ~mIn[k]
<1>1. ResultInv /\ FlagsOK
    BY DEF IInv, ReadOK, PlaceOK
<1>2. open = <<>> /\ result.root = root
    BY <1>1 DEF ResultInv, Returned, NoResult
<1>3. Depth = 0
    BY <1>2 DEF Depth
<1> QED
    BY <1>1, <1>2, <1>3 DEF FlagsOK

\* CcStateParser's lists of projects, applications, workunits and results are
\* the named items of the reply, in its order and with the texts of its fields,
\* for replies of any length, and in whatever pieces `characters' gets a text.
THEOREM StateParsed == Spec => []StateIsReply
<1>1. IInv => StateIsReply
    <2> SUFFICES ASSUME IInv, Returned("client_state"), NEW k \in Kinds \ {"app_version"}
                 PROVE  result.lists[k] = Listed(k, said.items)
        BY DEF StateIsReply
    <2>1. open = <<>> /\ ResultInv /\ ~mIn[k]
        BY ReturnedAtEnd
    <2>2. ItemRead(k)
        BY DEF IInv, ReadOK, ItemInv
    <2> QED
        BY <2>1, <2>2 DEF ResultInv, ItemRead
<1> QED
    BY <1>1, Invariance, PTL

\* The release of the client that CcStateParser returns is the one the reply
\* says, wherever it says it; an empty one, which is not a number, sets none.
THEOREM ReleaseParsed == Spec => []ReleaseIsReply
<1>1. IInv => ReleaseIsReply
    <2> SUFFICES ASSUME IInv, Returned("client_state")
                 PROVE  result.release = IF Releases = {} THEN <<>>
                                         ELSE << CHOOSE release \in Releases : TRUE >>
        BY DEF ReleaseIsReply
    <2>1. result.release = Released.list
        BY ReturnedAtEnd DEF ResultInv
    <2>2. ReleaseInv
        BY DEF IInv, ReadOK
    <2>3. CASE Releases = {} /\ Released.list = <<>>
        BY <2>1, <2>3
    <2>4. CASE \E release \in Texts : Releases = {release} /\ Released.list = <<release>>
        <3>1. PICK release \in Texts : Releases = {release} /\ Released.list = <<release>>
            BY <2>4
        <3>2. (CHOOSE r \in Releases : TRUE) = release
            BY <3>1
        <3>3. Releases # {}
            BY <3>1
        <3> QED
            BY <2>1, <3>1, <3>2, <3>3
    <2> QED
        BY <2>2, <2>3, <2>4 DEF ReleaseInv
<1> QED
    BY <1>1, Invariance, PTL

\* AccountOutParser, whose fields do not start a text of their own, still gives
\* the first one of them its text.
THEOREM FirstFieldParsed == Spec => []FirstFieldIsRead
<1>1. IInv => FirstFieldIsRead
    <2> SUFFICES ASSUME IInv, Returned("account_out"), said.fields # <<>>
                 PROVE  /\ result.account # NoItem
                        /\ OnlyFirst =>
                             result.account[said.fields[1].name] = said.fields[1].text
        BY DEF FirstFieldIsRead, OnlyFirst
    <2>1. open = <<>> /\ result.root = "account_out" /\ result.account = AccountRead.item
        BY ReturnedAtEnd DEF ResultInv
    <2>2. /\ AccountRead.item \in Account
          /\ OnlyFirst => AccountRead.item[said.fields[1].name] = said.fields[1].text
        BY <2>1 DEF IInv, ReadOK, AccountInv
    <2>3. AccountRead.item # NoItem
        BY <2>2 DEF Account, NoItem
    <2> QED
        BY <2>1, <2>2, <2>3
<1> QED
    BY <1>1, Invariance, PTL
==============================================================================
