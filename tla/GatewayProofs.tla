---------------------------- MODULE GatewayProofs ----------------------------
(***************************************************************************)
(* The routes on the site's gateway, for any file, names, terminals and    *)
(* edits, on the whole head (HeadNode): a route of a recipe that is not    *)
(* recorded is excused (RoutesAccounted), and what people wrote is kept    *)
(* (HandKept).  At the end, the types of all of the head's variables.      *)
(***************************************************************************)
EXTENDS RequestProofs, WellFoundedInduction

-----------------------------------------------------------------------------
(***************************************************************************)
(* Sequences of lines: what each change of one line makes of a file.       *)
(***************************************************************************)
LEMMA MinIs ==
  ASSUME NEW S \in SUBSET Nat, S # {}
  PROVE  Min(S) \in S /\ \A y \in S : Min(S) <= y
<1> DEFINE R == OpToRel(<, Nat)
<1>1. IsWellFoundedOn(R, Nat)
  BY NatLessThanWellFounded
<1>2. \A x, y \in Nat : ~(<<x, y>> \in R) => y <= x
  BY DEF OpToRel
<1> HIDE DEF R
<1>3. \E x \in S : \A y \in S : ~(<<y, x>> \in R)
  BY <1>1, WFMin
<1>4. \E x \in S : \A y \in S : x <= y
  <2>1. PICK x \in S : \A y \in S : ~(<<y, x>> \in R)
    BY <1>3
  <2>2. ASSUME NEW y \in S PROVE x <= y
    <3>1. x \in Nat /\ y \in Nat /\ ~(<<y, x>> \in R)
      BY <2>1
    <3> QED BY <1>2, <3>1, Zenon
  <2> QED BY <2>2
<1> QED BY <1>4 DEF Min

LEMMA PartIs ==
  ASSUME NEW S, NEW s \in Seq(S), NEW a \in 1..Len(s) + 1, NEW z \in 0..Len(s), a <= z + 1
  PROVE  /\ SubSeq(s, a, z) \in Seq(S) /\ Len(SubSeq(s, a, z)) = z - a + 1
         /\ \A k \in 1..z - a + 1 : SubSeq(s, a, z)[k] = s[a + k - 1]
OBVIOUS

LEMMA JoinIs ==
  ASSUME NEW S, NEW s \in Seq(S), NEW t \in Seq(S)
  PROVE  /\ s \o t \in Seq(S) /\ Len(s \o t) = Len(s) + Len(t)
         /\ \A k \in 1..Len(s) + Len(t) : (s \o t)[k] = IF k <= Len(s) THEN s[k] ELSE t[k - Len(s)]
OBVIOUS

LEMMA InsertIs ==
  ASSUME NEW s \in Seq(Lines), NEW i \in 1..Len(s) + 1, NEW e \in Lines
  PROVE  /\ InsertAt(s, i, e) \in Seq(Lines) /\ Len(InsertAt(s, i, e)) = Len(s) + 1
         /\ InsertAt(s, i, e)[i] = e
         /\ \A k \in 1..Len(s) + 1 : k < i => InsertAt(s, i, e)[k] = s[k]
         /\ \A k \in 1..Len(s) + 1 : k > i => InsertAt(s, i, e)[k] = s[k - 1]
<1> DEFINE a == SubSeq(s, 1, i - 1)  b == a \o <<e>>  c == SubSeq(s, i, Len(s))
<1>1. a \in Seq(Lines) /\ Len(a) = i - 1 /\ \A k \in 1..i - 1 : a[k] = s[k]
  BY PartIs
<1>2. c \in Seq(Lines) /\ Len(c) = Len(s) - i + 1 /\ \A k \in 1..Len(s) - i + 1 : c[k] = s[i + k - 1]
  BY PartIs
<1> HIDE DEF a, c
<1>3. b \in Seq(Lines) /\ Len(b) = i /\ b[i] = e /\ \A k \in 1..i : k < i => b[k] = a[k]
  BY <1>1
<1> HIDE DEF b
<1> DEFINE n == b \o c
<1>4. /\ n \in Seq(Lines) /\ Len(n) = Len(b) + Len(c)
      /\ \A k \in 1..Len(b) + Len(c) : n[k] = IF k <= Len(b) THEN b[k] ELSE c[k - Len(b)]
  BY <1>2, <1>3, JoinIs
<1>6. InsertAt(s, i, e) = n
  BY DEF InsertAt, a, b, c
<1> HIDE DEF n
<1>5. Len(n) = Len(s) + 1
  BY <1>2, <1>3, <1>4
<1>7. n[i] = e
  BY <1>2, <1>3, <1>4
<1>8. ASSUME NEW k \in 1..Len(s) + 1, k < i PROVE n[k] = s[k]
  <2>1. n[k] = b[k]
    BY <1>2, <1>3, <1>4, <1>8
  <2> QED BY <1>1, <1>3, <1>8, <2>1
<1>9. ASSUME NEW k \in 1..Len(s) + 1, k > i PROVE n[k] = s[k - 1]
  <2>1. n[k] = c[k - i]
    BY <1>2, <1>3, <1>4, <1>9
  <2>2. c[k - i] = s[i + (k - i) - 1]
    BY <1>2, <1>9
  <2>3. i + (k - i) - 1 = k - 1
    OBVIOUS
  <2> QED BY <2>1, <2>2, <2>3
<1> QED BY <1>4, <1>5, <1>6, <1>7, <1>8, <1>9

LEMMA RemoveIs ==
  ASSUME NEW s \in Seq(Lines), NEW i \in 1..Len(s)
  PROVE  /\ RemoveAt(s, i) \in Seq(Lines) /\ Len(RemoveAt(s, i)) = Len(s) - 1
         /\ \A k \in 1..Len(s) - 1 : k < i => RemoveAt(s, i)[k] = s[k]
         /\ \A k \in 1..Len(s) - 1 : k >= i => RemoveAt(s, i)[k] = s[k + 1]
<1> DEFINE a == SubSeq(s, 1, i - 1)  c == SubSeq(s, i + 1, Len(s))
<1>1. a \in Seq(Lines) /\ Len(a) = i - 1 /\ \A k \in 1..i - 1 : a[k] = s[k]
  BY PartIs
<1>2. c \in Seq(Lines) /\ Len(c) = Len(s) - i /\ \A k \in 1..Len(s) - i : c[k] = s[i + k]
  BY PartIs
<1> HIDE DEF a, c
<1> DEFINE n == a \o c
<1>4. /\ n \in Seq(Lines) /\ Len(n) = Len(a) + Len(c)
      /\ \A k \in 1..Len(a) + Len(c) : n[k] = IF k <= Len(a) THEN a[k] ELSE c[k - Len(a)]
  BY <1>1, <1>2, JoinIs
<1>6. RemoveAt(s, i) = n
  BY DEF RemoveAt, a, c
<1> HIDE DEF n
<1>5. Len(n) = Len(s) - 1
  BY <1>1, <1>2, <1>4
<1>8. ASSUME NEW k \in 1..Len(s) - 1, k < i PROVE n[k] = s[k]
  <2>1. n[k] = a[k]
    <3>1. k \in 1..Len(a) + Len(c) /\ k <= Len(a)
      BY <1>1, <1>2, <1>8
    <3> QED BY <1>4, <3>1
  <2> QED BY <1>1, <1>8, <2>1
<1>9. ASSUME NEW k \in 1..Len(s) - 1, k >= i PROVE n[k] = s[k + 1]
  <2>1. n[k] = c[k - (i - 1)]
    <3>1. k \in 1..Len(a) + Len(c) /\ ~(k <= Len(a)) /\ k - Len(a) = k - (i - 1)
      BY <1>1, <1>2, <1>9
    <3>2. n[k] = c[k - Len(a)]
      BY <1>4, <3>1
    <3> QED BY <3>1, <3>2
  <2>2. c[k - (i - 1)] = s[i + (k - (i - 1))]
    BY <1>2, <1>9
  <2>3. i + (k - (i - 1)) = k + 1
    OBVIOUS
  <2> QED BY <2>1, <2>2, <2>3
<1> QED BY <1>4, <1>5, <1>6, <1>8, <1>9

LEMMA ReplaceIs ==
  ASSUME NEW s \in Seq(Lines), NEW i \in 1..Len(s), NEW e \in Lines
  PROVE  /\ ReplaceAt(s, i, e) \in Seq(Lines) /\ Len(ReplaceAt(s, i, e)) = Len(s)
         /\ ReplaceAt(s, i, e)[i] = e /\ \A k \in 1..Len(s) : k # i => ReplaceAt(s, i, e)[k] = s[k]
BY DEF ReplaceAt

LEMMA SameSeq ==
  ASSUME NEW s \in Seq(Lines), NEW t \in Seq(Lines), Len(s) = Len(t), \A k \in 1..Len(s) : s[k] = t[k]
  PROVE  s = t
OBVIOUS

-----------------------------------------------------------------------------
(***************************************************************************)
(* The managed block: where its markers are, before and after a change.    *)
(***************************************************************************)
\* c has one managed block, and its markers are at b and z.
BlockAt(c, b, z) ==
  /\ b \in DOMAIN c /\ z \in DOMAIN c /\ b < z /\ c[b] = BeginMark /\ c[z] = EndMark
  /\ \A k \in DOMAIN c : (c[k] = BeginMark => k = b) /\ (c[k] = EndMark => k = z)

LEMMA LinesDiffer ==
  /\ BeginMark # EndMark /\ BeginMark # ListLine /\ EndMark # ListLine
  /\ Section \notin {BeginMark, EndMark, ListLine}
  /\ ~IsRoute(BeginMark) /\ ~IsRoute(EndMark) /\ ~IsRoute(ListLine) /\ ~IsRoute(Section) /\ ~IsRoute(Note)
  /\ {BeginMark, EndMark, ListLine, Section, Note} \subseteq Lines /\ RouteLines \subseteq Lines
BY DEF BeginMark, EndMark, ListLine, Section, Note, IsRoute, Lines

LEMMA RouteIs ==
  ASSUME NEW n \in Names \cup Hands, NEW to \in Targets
  PROVE  /\ RouteTo(n, to) \in RouteLines /\ IsRoute(RouteTo(n, to)) /\ RouteTo(n, to).name = n /\ RouteTo(n, to).to = to
         /\ RouteTo(n, to) \notin {BeginMark, EndMark, ListLine, Section, Note}
BY DEF RouteTo, RouteLines, IsRoute, BeginMark, EndMark, ListLine, Section, Note

LEMMA LineIs ==
  ASSUME NEW x \in Lines, IsRoute(x)
  PROVE  x \in RouteLines /\ x.name \in Names \cup Hands /\ x.to \in Targets
<1>1. x \in RouteLines
  BY LinesDiffer DEF Lines
<1>2. PICK n \in Names \cup Hands, to \in Targets : x = RouteTo(n, to)
  BY <1>1 DEF RouteLines
<1> QED BY <1>1, <1>2, RouteIs

LEMMA BlockIs ==
  ASSUME NEW c \in Seq(Lines), NEW b, NEW z, BlockAt(c, b, z)
  PROVE  /\ Marked(c) /\ ~Damaged(c) /\ BeginAt(c) = b /\ EndAt(c) = z
         /\ Between(c) = {i \in DOMAIN c : b < i /\ i < z}
<1>1. Where(c, BeginMark) = {b} /\ Where(c, EndMark) = {z}
  BY DEF BlockAt, Where
<1>2. Marked(c) /\ BeginAt(c) = Min({b}) /\ EndAt(c) = Min({z})
  BY <1>1 DEF Marked, BeginAt, EndAt
<1>3. Min({b}) = b /\ Min({z}) = z
  <2>1. b \in Int /\ z \in Int
    BY DEF BlockAt
  <2> QED BY <2>1 DEF Min
<1>4. ~Damaged(c)
  BY <1>1 DEF Damaged, BlockAt
<1> QED BY <1>2, <1>3, <1>4 DEF Between

LEMMA BlockThere ==
  ASSUME NEW c \in Seq(Lines), Marked(c), ~Damaged(c)
  PROVE  \E b, z \in 1..Len(c) : BlockAt(c, b, z)
<1>1. PICK b \in DOMAIN c, z \in DOMAIN c : Where(c, BeginMark) = {b} /\ Where(c, EndMark) = {z} /\ b < z
  BY DEF Damaged
<1>2. \A k \in DOMAIN c : (c[k] = BeginMark <=> k = b) /\ (c[k] = EndMark <=> k = z)
  <2>1. \A k \in DOMAIN c : (c[k] = BeginMark <=> k \in Where(c, BeginMark)) /\ (c[k] = EndMark <=> k \in Where(c, EndMark))
    BY DEF Where
  <2> QED BY <1>1, <2>1
<1> QED BY <1>1, <1>2 DEF BlockAt

LEMMA ListIs ==
  ASSUME NEW c \in Seq(Lines), HasList(c)
  PROVE  ListAt(c) \in 1..Len(c) /\ c[ListAt(c)] = ListLine /\ \A k \in 1..Len(c) : c[k] = ListLine => ListAt(c) <= k
<1>1. Where(c, ListLine) \in SUBSET Nat /\ Where(c, ListLine) # {}
  BY DEF HasList, Where
<1>2. ListAt(c) \in Where(c, ListLine) /\ \A k \in Where(c, ListLine) : ListAt(c) <= k
  BY <1>1, MinIs DEF ListAt
<1> QED BY <1>2 DEF Where

LEMMA ListUnique ==
  ASSUME NEW c \in Seq(Lines), NEW l \in 1..Len(c), c[l] = ListLine, \A k \in 1..Len(c) : c[k] = ListLine => l <= k
  PROVE  HasList(c) /\ ListAt(c) = l
<1>1. HasList(c)
  BY DEF HasList, Where
<1>2. ListAt(c) <= l /\ l <= ListAt(c) /\ ListAt(c) \in Int
  BY <1>1, ListIs
<1> QED BY <1>1, <1>2

\* A line that is no marker comes, goes or is replaced.
After(p, i) == IF p <= i THEN i + 1 ELSE i
LEMMA InsertBlock ==
  ASSUME NEW c \in Seq(Lines), NEW b, NEW z, BlockAt(c, b, z), NEW x \in Lines \ {BeginMark, EndMark}, NEW p \in 1..Len(c) + 1
  PROVE  BlockAt(InsertAt(c, p, x), After(p, b), After(p, z))
<1> DEFINE n == InsertAt(c, p, x)
<1>1. /\ n \in Seq(Lines) /\ Len(n) = Len(c) + 1
      /\ n[p] = x /\ \A k \in 1..Len(c) + 1 : k < p => n[k] = c[k]
      /\ \A k \in 1..Len(c) + 1 : k > p => n[k] = c[k - 1]
  BY InsertIs
<1> HIDE DEF n
<1>2. /\ b \in 1..Len(c) /\ z \in 1..Len(c) /\ b < z /\ c[b] = BeginMark /\ c[z] = EndMark
      /\ \A k \in 1..Len(c) : (c[k] = BeginMark => k = b) /\ (c[k] = EndMark => k = z)
  BY DEF BlockAt
<1> DEFINE u == After(p, b)  v == After(p, z)
<1>3. /\ u \in 1..Len(n) /\ v \in 1..Len(n) /\ u < v
      /\ u = IF p <= b THEN b + 1 ELSE b
      /\ v = IF p <= z THEN z + 1 ELSE z
  BY <1>1, <1>2 DEF After
<1> HIDE DEF u, v
<1>4. n[u] = BeginMark
  BY <1>1, <1>2, <1>3
<1>7. n[v] = EndMark
  BY <1>1, <1>2, <1>3
<1>5. ASSUME NEW k \in 1..Len(n) PROVE (n[k] = BeginMark => k = u) /\ (n[k] = EndMark => k = v)
  <2>1. CASE k < p
    <3>1. k \in 1..Len(c) /\ n[k] = c[k]
      BY <1>1, <2>1
    <3>2. (c[k] = BeginMark => k = b) /\ (c[k] = EndMark => k = z)
      BY <1>2, <3>1
    <3> QED BY <1>3, <2>1, <3>1, <3>2
  <2>2. CASE k = p
    BY <1>1, <2>2
  <2>3. CASE k > p
    <3>1. k - 1 \in 1..Len(c) /\ n[k] = c[k - 1]
      BY <1>1, <2>3
    <3>2. (c[k - 1] = BeginMark => k - 1 = b) /\ (c[k - 1] = EndMark => k - 1 = z)
      BY <1>2, <3>1
    <3> QED BY <1>3, <2>3, <3>1, <3>2
  <2> QED BY <1>1, <2>1, <2>2, <2>3
<1>6. BlockAt(n, u, v)
  BY <1>1, <1>3, <1>4, <1>5, <1>7 DEF BlockAt
<1> QED BY <1>6 DEF n, u, v

Without(p, i) == IF p < i THEN i - 1 ELSE i
LEMMA RemoveBlock ==
  ASSUME NEW c \in Seq(Lines), NEW b, NEW z, BlockAt(c, b, z), NEW p \in 1..Len(c), p \notin {b, z}
  PROVE  BlockAt(RemoveAt(c, p), Without(p, b), Without(p, z))
<1> DEFINE n == RemoveAt(c, p)
<1>1. /\ n \in Seq(Lines) /\ Len(n) = Len(c) - 1
      /\ \A k \in 1..Len(c) - 1 : k < p => n[k] = c[k]
      /\ \A k \in 1..Len(c) - 1 : k >= p => n[k] = c[k + 1]
  BY RemoveIs
<1> HIDE DEF n
<1>2. /\ b \in 1..Len(c) /\ z \in 1..Len(c) /\ b < z /\ c[b] = BeginMark /\ c[z] = EndMark
      /\ \A k \in 1..Len(c) : (c[k] = BeginMark => k = b) /\ (c[k] = EndMark => k = z)
  BY DEF BlockAt
<1> DEFINE u == Without(p, b)  v == Without(p, z)
<1>3. /\ u \in 1..Len(n) /\ v \in 1..Len(n) /\ u < v
      /\ u = IF p < b THEN b - 1 ELSE b
      /\ v = IF p < z THEN z - 1 ELSE z
  BY <1>1, <1>2 DEF Without
<1> HIDE DEF u, v
<1>4. n[u] = BeginMark
  <2>1. CASE p < b
    BY <1>1, <1>2, <1>3, <2>1
  <2>2. CASE p > b
    BY <1>1, <1>2, <1>3, <2>2
  <2> QED BY <1>2, <2>1, <2>2
<1>7. n[v] = EndMark
  <2>1. CASE p < z
    BY <1>1, <1>2, <1>3, <2>1
  <2>2. CASE p > z
    BY <1>1, <1>2, <1>3, <2>2
  <2> QED BY <1>2, <2>1, <2>2
<1>5. ASSUME NEW k \in 1..Len(n) PROVE (n[k] = BeginMark => k = u) /\ (n[k] = EndMark => k = v)
  <2>1. CASE k < p
    <3>1. k \in 1..Len(c) /\ n[k] = c[k]
      BY <1>1, <2>1
    <3>2. (c[k] = BeginMark => k = b) /\ (c[k] = EndMark => k = z)
      BY <1>2, <3>1
    <3> QED BY <1>3, <2>1, <3>1, <3>2
  <2>3. CASE k >= p
    <3>1. k + 1 \in 1..Len(c) /\ n[k] = c[k + 1]
      BY <1>1, <2>3
    <3>2. (c[k + 1] = BeginMark => k + 1 = b) /\ (c[k + 1] = EndMark => k + 1 = z)
      BY <1>2, <3>1
    <3> QED BY <1>3, <2>3, <3>1, <3>2
  <2> QED BY <1>1, <2>1, <2>3
<1>6. BlockAt(n, u, v)
  BY <1>1, <1>3, <1>4, <1>5, <1>7 DEF BlockAt
<1> QED BY <1>6 DEF n, u, v

LEMMA ReplaceBlock ==
  ASSUME NEW c \in Seq(Lines), NEW b, NEW z, BlockAt(c, b, z), NEW x \in Lines \ {BeginMark, EndMark}, NEW p \in 1..Len(c), p \notin {b, z}
  PROVE  BlockAt(ReplaceAt(c, p, x), b, z)
<1>1. /\ ReplaceAt(c, p, x) \in Seq(Lines) /\ Len(ReplaceAt(c, p, x)) = Len(c)
      /\ ReplaceAt(c, p, x)[p] = x /\ \A k \in 1..Len(c) : k # p => ReplaceAt(c, p, x)[k] = c[k]
  <2>1. x \in Lines
    OBVIOUS
  <2> QED BY <2>1, ReplaceIs
<1> QED BY <1>1 DEF BlockAt

LEMMA EnsuredIs ==
  ASSUME NEW c \in Seq(Lines), ~Damaged(c), HasList(c)
  PROVE  /\ Ensured(c) \in Seq(Lines) /\ HasList(Ensured(c))
         /\ \E b, z \in 1..Len(Ensured(c)) : BlockAt(Ensured(c), b, z)
         /\ Marked(c) => Ensured(c) = c
         /\ ~Marked(c) => /\ BlockAt(Ensured(c), ListAt(c) + 1, ListAt(c) + 2)
                          /\ Len(Ensured(c)) = Len(c) + 2
                          /\ \A k \in 1..Len(c) + 2 : k <= ListAt(c) => Ensured(c)[k] = c[k]
                          /\ \A k \in 1..Len(c) + 2 : k > ListAt(c) + 2 => Ensured(c)[k] = c[k - 2]
<1>1. CASE Marked(c)
  BY <1>1, BlockThere DEF Ensured
<1>2. CASE ~Marked(c)
  <2> DEFINE l == ListAt(c)  m == InsertAt(c, l + 1, EndMark)
  <2>1. l \in 1..Len(c) /\ c[l] = ListLine
    BY ListIs
  <2> HIDE DEF l
  <2>2. /\ m \in Seq(Lines) /\ Len(m) = Len(c) + 1
        /\ m[l + 1] = EndMark /\ \A k \in 1..Len(c) + 1 : k < l + 1 => m[k] = c[k]
        /\ \A k \in 1..Len(c) + 1 : k > l + 1 => m[k] = c[k - 1]
    <3>1. EndMark \in Lines
      BY LinesDiffer
    <3> DEFINE j == l + 1
    <3>2. j \in 1..Len(c) + 1
      BY <2>1
    <3> HIDE DEF j
    <3>3. /\ InsertAt(c, j, EndMark) \in Seq(Lines) /\ Len(InsertAt(c, j, EndMark)) = Len(c) + 1
          /\ InsertAt(c, j, EndMark)[j] = EndMark
          /\ \A k \in 1..Len(c) + 1 : k < j => InsertAt(c, j, EndMark)[k] = c[k]
          /\ \A k \in 1..Len(c) + 1 : k > j => InsertAt(c, j, EndMark)[k] = c[k - 1]
      BY <3>1, <3>2, InsertIs
    <3> QED BY <3>3 DEF j
  <2> HIDE DEF m
  <2> DEFINE n == InsertAt(m, l + 1, BeginMark)
  <2>3. /\ n \in Seq(Lines) /\ Len(n) = Len(m) + 1
        /\ n[l + 1] = BeginMark /\ \A k \in 1..Len(m) + 1 : k < l + 1 => n[k] = m[k]
        /\ \A k \in 1..Len(m) + 1 : k > l + 1 => n[k] = m[k - 1]
    <3>1. BeginMark \in Lines /\ l + 1 \in 1..Len(m) + 1
      BY <2>1, <2>2, LinesDiffer
    <3> QED BY <3>1, <2>2, InsertIs
  <2>4. Ensured(c) = n
    BY <1>2 DEF Ensured, l, m, n
  <2> HIDE DEF n
  <2>5. /\ Len(n) = Len(c) + 2
        /\ n[l + 1] = BeginMark /\ n[l + 2] = EndMark
        /\ \A k \in 1..Len(c) + 2 : k <= l => n[k] = c[k]
        /\ \A k \in 1..Len(c) + 2 : k > l + 2 => n[k] = c[k - 2]
    BY <2>1, <2>2, <2>3
  <2>6. \A k \in 1..Len(c) : c[k] # BeginMark /\ c[k] # EndMark
    BY <1>2 DEF Marked, Where
  <2>7. BlockAt(n, l + 1, l + 2)
    <3>1. l + 1 \in 1..Len(n) /\ l + 2 \in 1..Len(n) /\ n[l + 1] = BeginMark /\ n[l + 2] = EndMark /\ l + 1 < l + 2
      BY <2>1, <2>5
    <3>2. ASSUME NEW k \in 1..Len(n), k # l + 1, k # l + 2 PROVE n[k] # BeginMark /\ n[k] # EndMark
      <4>1. CASE k <= l
        BY <2>1, <2>5, <2>6, <4>1
      <4>2. CASE k > l
        BY <2>1, <2>5, <2>6, <3>2, <4>2
      <4> QED BY <2>1, <2>5, <4>1, <4>2
    <3> QED BY <2>3, <3>1, <3>2, LinesDiffer DEF BlockAt
  <2>8. HasList(n)
    <3>1. l \in 1..Len(n) /\ n[l] = ListLine
      BY <2>1, <2>5
    <3> QED BY <2>3, <3>1 DEF HasList, Where
  <2>9. l + 1 \in 1..Len(n) /\ l + 2 \in 1..Len(n)
    BY <2>1, <2>5
  <2> QED BY <1>2, <2>3, <2>4, <2>5, <2>7, <2>8, <2>9 DEF l
<1> QED BY <1>1, <1>2

-----------------------------------------------------------------------------
(***************************************************************************)
(* Routes in their place stay there (InItsPlace).                          *)
(***************************************************************************)
PlacedFor(c, r) == \A i \in 1..Len(c) : IsRoute(c[i]) /\ c[i].to = r => InItsPlace(c, i)

LEMMA RoutedIs ==
  ASSUME NEW c \in Seq(Lines), NEW r
  PROVE  r \in Routed(c) <=> r \in Recipes /\ \E i \in 1..Len(c) : IsRoute(c[i]) /\ c[i].to = r
<1>1. DOMAIN c = 1..Len(c)
  OBVIOUS
<1>2. ToSet(c) = {c[i] : i \in 1..Len(c)}
  BY <1>1 DEF ToSet
<1> QED BY <1>2 DEF Routed, RecipesIn

LEMMA PlaceIs ==
  ASSUME NEW c \in Seq(Lines), NEW b, NEW z, BlockAt(c, b, z), NEW i \in 1..Len(c), IsRoute(c[i])
  PROVE  InItsPlace(c, i) <=>
           /\ b < i /\ i < z /\ c[i].name = NameOf[c[i].to]
           /\ \A k \in 1..Len(c) : b < k /\ k < z /\ IsRoute(c[k]) /\ c[k].name = c[i].name => i <= k
<1>1. ~Damaged(c) /\ Between(c) = {k \in 1..Len(c) : b < k /\ k < z}
  BY BlockIs
<1>2. \A n : Inside(c, n) = {k \in 1..Len(c) : b < k /\ k < z /\ IsRoute(c[k]) /\ c[k].name = n}
  BY <1>1 DEF Inside, Called
<1> QED BY <1>1, <1>2 DEF InItsPlace

LEMMA PlaceThere ==
  ASSUME NEW c \in Seq(Lines), NEW i, InItsPlace(c, i)
  PROVE  Marked(c) /\ ~Damaged(c) /\ \E b, z \in 1..Len(c) : BlockAt(c, b, z)
<1>1. Marked(c) /\ ~Damaged(c)
  BY DEF InItsPlace, Between
<1> QED BY <1>1, BlockThere

LEMMA InsertPlaced ==
  ASSUME NEW c \in Seq(Lines), NEW b, NEW z, BlockAt(c, b, z), NEW x \in Lines \ {BeginMark, EndMark},
         NEW p \in 1..Len(c) + 1, p <= b \/ p >= z, NEW r, PlacedFor(c, r),
         IsRoute(x) /\ x.to = r => p = z /\ x.name = NameOf[r] /\ Inside(c, x.name) = {}
  PROVE  PlacedFor(InsertAt(c, p, x), r)
<1> DEFINE n == InsertAt(c, p, x)  u == After(p, b)  v == After(p, z)
<1>1. /\ n \in Seq(Lines) /\ Len(n) = Len(c) + 1
      /\ n[p] = x /\ \A k \in 1..Len(c) + 1 : k < p => n[k] = c[k]
      /\ \A k \in 1..Len(c) + 1 : k > p => n[k] = c[k - 1]
  BY InsertIs
<1>2. BlockAt(n, u, v)
  BY InsertBlock
<1> HIDE DEF n
<1>3. b \in 1..Len(c) /\ z \in 1..Len(c) /\ b < z
  BY DEF BlockAt
<1>4. \A m : Inside(c, m) = {k \in 1..Len(c) : b < k /\ k < z /\ IsRoute(c[k]) /\ c[k].name = m}
  BY BlockIs DEF Inside, Called
\* What is between the markers was there before, or is x.
<1>5. ASSUME NEW k \in 1..Len(n), u < k, k < v
      PROVE  \/ k = p /\ p = z
             \/ \E o \in 1..Len(c) : /\ b < o /\ o < z /\ n[k] = c[o] /\ o = IF p <= b THEN k - 1 ELSE k
  <2>1. CASE p <= b
    <3>1. k - 1 \in 1..Len(c) /\ b < k - 1 /\ k - 1 < z /\ n[k] = c[k - 1]
      BY <1>1, <1>3, <1>5, <2>1 DEF After
    <3> QED BY <2>1, <3>1
  <2>2. CASE p >= z
    <3>1. b < k /\ k <= z /\ (p # z => k < z)
      BY <1>1, <1>3, <1>5, <2>2 DEF After
    <3>2. CASE k < z
      <4>1. k \in 1..Len(c) /\ n[k] = c[k] /\ ~(p <= b)
        BY <1>1, <1>3, <2>2, <3>1, <3>2
      <4> QED BY <3>1, <3>2, <4>1
    <3> QED BY <1>3, <2>2, <3>1, <3>2
  <2> QED BY <2>1, <2>2
<1> SUFFICES ASSUME NEW i \in 1..Len(n), IsRoute(n[i]), n[i].to = r PROVE InItsPlace(n, i)
  BY DEF PlacedFor, n
<1>6. CASE i = p
  <2>1. p = z /\ x.name = NameOf[r] /\ Inside(c, x.name) = {} /\ n[i] = x
    BY <1>1, <1>6
  <2>2. u < i /\ i < v
    BY <1>3, <1>6, <2>1 DEF After
  <2>3. ASSUME NEW k \in 1..Len(n), u < k, k < v, IsRoute(n[k]), n[k].name = n[i].name PROVE i <= k
    <3>1. ASSUME NEW o \in 1..Len(c), b < o, o < z, n[k] = c[o] PROVE FALSE
      <4>1. IsRoute(c[o]) /\ c[o].name = x.name
        BY <2>1, <2>3, <3>1
      <4>2. o \in Inside(c, x.name)
        BY <1>4, <3>1, <4>1
      <4> QED BY <2>1, <4>2
    <3> QED BY <1>5, <1>6, <2>3, <3>1
  <2> QED BY <1>1, <1>2, <2>1, <2>2, <2>3, PlaceIs
<1>7. CASE i # p
  <2> DEFINE o == IF i < p THEN i ELSE i - 1
  <2>1. o \in 1..Len(c) /\ n[i] = c[o]
    <3>1. CASE i < p
      BY <1>1, <3>1
    <3>2. CASE i > p
      BY <1>1, <3>2
    <3> QED BY <1>7, <3>1, <3>2
  <2>2. InItsPlace(c, o)
    BY <2>1 DEF PlacedFor
  <2>3. /\ b < o /\ o < z /\ c[o].name = NameOf[c[o].to]
        /\ \A k \in 1..Len(c) : b < k /\ k < z /\ IsRoute(c[k]) /\ c[k].name = c[o].name => o <= k
    BY <2>1, <2>2, PlaceIs
  <2>4. o \in Int /\ o = IF p <= b THEN i - 1 ELSE i
    BY <1>3, <1>7, <2>3
  <2>5. u < i /\ i < v
    BY <1>3, <1>7, <2>3, <2>4 DEF After
  <2> HIDE DEF o
  <2>6. ASSUME NEW k \in 1..Len(n), u < k, k < v, IsRoute(n[k]), n[k].name = n[i].name PROVE i <= k
    <3>1. CASE k = p /\ p = z
      BY <1>3, <2>3, <2>4, <3>1
    <3>2. CASE \E w \in 1..Len(c) : /\ b < w /\ w < z /\ n[k] = c[w] /\ w = IF p <= b THEN k - 1 ELSE k
      <4>1. PICK w \in 1..Len(c) : /\ b < w /\ w < z /\ n[k] = c[w] /\ w = IF p <= b THEN k - 1 ELSE k
        BY <3>2
      <4>2. o <= w
        BY <2>1, <2>3, <2>6, <4>1
      <4> QED BY <2>4, <4>1, <4>2
    <3> QED BY <1>5, <2>6, <3>1, <3>2
  <2>7. n[i].name = NameOf[n[i].to]
    BY <2>1, <2>3
  <2> HIDE DEF u, v
  <2> QED BY <1>1, <1>2, <2>5, <2>6, <2>7, PlaceIs
<1> QED BY <1>6, <1>7

LEMMA RemovePlaced ==
  ASSUME NEW c \in Seq(Lines), NEW b, NEW z, BlockAt(c, b, z), NEW p \in 1..Len(c), p \notin {b, z}, NEW r, PlacedFor(c, r)
  PROVE  PlacedFor(RemoveAt(c, p), r)
<1> DEFINE n == RemoveAt(c, p)  u == Without(p, b)  v == Without(p, z)
<1>1. /\ n \in Seq(Lines) /\ Len(n) = Len(c) - 1
      /\ \A k \in 1..Len(c) - 1 : k < p => n[k] = c[k]
      /\ \A k \in 1..Len(c) - 1 : k >= p => n[k] = c[k + 1]
  BY RemoveIs
<1>2. BlockAt(n, u, v)
  BY RemoveBlock
<1> HIDE DEF n
<1>3. b \in 1..Len(c) /\ z \in 1..Len(c) /\ b < z
  BY DEF BlockAt
<1> DEFINE Was(k) == IF k < p THEN k ELSE k + 1
<1>4. \A k \in 1..Len(n) : Was(k) \in 1..Len(c) /\ n[k] = c[Was(k)] /\ (u < k /\ k < v <=> b < Was(k) /\ Was(k) < z)
  <2> TAKE k \in 1..Len(n)
  <2>1. CASE k < p
    BY <1>1, <1>3, <2>1 DEF Without
  <2>2. CASE k >= p
    BY <1>1, <1>3, <2>2 DEF Without
  <2> QED BY <2>1, <2>2
<1> SUFFICES ASSUME NEW i \in 1..Len(n), IsRoute(n[i]), n[i].to = r PROVE InItsPlace(n, i)
  BY DEF PlacedFor, n
<1>5. InItsPlace(c, Was(i))
  BY <1>4 DEF PlacedFor
<1>6. /\ b < Was(i) /\ Was(i) < z /\ c[Was(i)].name = NameOf[c[Was(i)].to]
      /\ \A k \in 1..Len(c) : b < k /\ k < z /\ IsRoute(c[k]) /\ c[k].name = c[Was(i)].name => Was(i) <= k
  <2>1. Was(i) \in 1..Len(c) /\ IsRoute(c[Was(i)])
    BY <1>4
  <2> HIDE DEF Was
  <2> QED BY <1>5, <2>1, PlaceIs
<1>7. ASSUME NEW k \in 1..Len(n), u < k, k < v, IsRoute(n[k]), n[k].name = n[i].name PROVE i <= k
  <2>1. Was(i) <= Was(k)
    <3> HIDE DEF Was, u, v
    <3> QED BY <1>4, <1>6, <1>7
  <2> QED BY <2>1
<1>8. u < i /\ i < v /\ n[i].name = NameOf[n[i].to]
  <2> HIDE DEF Was, u, v
  <2> QED BY <1>4, <1>6
<1> HIDE DEF Was, u, v
<1>9. \A k \in 1..Len(n) : u < k /\ k < v /\ IsRoute(n[k]) /\ n[k].name = n[i].name => i <= k
  BY <1>7
<1> QED BY <1>1, <1>2, <1>8, <1>9, PlaceIs

LEMMA ReplacePlaced ==
  ASSUME NEW c \in Seq(Lines), NEW b, NEW z, BlockAt(c, b, z), NEW name \in Names \cup Hands, NEW to \in Targets,
         Inside(c, name) # {}, NEW r, PlacedFor(c, r), to = r => name = NameOf[r]
  PROVE  PlacedFor(ReplaceAt(c, Min(Inside(c, name)), RouteTo(name, to)), r)
<1> DEFINE p == Min(Inside(c, name))  x == RouteTo(name, to)  n == ReplaceAt(c, p, x)
<1>1. Inside(c, name) = {k \in 1..Len(c) : b < k /\ k < z /\ IsRoute(c[k]) /\ c[k].name = name}
  BY BlockIs DEF Inside, Called
<1>2. /\ p \in 1..Len(c) /\ b < p /\ p < z /\ IsRoute(c[p]) /\ c[p].name = name
      /\ \A k \in 1..Len(c) : b < k /\ k < z /\ IsRoute(c[k]) /\ c[k].name = name => p <= k
  <2>1. Inside(c, name) \in SUBSET Nat
    BY <1>1
  <2>2. p \in Inside(c, name) /\ \A k \in Inside(c, name) : p <= k
    BY <2>1, MinIs
  <2> QED BY <1>1, <2>2
<1>3. x \in Lines \ {BeginMark, EndMark} /\ IsRoute(x) /\ x.name = name /\ x.to = to
  BY RouteIs, LinesDiffer
<1> HIDE DEF p, x
<1>9. b \in Int /\ z \in Int
  BY DEF BlockAt
<1>4. /\ n \in Seq(Lines) /\ Len(n) = Len(c) /\ n[p] = x /\ \A k \in 1..Len(c) : k # p => n[k] = c[k]
  BY <1>2, <1>3, ReplaceIs
<1>5. BlockAt(n, b, z)
  BY <1>2, <1>3, <1>9, ReplaceBlock
<1> HIDE DEF n
<1>6. \A k \in 1..Len(c) : b < k /\ k < z /\ IsRoute(n[k]) /\ n[k].name = name => p <= k
  BY <1>2, <1>4
<1> SUFFICES ASSUME NEW i \in 1..Len(n), IsRoute(n[i]), n[i].to = r PROVE InItsPlace(n, i)
  BY DEF PlacedFor, n, p, x
<1>7. CASE i = p
  BY <1>2, <1>3, <1>4, <1>5, <1>6, <1>7, PlaceIs
<1>8. CASE i # p
  <2>1. i \in 1..Len(c) /\ n[i] = c[i]
    BY <1>4, <1>8
  <2>2. /\ b < i /\ i < z /\ c[i].name = NameOf[c[i].to]
        /\ \A k \in 1..Len(c) : b < k /\ k < z /\ IsRoute(c[k]) /\ c[k].name = c[i].name => i <= k
    <3>1. InItsPlace(c, i)
      BY <2>1 DEF PlacedFor
    <3> QED BY <2>1, <3>1, PlaceIs
  <2>3. ASSUME NEW k \in 1..Len(n), b < k, k < z, IsRoute(n[k]), n[k].name = n[i].name PROVE i <= k
    <3>1. CASE k = p
      BY <1>2, <1>3, <1>4, <2>1, <2>2, <2>3, <3>1
    <3>2. CASE k # p
      BY <1>4, <2>1, <2>2, <2>3, <3>2
    <3> QED BY <3>1, <3>2
  <2> QED BY <1>4, <1>5, <2>1, <2>2, <2>3, PlaceIs
<1> QED BY <1>7, <1>8

-----------------------------------------------------------------------------
(***************************************************************************)
(* Where routes come from, and those outside of the block.                 *)
(***************************************************************************)
\* Where the lines of n are from.
LEMMA RoutedFrom ==
  ASSUME NEW c \in Seq(Lines), NEW n \in Seq(Lines), NEW x,
         \A k \in 1..Len(n) : (\E o \in 1..Len(c) : n[k] = c[o]) \/ n[k] = x \/ ~IsRoute(n[k])
  PROVE  \A r \in Routed(n) : r \in Routed(c) \/ (IsRoute(x) /\ x.to = r)
<1> TAKE r \in Routed(n)
<1>1. PICK k \in 1..Len(n) : IsRoute(n[k]) /\ n[k].to = r
  BY RoutedIs
<1>2. r \in Recipes
  BY RoutedIs
<1>3. CASE n[k] = x
  BY <1>1, <1>3
<1>4. CASE \E o \in 1..Len(c) : n[k] = c[o]
  BY <1>1, <1>2, <1>4, RoutedIs
<1> QED BY <1>1, <1>3, <1>4

LEMMA InsertFrom ==
  ASSUME NEW c \in Seq(Lines), NEW p \in 1..Len(c) + 1, NEW x \in Lines
  PROVE  \A k \in 1..Len(InsertAt(c, p, x)) :
           (\E o \in 1..Len(c) : InsertAt(c, p, x)[k] = c[o]) \/ InsertAt(c, p, x)[k] = x
<1> DEFINE n == InsertAt(c, p, x)
<1>1. /\ Len(n) = Len(c) + 1
      /\ n[p] = x /\ \A k \in 1..Len(c) + 1 : k < p => n[k] = c[k]
      /\ \A k \in 1..Len(c) + 1 : k > p => n[k] = c[k - 1]
  BY InsertIs
<1> HIDE DEF n
<1>2. ASSUME NEW k \in 1..Len(n) PROVE (\E o \in 1..Len(c) : n[k] = c[o]) \/ n[k] = x
  <2>1. CASE k < p
    <3>1. k \in 1..Len(c) /\ n[k] = c[k]
      BY <1>1, <2>1
    <3> QED BY <3>1
  <2>2. CASE k > p
    <3>1. k - 1 \in 1..Len(c) /\ n[k] = c[k - 1]
      BY <1>1, <2>2
    <3> QED BY <3>1
  <2> QED BY <1>1, <2>1, <2>2
<1> QED BY <1>2 DEF n

LEMMA RemoveFrom ==
  ASSUME NEW c \in Seq(Lines), NEW p \in 1..Len(c)
  PROVE  \A k \in 1..Len(RemoveAt(c, p)) :
           \E o \in 1..Len(c) : o # p /\ RemoveAt(c, p)[k] = c[o] /\ o = IF k < p THEN k ELSE k + 1
<1> DEFINE n == RemoveAt(c, p)
<1>1. /\ Len(n) = Len(c) - 1
      /\ \A k \in 1..Len(c) - 1 : k < p => n[k] = c[k]
      /\ \A k \in 1..Len(c) - 1 : k >= p => n[k] = c[k + 1]
  BY RemoveIs
<1> HIDE DEF n
<1>2. ASSUME NEW k \in 1..Len(n) PROVE \E o \in 1..Len(c) : o # p /\ n[k] = c[o] /\ o = IF k < p THEN k ELSE k + 1
  <2>1. CASE k < p
    <3>1. k \in 1..Len(c) /\ n[k] = c[k]
      BY <1>1, <2>1
    <3> QED BY <2>1, <3>1
  <2>2. CASE k >= p
    <3>1. k + 1 \in 1..Len(c) /\ n[k] = c[k + 1]
      BY <1>1, <2>2
    <3> QED BY <2>2, <3>1
  <2> QED BY <2>1, <2>2
<1> QED BY <1>2 DEF n

LEMMA InsideIs ==
  ASSUME NEW c \in Seq(Lines), ~Damaged(c), NEW name, Inside(c, name) # {}
  PROVE  /\ Marked(c)
         /\ Min(Inside(c, name)) \in 1..Len(c)
         /\ IsRoute(c[Min(Inside(c, name))]) /\ c[Min(Inside(c, name))].name = name
         /\ \E b, z \in 1..Len(c) : /\ BlockAt(c, b, z) /\ b < Min(Inside(c, name)) /\ Min(Inside(c, name)) < z
                                    /\ BeginAt(c) = b /\ EndAt(c) = z
<1>1. Marked(c)
  BY DEF Inside, Between
<1>2. PICK b \in 1..Len(c), z \in 1..Len(c) : BlockAt(c, b, z)
  BY <1>1, BlockThere
<1>3. Inside(c, name) = {k \in 1..Len(c) : b < k /\ k < z /\ IsRoute(c[k]) /\ c[k].name = name}
  BY <1>2, BlockIs DEF Inside, Called
<1>4. Inside(c, name) \in SUBSET Nat
  BY <1>3
<1>5. Min(Inside(c, name)) \in Inside(c, name)
  BY <1>4, MinIs
<1>6. BeginAt(c) = b /\ EndAt(c) = z
  BY <1>2, BlockIs
<1> QED BY <1>1, <1>2, <1>3, <1>5, <1>6

LEMMA EnsuredPlaced ==
  ASSUME NEW c \in Seq(Lines), ~Damaged(c), HasList(c)
  PROVE  /\ \A r : PlacedFor(c, r) => PlacedFor(Ensured(c), r)
         /\ Routed(Ensured(c)) \subseteq Routed(c)
<1>1. CASE Marked(c)
  BY <1>1, EnsuredIs
<1>2. CASE ~Marked(c)
  <2> DEFINE n == Ensured(c)  l == ListAt(c)
  <2>1. /\ n \in Seq(Lines) /\ Len(n) = Len(c) + 2 /\ BlockAt(n, l + 1, l + 2)
        /\ \A k \in 1..Len(c) + 2 : k <= l => n[k] = c[k]
        /\ \A k \in 1..Len(c) + 2 : k > l + 2 => n[k] = c[k - 2]
    BY <1>2, EnsuredIs
  <2>2. l \in 1..Len(c)
    BY ListIs
  <2> HIDE DEF n, l
  <2>3. ASSUME NEW k \in 1..Len(n) PROVE (\E o \in 1..Len(c) : n[k] = c[o]) \/ ~IsRoute(n[k])
    <3>1. CASE k <= l
      BY <2>1, <2>2, <3>1
    <3>2. CASE k > l + 2
      <4>1. k - 2 \in 1..Len(c) /\ n[k] = c[k - 2]
        BY <2>1, <2>2, <3>2
      <4> QED BY <4>1
    <3>3. CASE k = l + 1 \/ k = l + 2
      <4>1. n[k] \in {BeginMark, EndMark}
        BY <2>1, <3>3 DEF BlockAt
      <4> QED BY <4>1, LinesDiffer
    <3> QED BY <2>2, <3>1, <3>2, <3>3
  <2>4. ASSUME NEW r, PlacedFor(c, r) PROVE PlacedFor(n, r)
    <3>1. \A i \in 1..Len(c) : ~(IsRoute(c[i]) /\ c[i].to = r)
      BY <1>2, <2>4, PlaceThere DEF PlacedFor
    <3> QED BY <2>3, <3>1 DEF PlacedFor
  <2>5. ASSUME NEW r \in Routed(n) PROVE r \in Routed(c)
    BY <2>1, <2>3, <2>5, RoutedIs
  <2> QED BY <2>4, <2>5 DEF n
<1> QED BY <1>1, <1>2

LEMMA ListInsert ==
  ASSUME NEW c \in Seq(Lines), HasList(c), NEW p \in 1..Len(c) + 1, NEW x \in Lines \ {ListLine}
  PROVE  HasList(InsertAt(c, p, x)) /\ ListAt(InsertAt(c, p, x)) = After(p, ListAt(c))
<1> DEFINE n == InsertAt(c, p, x)  l == ListAt(c)  m == After(p, l)
<1>1. /\ n \in Seq(Lines) /\ Len(n) = Len(c) + 1
      /\ n[p] = x /\ \A k \in 1..Len(c) + 1 : k < p => n[k] = c[k]
      /\ \A k \in 1..Len(c) + 1 : k > p => n[k] = c[k - 1]
  BY InsertIs
<1>2. l \in 1..Len(c) /\ c[l] = ListLine /\ \A k \in 1..Len(c) : c[k] = ListLine => l <= k
  BY ListIs
<1> HIDE DEF n, l
<1>3. m \in 1..Len(n) /\ n[m] = ListLine
  BY <1>1, <1>2 DEF After
<1>4. ASSUME NEW k \in 1..Len(n), n[k] = ListLine PROVE m <= k
  <2>1. CASE k < p
    BY <1>1, <1>2, <1>4, <2>1 DEF After
  <2>2. CASE k > p
    <3>1. k - 1 \in 1..Len(c) /\ c[k - 1] = ListLine
      BY <1>1, <1>4, <2>2
    <3>2. l <= k - 1
      BY <1>2, <3>1
    <3> QED BY <1>2, <2>2, <3>2 DEF After
  <2> QED BY <1>1, <1>4, <2>1, <2>2
<1> HIDE DEF m
<1>5. HasList(n) /\ ListAt(n) = m
  BY <1>1, <1>3, <1>4, ListUnique
<1> QED BY <1>5 DEF n, l, m

LEMMA OutsideIs ==
  ASSUME NEW c \in Seq(Lines), NEW b, NEW z, BlockAt(c, b, z), HasList(c), NEW i, NEW name
  PROVE  i \in Outside(c, name) <=>
           /\ i \in 1..Len(c) /\ IsRoute(c[i]) /\ c[i].name = name /\ (i <= b \/ i >= z)
           /\ ListAt(c) < i /\ \A j \in ListAt(c)..i : c[j] # Section
<1>1. Between(c) = {k \in 1..Len(c) : b < k /\ k < z}
  BY BlockIs
<1>2. b \in Int /\ z \in Int
  BY DEF BlockAt
<1>3. ListAt(c) \in Int
  BY ListIs
<1> QED BY <1>1, <1>2, <1>3 DEF Outside, Called, InList

LEMMA InsertOutside ==
  ASSUME NEW c \in Seq(Lines), NEW b, NEW z, BlockAt(c, b, z), HasList(c), NEW x \in Lines \ {BeginMark, EndMark, ListLine},
         NEW name, Outside(c, name) = {}
  PROVE  Outside(InsertAt(c, z, x), name) = {}
<1> DEFINE n == InsertAt(c, z, x)  l == ListAt(c)
<1>0. b \in 1..Len(c) /\ z \in 1..Len(c) /\ b < z /\ c[z] = EndMark
  BY DEF BlockAt
<1>1. /\ n \in Seq(Lines) /\ Len(n) = Len(c) + 1
      /\ n[z] = x /\ \A k \in 1..Len(c) + 1 : k < z => n[k] = c[k]
      /\ \A k \in 1..Len(c) + 1 : k > z => n[k] = c[k - 1]
  <2>1. z \in 1..Len(c) + 1 /\ x \in Lines
    BY <1>0
  <2> HIDE DEF l
  <2>2. /\ InsertAt(c, z, x) \in Seq(Lines) /\ Len(InsertAt(c, z, x)) = Len(c) + 1
        /\ InsertAt(c, z, x)[z] = x
    BY <2>1, InsertIs
  <2>3. \A k \in 1..Len(c) + 1 : k < z => InsertAt(c, z, x)[k] = c[k]
    BY <2>1, InsertIs
  <2>4. \A k \in 1..Len(c) + 1 : k > z => InsertAt(c, z, x)[k] = c[k - 1]
    BY <2>1, InsertIs
  <2> QED BY <2>2, <2>3, <2>4
<1>2. BlockAt(n, b, z + 1)
  <2>1. After(z, b) = b /\ After(z, z) = z + 1
    BY <1>0 DEF After
  <2>2. z \in 1..Len(c) + 1 /\ x \in Lines \ {BeginMark, EndMark}
    BY <1>0
  <2>3. BlockAt(n, After(z, b), After(z, z))
    BY <2>2, InsertBlock
  <2> QED BY <2>1, <2>3
<1>3. HasList(n) /\ ListAt(n) = After(z, l)
  <2>1. z \in 1..Len(c) + 1 /\ x \in Lines \ {ListLine}
    BY <1>0
  <2> QED BY <2>1, ListInsert
<1>4. l \in 1..Len(c) /\ c[l] = ListLine /\ l # z
  BY <1>0, ListIs, LinesDiffer
<1>8. \A k \in 1..Len(c) : /\ IsRoute(c[k]) /\ c[k].name = name /\ (k <= b \/ k >= z) /\ l < k
                            /\ (\A j \in l..k : c[j] # Section)
                            => k \in Outside(c, name)
  BY OutsideIs
<1> HIDE DEF n, l
<1> SUFFICES ASSUME NEW i \in Outside(n, name) PROVE FALSE
  BY DEF n
<1>5. /\ i \in 1..Len(n) /\ IsRoute(n[i]) /\ n[i].name = name /\ (i <= b \/ i >= z + 1)
      /\ ListAt(n) < i /\ \A j \in ListAt(n)..i : n[j] # Section
  BY <1>1, <1>2, <1>3, OutsideIs
<1>6. CASE i <= b
  <2>1. l < i
    BY <1>0, <1>3, <1>4, <1>5, <1>6 DEF After
  <2>2. ListAt(n) = l
    <3>1. ~(z <= l)
      BY <1>0, <1>4, <1>5, <1>6, <2>1
    <3> QED BY <1>3, <3>1 DEF After
  <2>3. \A j \in l..i : n[j] = c[j]
    BY <1>0, <1>1, <1>4, <1>5, <1>6
  <2>4. \A j \in l..i : c[j] # Section
    BY <1>5, <2>2, <2>3
  <2>5. i \in 1..Len(c) /\ n[i] = c[i]
    BY <1>0, <1>4, <1>5, <1>6, <2>1, <2>3
  <2>6. i \in Outside(c, name)
    <3>1. IsRoute(c[i]) /\ c[i].name = name
      BY <1>5, <2>5
    <3> QED BY <1>6, <1>8, <2>1, <2>4, <2>5, <3>1
  <2> QED BY <2>6
<1>7. CASE i >= z + 1
  <2>1. i - 1 \in 1..Len(c) /\ n[i] = c[i - 1]
    BY <1>0, <1>1, <1>5, <1>7
  <2>2. l < i - 1
    BY <1>0, <1>3, <1>4, <1>5, <1>7 DEF After
  <2>3. ASSUME NEW j \in l..i - 1 PROVE c[j] # Section
    <3>1. CASE j < z
      <4>1. j \in ListAt(n)..i /\ n[j] = c[j]
        BY <1>0, <1>1, <1>3, <1>4, <1>5, <3>1 DEF After
      <4> QED BY <1>5, <4>1
    <3>2. CASE j >= z
      <4>1. j + 1 \in ListAt(n)..i /\ n[j + 1] = c[j]
        BY <1>0, <1>1, <1>3, <1>4, <1>5, <3>2 DEF After
      <4> QED BY <1>5, <4>1
    <3> QED BY <1>0, <1>4, <3>1, <3>2
  <2>4. i - 1 >= z /\ IsRoute(c[i - 1]) /\ c[i - 1].name = name
    BY <1>0, <1>5, <1>7, <2>1
  <2>6. i - 1 \in Outside(c, name)
    BY <1>8, <2>1, <2>2, <2>3, <2>4
  <2> QED BY <2>6
<1> QED BY <1>5, <1>6, <1>7

LEMMA ReplaceOutside ==
  ASSUME NEW c \in Seq(Lines), NEW b, NEW z, BlockAt(c, b, z), HasList(c), NEW x \in Lines \ {BeginMark, EndMark, ListLine, Section},
         NEW p \in 1..Len(c), b < p, p < z, IsRoute(c[p]), NEW name, Outside(c, name) = {}
  PROVE  Outside(ReplaceAt(c, p, x), name) = {}
<1> DEFINE n == ReplaceAt(c, p, x)  l == ListAt(c)
<1>0. b \in 1..Len(c) /\ z \in 1..Len(c) /\ b < z
  BY DEF BlockAt
<1>1. /\ n \in Seq(Lines) /\ Len(n) = Len(c) /\ n[p] = x /\ \A k \in 1..Len(c) : k # p => n[k] = c[k]
  <2>1. x \in Lines
    OBVIOUS
  <2> QED BY <2>1, ReplaceIs
<1>2. BlockAt(n, b, z)
  <2>1. x \in Lines \ {BeginMark, EndMark} /\ p \notin {b, z}
    BY <1>0
  <2> QED BY <2>1, ReplaceBlock
<1>3. l \in 1..Len(c) /\ c[l] = ListLine /\ \A k \in 1..Len(c) : c[k] = ListLine => l <= k
  BY ListIs
<1>10. \A k \in 1..Len(c) : /\ IsRoute(c[k]) /\ c[k].name = name /\ (k <= b \/ k >= z) /\ l < k
                             /\ (\A j \in l..k : c[j] # Section)
                             => k \in Outside(c, name)
  BY OutsideIs
<1> HIDE DEF n, l
<1>4. HasList(n) /\ ListAt(n) = l
  <2>1. l # p
    BY <1>3, LinesDiffer
  <2>2. l \in 1..Len(n) /\ n[l] = ListLine /\ \A k \in 1..Len(n) : n[k] = ListLine => l <= k
    BY <1>1, <1>3, <2>1
  <2> QED BY <1>1, <2>2, ListUnique
<1>5. c[p] # Section
  BY LinesDiffer
<1> SUFFICES ASSUME NEW i \in Outside(n, name) PROVE FALSE
  BY DEF n
<1>6. /\ i \in 1..Len(n) /\ IsRoute(n[i]) /\ n[i].name = name /\ (i <= b \/ i >= z)
      /\ l < i /\ \A j \in l..i : n[j] # Section
  BY <1>1, <1>2, <1>4, OutsideIs
<1>7. \A j \in l..i : c[j] # Section
  BY <1>1, <1>3, <1>5, <1>6
<1>8. i \in 1..Len(c) /\ n[i] = c[i]
  BY <1>0, <1>1, <1>6
<1>9. i \in Outside(c, name)
  <2>1. IsRoute(c[i]) /\ c[i].name = name
    BY <1>6, <1>8
  <2> QED BY <1>6, <1>7, <1>8, <1>10, <2>1
<1> QED BY <1>9

-----------------------------------------------------------------------------
(***************************************************************************)
(* What is not between the markers.                                        *)
(***************************************************************************)
LEMMA SameHand ==
  ASSUME NEW c \in Seq(Lines), NEW n \in Seq(Lines), NEW b, NEW z, NEW y, BlockAt(c, b, z), BlockAt(n, b, y),
         Len(n) - y = Len(c) - z, \A k \in 1..b - 1 : n[k] = c[k], \A k \in 1..Len(c) - z : n[y + k] = c[z + k]
  PROVE  ByHand(n) = ByHand(c)
<1>1. b \in 1..Len(c) /\ z \in 1..Len(c) /\ y \in 1..Len(n) /\ b \in 1..Len(n)
  BY DEF BlockAt
<1>2. SubSeq(n, 1, b - 1) = SubSeq(c, 1, b - 1)
  <2> DEFINE s == SubSeq(n, 1, b - 1)  t == SubSeq(c, 1, b - 1)
  <2>1. s \in Seq(Lines) /\ Len(s) = b - 1 /\ \A k \in 1..b - 1 : s[k] = n[k]
    BY <1>1, PartIs
  <2>2. t \in Seq(Lines) /\ Len(t) = b - 1 /\ \A k \in 1..b - 1 : t[k] = c[k]
    BY <1>1, PartIs
  <2> HIDE DEF s, t
  <2>3. s = t
    BY <2>1, <2>2, SameSeq
  <2> QED BY <2>3 DEF s, t
<1>3. SubSeq(n, y + 1, Len(n)) = SubSeq(c, z + 1, Len(c))
  <2> DEFINE s == SubSeq(n, y + 1, Len(n))  t == SubSeq(c, z + 1, Len(c))
  <2>1. s \in Seq(Lines) /\ Len(s) = Len(n) - y /\ \A k \in 1..Len(n) - y : s[k] = n[y + k]
    BY <1>1, PartIs
  <2>2. t \in Seq(Lines) /\ Len(t) = Len(c) - z /\ \A k \in 1..Len(c) - z : t[k] = c[z + k]
    BY <1>1, PartIs
  <2> HIDE DEF s, t
  <2>3. s = t
    BY <2>1, <2>2, SameSeq
  <2> QED BY <2>3 DEF s, t
<1>4. /\ Marked(c) /\ BeginAt(c) = b /\ EndAt(c) = z
      /\ Marked(n) /\ BeginAt(n) = b /\ EndAt(n) = y
  BY BlockIs
<1> QED BY <1>2, <1>3, <1>4 DEF ByHand

LEMMA InsertByHand ==
  ASSUME NEW c \in Seq(Lines), NEW b, NEW z, BlockAt(c, b, z), NEW x \in Lines \ {BeginMark, EndMark},
         NEW p \in 1..Len(c), b < p, p <= z
  PROVE  ByHand(InsertAt(c, p, x)) = ByHand(c)
<1> DEFINE n == InsertAt(c, p, x)
<1>0. b \in 1..Len(c) /\ z \in 1..Len(c)
  BY DEF BlockAt
<1>1. /\ n \in Seq(Lines) /\ Len(n) = Len(c) + 1
      /\ n[p] = x /\ \A k \in 1..Len(c) + 1 : k < p => n[k] = c[k]
      /\ \A k \in 1..Len(c) + 1 : k > p => n[k] = c[k - 1]
  <2>1. x \in Lines
    OBVIOUS
  <2>2. p \in 1..Len(c) + 1
    OBVIOUS
  <2>3. /\ InsertAt(c, p, x) \in Seq(Lines) /\ Len(InsertAt(c, p, x)) = Len(c) + 1
        /\ InsertAt(c, p, x)[p] = x
    BY <2>1, <2>2, InsertIs
  <2>4. \A k \in 1..Len(c) + 1 : k < p => InsertAt(c, p, x)[k] = c[k]
    BY <2>1, <2>2, InsertIs
  <2>5. \A k \in 1..Len(c) + 1 : k > p => InsertAt(c, p, x)[k] = c[k - 1]
    BY <2>1, <2>2, InsertIs
  <2> QED BY <2>3, <2>4, <2>5
<1>2. BlockAt(n, b, z + 1)
  <2>1. After(p, b) = b /\ After(p, z) = z + 1 /\ p \in 1..Len(c) + 1
    BY <1>0 DEF After
  <2>2. BlockAt(n, After(p, b), After(p, z))
    BY <2>1, InsertBlock
  <2> QED BY <2>1, <2>2
<1> HIDE DEF n
<1>3. \A k \in 1..b - 1 : n[k] = c[k]
  BY <1>0, <1>1
<1>4. ASSUME NEW k \in 1..Len(c) - z PROVE n[z + 1 + k] = c[z + k]
  <2>1. z + 1 + k \in 1..Len(c) + 1 /\ z + 1 + k > p /\ (z + 1 + k) - 1 = z + k
    BY <1>0
  <2> QED BY <1>1, <2>1
<1>5. Len(n) - (z + 1) = Len(c) - z
  BY <1>0, <1>1
<1> QED BY <1>1, <1>2, <1>3, <1>4, <1>5, SameHand DEF n

LEMMA RemoveByHand ==
  ASSUME NEW c \in Seq(Lines), NEW b, NEW z, BlockAt(c, b, z), NEW p \in 1..Len(c), b < p, p < z
  PROVE  ByHand(RemoveAt(c, p)) = ByHand(c)
<1> DEFINE n == RemoveAt(c, p)
<1>0. b \in 1..Len(c) /\ z \in 1..Len(c)
  BY DEF BlockAt
<1>1. /\ n \in Seq(Lines) /\ Len(n) = Len(c) - 1
      /\ \A k \in 1..Len(c) - 1 : k < p => n[k] = c[k]
      /\ \A k \in 1..Len(c) - 1 : k >= p => n[k] = c[k + 1]
  BY RemoveIs
<1>2. BlockAt(n, b, z - 1)
  <2>1. Without(p, b) = b /\ Without(p, z) = z - 1 /\ p \notin {b, z}
    BY <1>0 DEF Without
  <2>2. BlockAt(n, Without(p, b), Without(p, z))
    BY <2>1, RemoveBlock
  <2> QED BY <2>1, <2>2
<1> HIDE DEF n
<1>3. \A k \in 1..b - 1 : n[k] = c[k]
  BY <1>0, <1>1
<1>4. ASSUME NEW k \in 1..Len(c) - z PROVE n[z - 1 + k] = c[z + k]
  <2>1. z - 1 + k \in 1..Len(c) - 1 /\ z - 1 + k >= p /\ (z - 1 + k) + 1 = z + k
    BY <1>0
  <2> QED BY <1>1, <2>1
<1>5. Len(n) - (z - 1) = Len(c) - z
  BY <1>0, <1>1
<1> QED BY <1>1, <1>2, <1>3, <1>4, <1>5, SameHand DEF n

LEMMA ReplaceByHand ==
  ASSUME NEW c \in Seq(Lines), NEW b, NEW z, BlockAt(c, b, z), NEW x \in Lines \ {BeginMark, EndMark},
         NEW p \in 1..Len(c), b < p, p < z
  PROVE  ByHand(ReplaceAt(c, p, x)) = ByHand(c)
<1> DEFINE n == ReplaceAt(c, p, x)
<1>0. b \in 1..Len(c) /\ z \in 1..Len(c)
  BY DEF BlockAt
<1>1. /\ n \in Seq(Lines) /\ Len(n) = Len(c) /\ \A k \in 1..Len(c) : k # p => n[k] = c[k]
  <2>1. x \in Lines
    OBVIOUS
  <2> QED BY <2>1, ReplaceIs
<1>2. BlockAt(n, b, z)
  <2>1. p \notin {b, z}
    BY <1>0
  <2> QED BY <2>1, ReplaceBlock
<1> HIDE DEF n
<1>3. \A k \in 1..b - 1 : n[k] = c[k]
  BY <1>0, <1>1
<1>4. \A k \in 1..Len(c) - z : n[z + k] = c[z + k]
  BY <1>0, <1>1
<1>5. Len(n) - z = Len(c) - z
  BY <1>0, <1>1
<1> QED BY <1>1, <1>2, <1>3, <1>4, <1>5, SameHand DEF n

\* The markers that are put in are rack's.
LEMMA EnsuredByHand ==
  ASSUME NEW c \in Seq(Lines), ~Damaged(c), HasList(c)
  PROVE  ByHand(Ensured(c)) = ByHand(c)
<1>1. CASE Marked(c)
  BY <1>1, EnsuredIs
<1>2. CASE ~Marked(c)
  <2> DEFINE n == Ensured(c)  l == ListAt(c)
  <2>1. /\ n \in Seq(Lines) /\ Len(n) = Len(c) + 2 /\ BlockAt(n, l + 1, l + 2)
        /\ \A k \in 1..Len(c) + 2 : k <= l => n[k] = c[k]
        /\ \A k \in 1..Len(c) + 2 : k > l + 2 => n[k] = c[k - 2]
    BY <1>2, EnsuredIs
  <2>2. l \in 1..Len(c)
    BY ListIs
  <2> HIDE DEF n, l
  <2>3. Marked(n) /\ BeginAt(n) = l + 1 /\ EndAt(n) = l + 2
    BY <2>1, BlockIs
  <2> DEFINE s == SubSeq(n, 1, l)  t == SubSeq(n, l + 3, Len(n))
  <2>4. s \in Seq(Lines) /\ Len(s) = l /\ \A k \in 1..l : s[k] = n[k]
    BY <2>1, <2>2, PartIs
  <2>5. t \in Seq(Lines) /\ Len(t) = Len(c) - l /\ \A k \in 1..Len(c) - l : t[k] = n[l + 2 + k]
    <3>1. l + 3 \in 1..Len(n) + 1 /\ Len(n) \in 0..Len(n) /\ l + 3 <= Len(n) + 1
      BY <2>1, <2>2
    <3>2. /\ t \in Seq(Lines) /\ Len(t) = Len(n) - (l + 3) + 1
          /\ \A k \in 1..Len(n) - (l + 3) + 1 : t[k] = n[l + 3 + k - 1]
      BY <2>1, <3>1, PartIs
    <3> HIDE DEF t
    <3>3. Len(n) - (l + 3) + 1 = Len(c) - l
      BY <2>1, <2>2
    <3>4. ASSUME NEW k \in 1..Len(c) - l PROVE t[k] = n[l + 2 + k]
      <4>1. l + 3 + k - 1 = l + 2 + k
        BY <2>2
      <4> QED BY <3>2, <3>3, <4>1
    <3> QED BY <3>2, <3>3, <3>4
  <2>6. ByHand(n) = s \o t
    <3>1. (l + 1) - 1 = l /\ (l + 2) + 1 = l + 3
      BY <2>2
    <3> QED BY <2>3, <3>1 DEF ByHand
  <2> HIDE DEF s, t
  <2> DEFINE j == s \o t
  <2>7. /\ j \in Seq(Lines) /\ Len(j) = Len(s) + Len(t)
        /\ \A k \in 1..Len(s) + Len(t) : j[k] = IF k <= Len(s) THEN s[k] ELSE t[k - Len(s)]
    BY <2>4, <2>5, JoinIs
  <2> HIDE DEF j
  <2>8. Len(s) + Len(t) = Len(c)
    BY <2>2, <2>4, <2>5
  <2>9. ASSUME NEW k \in 1..Len(c) PROVE j[k] = c[k]
    <3>1. CASE k <= l
      BY <2>1, <2>2, <2>4, <2>7, <2>8, <3>1
    <3>2. CASE k > l
      <4>1. j[k] = t[k - l] /\ k - l \in 1..Len(c) - l
        BY <2>2, <2>4, <2>7, <2>8, <3>2
      <4>2. t[k - l] = n[k + 2]
        <5>1. l + 2 + (k - l) = k + 2
          BY <2>2
        <5> QED BY <2>5, <4>1, <5>1
      <4>3. n[k + 2] = c[k]
        <5>1. k + 2 \in 1..Len(c) + 2 /\ k + 2 > l + 2 /\ (k + 2) - 2 = k
          BY <2>2, <3>2
        <5> QED BY <2>1, <5>1
      <4> QED BY <4>1, <4>2, <4>3
    <3> QED BY <2>2, <3>1, <3>2
  <2>10. j = c
    BY <2>7, <2>8, <2>9, SameSeq
  <2>11. ByHand(c) = c
    BY <1>2 DEF ByHand
  <2> QED BY <2>6, <2>10, <2>11 DEF j, n
<1> QED BY <1>1, <1>2

-----------------------------------------------------------------------------
(***************************************************************************)
(* What sync, remove and adopt make of a file.                             *)
(***************************************************************************)
LEMMA SyncedIs ==
  ASSUME NEW c, NEW name, NEW to, Synced(c, name, to) # Refused
  PROVE  /\ ~Damaged(c) /\ HasList(c) /\ Outside(Ensured(c), name) = {}
         /\ \/ /\ Inside(Ensured(c), name) # {}
               /\ Synced(c, name, to) = ReplaceAt(Ensured(c), Min(Inside(Ensured(c), name)), RouteTo(name, to))
            \/ /\ Inside(Ensured(c), name) = {}
               /\ Synced(c, name, to) = InsertAt(Ensured(c), EndAt(Ensured(c)), RouteTo(name, to))
<1>1. ~Damaged(c) /\ HasList(c)
  BY DEF Synced
<1>2. Outside(Ensured(c), name) = {}
  <2>1. CASE Outside(Ensured(c), name) # {}
    BY <1>1, <2>1 DEF Synced
  <2> QED BY <2>1
<1>3. CASE Inside(Ensured(c), name) # {}
  BY <1>1, <1>2, <1>3 DEF Synced
<1>4. CASE Inside(Ensured(c), name) = {}
  BY <1>1, <1>2, <1>4 DEF Synced
<1> QED BY <1>1, <1>2, <1>3, <1>4

LEMMA SyncedOK ==
  ASSUME NEW c \in Seq(Lines), NEW name \in Names \cup Hands, NEW to \in Targets, Synced(c, name, to) # Refused
  PROVE  /\ Synced(c, name, to) \in Seq(Lines)
         /\ Outside(Synced(c, name, to), name) = {}
         /\ ByHand(Synced(c, name, to)) = ByHand(c)
         /\ \A r : PlacedFor(c, r) /\ (to = r => name = NameOf[r]) => PlacedFor(Synced(c, name, to), r)
         /\ \A r \in Routed(Synced(c, name, to)) : r \in Routed(c) \/ r = to
<1> DEFINE e == Ensured(c)  x == RouteTo(name, to)  n == Synced(c, name, to)
<1>1. ~Damaged(c) /\ HasList(c) /\ Outside(e, name) = {}
  BY SyncedIs
<1>2. e \in Seq(Lines) /\ HasList(e) /\ (\E b, z \in 1..Len(e) : BlockAt(e, b, z)) /\ ByHand(e) = ByHand(c)
  BY <1>1, EnsuredIs, EnsuredByHand
<1>3. (\A r : PlacedFor(c, r) => PlacedFor(e, r)) /\ Routed(e) \subseteq Routed(c)
  BY <1>1, EnsuredPlaced
<1>4. x \in Lines \ {BeginMark, EndMark, ListLine, Section} /\ IsRoute(x) /\ x.name = name /\ x.to = to
  BY RouteIs, LinesDiffer
<1>5. PICK b \in 1..Len(e), z \in 1..Len(e) : BlockAt(e, b, z)
  BY <1>2
<1>6. EndAt(e) = z /\ ~Damaged(e) /\ b < z
  BY <1>2, <1>5, BlockIs DEF BlockAt
<1>7. CASE Inside(e, name) # {}
  <2> DEFINE p == Min(Inside(e, name))
  <2>1. n = ReplaceAt(e, p, x)
    BY <1>7, SyncedIs
  <2>2. p \in 1..Len(e) /\ IsRoute(e[p]) /\ b < p /\ p < z
    <3>1. /\ p \in 1..Len(e) /\ IsRoute(e[p])
          /\ \E bb, zz \in 1..Len(e) : BlockAt(e, bb, zz) /\ bb < p /\ p < zz
      BY <1>2, <1>6, <1>7, InsideIs
    <3> HIDE DEF p, e
    <3> QED BY <1>5, <3>1 DEF BlockAt
  <2>3. \A r : PlacedFor(e, r) /\ (to = r => name = NameOf[r]) => PlacedFor(n, r)
    BY <1>2, <1>5, <1>7, <2>1, ReplacePlaced
  <2> HIDE DEF p, e, x, n
  <2>4. n \in Seq(Lines) /\ Len(n) = Len(e) /\ n[p] = x /\ \A k \in 1..Len(e) : k # p => n[k] = e[k]
    <3>1. x \in Lines
      BY <1>4
    <3> QED BY <1>2, <2>1, <2>2, <3>1, ReplaceIs
  <2>5. Outside(n, name) = {}
    BY <1>1, <1>2, <1>4, <1>5, <2>1, <2>2, ReplaceOutside
  <2>6. ByHand(n) = ByHand(c)
    <3>1. x \in Lines \ {BeginMark, EndMark}
      BY <1>4
    <3> QED BY <1>2, <1>5, <2>1, <2>2, <3>1, ReplaceByHand
  <2>7. \A r \in Routed(n) : r \in Routed(c) \/ r = to
    <3>1. \A k \in 1..Len(n) : (\E o \in 1..Len(e) : n[k] = e[o]) \/ n[k] = x \/ ~IsRoute(n[k])
      BY <2>4
    <3>2. \A r \in Routed(n) : r \in Routed(e) \/ (IsRoute(x) /\ x.to = r)
      BY <1>2, <2>4, <3>1, RoutedFrom
    <3> QED BY <1>3, <1>4, <3>2
  <2> QED BY <1>3, <2>3, <2>4, <2>5, <2>6, <2>7 DEF n
<1>8. CASE Inside(e, name) = {}
  <2>1. n = InsertAt(e, z, x)
    BY <1>6, <1>8, SyncedIs
  <2> HIDE DEF e, x, n
  <2>2. z \in 1..Len(e) + 1 /\ x \in Lines /\ x \in Lines \ {BeginMark, EndMark}
    BY <1>2, <1>4
  <2>3. n \in Seq(Lines)
    BY <1>2, <2>1, <2>2, InsertIs
  <2>4. ASSUME NEW r, PlacedFor(c, r), to = r => name = NameOf[r] PROVE PlacedFor(n, r)
    <3>1. PlacedFor(e, r) /\ (IsRoute(x) /\ x.to = r => z = z /\ x.name = NameOf[r] /\ Inside(e, x.name) = {})
      BY <1>3, <1>4, <1>8, <2>4
    <3>2. z <= b \/ z >= z
      BY <1>5, <1>2
    <3> QED BY <1>2, <1>5, <2>1, <2>2, <3>1, <3>2, InsertPlaced
  <2>5. Outside(n, name) = {}
    <3>1. x \in Lines \ {BeginMark, EndMark, ListLine}
      BY <1>4
    <3> QED BY <1>1, <1>2, <1>5, <2>1, <3>1, InsertOutside
  <2>6. ByHand(n) = ByHand(c)
    <3>1. b < z /\ z <= z
      BY <1>6, <1>2, <1>5
    <3> QED BY <1>2, <1>5, <2>1, <2>2, <3>1, InsertByHand
  <2>7. \A r \in Routed(n) : r \in Routed(c) \/ r = to
    <3>1. \A k \in 1..Len(n) : (\E o \in 1..Len(e) : n[k] = e[o]) \/ n[k] = x \/ ~IsRoute(n[k])
      BY <1>2, <2>1, <2>2, InsertFrom
    <3>2. \A r \in Routed(n) : r \in Routed(e) \/ (IsRoute(x) /\ x.to = r)
      BY <1>2, <2>3, <3>1, RoutedFrom
    <3> QED BY <1>3, <1>4, <3>2
  <2> QED BY <2>3, <2>4, <2>5, <2>6, <2>7 DEF n
<1> QED BY <1>7, <1>8

LEMMA RemovedIs ==
  ASSUME NEW c, NEW name, Removed(c, name) # Refused, Removed(c, name) # c
  PROVE  /\ ~Damaged(c) /\ Inside(c, name) # {}
         /\ Removed(c, name) = RemoveAt(c, Min(Inside(c, name)))
<1>1. CASE Damaged(c)
  BY <1>1 DEF Removed
<1>2. CASE ~Damaged(c) /\ Inside(c, name) = {}
  BY <1>2 DEF Removed
<1>3. CASE ~Damaged(c) /\ Inside(c, name) # {}
  BY <1>3 DEF Removed
<1> QED BY <1>1, <1>2, <1>3

LEMMA RemovedOK ==
  ASSUME NEW c \in Seq(Lines), NEW name, Removed(c, name) # Refused, Removed(c, name) # c
  PROVE  /\ Removed(c, name) \in Seq(Lines)
         /\ ByHand(Removed(c, name)) = ByHand(c)
         /\ \A r : PlacedFor(c, r) => PlacedFor(Removed(c, name), r)
         /\ Routed(Removed(c, name)) \subseteq Routed(c)
         /\ \A r : PlacedFor(c, r) /\ name = NameOf[r] => r \notin Routed(Removed(c, name))
<1> DEFINE p == Min(Inside(c, name))  n == Removed(c, name)
<1>1. ~Damaged(c) /\ Inside(c, name) # {} /\ n = RemoveAt(c, p)
  BY RemovedIs
<1>2. /\ p \in 1..Len(c) /\ IsRoute(c[p]) /\ c[p].name = name
      /\ \E b, z \in 1..Len(c) : BlockAt(c, b, z) /\ b < p /\ p < z
  BY <1>1, InsideIs
<1>3. PICK b \in 1..Len(c), z \in 1..Len(c) : BlockAt(c, b, z) /\ b < p /\ p < z
  BY <1>2
<1>4. \A k \in 1..Len(c) : b < k /\ k < z /\ IsRoute(c[k]) /\ c[k].name = name => k \in Inside(c, name)
  BY <1>3, BlockIs DEF Inside, Called
<1> HIDE DEF p, n
<1>5. n \in Seq(Lines)
  BY <1>1, <1>2, RemoveIs
<1>6. ByHand(n) = ByHand(c)
  BY <1>1, <1>2, <1>3, RemoveByHand
<1>7. \A r : PlacedFor(c, r) => PlacedFor(n, r)
  <2>1. p \notin {b, z}
    BY <1>2, <1>3
  <2> QED BY <1>1, <1>2, <1>3, <2>1, RemovePlaced
<1>8. \A k \in 1..Len(n) : \E o \in 1..Len(c) : o # p /\ n[k] = c[o]
  BY <1>1, <1>2, RemoveFrom
<1>9. ASSUME NEW r \in Routed(n) PROVE r \in Routed(c)
  BY <1>5, <1>8, <1>9, RoutedIs
<1>10. ASSUME NEW r, PlacedFor(c, r), name = NameOf[r], r \in Routed(n) PROVE FALSE
  <2>1. PICK k \in 1..Len(n) : IsRoute(n[k]) /\ n[k].to = r
    BY <1>5, <1>10, RoutedIs
  <2>2. PICK o \in 1..Len(c) : o # p /\ n[k] = c[o]
    BY <1>8
  <2>3. InItsPlace(c, o) /\ IsRoute(c[o]) /\ c[o].to = r
    BY <1>10, <2>1, <2>2 DEF PlacedFor
  <2>4. b < o /\ o < z /\ c[o].name = name /\ o <= p
    BY <1>2, <1>3, <1>10, <2>3, PlaceIs
  <2>5. Inside(c, name) \in SUBSET Nat
    BY DEF Inside, Called
  <2>6. p <= o
    BY <1>4, <2>3, <2>4, <2>5, MinIs DEF p
  <2> QED BY <1>2, <2>2, <2>4, <2>6
<1> QED BY <1>5, <1>6, <1>7, <1>9, <1>10 DEF n

LEMMA AdoptedIs ==
  ASSUME NEW c, NEW name, Adopted(c, name) # Refused
  PROVE  /\ ~Damaged(c) /\ HasList(c) /\ Outside(Ensured(c), name) # {}
         /\ \E i, rest : /\ i = Min(Outside(Ensured(c), name)) /\ rest = RemoveAt(Ensured(c), i)
                         /\ Adopted(c, name) = InsertAt(rest, EndAt(rest), Ensured(c)[i])
BY DEF Adopted

LEMMA AdoptedOK ==
  ASSUME NEW c \in Seq(Lines), NEW name \in Names \cup Hands, Adopted(c, name) # Refused
  PROVE  /\ Adopted(c, name) \in Seq(Lines)
         /\ \A r : PlacedFor(c, r) => PlacedFor(Adopted(c, name), r)
         /\ Routed(Adopted(c, name)) \subseteq Routed(c)
<1> DEFINE e == Ensured(c)  n == Adopted(c, name)  i == Min(Outside(e, name))  rest == RemoveAt(e, i)
<1>1. ~Damaged(c) /\ HasList(c) /\ Outside(e, name) # {} /\ n = InsertAt(rest, EndAt(rest), e[i])
  BY AdoptedIs
<1>2. e \in Seq(Lines) /\ HasList(e) /\ \E b, z \in 1..Len(e) : BlockAt(e, b, z)
  BY <1>1, EnsuredIs
<1>3. (\A r : PlacedFor(c, r) => PlacedFor(e, r)) /\ Routed(e) \subseteq Routed(c)
  BY <1>1, EnsuredPlaced
<1>4. PICK b \in 1..Len(e), z \in 1..Len(e) : BlockAt(e, b, z)
  BY <1>2
<1> HIDE DEF e
<1>5. Outside(e, name) \in SUBSET Nat
  BY <1>2 DEF Outside, Called
<1>6. i \in Outside(e, name)
  BY <1>1, <1>5, MinIs
<1>7. i \in 1..Len(e) /\ IsRoute(e[i]) /\ (i <= b \/ i >= z)
  BY <1>2, <1>4, <1>6, OutsideIs
<1> HIDE DEF i
<1>8. i \notin {b, z}
  BY <1>4, <1>7, LinesDiffer DEF BlockAt
<1> DEFINE x == e[i]  u == Without(i, b)  v == Without(i, z)
<1>9. rest \in Seq(Lines) /\ BlockAt(rest, u, v) /\ EndAt(rest) = v /\ v \in 1..Len(rest) + 1
  <2>1. rest \in Seq(Lines) /\ BlockAt(rest, u, v)
    BY <1>2, <1>4, <1>7, <1>8, RemoveIs, RemoveBlock
  <2> HIDE DEF rest, u, v
  <2> QED BY <2>1, BlockIs DEF BlockAt
<1>10. x \in Lines \ {BeginMark, EndMark} /\ x \in Lines
  BY <1>2, <1>7, LinesDiffer
<1>11. \A r : PlacedFor(e, r) => PlacedFor(rest, r)
  BY <1>2, <1>4, <1>7, <1>8, RemovePlaced
<1>12. ASSUME NEW r, PlacedFor(e, r) PROVE ~(IsRoute(x) /\ x.to = r)
  <2> SUFFICES ASSUME x.to = r PROVE FALSE
    BY <1>7
  <2>1. InItsPlace(e, i)
    BY <1>7, <1>12 DEF PlacedFor
  <2>2. b < i /\ i < z
    BY <1>2, <1>4, <1>7, <2>1, PlaceIs
  <2> QED BY <1>4, <1>7, <2>2
<1>13. \A k \in 1..Len(rest) : \E o \in 1..Len(e) : rest[k] = e[o]
  BY <1>2, <1>7, RemoveFrom
<1> HIDE DEF rest, x, u, v, n
<1>14. n = InsertAt(rest, v, x)
  BY <1>1, <1>9 DEF x
<1>15. n \in Seq(Lines)
  BY <1>9, <1>10, <1>14, InsertIs
<1>16. ASSUME NEW r, PlacedFor(e, r) PROVE PlacedFor(n, r)
  <2>1. v <= u \/ v >= v
    BY <1>9 DEF BlockAt
  <2> QED BY <1>9, <1>10, <1>11, <1>12, <1>14, <1>16, <2>1, InsertPlaced
<1>17. ASSUME NEW r \in Routed(n) PROVE r \in Routed(e)
  <2>1. \A k \in 1..Len(n) : (\E o \in 1..Len(rest) : n[k] = rest[o]) \/ n[k] = x
    BY <1>9, <1>10, <1>14, InsertFrom
  <2>2. \A k \in 1..Len(n) : \E o \in 1..Len(e) : n[k] = e[o]
    BY <1>7, <1>13, <2>1 DEF x
  <2> QED BY <1>2, <1>15, <1>17, <2>2, RoutedIs
<1> QED BY <1>3, <1>15, <1>16, <1>17 DEF n

-----------------------------------------------------------------------------
(***************************************************************************)
(* The invariant.                                                          *)
(***************************************************************************)
JobOK(t) ==
  gw[t] # None =>
    /\ gw[t].do = "sync" => gw[t].to \in Recipes /\ gw[t].name = NameOf[gw[t].to]
    /\ At(t, "unroute") => /\ gw[t].do = "remove" /\ gw[t].to \in Recipes /\ gw[t].name = NameOf[gw[t].to]
                           /\ cmd[t].alone => gw[t].to = recipe

\* rack's routes in the file are where rack looks for them.
Placed == \A r \in Recipes \ excused : PlacedFor(conf, r)

InFile == Routed(conf) \ excused
InLiteLLM == RecipesIn(loaded) \ excused

\* What a rack down that is alone has loaded tells it of its route, until it has
\* taken it out, and LiteLLM has been restarted.
Unlisted(t) ==
  cmd[t].alone =>
    /\ At(t, "unroute") /\ gw[t] # None /\ gw[t].pc # "saved" /\ gw[t].to \in InFile =>
         ~Damaged(gw[t].text) /\ Inside(gw[t].text, gw[t].name) # {}
    /\ At(t, "unroute") /\ gw[t] # None /\ gw[t].pc = "saved" => gw[t].to \notin InFile
    /\ At(t, "down") => recipe \notin InFile \cup InLiteLLM

\* What .bak and .tmp hold while job j is the only one that saves.
Intact(j, b, c) ==
  /\ j.pc \in {"bak", "copied"} => b = << >>
  /\ j.pc \in {"kept", "open", "written"} => b = j.copy
  /\ j.pc = "open" => j.onto = "tmp" /\ c = << >>
  /\ j.pc = "written" => j.onto = "tmp" /\ c = Made(j)
ByItself(t) == (\A u \in Terminals \ {t} : ~Saving(u)) /\ Intact(gw[t], bak, ctmp)

SaveOK(t) ==
  Saving(t) =>
    /\ Made(gw[t]) \notin {Refused, gw[t].text}
    /\ gw[t].pc = "open" /\ gw[t].onto = "tmp" => ctmp \in Seq(Lines)
    /\ gw[t].beside \/ ByItself(t)

Works(t) == JobOK(t) /\ Unlisted(t) /\ SaveOK(t)

GatewayInv == GatewayTypeOK /\ Placed /\ RoutesAccounted /\ \A t \in Terminals : Works(t)

-----------------------------------------------------------------------------
(***************************************************************************)
(* Types, and what a step leaves as it was.                                *)
(***************************************************************************)
LEMMA LoadedIs ==
  ASSUME NEW c \in Seq(Lines)
  PROVE  RoutesOf(c) \subseteq RouteLines /\ RecipesIn(RoutesOf(c)) \subseteq Routed(c)
<1>1. ASSUME NEW x \in RoutesOf(c) PROVE \E i \in 1..Len(c) : x = c[i] /\ IsRoute(c[i])
  BY <1>1 DEF RoutesOf, InList
<1>2. \A i \in 1..Len(c) : c[i] \in Lines
  OBVIOUS
<1>3. RoutesOf(c) \subseteq RouteLines
  BY <1>1, <1>2, LineIs
<1>4. ASSUME NEW r \in RecipesIn(RoutesOf(c)) PROVE r \in Routed(c)
  <2>1. PICK x \in RoutesOf(c) : r = x.to /\ r \in Recipes
    BY <1>4 DEF RecipesIn
  <2>2. PICK i \in 1..Len(c) : x = c[i] /\ IsRoute(c[i])
    BY <1>1
  <2> QED BY <2>1, <2>2, RoutedIs
<1> QED BY <1>3, <1>4

LEMMA RoutedRecipes ==
  ASSUME NEW c
  PROVE  Routed(c) \subseteq Recipes /\ None \notin Recipes
BY RackAssumption DEF Routed, RecipesIn

LEMMA JobIs ==
  ASSUME NEW j \in Job
  PROVE  /\ j.do \in {"sync", "remove", "adopt"} /\ j.name \in Names \cup Hands /\ j.to \in Targets
         /\ j.text \in Seq(Lines) /\ j.copy \in Seq(Lines) /\ j.beside \in BOOLEAN
         /\ j.pc \in {"loaded", "bak", "copied", "kept", "open", "written", "saved"}
         /\ j.onto \in {"tmp", "conf", "gone", None}
BY DEF Job

LEMMA JobTyped ==
  ASSUME GatewayTypeOK, NEW t \in Terminals, NEW do \in {"sync", "remove", "adopt"}, NEW name \in Names \cup Hands,
         NEW to \in Targets, LoadsConf(t, do, name, to)
  PROVE  /\ gw' \in [Terminals -> Job \cup {None}]
         /\ \A u \in Terminals \ {t} : gw'[u] = gw[u]
         /\ gw'[t].do = do /\ gw'[t].name = name /\ gw'[t].to = to /\ gw'[t].text = conf /\ gw'[t].pc = "loaded"
<1> DEFINE j == [do |-> do, name |-> name, to |-> to, text |-> conf, pc |-> "loaded",
                 copy |-> << >>, onto |-> None, beside |-> FALSE]
<1>1. /\ j \in Job /\ j.do = do /\ j.name = name /\ j.to = to /\ j.text = conf /\ j.pc = "loaded"
  BY DEF Job, GatewayTypeOK
<1>2. gw' = [gw EXCEPT ![t] = j] /\ gw \in [Terminals -> Job \cup {None}]
  BY DEF LoadsConf, GatewayTypeOK
<1> HIDE DEF j
<1> QED BY <1>1, <1>2

\* The text that is made is that of the job.
LEMMA MadeSame ==
  ASSUME NEW j, NEW k, j.do = k.do, j.name = k.name, j.to = k.to, j.text = k.text
  PROVE  Made(j) = Made(k)
BY DEF Made

\* No terminal begins to save, and .bak and .tmp stay.
LEMMA NobodySaves ==
  ASSUME NEW u \in Terminals, \A t \in Terminals : SaveOK(t), bak' = bak, ctmp' = ctmp,
         \A t \in Terminals : gw'[t] = gw[t] \/ gw'[t] = None \/ gw'[t].pc = "loaded"
  PROVE  SaveOK(u)'
<1>1. \A t \in Terminals : Saving(t)' => gw'[t] = gw[t] /\ Saving(t)
  BY DEF Saving
<1>2. SUFFICES ASSUME Saving(u)' PROVE SaveOK(u)'
  BY DEF SaveOK
<1>3. gw'[u] = gw[u] /\ Saving(u) /\ SaveOK(u) /\ Made(gw'[u]) = Made(gw[u])
  BY <1>1, <1>2
<1>4. ASSUME ByItself(u) PROVE ByItself(u)'
  BY <1>1, <1>3, <1>4, MadeSame DEF ByItself, Intact
<1> QED BY <1>3, <1>4 DEF SaveOK

\* A terminal whose own file is as it was, while others are at work.
LEMMA OtherKeeps ==
  ASSUME NEW u \in Terminals, JobOK(u), Unlisted(u), gw'[u] = gw[u],
         recipe' = recipe \/ ~cmd'[u].alone,
         \/ cmd'[u].pc \notin {"unroute", "down"}
         \/ cmd'[u].pc = cmd[u].pc /\ (cmd'[u].alone => cmd[u].alone)
         \/ cmd'[u].pc = "unroute" /\ gw[u] = None,
         cmd'[u].alone /\ cmd'[u].pc \in {"unroute", "down"} =>
           InFile' \subseteq InFile /\ InLiteLLM' \subseteq InFile \cup InLiteLLM
  PROVE  JobOK(u)' /\ Unlisted(u)'
<1>1. JobOK(u)'
  BY DEF JobOK, At
<1>2. Unlisted(u)'
  <2> HIDE DEF InFile, InLiteLLM
  <2>1. SUFFICES ASSUME cmd'[u].alone PROVE Unlisted(u)'
    BY DEF Unlisted
  <2>2. CASE cmd'[u].pc \notin {"unroute", "down"}
    BY <2>2 DEF Unlisted, At
  <2>3. CASE cmd'[u].pc = cmd[u].pc /\ cmd[u].alone /\ cmd'[u].pc \in {"unroute", "down"}
    BY <2>1, <2>3 DEF Unlisted, At
  <2>4. CASE cmd'[u].pc = "unroute" /\ gw[u] = None
    BY <2>4 DEF Unlisted, At
  <2> QED BY <2>1, <2>2, <2>3, <2>4
<1> QED BY <1>1, <1>2

\* A step that leaves the routes as they were.
LEMMA StayKeeps ==
  ASSUME StartingInv, GatewayInv, UNCHANGED <<conf, bak, ctmp, loaded, excused, recipe>>,
         gw' \in [Terminals -> Job \cup {None}], \A t \in Terminals : Works(t)'
  PROVE  GatewayInv'
<1>1. GatewayTypeOK' /\ Placed' /\ RoutesAccounted'
  BY DEF GatewayInv, GatewayTypeOK, Placed, RoutesAccounted
<1> QED BY <1>1 DEF GatewayInv

-----------------------------------------------------------------------------
(***************************************************************************)
(* rack up's and rack down's own steps.                                    *)
(***************************************************************************)
LEMMA CommandsPass ==
  ASSUME StartingInv, NEW t \in Terminals,
         UpStep(t) \/ (gw[t] = None /\ (Down(t) \/ \E c \in Recipes : Up(t, c)))
  PROVE  /\ recipe' = recipe
         /\ \A u \in Terminals :
              \/ cmd'[u].pc \notin {"unroute", "down"}
              \/ cmd'[u].pc = cmd[u].pc /\ (cmd'[u].alone => cmd[u].alone)
              \/ cmd'[u].pc = "unroute" /\ gw[u] = None
<1>1. cmd \in [Terminals -> Command]
  BY DEF StartingInv, StartingTypeOK
<1>2. ASSUME gw[t] = None, Down(t) PROVE recipe' = recipe /\ \A u \in Terminals :
              \/ u = t /\ cmd'[u].pc = "unroute" /\ gw[u] = None
              \/ cmd'[u].pc = cmd[u].pc /\ ~cmd'[u].alone
  <2> DEFINE rec == [Idle EXCEPT !.pc = "unroute"]
  <2>1. rec \in Command /\ rec.pc = "unroute"
    BY DEF Idle, Command
  <2>2. Begins(t, rec) /\ recipe' = recipe
    BY <1>2 DEF Down
  <2> HIDE DEF rec
  <2>3. cmd'[t].pc = "unroute" /\ \A u \in Terminals \ {t} : cmd'[u].pc = cmd[u].pc /\ ~cmd'[u].alone
    BY <2>1, <2>2, BeginsTyped
  <2> QED BY <1>2, <2>2, <2>3
<1>3. ASSUME NEW c \in Recipes, Up(t, c) PROVE recipe' = recipe /\ \A u \in Terminals :
              \/ cmd'[u].pc = "first"
              \/ cmd'[u].pc = cmd[u].pc /\ ~cmd'[u].alone
  <2> DEFINE rec == [Idle EXCEPT !.pc = "first", !.recipe = c]
  <2>1. rec \in Command /\ rec.pc = "first"
    BY DEF Idle, Command
  <2>2. Begins(t, rec) /\ recipe' = recipe
    BY <1>3 DEF Up
  <2> HIDE DEF rec
  <2>3. cmd'[t].pc = "first" /\ \A u \in Terminals \ {t} : cmd'[u].pc = cmd[u].pc /\ ~cmd'[u].alone
    BY <2>1, <2>2, BeginsTyped
  <2> QED BY <2>2, <2>3
<1>4. ASSUME UpStep(t) PROVE recipe' = recipe /\ \A u \in Terminals :
              \/ cmd'[u].pc \notin {"unroute", "down"}
              \/ cmd'[u].pc = cmd[u].pc /\ (cmd'[u].alone => cmd[u].alone)
  <2>1. CASE Beat(t) \/ \E x \in Threads : Flush(t, x)
    BY <2>1 DEF Beat, Flush, shared
  <2>2. CASE Done(t) \/ Fails(t) \/ Detaches(t)
    <3>1. /\ recipe' = recipe
          /\ \/ cmd' = [cmd EXCEPT ![t].pc = "exit"]
             \/ cmd' = [cmd EXCEPT ![t].pc = "fail", ![t].failed = TRUE]
             \/ cmd' = [cmd EXCEPT ![t].pc = "exit", ![t].failed = TRUE]
      BY <2>2 DEF Done, Fails, Detaches, Goes, shared
    <3>2. cmd'[t].pc \in {"exit", "fail"} /\ \A u \in Terminals \ {t} : cmd'[u] = cmd[u]
      BY <1>1, <3>1 DEF Command
    <3> QED BY <3>1, <3>2
  <2>3. CASE Exit(t) \/ Killed(t)
    BY <1>1, <2>3, IdleTyped DEF Exit, Killed, Command, shared
  <2>4. ASSUME NEW x \in Threads, Replace(t, x) PROVE recipe' = recipe /\ \A u \in Terminals :
              \/ cmd'[u].pc \notin {"unroute", "down"}
              \/ cmd'[u].pc = cmd[u].pc /\ (cmd'[u].alone => cmd[u].alone)
    <3> DEFINE pc == CASE x = "main" /\ cmd[t].pc = "first" -> "work"
                       [] x = "main" /\ cmd[t].pc = "fail" -> "exit"
                       [] OTHER -> cmd[t].pc
    <3>1. cmd' = [cmd EXCEPT ![t].pc = pc, ![t].beat = now] /\ recipe' = recipe
      BY <2>4 DEF Replace, shared
    <3>2. pc \in {"work", "exit", cmd[t].pc}
      <4>1. CASE x = "main" /\ cmd[t].pc = "first"
        BY <4>1
      <4>2. CASE x = "main" /\ cmd[t].pc = "fail"
        BY <4>2
      <4>3. CASE ~(x = "main" /\ cmd[t].pc = "first") /\ ~(x = "main" /\ cmd[t].pc = "fail")
        BY <4>3
      <4> QED BY <4>1, <4>2, <4>3
    <3> HIDE DEF pc
    <3> QED BY <1>1, <3>1, <3>2 DEF Command
  <2> QED BY <1>4, <2>1, <2>2, <2>3, <2>4 DEF UpStep
<1> QED BY <1>2, <1>3, <1>4

LEMMA CommandsKeepRoutes ==
  ASSUME StartingInv, GatewayInv, NEW t \in Terminals, UNCHANGED gatewayVars,
         UpStep(t) \/ (gw[t] = None /\ (Down(t) \/ \E c \in Recipes : Up(t, c)))
  PROVE  GatewayInv'
<1>1. UNCHANGED <<conf, bak, ctmp, loaded, excused, gw>> /\ gw' \in [Terminals -> Job \cup {None}]
  BY DEF gatewayVars, GatewayInv, GatewayTypeOK
<1>2. InFile' = InFile /\ InLiteLLM' = InLiteLLM
  BY <1>1 DEF InFile, InLiteLLM
<1>3. \A u \in Terminals : JobOK(u)' /\ Unlisted(u)'
  BY <1>1, <1>2, CommandsPass, OtherKeeps DEF GatewayInv, Works
<1>4. \A u \in Terminals : SaveOK(u)'
  BY <1>1, NobodySaves DEF GatewayInv, Works
<1> QED BY <1>1, <1>3, <1>4, CommandsPass, StayKeeps DEF Works

-----------------------------------------------------------------------------
(***************************************************************************)
(* What a save makes of the routes.                                        *)
(***************************************************************************)
\* What is made of the text that was loaded, as far as the routes of recipes are
\* concerned.
LEMMA MadeOK ==
  ASSUME NEW j \in Job, Made(j) # Refused, Made(j) # j.text
  PROVE  /\ Made(j) \in Seq(Lines)
         /\ \A r \in Routed(Made(j)) : r \in Routed(j.text) \/ (j.do = "sync" /\ r = j.to)
         /\ \A r : PlacedFor(j.text, r) /\ (j.do = "sync" /\ j.to = r => j.name = NameOf[r]) => PlacedFor(Made(j), r)
         /\ \A r : PlacedFor(j.text, r) /\ j.do = "remove" /\ j.name = NameOf[r] => r \notin Routed(Made(j))
         /\ j.do # "adopt" => ByHand(Made(j)) = ByHand(j.text)
         /\ j.do = "sync" => Outside(Made(j), j.name) = {}
<1>1. /\ j.do \in {"sync", "remove", "adopt"} /\ j.name \in Names \cup Hands /\ j.to \in Targets
      /\ j.text \in Seq(Lines)
  BY JobIs
<1>2. CASE j.do = "sync"
  <2>1. Made(j) = Synced(j.text, j.name, j.to)
    BY <1>2 DEF Made
  <2> QED BY <1>1, <1>2, <2>1, SyncedOK
<1>3. CASE j.do = "remove"
  <2>1. Made(j) = Removed(j.text, j.name)
    BY <1>3 DEF Made
  <2> QED BY <1>1, <1>3, <2>1, RemovedOK
<1>4. CASE j.do = "adopt"
  <2>1. Made(j) = Adopted(j.text, j.name)
    BY <1>4 DEF Made
  <2> QED BY <1>1, <1>4, <2>1, AdoptedOK
<1> QED BY <1>1, <1>2, <1>3, <1>4

\* A rack down that finds its route takes it out.
LEMMA RemovedThere ==
  ASSUME NEW c \in Seq(Lines), NEW name, ~Damaged(c), Inside(c, name) # {}
  PROVE  Removed(c, name) # Refused /\ Removed(c, name) # c
<1>1. PICK b, z \in 1..Len(c) : /\ BlockAt(c, b, z) /\ b < Min(Inside(c, name)) /\ Min(Inside(c, name)) < z
  BY InsideIs
<1> DEFINE i == Min(Inside(c, name))
<1>2. i \in 1..Len(c) /\ b < i /\ i < z
  BY <1>1, InsideIs
<1>3. Removed(c, name) = RemoveAt(c, i)
  BY DEF Removed
<1> HIDE DEF i
<1>4. Len(RemoveAt(c, i)) = Len(c) - 1 /\ Len(c) > 2
  BY <1>1, <1>2, RemoveIs
<1> QED BY <1>3, <1>4 DEF Refused

\* A text that is written over what another command has written.
LEMMA OverlaidTyped ==
  ASSUME NEW old \in Seq(Lines), NEW new \in Seq(Lines)
  PROVE  Overlaid(old, new) \subseteq Seq(Lines) /\ (old \in {<< >>, new} => Overlaid(old, new) = {new})
<1>1. ASSUME NEW k \in 2..Len(old) PROVE new \o SubSeq(old, k, Len(old)) \in Seq(Lines)
  <2>1. SubSeq(old, k, Len(old)) \in Seq(Lines)
    BY PartIs
  <2> QED BY <2>1
<1> QED BY <1>1 DEF Overlaid

\* A step of t's save leaves what everybody is to do as it was.
JobKept(u, t) ==
  gw'[u] # None => /\ gw[u] # None
                   /\ gw'[u].do = gw[u].do /\ gw'[u].name = gw[u].name
                   /\ gw'[u].to = gw[u].to /\ gw'[u].text = gw[u].text
                   /\ u # t => gw'[u].pc = gw[u].pc

SaveKept(t) ==
  /\ gw' \in [Terminals -> Job \cup {None}]
  /\ bak' \in Seq(Lines) /\ ctmp' \in Seq(Lines) \cup {None}
  /\ \A u \in Terminals : JobKept(u, t) /\ SaveOK(u)'

\* Another command that saves, while this one does.
LEMMA OtherSaves ==
  ASSUME NEW t \in Terminals, NEW u \in Terminals, SaveOK(u), JobKept(u, t), u # t,
         Saving(u) => gw'[u].beside /\ (gw'[u].pc = "open" /\ gw'[u].onto = "tmp" => ctmp' \in Seq(Lines))
  PROVE  SaveOK(u)'
<1>1. SUFFICES ASSUME Saving(u)' PROVE SaveOK(u)'
  BY DEF SaveOK
<1>2. Saving(u) /\ gw[u] # None /\ gw'[u] # None
  BY <1>1 DEF Saving, JobKept
<1>3. Made(gw'[u]) = Made(gw[u]) /\ gw'[u].text = gw[u].text
  BY <1>2, MadeSame DEF JobKept
<1> QED BY <1>2, <1>3 DEF SaveOK

\* The steps between the first and the last of a save.
LEMMA StepsOn ==
  ASSUME GatewayInv, NEW t \in Terminals, Saving(t), NEW j \in Job, gw' = [gw EXCEPT ![t] = j],
         j.do = gw[t].do, j.name = gw[t].name, j.to = gw[t].to, j.text = gw[t].text, j.beside = gw[t].beside,
         bak' \in Seq(Lines), ctmp' \in Seq(Lines) \/ ctmp' = ctmp,
         j.pc = "open" /\ j.onto = "tmp" => ctmp' \in Seq(Lines),
         Intact(gw[t], bak, ctmp) => Intact(j, bak', ctmp')
  PROVE  SaveKept(t) /\ gw'[t] = j
<1>1. gw \in [Terminals -> Job \cup {None}] /\ gw[t] # None /\ ctmp \in Seq(Lines) \cup {None}
  BY DEF GatewayInv, GatewayTypeOK, Saving
<1>2. gw' \in [Terminals -> Job \cup {None}] /\ gw'[t] = j /\ \A u \in Terminals \ {t} : gw'[u] = gw[u]
  BY <1>1
<1>3. ASSUME NEW u \in Terminals PROVE JobKept(u, t)
  BY <1>1, <1>2 DEF JobKept
<1>4. ASSUME NEW u \in Terminals, u # t PROVE SaveOK(u)'
  <2>1. SaveOK(u) /\ gw'[u] = gw[u]
    BY <1>2, <1>4 DEF GatewayInv, Works
  <2>2. ASSUME Saving(u) PROVE gw[u].beside /\ (gw[u].pc = "open" /\ gw[u].onto = "tmp" => ctmp' \in Seq(Lines))
    <3>1. ~ByItself(u)
      BY <1>4 DEF ByItself
    <3> QED BY <2>1, <2>2, <3>1 DEF SaveOK
  <2> QED BY <1>3, <1>4, <2>1, <2>2, OtherSaves
<1>5. SaveOK(t)'
  <2>1. SaveOK(t) /\ Made(j) = Made(gw[t])
    BY MadeSame DEF GatewayInv, Works
  <2>2. Made(j) \notin {Refused, j.text} /\ (j.beside \/ ByItself(t))
    BY <2>1 DEF SaveOK
  <2>3. ASSUME ByItself(t) PROVE ByItself(t)'
    <3>1. \A u \in Terminals \ {t} : ~Saving(u)'
      BY <1>2, <2>3 DEF ByItself, Saving
    <3>2. Intact(gw'[t], bak', ctmp')
      BY <1>2, <2>3 DEF ByItself
    <3> QED BY <3>1, <3>2 DEF ByItself
  <2> QED BY <1>2, <2>2, <2>3 DEF SaveOK
<1> QED BY <1>1, <1>2, <1>3, <1>4, <1>5 DEF SaveKept

LEMMA BakOpensSaves ==
  ASSUME GatewayInv, NEW t \in Terminals, BakOpens(t)
  PROVE  SaveKept(t) /\ gw'[t].pc # "saved"
<1> DEFINE j == [gw[t] EXCEPT !.pc = "bak", !.beside = \E v \in Terminals : Saving(v)]
<1>1. /\ gw \in [Terminals -> Job \cup {None}] /\ gw[t] # None /\ gw[t] \in Job /\ ctmp \in Seq(Lines) \cup {None}
      /\ gw[t].pc = "loaded" /\ Made(gw[t]) \notin {Refused, gw[t].text} /\ bak' = << >> /\ ctmp' = ctmp
  BY DEF GatewayInv, GatewayTypeOK, BakOpens, GwAt
<1>2. /\ j \in Job /\ j.pc = "bak" /\ j.beside = (\E v \in Terminals : Saving(v)) /\ j.onto = gw[t].onto
      /\ j.do = gw[t].do /\ j.name = gw[t].name /\ j.to = gw[t].to /\ j.text = gw[t].text
  BY <1>1 DEF Job
<1>3. /\ DOMAIN gw' = Terminals /\ gw'[t] = j
      /\ \A u \in Terminals \ {t} : gw'[u] = IF Saving(u) THEN [gw[u] EXCEPT !.beside = TRUE] ELSE gw[u]
  BY DEF BakOpens
<1>4. gw' = [u \in Terminals |-> gw'[u]]
  BY DEF BakOpens
<1> HIDE DEF j
<1>5. ASSUME NEW u \in Terminals, u # t
      PROVE  /\ gw'[u] \in Job \cup {None} /\ JobKept(u, t)
             /\ Saving(u) => gw'[u].beside /\ gw'[u].onto = gw[u].onto /\ gw'[u].pc = gw[u].pc
  <2>1. CASE ~Saving(u)
    BY <1>1, <1>3, <1>5, <2>1 DEF JobKept
  <2>2. CASE Saving(u)
    <3>1. gw[u] # None /\ gw[u] \in Job /\ gw'[u] = [gw[u] EXCEPT !.beside = TRUE]
      BY <1>1, <1>3, <1>5, <2>2 DEF Saving
    <3>2. /\ gw'[u] \in Job /\ gw'[u].beside /\ gw'[u].onto = gw[u].onto /\ gw'[u].pc = gw[u].pc
          /\ gw'[u].do = gw[u].do /\ gw'[u].name = gw[u].name /\ gw'[u].to = gw[u].to /\ gw'[u].text = gw[u].text
      BY <3>1 DEF Job
    <3> QED BY <3>1, <3>2 DEF JobKept
  <2> QED BY <2>1, <2>2
<1>6. JobKept(t, t)
  BY <1>1, <1>2, <1>3 DEF JobKept
<1>7. ASSUME NEW u \in Terminals, u # t PROVE SaveOK(u)'
  <2>1. SaveOK(u)
    BY DEF GatewayInv, Works
  <2>2. Saving(u) => gw'[u].beside /\ (gw'[u].pc = "open" /\ gw'[u].onto = "tmp" => ctmp' \in Seq(Lines))
    BY <1>1, <1>5, <1>7, <2>1 DEF SaveOK
  <2> QED BY <1>5, <1>7, <2>1, <2>2, OtherSaves
<1>8. SaveOK(t)'
  <2>1. Made(j) = Made(gw[t])
    BY <1>2, MadeSame
  <2>2. ~j.beside => \A u \in Terminals \ {t} : ~Saving(u)'
    BY <1>2, <1>3 DEF Saving
  <2> QED BY <1>1, <1>2, <1>3, <2>1, <2>2 DEF SaveOK, ByItself, Intact
<1>9. gw' \in [Terminals -> Job \cup {None}]
  BY <1>2, <1>3, <1>4, <1>5
<1> QED BY <1>1, <1>5, <1>6, <1>7, <1>8, <1>9, <1>2, <1>3 DEF SaveKept

LEMMA CopiesSaves ==
  ASSUME GatewayInv, NEW t \in Terminals, Copies(t)
  PROVE  SaveKept(t) /\ gw'[t].pc # "saved"
<1> DEFINE j == [gw[t] EXCEPT !.pc = "copied", !.copy = conf]
<1>1. /\ gw \in [Terminals -> Job \cup {None}] /\ gw[t] # None /\ gw[t] \in Job /\ gw[t].pc = "bak"
      /\ conf \in Seq(Lines) /\ bak \in Seq(Lines) /\ bak' = bak /\ ctmp' = ctmp
  BY DEF GatewayInv, GatewayTypeOK, Copies, GwAt
<1>2. /\ j \in Job /\ j.pc = "copied" /\ j.beside = gw[t].beside
      /\ j.do = gw[t].do /\ j.name = gw[t].name /\ j.to = gw[t].to /\ j.text = gw[t].text
  BY <1>1 DEF Job
<1>3. gw' = [gw EXCEPT ![t] = j]
  BY <1>1 DEF Copies
<1> HIDE DEF j
<1>4. Saving(t) /\ (Intact(gw[t], bak, ctmp) => Intact(j, bak', ctmp'))
  BY <1>1, <1>2 DEF Saving, Intact
<1> QED BY <1>1, <1>2, <1>3, <1>4, StepsOn

LEMMA BakWritesSaves ==
  ASSUME GatewayInv, NEW t \in Terminals, BakWrites(t)
  PROVE  SaveKept(t) /\ gw'[t].pc # "saved"
<1> DEFINE j == [gw[t] EXCEPT !.pc = "kept"]
<1>1. /\ gw \in [Terminals -> Job \cup {None}] /\ gw[t] # None /\ gw[t] \in Job /\ gw[t].pc = "copied"
      /\ bak \in Seq(Lines) /\ bak' \in Overlaid(bak, gw[t].copy) /\ ctmp' = ctmp
  BY DEF GatewayInv, GatewayTypeOK, BakWrites, GwAt
<1>2. /\ j \in Job /\ j.pc = "kept" /\ j.beside = gw[t].beside /\ j.copy = gw[t].copy
      /\ j.do = gw[t].do /\ j.name = gw[t].name /\ j.to = gw[t].to /\ j.text = gw[t].text
  BY <1>1 DEF Job
<1>3. gw' = [gw EXCEPT ![t] = j]
  BY <1>1 DEF BakWrites
<1> HIDE DEF j
<1>4. bak' \in Seq(Lines) /\ (bak = << >> => bak' = gw[t].copy)
  BY <1>1, JobIs, OverlaidTyped
<1>5. Saving(t) /\ (Intact(gw[t], bak, ctmp) => Intact(j, bak', ctmp'))
  BY <1>1, <1>2, <1>4 DEF Saving, Intact
<1> QED BY <1>1, <1>2, <1>3, <1>4, <1>5, StepsOn

LEMMA TmpOpensSaves ==
  ASSUME GatewayInv, NEW t \in Terminals, TmpOpens(t)
  PROVE  SaveKept(t) /\ gw'[t].pc # "saved"
<1> DEFINE j == [gw[t] EXCEPT !.pc = "open", !.onto = "tmp"]
<1>1. /\ gw \in [Terminals -> Job \cup {None}] /\ gw[t] # None /\ gw[t] \in Job /\ gw[t].pc = "kept"
      /\ bak \in Seq(Lines) /\ bak' = bak /\ ctmp' = << >>
  BY DEF GatewayInv, GatewayTypeOK, TmpOpens, GwAt
<1>2. /\ j \in Job /\ j.pc = "open" /\ j.onto = "tmp" /\ j.beside = gw[t].beside /\ j.copy = gw[t].copy
      /\ j.do = gw[t].do /\ j.name = gw[t].name /\ j.to = gw[t].to /\ j.text = gw[t].text
  BY <1>1 DEF Job
<1>3. gw' = [gw EXCEPT ![t] = j]
  BY <1>1 DEF TmpOpens
<1> HIDE DEF j
<1>4. ctmp' \in Seq(Lines)
  BY <1>1
<1>5. Saving(t) /\ (Intact(gw[t], bak, ctmp) => Intact(j, bak', ctmp'))
  BY <1>1, <1>2 DEF Saving, Intact
<1> QED BY <1>1, <1>2, <1>3, <1>4, <1>5, StepsOn

LEMMA TmpWritesSaves ==
  ASSUME GatewayInv, NEW t \in Terminals, TmpWrites(t)
  PROVE  SaveKept(t) /\ gw'[t].pc # "saved"
<1> DEFINE j == [gw[t] EXCEPT !.pc = "written"]
<1>1. /\ gw \in [Terminals -> Job \cup {None}] /\ gw[t] # None /\ gw[t] \in Job /\ gw[t].pc = "open"
      /\ bak \in Seq(Lines) /\ bak' = bak /\ ctmp \in Seq(Lines) \cup {None}
      /\ ctmp' \in IF gw[t].onto = "tmp" THEN Overlaid(ctmp, Made(gw[t])) ELSE {ctmp}
  BY DEF GatewayInv, GatewayTypeOK, TmpWrites, GwAt
<1>2. /\ j \in Job /\ j.pc = "written" /\ j.onto = gw[t].onto /\ j.beside = gw[t].beside /\ j.copy = gw[t].copy
      /\ j.do = gw[t].do /\ j.name = gw[t].name /\ j.to = gw[t].to /\ j.text = gw[t].text
  BY <1>1 DEF Job
<1>3. gw' = [gw EXCEPT ![t] = j]
  BY <1>1 DEF TmpWrites
<1> HIDE DEF j
<1>4. Saving(t) /\ Made(j) = Made(gw[t])
  BY <1>1, <1>2, MadeSame DEF Saving
<1>5. Made(gw[t]) \in Seq(Lines) /\ (gw[t].onto = "tmp" => ctmp \in Seq(Lines))
  BY <1>1, <1>4, MadeOK DEF GatewayInv, Works, SaveOK
<1>6. /\ gw[t].onto = "tmp" => ctmp' \in Seq(Lines) /\ (ctmp = << >> => ctmp' = Made(gw[t]))
      /\ gw[t].onto # "tmp" => ctmp' = ctmp
  BY <1>1, <1>5, OverlaidTyped
<1>7. Intact(gw[t], bak, ctmp) => Intact(j, bak', ctmp')
  BY <1>1, <1>2, <1>4, <1>6 DEF Intact
<1> QED BY <1>1, <1>2, <1>3, <1>4, <1>6, <1>7, StepsOn

LEMMA ReplacesSaves ==
  ASSUME GatewayInv, NEW t \in Terminals, Replaces(t)
  PROVE  SaveKept(t) /\ gw'[t].pc = "saved"
<1> DEFINE j == [gw[t] EXCEPT !.pc = "saved"]
           moved(k) == CASE k.onto = "tmp"  -> [k EXCEPT !.onto = "conf"]
                         [] k.onto = "conf" -> [k EXCEPT !.onto = "gone"]
                         [] OTHER           -> k
<1>1. /\ gw \in [Terminals -> Job \cup {None}] /\ gw[t] # None /\ gw[t] \in Job /\ gw[t].pc = "written"
      /\ bak \in Seq(Lines) /\ bak' = bak /\ ctmp' = None
  BY DEF GatewayInv, GatewayTypeOK, Replaces, GwAt
<1>2. /\ j \in Job /\ j.pc = "saved"
      /\ j.do = gw[t].do /\ j.name = gw[t].name /\ j.to = gw[t].to /\ j.text = gw[t].text
  BY <1>1 DEF Job
<1>3. /\ gw' = [u \in Terminals |-> gw'[u]] /\ gw'[t] = j
      /\ \A u \in Terminals \ {t} : gw'[u] = IF ~Saving(u) THEN gw[u] ELSE moved(gw[u])
  BY DEF Replaces
<1>4. ASSUME NEW k \in Job
      PROVE  /\ moved(k) \in Job /\ moved(k).onto # "tmp" /\ moved(k).pc = k.pc /\ moved(k).beside = k.beside
             /\ moved(k).do = k.do /\ moved(k).name = k.name /\ moved(k).to = k.to /\ moved(k).text = k.text
  <2>1. CASE k.onto = "tmp"
    BY <2>1 DEF Job
  <2>2. CASE k.onto = "conf"
    BY <2>2 DEF Job
  <2>3. CASE k.onto \notin {"tmp", "conf"}
    BY <2>3 DEF Job
  <2> QED BY <2>1, <2>2, <2>3
<1> HIDE DEF j, moved
<1>5. ASSUME NEW u \in Terminals, u # t
      PROVE  /\ gw'[u] \in Job \cup {None} /\ JobKept(u, t)
             /\ Saving(u) => gw'[u].beside = gw[u].beside /\ gw'[u].onto # "tmp"
  <2>1. CASE ~Saving(u)
    BY <1>1, <1>3, <1>5, <2>1 DEF JobKept
  <2>2. CASE Saving(u)
    <3>1. gw[u] # None /\ gw[u] \in Job /\ gw'[u] = moved(gw[u])
      BY <1>1, <1>3, <1>5, <2>2 DEF Saving
    <3> QED BY <1>4, <3>1 DEF JobKept
  <2> QED BY <2>1, <2>2
<1>6. JobKept(t, t) /\ SaveOK(t)'
  BY <1>1, <1>2, <1>3 DEF JobKept, SaveOK, Saving
<1>7. ASSUME NEW u \in Terminals, u # t PROVE SaveOK(u)'
  <2>1. SaveOK(u)
    BY DEF GatewayInv, Works
  <2>2. Saving(u) => gw[u].beside
    <3>1. Saving(t)
      BY <1>1 DEF Saving
    <3> QED BY <1>7, <2>1, <3>1 DEF SaveOK, ByItself
  <2> QED BY <1>5, <1>7, <2>1, <2>2, OtherSaves
<1>8. gw' \in [Terminals -> Job \cup {None}]
  BY <1>2, <1>3, <1>5
<1> QED BY <1>1, <1>2, <1>3, <1>5, <1>6, <1>7, <1>8 DEF SaveKept

\* A save that is by itself puts in place what it has made of what it loaded.
LEMMA OwnIs ==
  ASSUME StartingInv, GatewayInv, NEW t \in Terminals, Replaces(t), ~gw[t].beside
  PROVE  /\ gw[t] \in Job /\ JobOK(t) /\ bak = gw[t].copy
         /\ conf' = Made(gw[t]) /\ conf' \in Seq(Lines) /\ conf' # Refused /\ conf' # gw[t].text
         /\ excused \subseteq excused' /\ excused' \subseteq Recipes
         /\ \A r \in Recipes \ excused' : PlacedFor(gw[t].text, r) /\ (r \in Routed(gw[t].text) => r \in InFile)
         /\ gw[t].do = "sync" => gw[t].to \in excused' \/ gw[t].to = recipe
         /\ gw[t].do = "sync" /\ (\E u \in Terminals : cmd[u].pc \in {"unroute", "down"}) => gw[t].to \in excused'
<1> DEFINE j == gw[t]
           late == j.to # recipe \/ \E u \in Terminals : cmd[u].pc \in {"unroute", "down"}
           more == (IF j.do = "sync" /\ late THEN {j.to} ELSE {}) \cup (IF j.text # conf THEN Routed(j.text) ELSE {})
<1>1. /\ j # None /\ j.pc = "written" /\ ~j.beside /\ conf' = ctmp /\ excused' = excused \cup more
  BY DEF Replaces, GwAt, Excuses
<1>2. j \in Job /\ JobOK(t) /\ SaveOK(t) /\ Saving(t) /\ excused \subseteq Recipes
  BY <1>1 DEF GatewayInv, GatewayTypeOK, Works, Saving
<1>3. Made(j) # Refused /\ Made(j) # j.text /\ conf' = Made(j) /\ bak = j.copy
  BY <1>1, <1>2 DEF SaveOK, ByItself, Intact
<1>4. j.text \in Seq(Lines) /\ conf' \in Seq(Lines)
  BY <1>2, <1>3, MadeOK, JobIs
<1>5. more \subseteq Recipes
  <2>1. j.do = "sync" => j.to \in Recipes
    BY <1>1, <1>2 DEF JobOK
  <2> QED BY <2>1, RoutedRecipes
<1>6. /\ j.text # conf => Routed(j.text) \subseteq more
      /\ j.do = "sync" => j.to \in more \/ j.to = recipe
      /\ j.do = "sync" /\ (\E u \in Terminals : cmd[u].pc \in {"unroute", "down"}) => j.to \in more
  OBVIOUS
<1> HIDE DEF more, j
<1>7. ASSUME NEW r \in Recipes \ excused' PROVE PlacedFor(j.text, r) /\ (r \in Routed(j.text) => r \in InFile)
  <2>1. r \notin more /\ r \notin excused
    BY <1>1, <1>7
  <2>2. CASE j.text = conf
    BY <1>7, <2>1, <2>2 DEF GatewayInv, Placed, InFile
  <2>3. CASE j.text # conf
    <3>1. r \notin Routed(j.text)
      BY <1>6, <2>1, <2>3
    <3>2. PlacedFor(j.text, r)
      BY <1>4, <1>7, <3>1, RoutedIs DEF PlacedFor
    <3> QED BY <3>1, <3>2
  <2> QED BY <2>2, <2>3
<1>8. excused \subseteq excused' /\ excused' \subseteq Recipes
  BY <1>1, <1>2, <1>5
<1> QED BY <1>1, <1>2, <1>3, <1>4, <1>6, <1>7, <1>8 DEF j

\* Every other step of a save leaves the file, or puts a text there all of whose
\* routes are excused.
LEMMA OtherwiseIs ==
  ASSUME StartingInv, GatewayInv, NEW t \in Terminals, SaveStep(t), ~(Replaces(t) /\ ~gw[t].beside)
  PROVE  /\ conf' \in Seq(Lines) /\ excused \subseteq excused' /\ excused' \subseteq Recipes
         /\ \/ conf' = conf /\ gw'[t].pc # "saved"
            \/ Routed(conf') \subseteq excused'
<1>1. conf \in Seq(Lines) /\ excused \subseteq Recipes /\ gw[t] \in Job \cup {None} /\ ctmp \in Seq(Lines) \cup {None}
  BY DEF GatewayInv, GatewayTypeOK
<1>2. CASE BakOpens(t) \/ Copies(t) \/ BakWrites(t) \/ TmpOpens(t)
  <2>1. conf' = conf /\ excused' = excused
    BY <1>2 DEF BakOpens, Copies, BakWrites, TmpOpens
  <2> QED BY <1>1, <1>2, <2>1, BakOpensSaves, CopiesSaves, BakWritesSaves, TmpOpensSaves
<1>3. CASE TmpWrites(t)
  <2>1. /\ gw[t] # None /\ gw[t].pc = "open"
        /\ conf' \in IF gw[t].onto = "conf" THEN Overlaid(conf, Made(gw[t])) ELSE {conf}
        /\ excused' = excused \cup IF gw[t].onto = "conf" THEN Routed(conf') ELSE {}
    BY <1>3 DEF TmpWrites, GwAt, Excuses
  <2>2. Made(gw[t]) \in Seq(Lines)
    BY <1>1, <2>1, MadeOK DEF GatewayInv, Works, SaveOK, Saving
  <2>3. conf' \in Seq(Lines) /\ (gw[t].onto # "conf" => conf' = conf)
    BY <1>1, <2>1, <2>2, OverlaidTyped
  <2> QED BY <1>1, <1>3, <2>1, <2>3, TmpWritesSaves, RoutedRecipes
<1>4. CASE Replaces(t) /\ gw[t].beside
  <2> DEFINE more == IF gw[t].do = "sync" /\ (gw[t].to # recipe \/ \E u \in Terminals : cmd[u].pc \in {"unroute", "down"})
                     THEN {gw[t].to} ELSE {}
  <2>1. /\ gw[t] # None /\ conf' = ctmp /\ ctmp # None /\ excused' = excused \cup (more \cup Routed(ctmp))
    BY <1>4 DEF Replaces, GwAt, Excuses
  <2>2. more \subseteq Recipes
    BY <2>1 DEF GatewayInv, Works, JobOK
  <2> HIDE DEF more
  <2> QED BY <1>1, <2>1, <2>2, RoutedRecipes
<1> QED BY <1>2, <1>3, <1>4 DEF SaveStep

\* A terminal whose command is to do what it was to, while a save goes on.
LEMMA JobKeeps ==
  ASSUME NEW t \in Terminals, NEW u \in Terminals, JobOK(u), Unlisted(u), JobKept(u, t), UNCHANGED <<cmd, recipe>>,
         gw'[u] # None => \/ gw'[u].pc = "saved" <=> gw[u].pc = "saved"
                          \/ cmd[u].pc = "unroute" => gw'[u].to \notin InFile',
         cmd[u].pc \in {"unroute", "down"} => InFile' \subseteq InFile /\ InLiteLLM' \subseteq InLiteLLM
  PROVE  JobOK(u)' /\ Unlisted(u)'
<1>1. JobOK(u)'
  BY DEF JobOK, JobKept, At
<1> HIDE DEF InFile, InLiteLLM
<1> QED BY <1>1 DEF Unlisted, JobKept, At

LEMMA SaveKeepsRoutes ==
  ASSUME StartingInv, GatewayInv, NEW t \in Terminals, SaveStep(t)
  PROVE  GatewayInv'
<1>1. SaveKept(t) /\ (Replaces(t) => gw'[t].pc = "saved") /\ (~Replaces(t) => gw'[t].pc # "saved")
  BY BakOpensSaves, CopiesSaves, BakWritesSaves, TmpOpensSaves, TmpWritesSaves, ReplacesSaves DEF SaveStep
<1>2. UNCHANGED <<loaded, cmd, recipe>> /\ gw[t] # None /\ gw[t].pc # "saved"
  BY DEF SaveStep, BakOpens, Copies, BakWrites, TmpOpens, TmpWrites, Replaces, GwAt, startingVars, shared
<1>3. \A u \in Terminals : JobKept(u, t) /\ SaveOK(u)' /\ JobOK(u) /\ Unlisted(u)
  BY <1>1 DEF SaveKept, GatewayInv, Works
<1>4. CASE Replaces(t) /\ ~gw[t].beside
  <2> DEFINE j == gw[t]
  <2>1. /\ j \in Job /\ JobOK(t)
        /\ conf' = Made(j) /\ conf' \in Seq(Lines) /\ conf' # Refused /\ conf' # j.text
        /\ excused \subseteq excused' /\ excused' \subseteq Recipes
        /\ \A r \in Recipes \ excused' : PlacedFor(j.text, r) /\ (r \in Routed(j.text) => r \in InFile)
        /\ j.do = "sync" => j.to \in excused' \/ j.to = recipe
        /\ j.do = "sync" /\ (\E u \in Terminals : cmd[u].pc \in {"unroute", "down"}) => j.to \in excused'
    BY <1>4, OwnIs
  <2>2. gw'[t] # None => gw'[t].to = j.to
    BY <1>2, <1>3 DEF JobKept
  <2>3. /\ j.do = "sync" => j.name = NameOf[j.to]
        /\ cmd[t].pc = "unroute" => j.do = "remove" /\ j.to \in Recipes /\ j.name = NameOf[j.to]
    BY <1>2, <2>1 DEF JobOK, At
  <2> HIDE DEF j
  <2>4. /\ \A r \in Routed(Made(j)) : r \in Routed(j.text) \/ (j.do = "sync" /\ r = j.to)
        /\ \A r : PlacedFor(j.text, r) /\ (j.do = "sync" /\ j.to = r => j.name = NameOf[r]) => PlacedFor(Made(j), r)
        /\ \A r : PlacedFor(j.text, r) /\ j.do = "remove" /\ j.name = NameOf[r] => r \notin Routed(Made(j))
    BY <2>1, MadeOK
  <2>5. GatewayTypeOK'
    BY <1>1, <1>2, <2>1 DEF GatewayInv, GatewayTypeOK, SaveKept
  <2>6. Placed'
    BY <2>1, <2>3, <2>4 DEF Placed
  <2>7. \A r \in InFile' : r \in InFile \/ (j.do = "sync" /\ r = j.to)
    <3>1. ASSUME NEW r \in InFile' PROVE r \in InFile \/ (j.do = "sync" /\ r = j.to)
      <4>1. r \in Routed(Made(j)) /\ r \in Recipes /\ r \notin excused'
        BY <2>1, <3>1, RoutedRecipes DEF InFile
      <4> HIDE DEF InFile
      <4> QED BY <2>1, <2>4, <4>1
    <3> QED BY <3>1
  <2>8. InLiteLLM' \subseteq InLiteLLM
    BY <1>2, <2>1 DEF InLiteLLM
  <2>9. RoutesAccounted'
    <3>1. ASSUME NEW r \in Routed(conf'), r \notin excused' PROVE r = recipe
      <4>1. r \in InFile'
        BY <3>1 DEF InFile
      <4>2. CASE r \in InFile
        BY <4>2 DEF InFile, GatewayInv, RoutesAccounted
      <4>3. CASE j.do = "sync" /\ r = j.to
        BY <2>1, <3>1, <4>3
      <4> QED BY <2>7, <4>1, <4>2, <4>3
    <3>2. RecipesIn(loaded') \subseteq {recipe} \cup excused'
      BY <1>2, <2>1 DEF GatewayInv, RoutesAccounted
    <3>3. Routed(conf') \subseteq {recipe} \cup excused'
      BY <3>1
    <3> QED BY <1>2, <3>2, <3>3 DEF RoutesAccounted
  <2>10. (\E u \in Terminals : cmd[u].pc \in {"unroute", "down"}) => InFile' \subseteq InFile
    <3>1. SUFFICES ASSUME \E u \in Terminals : cmd[u].pc \in {"unroute", "down"} PROVE InFile' \subseteq InFile
      OBVIOUS
    <3>2. j.do = "sync" => j.to \notin InFile'
      BY <2>1, <3>1 DEF InFile
    <3> HIDE DEF InFile
    <3> QED BY <2>7, <3>2
  <2>11. cmd[t].pc = "unroute" => j.to \notin InFile'
    BY <2>1, <2>3, <2>4 DEF InFile
  <2>12. ASSUME NEW u \in Terminals PROVE JobOK(u)' /\ Unlisted(u)'
    <3>1. cmd[u].pc \in {"unroute", "down"} => InFile' \subseteq InFile /\ InLiteLLM' \subseteq InLiteLLM
      BY <2>8, <2>10
    <3>2. gw'[u] # None => \/ gw'[u].pc = "saved" <=> gw[u].pc = "saved"
                           \/ cmd[u].pc = "unroute" => gw'[u].to \notin InFile'
      <4> HIDE DEF InFile
      <4>1. CASE u = t
        BY <1>2, <2>2, <2>11, <4>1
      <4>2. CASE u # t
        BY <1>3, <4>2 DEF JobKept
      <4> QED BY <4>1, <4>2
    <3> HIDE DEF InFile, InLiteLLM
    <3> QED BY <1>2, <1>3, <3>1, <3>2, JobKeeps
  <2> QED BY <1>3, <2>5, <2>6, <2>9, <2>12 DEF GatewayInv, Works
<1>5. CASE ~(Replaces(t) /\ ~gw[t].beside)
  <2>1. /\ conf' \in Seq(Lines) /\ excused \subseteq excused' /\ excused' \subseteq Recipes
        /\ \/ conf' = conf /\ gw'[t].pc # "saved"
           \/ Routed(conf') \subseteq excused'
    BY <1>5, OtherwiseIs
  <2>2. GatewayTypeOK'
    BY <1>1, <1>2, <2>1 DEF GatewayInv, GatewayTypeOK, SaveKept
  <2>3. Placed'
    <3>1. CASE conf' = conf
      BY <2>1, <3>1 DEF GatewayInv, Placed
    <3>2. CASE Routed(conf') \subseteq excused'
      <4>1. ASSUME NEW r \in Recipes \ excused' PROVE PlacedFor(conf', r)
        BY <2>1, <3>2, <4>1, RoutedIs DEF PlacedFor
      <4> QED BY <4>1 DEF Placed
    <3> QED BY <2>1, <3>1, <3>2
  <2>4. RoutesAccounted'
    BY <1>2, <2>1 DEF GatewayInv, RoutesAccounted
  <2>5. InFile' \subseteq InFile /\ InLiteLLM' \subseteq InLiteLLM /\ (gw'[t].pc = "saved" => InFile' = {})
    BY <1>2, <2>1 DEF InFile, InLiteLLM
  <2>6. ASSUME NEW u \in Terminals PROVE JobOK(u)' /\ Unlisted(u)'
    <3>1. gw'[u] # None => \/ gw'[u].pc = "saved" <=> gw[u].pc = "saved"
                           \/ cmd[u].pc = "unroute" => gw'[u].to \notin InFile'
      <4> HIDE DEF InFile
      <4>1. CASE u = t
        BY <1>2, <2>5, <4>1
      <4>2. CASE u # t
        BY <1>3, <4>2 DEF JobKept
      <4> QED BY <4>1, <4>2
    <3> HIDE DEF InFile, InLiteLLM
    <3> QED BY <1>2, <1>3, <2>5, <3>1, JobKeeps
  <2> QED BY <1>3, <2>2, <2>3, <2>4, <2>6 DEF GatewayInv, Works
<1> QED BY <1>4, <1>5

-----------------------------------------------------------------------------
(***************************************************************************)
(* The steps around the gateway: what is loaded, left, reloaded, recorded. *)
(***************************************************************************)
\* A route that is in the file, and not excused, is where rack down finds it.
LEMMA FoundThere ==
  ASSUME GatewayInv, NEW r \in InFile
  PROVE  ~Damaged(conf) /\ Inside(conf, NameOf[r]) # {}
<1>1. r \in Recipes \ excused /\ PlacedFor(conf, r) /\ conf \in Seq(Lines)
  BY RoutedRecipes DEF InFile, GatewayInv, Placed, GatewayTypeOK
<1>2. PICK i \in 1..Len(conf) : IsRoute(conf[i]) /\ conf[i].to = r
  BY <1>1, RoutedIs DEF InFile
<1>3. InItsPlace(conf, i)
  BY <1>1, <1>2 DEF PlacedFor
<1>4. i \in Inside(conf, NameOf[r])
  BY <1>1, <1>2, <1>3 DEF InItsPlace, Inside, Called
<1> QED BY <1>3, <1>4 DEF InItsPlace

LEMMA LoadsKeepsRoutes ==
  ASSUME StartingInv, GatewayInv, NEW t \in Terminals, Loads(t)
  PROVE  GatewayInv'
<1> DEFINE do == IF At(t, "sync") THEN "sync" ELSE "remove"
<1>1. /\ recipe \in Recipes /\ LoadsConf(t, do, NameOf[recipe], recipe) /\ gw[t] = None
      /\ cmd[t].pc \in {"sync", "unroute"}
      /\ UNCHANGED <<conf, bak, ctmp, loaded, excused, cmd, recipe>>
  BY DEF Loads, startingVars, shared, StartingInv
<1>2. do \in {"sync", "remove"} /\ (do = "sync" <=> cmd[t].pc = "sync")
  BY DEF At
<1> HIDE DEF do
<1>3. NameOf[recipe] \in Names \cup Hands /\ recipe \in Targets
  BY <1>1, RackAssumption DEF Targets
<1>4. /\ gw' \in [Terminals -> Job \cup {None}]
      /\ \A u \in Terminals \ {t} : gw'[u] = gw[u]
      /\ gw'[t].do = do /\ gw'[t].name = NameOf[recipe] /\ gw'[t].to = recipe /\ gw'[t].text = conf /\ gw'[t].pc = "loaded"
  BY <1>1, <1>2, <1>3, JobTyped DEF GatewayInv
<1>5. InFile' = InFile /\ InLiteLLM' = InLiteLLM
  BY <1>1 DEF InFile, InLiteLLM
<1>6. \A u \in Terminals \ {t} : JobOK(u)' /\ Unlisted(u)'
  BY <1>1, <1>4, <1>5, OtherKeeps DEF GatewayInv, Works
<1>7. JobOK(t)'
  BY <1>1, <1>2, <1>4 DEF JobOK, At
<1>8. Unlisted(t)'
  <2> HIDE DEF InFile, InLiteLLM
  <2> QED BY <1>1, <1>4, <1>5, FoundThere DEF Unlisted, At
<1>9. \A u \in Terminals : SaveOK(u)'
  BY <1>1, <1>4, NobodySaves DEF GatewayInv, Works
<1> QED BY <1>1, <1>4, <1>6, <1>7, <1>8, <1>9, StayKeeps DEF Works

LEMMA CommandKeepsRoutes ==
  ASSUME StartingInv, GatewayInv, NEW t \in Terminals, NEW do \in {"sync", "remove", "adopt"},
         NEW name \in Names \cup Hands, GatewayCommand(t, do, name)
  PROVE  GatewayInv'
<1> DEFINE to == IF do = "sync" THEN recipe ELSE "theirs"
<1>1. /\ LoadsConf(t, do, name, to) /\ cmd[t].pc = "idle"
      /\ do = "sync" => recipe \in Recipes /\ name = NameOf[recipe]
      /\ UNCHANGED <<conf, bak, ctmp, loaded, excused, cmd, recipe>>
  BY DEF GatewayCommand, startingVars, StartingInv, At
<1>2. to \in Targets /\ (do = "sync" => to \in Recipes /\ name = NameOf[to])
  BY <1>1 DEF Targets
<1> HIDE DEF to
<1>4. /\ gw' \in [Terminals -> Job \cup {None}]
      /\ \A u \in Terminals \ {t} : gw'[u] = gw[u]
      /\ gw'[t].do = do /\ gw'[t].name = name /\ gw'[t].to = to /\ gw'[t].text = conf /\ gw'[t].pc = "loaded"
  BY <1>1, <1>2, JobTyped DEF GatewayInv
<1>5. InFile' = InFile /\ InLiteLLM' = InLiteLLM
  BY <1>1 DEF InFile, InLiteLLM
<1>6. \A u \in Terminals \ {t} : JobOK(u)' /\ Unlisted(u)'
  BY <1>1, <1>4, <1>5, OtherKeeps DEF GatewayInv, Works
<1>7. JobOK(t)'
  BY <1>1, <1>2, <1>4 DEF JobOK, At
<1>8. Unlisted(t)'
  BY <1>1 DEF Unlisted, At
<1>9. \A u \in Terminals : SaveOK(u)'
  BY <1>1, <1>4, NobodySaves DEF GatewayInv, Works
<1> QED BY <1>1, <1>4, <1>6, <1>7, <1>8, <1>9, StayKeeps DEF Works

\* The rack script goes on after the gateway's part.
LEMMA GoesOnIs ==
  ASSUME StartingInv, GatewayTypeOK, NEW t \in Terminals, GoesOn(t)
  PROVE  /\ gw' \in [Terminals -> Job \cup {None}] /\ gw'[t] = None
         /\ \A u \in Terminals \ {t} : gw'[u] = gw[u] /\ cmd'[u] = cmd[u]
         /\ cmd[t].pc = "unroute" => cmd'[t].pc = "down" /\ cmd'[t].alone = cmd[t].alone
         /\ cmd[t].pc # "unroute" => cmd'[t].pc = "idle"
BY IdleTyped DEF GoesOn, GatewayTypeOK, StartingInv, StartingTypeOK, Command, At

\* What goes on keeps the invariant, if its route is in neither place.
LEMMA GoesOnKeepsRoutes ==
  ASSUME StartingInv, GatewayInv, NEW t \in Terminals, GoesOn(t), recipe' = recipe, conf' = conf, bak' = bak, ctmp' = ctmp,
         loaded' \subseteq RouteLines, excused \subseteq excused', excused' \subseteq Recipes,
         RecipesIn(loaded') \subseteq Routed(conf) \cup RecipesIn(loaded) \cup excused',
         cmd[t].pc = "unroute" /\ cmd[t].alone => recipe \notin InFile' \cup InLiteLLM'
  PROVE  GatewayInv'
<1>1. /\ gw' \in [Terminals -> Job \cup {None}] /\ gw'[t] = None
      /\ \A u \in Terminals \ {t} : gw'[u] = gw[u] /\ cmd'[u] = cmd[u]
      /\ cmd[t].pc = "unroute" => cmd'[t].pc = "down" /\ cmd'[t].alone = cmd[t].alone
      /\ cmd[t].pc # "unroute" => cmd'[t].pc = "idle"
  BY GoesOnIs DEF GatewayInv
<1>2. InFile' \subseteq InFile /\ InLiteLLM' \subseteq InFile \cup InLiteLLM
  BY DEF InFile, InLiteLLM
<1>3. GatewayTypeOK'
  BY <1>1 DEF GatewayInv, GatewayTypeOK
<1>4. Placed'
  BY DEF GatewayInv, Placed
<1>5. RoutesAccounted'
  BY DEF GatewayInv, RoutesAccounted
<1>6. ASSUME NEW u \in Terminals \ {t} PROVE JobOK(u)' /\ Unlisted(u)'
  BY <1>1, <1>2, OtherKeeps DEF GatewayInv, Works
<1>7. JobOK(t)'
  BY <1>1 DEF JobOK
<1>8. Unlisted(t)'
  <2> HIDE DEF InFile, InLiteLLM
  <2> QED BY <1>1 DEF Unlisted, At
<1>9. \A u \in Terminals : SaveOK(u)'
  BY <1>1, NobodySaves DEF GatewayInv, Works
<1> QED BY <1>3, <1>4, <1>5, <1>6, <1>7, <1>8, <1>9 DEF GatewayInv, Works

\* LiteLLM lists what is in the file; or what it keeps of before is excused.
LEMMA LoadedOK ==
  ASSUME GatewayInv, NEW r, r \notin InFile, NEW more, RecipesIn(loaded \ RoutesOf(conf)) \subseteq more,
         excused' = excused \cup more, conf' = conf, loaded' = loaded
  PROVE  r \notin InFile' /\ r \notin InLiteLLM'
<1>1. RecipesIn(RoutesOf(conf)) \subseteq Routed(conf)
  BY LoadedIs DEF GatewayInv, GatewayTypeOK
<1>2. RecipesIn(loaded) \subseteq RecipesIn(RoutesOf(conf)) \cup RecipesIn(loaded \ RoutesOf(conf))
  BY DEF RecipesIn
<1> QED BY <1>1, <1>2 DEF InFile, InLiteLLM

LEMMA NothingKeepsRoutes ==
  ASSUME StartingInv, GatewayInv, NEW t \in Terminals, NothingRecorded(t)
  PROVE  GatewayInv'
<1>1. GoesOn(t) /\ recipe = None /\ UNCHANGED <<conf, bak, ctmp, loaded, excused, recipe>>
  BY DEF NothingRecorded, shared
<1>2. None \notin InFile' \cup InLiteLLM'
  BY RackAssumption DEF InFile, InLiteLLM, Routed, RecipesIn
<1>3. loaded' \subseteq RouteLines /\ excused' \subseteq Recipes
  BY <1>1 DEF GatewayInv, GatewayTypeOK
<1> QED BY <1>1, <1>2, <1>3, GoesOnKeepsRoutes

LEMMA LeavesKeepsRoutes ==
  ASSUME StartingInv, GatewayInv, NEW t \in Terminals, LeavesIt(t)
  PROVE  GatewayInv'
<1> DEFINE more == IF At(t, "unroute") THEN RecipesIn(loaded \ RoutesOf(conf)) ELSE {}
<1>1. /\ gw[t] # None /\ gw[t].pc = "loaded" /\ Made(gw[t]) \in {Refused, gw[t].text}
      /\ GoesOn(t) /\ excused' = excused \cup more /\ UNCHANGED <<conf, bak, ctmp, loaded, recipe>>
  BY DEF LeavesIt, GwAt, Excuses, shared
<1>2. more \subseteq Recipes /\ (cmd[t].pc = "unroute" => more = RecipesIn(loaded \ RoutesOf(conf)))
  BY DEF At, RecipesIn
<1> HIDE DEF more
<1>3. loaded' \subseteq RouteLines /\ excused' \subseteq Recipes /\ gw[t] \in Job
  BY <1>1, <1>2 DEF GatewayInv, GatewayTypeOK
<1>4. ASSUME cmd[t].pc = "unroute", cmd[t].alone PROVE recipe \notin InFile' \cup InLiteLLM'
  <2>1. gw[t].do = "remove" /\ gw[t].to = recipe
    BY <1>1, <1>4 DEF GatewayInv, Works, JobOK, At
  <2>2. Made(gw[t]) = Removed(gw[t].text, gw[t].name)
    BY <2>1 DEF Made
  <2>3. Damaged(gw[t].text) \/ Inside(gw[t].text, gw[t].name) = {}
    BY <1>1, <1>3, <2>2, RemovedThere, JobIs
  <2>4. recipe \notin InFile
    <3> HIDE DEF InFile
    <3>1. Unlisted(t)
      BY DEF GatewayInv, Works
    <3> QED BY <1>1, <1>4, <2>1, <2>3, <3>1 DEF Unlisted, At
  <2> HIDE DEF InFile, InLiteLLM
  <2> QED BY <1>1, <1>2, <1>4, <2>4, LoadedOK
<1> HIDE DEF InFile, InLiteLLM
<1> QED BY <1>1, <1>3, <1>4, GoesOnKeepsRoutes

LEMMA ReloadsKeepsRoutes ==
  ASSUME StartingInv, GatewayInv, NEW t \in Terminals, Reloads(t)
  PROVE  GatewayInv'
<1> DEFINE more == RecipesIn(loaded' \ RoutesOf(conf))
<1>1. /\ gw[t] # None /\ gw[t].pc = "saved"
      /\ GoesOn(t) /\ excused' = excused \cup more /\ UNCHANGED <<conf, bak, ctmp, recipe>>
      /\ loaded' = loaded \/ loaded' = RoutesOf(conf)
  BY DEF Reloads, GwAt, Excuses, shared
<1>2. more \subseteq Recipes
  BY DEF RecipesIn
<1>3. RecipesIn(RoutesOf(conf)) \subseteq Routed(conf) /\ RoutesOf(conf) \subseteq RouteLines
  BY LoadedIs DEF GatewayInv, GatewayTypeOK
<1>4. RecipesIn(loaded') \subseteq Routed(conf) \cup more
  <2>1. RecipesIn(loaded') \subseteq RecipesIn(RoutesOf(conf)) \cup more
    BY DEF RecipesIn
  <2> QED BY <1>3, <2>1
<1> HIDE DEF more
<1>5. loaded' \subseteq RouteLines /\ excused' \subseteq Recipes
  BY <1>1, <1>2, <1>3 DEF GatewayInv, GatewayTypeOK
<1>6. ASSUME cmd[t].pc = "unroute", cmd[t].alone PROVE recipe \notin InFile' \cup InLiteLLM'
  <2>1. gw[t].to = recipe
    BY <1>1, <1>6 DEF GatewayInv, Works, JobOK, At
  <2>2. recipe \notin InFile
    <3> HIDE DEF InFile
    <3>1. Unlisted(t)
      BY DEF GatewayInv, Works
    <3> QED BY <1>1, <1>6, <2>1, <3>1 DEF Unlisted, At
  <2> QED BY <1>1, <1>4, <2>2 DEF InFile, InLiteLLM
<1>7. RecipesIn(loaded') \subseteq Routed(conf) \cup RecipesIn(loaded) \cup excused'
  BY <1>1, <1>4
<1> HIDE DEF InFile, InLiteLLM
<1> QED BY <1>1, <1>5, <1>6, <1>7, GoesOnKeepsRoutes

LEMMA TmpGoneKeepsRoutes ==
  ASSUME StartingInv, GatewayInv, NEW t \in Terminals, TmpIsGone(t)
  PROVE  GatewayInv'
<1> DEFINE more == IF At(t, "unroute") THEN Routed(conf) \cup RecipesIn(loaded) ELSE {}
<1>1. GoesOn(t) /\ excused' = excused \cup more /\ UNCHANGED <<conf, bak, ctmp, loaded, recipe>>
  BY DEF TmpIsGone, Excuses, shared
<1>2. more \subseteq Recipes /\ (cmd[t].pc = "unroute" => more = Routed(conf) \cup RecipesIn(loaded))
  BY RoutedRecipes DEF At, RecipesIn
<1> HIDE DEF more
<1>3. loaded' \subseteq RouteLines /\ excused' \subseteq Recipes
  BY <1>1, <1>2 DEF GatewayInv, GatewayTypeOK
<1>4. cmd[t].pc = "unroute" => recipe \notin InFile' \cup InLiteLLM'
  BY <1>1, <1>2 DEF InFile, InLiteLLM
<1> HIDE DEF InFile, InLiteLLM
<1> QED BY <1>1, <1>3, <1>4, GoesOnKeepsRoutes

LEMMA InterruptedKeepsRoutes ==
  ASSUME StartingInv, GatewayInv, NEW t \in Terminals, Interrupted(t)
  PROVE  GatewayInv'
<1> DEFINE more == IF gw[t].pc = "saved" THEN RecipesIn(loaded \ RoutesOf(conf)) ELSE {}
<1>1. /\ gw' = [gw EXCEPT ![t] = None] /\ cmd' = [cmd EXCEPT ![t] = Idle]
      /\ excused' = excused \cup more /\ UNCHANGED <<conf, bak, ctmp, loaded, recipe>>
  BY DEF Interrupted, Excuses
<1>2. more \subseteq Recipes
  BY DEF RecipesIn
<1> HIDE DEF more
<1>3. /\ gw' \in [Terminals -> Job \cup {None}] /\ gw'[t] = None /\ cmd'[t].pc = "idle"
      /\ \A u \in Terminals \ {t} : gw'[u] = gw[u] /\ cmd'[u] = cmd[u]
  BY <1>1, IdleTyped DEF GatewayInv, GatewayTypeOK, StartingInv, StartingTypeOK
<1>4. GatewayTypeOK' /\ Placed' /\ RoutesAccounted'
  BY <1>1, <1>2, <1>3 DEF GatewayInv, GatewayTypeOK, Placed, RoutesAccounted
<1>5. InFile' \subseteq InFile /\ InLiteLLM' \subseteq InLiteLLM
  BY <1>1 DEF InFile, InLiteLLM
<1>6. \A u \in Terminals \ {t} : JobOK(u)' /\ Unlisted(u)'
  BY <1>1, <1>3, <1>5, OtherKeeps DEF GatewayInv, Works
<1>7. JobOK(t)' /\ Unlisted(t)'
  BY <1>3 DEF JobOK, Unlisted, At
<1>8. \A u \in Terminals : SaveOK(u)'
  BY <1>1, <1>3, NobodySaves DEF GatewayInv, Works
<1> QED BY <1>4, <1>6, <1>7, <1>8 DEF GatewayInv, Works

\* What is recorded, or is not any longer: its route was taken out, or is excused.
LEMMA RecordKeepsRoutes ==
  ASSUME StartingInv, GatewayInv, NEW t \in Terminals, RecordsOver(t) \/ RemovesRecord(t)
  PROVE  GatewayInv'
<1>1. /\ cmd[t].pc \in {"work", "down"} /\ UNCHANGED <<conf, bak, ctmp, loaded, gw>>
      /\ \A u \in Terminals \ {t} : cmd'[u] = cmd[u]
      /\ cmd'[t].pc \in {"recorded", "idle"}
  BY IdleTyped DEF RecordsOver, RemovesRecord, Records, Removes, Goes, At, StartingInv, StartingTypeOK, Command
<1>2. /\ excused \subseteq excused' /\ excused' \subseteq excused \cup ({recipe} \ {None})
      /\ recipe \notin (InFile \cup InLiteLLM) \/ recipe \in excused' \/ recipe' = recipe
  <2>1. CASE RecordsOver(t)
    BY <2>1, RackAssumption DEF RecordsOver, Records, Excuses, InFile, InLiteLLM, Routed, RecipesIn
  <2>2. CASE RemovesRecord(t)
    <3>1. recipe = None \/ cmd[t].alone \/ recipe \in excused'
      BY <2>2 DEF RemovesRecord, Excuses
    <3>2. cmd[t].alone => recipe \notin InFile \cup InLiteLLM
      <4> HIDE DEF InFile, InLiteLLM
      <4>1. Unlisted(t) /\ cmd[t].pc = "down"
        BY <2>2 DEF GatewayInv, Works, RemovesRecord, Removes, At
      <4> QED BY <4>1 DEF Unlisted, At
    <3>3. None \notin InFile \cup InLiteLLM
      BY RackAssumption DEF InFile, InLiteLLM, Routed, RecipesIn
    <3>4. excused \subseteq excused' /\ excused' \subseteq excused \cup ({recipe} \ {None})
      BY <2>2 DEF RemovesRecord, Excuses
    <3> QED BY <3>1, <3>2, <3>3, <3>4
  <2> QED BY <2>1, <2>2
<1>3. GatewayTypeOK' /\ Placed'
  BY <1>1, <1>2 DEF GatewayInv, GatewayTypeOK, Placed, StartingInv
<1>4. RoutesAccounted'
  BY <1>1, <1>2 DEF GatewayInv, RoutesAccounted, InFile, InLiteLLM
<1>5. \A u \in Terminals \ {t} : ~cmd'[u].alone
  BY <1>1 DEF StartingInv, Alone
<1>6. \A u \in Terminals \ {t} : JobOK(u)' /\ Unlisted(u)'
  BY <1>1, <1>5, OtherKeeps DEF GatewayInv, Works
<1>7. JobOK(t)' /\ Unlisted(t)'
  BY <1>1 DEF JobOK, Unlisted, At, StartingInv, Jobs
<1>8. \A u \in Terminals : SaveOK(u)'
  BY <1>1, NobodySaves DEF GatewayInv, Works
<1> QED BY <1>3, <1>4, <1>6, <1>7, <1>8 DEF GatewayInv, Works

-----------------------------------------------------------------------------
(***************************************************************************)
(* People's edits.                                                         *)
(***************************************************************************)
\* The block of a file that has one.
LEMMA BlockHas ==
  ASSUME NEW c \in Seq(Lines), NEW b, NEW z, BlockAt(c, b, z)
  PROVE  Len(Block(c)) = z - b + 1 /\ z - b + 1 > 1
<1>1. Block(c) = SubSeq(c, b, z)
  BY BlockIs DEF Block
<1>2. b \in 1..Len(c) /\ z \in 1..Len(c) /\ b < z
  BY DEF BlockAt
<1> QED BY <1>1, <1>2, PartIs

LEMMA RemoveEdit ==
  ASSUME NEW c \in Seq(Lines), NEW p \in 1..Len(c), Block(RemoveAt(c, p)) = Block(c), NEW r, PlacedFor(c, r)
  PROVE  PlacedFor(RemoveAt(c, p), r)
<1> DEFINE n == RemoveAt(c, p)
<1>1. n \in Seq(Lines) /\ \A k \in 1..Len(n) : \E o \in 1..Len(c) : o # p /\ n[k] = c[o]
  BY RemoveIs, RemoveFrom
<1>2. CASE \A i \in 1..Len(c) : ~(IsRoute(c[i]) /\ c[i].to = r)
  BY <1>1, <1>2 DEF PlacedFor
<1>3. CASE \E i \in 1..Len(c) : IsRoute(c[i]) /\ c[i].to = r
  <2>1. PICK i \in 1..Len(c) : InItsPlace(c, i)
    BY <1>3 DEF PlacedFor
  <2>2. PICK b, z \in 1..Len(c) : BlockAt(c, b, z)
    BY <2>1, PlaceThere
  <2>3. ASSUME p \in {b, z} PROVE FALSE
    <3>1. Len(Block(n)) > 1
      BY <2>2, BlockHas
    <3>2. Marked(n) /\ ~Damaged(n)
      BY <3>1 DEF Block
    <3>3. PICK u, v \in 1..Len(n) : BlockAt(n, u, v)
      BY <1>1, <3>2, BlockThere
    <3>4. n[u] = BeginMark /\ n[v] = EndMark
      BY <3>3 DEF BlockAt
    <3>5. PICK k \in 1..Len(c), l \in 1..Len(c) : k # p /\ l # p /\ c[k] = BeginMark /\ c[l] = EndMark
      BY <1>1, <3>3, <3>4
    <3> QED BY <2>2, <2>3, <3>5 DEF BlockAt
  <2> QED BY <2>2, <2>3, RemovePlaced
<1> QED BY <1>2, <1>3

LEMMA InsertEdit ==
  ASSUME NEW c \in Seq(Lines), NEW p \in 1..Len(c) + 1, NEW x \in Lines, Block(InsertAt(c, p, x)) = Block(c),
         NEW r, PlacedFor(c, r), x # BeginMark, ~(IsRoute(x) /\ x.to = r)
  PROVE  PlacedFor(InsertAt(c, p, x), r)
<1> DEFINE n == InsertAt(c, p, x)
<1>1. n \in Seq(Lines) /\ \A k \in 1..Len(n) : (\E o \in 1..Len(c) : n[k] = c[o]) \/ n[k] = x
  BY InsertIs, InsertFrom
<1>2. CASE \A i \in 1..Len(c) : ~(IsRoute(c[i]) /\ c[i].to = r)
  BY <1>1, <1>2 DEF PlacedFor
<1>3. CASE \E i \in 1..Len(c) : IsRoute(c[i]) /\ c[i].to = r
  <2>1. PICK i \in 1..Len(c) : InItsPlace(c, i)
    BY <1>3 DEF PlacedFor
  <2>2. PICK b, z \in 1..Len(c) : BlockAt(c, b, z)
    BY <2>1, PlaceThere
  <2>3. b < z /\ c[z] = EndMark /\ b \in 1..Len(c) /\ z \in 1..Len(c)
    BY <2>2 DEF BlockAt
  <2>4. Len(Block(n)) = z - b + 1 /\ z - b + 1 > 1
    BY <2>2, BlockHas
  <2>5. PICK u, v \in 1..Len(n) : BlockAt(n, u, v)
    <3>1. Marked(n) /\ ~Damaged(n)
      BY <2>4 DEF Block
    <3> QED BY <1>1, <3>1, BlockThere
  <2>6. x # EndMark
    <3>1. SUFFICES ASSUME x = EndMark PROVE FALSE
      OBVIOUS
    <3>2. n[p] = EndMark /\ p \in 1..Len(n) /\ n[After(p, z)] = EndMark /\ After(p, z) \in 1..Len(n) /\ After(p, z) # p
      <4>1. /\ Len(n) = Len(c) + 1 /\ n[p] = x
            /\ \A k \in 1..Len(c) + 1 : k < p => n[k] = c[k]
            /\ \A k \in 1..Len(c) + 1 : k > p => n[k] = c[k - 1]
        BY InsertIs
      <4> HIDE DEF n
      <4>2. CASE p <= z
        <5>1. After(p, z) = z + 1 /\ z + 1 > p /\ (z + 1) - 1 = z
          BY <2>3, <4>2 DEF After
        <5> QED BY <2>3, <3>1, <4>1, <5>1
      <4>3. CASE p > z
        <5>1. After(p, z) = z
          BY <2>3, <4>3 DEF After
        <5> QED BY <2>3, <3>1, <4>1, <4>3, <5>1
      <4> QED BY <2>3, <4>2, <4>3
    <3> QED BY <2>5, <3>2 DEF BlockAt
  <2>7. BlockAt(n, After(p, b), After(p, z))
    BY <2>2, <2>6, InsertBlock
  <2>8. Len(Block(n)) = After(p, z) - After(p, b) + 1
    BY <1>1, <2>7, BlockHas
  <2>9. p <= b \/ p >= z
    BY <2>3, <2>4, <2>8 DEF After
  <2> QED BY <2>2, <2>6, <2>9, InsertPlaced
<1> QED BY <1>2, <1>3

LEMMA EditsOK ==
  ASSUME StartingInv, GatewayInv, HandEdits
  PROVE  /\ conf' \in Seq(Lines) /\ Routed(conf') \subseteq Routed(conf)
         /\ Block(conf') = Block(conf) => \A r \in Recipes \ excused : PlacedFor(conf', r)
<1>1. conf \in Seq(Lines) /\ Placed
  BY DEF GatewayInv, GatewayTypeOK
<1>2. ASSUME NEW i \in DOMAIN conf, conf' = RemoveAt(conf, i)
      PROVE  /\ conf' \in Seq(Lines) /\ Routed(conf') \subseteq Routed(conf)
             /\ Block(conf') = Block(conf) => \A r \in Recipes \ excused : PlacedFor(conf', r)
  <2>1. i \in 1..Len(conf)
    BY <1>1
  <2>2. conf' \in Seq(Lines) /\ \A k \in 1..Len(conf') : \E o \in 1..Len(conf) : conf'[k] = conf[o]
    BY <1>1, <1>2, <2>1, RemoveIs, RemoveFrom
  <2>3. Routed(conf') \subseteq Routed(conf)
    BY <1>1, <2>2, RoutedIs
  <2> QED BY <1>1, <1>2, <2>1, <2>2, <2>3, RemoveEdit DEF Placed
<1>3. ASSUME NEW i \in 1..Len(conf) + 1, NEW x \in {RouteTo(n, "theirs") : n \in Hands} \cup {EndMark},
             conf' = InsertAt(conf, i, x)
      PROVE  /\ conf' \in Seq(Lines) /\ Routed(conf') \subseteq Routed(conf)
             /\ Block(conf') = Block(conf) => \A r \in Recipes \ excused : PlacedFor(conf', r)
  <2>1. x \in Lines /\ x # BeginMark /\ \A r \in Recipes : ~(IsRoute(x) /\ x.to = r)
    <3>1. CASE x = EndMark
      BY <3>1, LinesDiffer
    <3>2. CASE x \in {RouteTo(n, "theirs") : n \in Hands}
      <4>1. PICK n \in Hands : x = RouteTo(n, "theirs")
        BY <3>2
      <4>2. "theirs" \in Targets /\ n \in Names \cup Hands
        BY DEF Targets
      <4> QED BY <4>1, <4>2, RouteIs, LinesDiffer, GatewayAssumption
    <3> QED BY <3>1, <3>2
  <2>2. conf' \in Seq(Lines) /\ \A k \in 1..Len(conf') : (\E o \in 1..Len(conf) : conf'[k] = conf[o]) \/ conf'[k] = x
    BY <1>1, <1>3, <2>1, InsertIs, InsertFrom
  <2>3. Routed(conf') \subseteq Routed(conf)
    BY <1>1, <2>1, <2>2, RoutedIs
  <2> QED BY <1>1, <1>3, <2>1, <2>2, <2>3, InsertEdit DEF Placed
<1> QED BY <1>2, <1>3 DEF HandEdits

LEMMA EditsKeepRoutes ==
  ASSUME StartingInv, GatewayInv, HandEdits
  PROVE  GatewayInv'
<1> DEFINE more == IF Block(conf') = Block(conf) THEN {} ELSE Routed(conf)
<1>1. excused' = excused \cup more /\ UNCHANGED <<bak, ctmp, loaded, gw, cmd, recipe>>
  BY DEF HandEdits, Excuses, startingVars
<1>2. /\ conf' \in Seq(Lines) /\ Routed(conf') \subseteq Routed(conf)
      /\ Block(conf') = Block(conf) => \A r \in Recipes \ excused : PlacedFor(conf', r)
  BY EditsOK
<1>3. more \subseteq Recipes /\ (Block(conf') # Block(conf) => more = Routed(conf))
  BY RoutedRecipes
<1> HIDE DEF more
<1>4. GatewayTypeOK'
  BY <1>1, <1>2, <1>3 DEF GatewayInv, GatewayTypeOK
<1>5. Placed'
  <2>1. ASSUME NEW r \in Recipes \ excused' PROVE PlacedFor(conf', r)
    <3>1. CASE Block(conf') = Block(conf)
      BY <1>1, <1>2, <2>1, <3>1
    <3>2. CASE Block(conf') # Block(conf)
      <4>1. r \notin Routed(conf')
        BY <1>1, <1>2, <1>3, <2>1, <3>2
      <4> QED BY <1>2, <2>1, <4>1, RoutedIs DEF PlacedFor
    <3> QED BY <3>1, <3>2
  <2> QED BY <2>1 DEF Placed
<1>6. RoutesAccounted'
  BY <1>1, <1>2 DEF GatewayInv, RoutesAccounted
<1>7. InFile' \subseteq InFile /\ InLiteLLM' \subseteq InLiteLLM
  BY <1>1, <1>2 DEF InFile, InLiteLLM
<1>8. \A u \in Terminals : JobOK(u)' /\ Unlisted(u)'
  BY <1>1, <1>7, OtherKeeps DEF GatewayInv, Works
<1>9. \A u \in Terminals : SaveOK(u)'
  BY <1>1, NobodySaves DEF GatewayInv, Works
<1> QED BY <1>4, <1>5, <1>6, <1>8, <1>9 DEF GatewayInv, Works

LEMMA RestartKeepsRoutes ==
  ASSUME StartingInv, GatewayInv, LiteLLMRestarts
  PROVE  GatewayInv'
<1>1. loaded' = RoutesOf(conf) /\ UNCHANGED <<conf, bak, ctmp, gw, excused, cmd, recipe>>
  BY DEF LiteLLMRestarts, startingVars, shared
<1>2. RecipesIn(RoutesOf(conf)) \subseteq Routed(conf) /\ RoutesOf(conf) \subseteq RouteLines
  BY LoadedIs DEF GatewayInv, GatewayTypeOK
<1>3. GatewayTypeOK' /\ Placed' /\ RoutesAccounted'
  BY <1>1, <1>2 DEF GatewayInv, GatewayTypeOK, Placed, RoutesAccounted
<1>4. InFile' = InFile /\ InLiteLLM' \subseteq InFile
  BY <1>1, <1>2 DEF InFile, InLiteLLM
<1>5. \A u \in Terminals : JobOK(u)' /\ Unlisted(u)'
  BY <1>1, <1>4, OtherKeeps DEF GatewayInv, Works
<1>6. \A u \in Terminals : SaveOK(u)'
  BY <1>1, NobodySaves DEF GatewayInv, Works
<1> QED BY <1>3, <1>5, <1>6 DEF GatewayInv, Works

-----------------------------------------------------------------------------
(***************************************************************************)
(* The theorems.                                                           *)
(***************************************************************************)
LEMMA GatewayInitially ==
  ASSUME Init
  PROVE  GatewayInv
<1>1. /\ conf = budget.conf /\ bak = << >> /\ ctmp = None /\ loaded = RoutesOf(conf) /\ excused = {} /\ recipe = budget.recipe
      /\ gw = [t \in Terminals |-> None] /\ cmd = [t \in Terminals |-> Idle]
  BY DEF Init, GatewayInit, StartingInit
<1>2. /\ conf \in Seq(Lines)
      /\ \A i \in DOMAIN conf : IsRoute(conf[i]) /\ conf[i].to \in Recipes => conf[i].to = recipe /\ InItsPlace(conf, i)
  BY <1>1, ScenesAssumption DEF Init
<1>3. RecipesIn(loaded) \subseteq Routed(conf) /\ loaded \subseteq RouteLines
  BY <1>1, <1>2, LoadedIs
<1>4. GatewayTypeOK
  BY <1>1, <1>2, <1>3 DEF GatewayTypeOK
<1>5. Placed
  BY <1>2 DEF Placed, PlacedFor
<1>6. Routed(conf) \subseteq {recipe}
  BY <1>2, RoutedIs
<1>7. RoutesAccounted
  BY <1>3, <1>6 DEF RoutesAccounted
<1>8. \A t \in Terminals : Works(t)
  BY <1>1, IdleTyped DEF Works, JobOK, Unlisted, SaveOK, Saving
<1> QED BY <1>4, <1>5, <1>7, <1>8 DEF GatewayInv

LEMMA GatewayStepKeeps ==
  ASSUME StartingInv, GatewayInv, NEW t \in Terminals, GatewayStep(t)
  PROVE  GatewayInv'
BY LoadsKeepsRoutes, NothingKeepsRoutes, SaveKeepsRoutes, TmpGoneKeepsRoutes, LeavesKeepsRoutes, ReloadsKeepsRoutes,
   InterruptedKeepsRoutes, RecordKeepsRoutes, CommandKeepsRoutes DEF GatewayStep

\* The other parts of the head leave the gateway.
LEMMA GatewayApart ==
  ASSUME [Next]_vars
  PROVE  \/ \E t \in Terminals : Commanded(t)
         \/ HandEdits
         \/ LiteLLMRestarts
         \/ UNCHANGED <<cmd, recipe, gatewayVars>>
<1> USE DEF shared, startingVars
<1>1. CASE UNCHANGED vars
  BY <1>1 DEF vars
<1>2. CASE GateStep /\ UNCHANGED <<startingVars, monitorVars, peersVars, gatewayVars>>
  BY <1>2, GateLeaves
<1>4. CASE (Sampler \/ Relays \/ Changes) /\ UNCHANGED <<gateVars, peersVars, gatewayVars>>
  BY <1>4 DEF Sampler, Relays, Changes, Begin, Probes, Gpus, EnginesPolled, Publish, RelayAsks, RelayHears, RelayWrites,
              NvmlChanges, DockerChanges, PortChanges
<1>5. CASE (MonitorRestarts \/ \E v \in Viewers : Views(v)) /\ UNCHANGED <<gateVars, gatewayVars>>
  BY <1>5 DEF MonitorRestarts, Restarted, Views, Cluster, Shows, PoolTakes, Says, Keeps
<1>6. CASE Tick
  BY <1>6 DEF Tick
<1> QED BY <1>1, <1>2, <1>4, <1>5, <1>6 DEF Next

LEMMA GatewayNext ==
  ASSUME StartingInv, GatewayInv, [Next]_vars
  PROVE  GatewayInv'
<1>1. CASE \E t \in Terminals : Commanded(t)
  BY <1>1, CommandsKeepRoutes, GatewayStepKeeps DEF Commanded
<1>2. CASE HandEdits \/ LiteLLMRestarts
  BY <1>2, EditsKeepRoutes, RestartKeepsRoutes
<1>3. CASE UNCHANGED <<cmd, recipe, gatewayVars>>
  <2>1. UNCHANGED <<cmd, recipe, conf, bak, ctmp, loaded, gw, excused>>
    BY <1>3 DEF gatewayVars
  <2>2. GatewayTypeOK' /\ Placed' /\ RoutesAccounted'
    BY <2>1 DEF GatewayInv, GatewayTypeOK, Placed, RoutesAccounted
  <2>3. ASSUME NEW t \in Terminals PROVE JobOK(t)' /\ Unlisted(t)'
    BY <2>1, <2>3 DEF GatewayInv, Works, JobOK, Unlisted, At, InFile, InLiteLLM
  <2>4. ASSUME NEW t \in Terminals PROVE SaveOK(t)'
    BY <2>1, NobodySaves DEF GatewayInv, Works
  <2> QED BY <2>2, <2>3, <2>4 DEF GatewayInv, Works
<1> QED BY <1>1, <1>2, <1>3, GatewayApart

\* The invariant above holds in every behaviour of the head, whatever the steps
\* of saves, of people and of LiteLLM come between each other.
THEOREM GatewayInvariant == Spec => []GatewayInv
<1> QED BY GatewayInitially, GatewayNext, StartingInvariant, PTL DEF Spec

\* The config, its copy and its .tmp, LiteLLM's routes and the commands at work
\* on them have their types: whatever gateway.py's saves leave, over each other
\* and over people's edits, is made of lines they had, and their own.
THEOREM GatewayTyped == Spec => []GatewayTypeOK
<1>1. GatewayInv => GatewayTypeOK
  BY DEF GatewayInv
<1> QED BY <1>1, GatewayInvariant, PTL

\* However the commands of many terminals, the steps of their saves, people's
\* edits and LiteLLM's restarts interleave, a route of a recipe that is not
\* recorded is one of those that are excused (gateway_sync, gateway_remove and
\* gateway_reload of the rack script, save of gateway.py).
THEOREM RoutesAreAccounted == Spec => []RoutesAccounted
<1>1. GatewayInv => RoutesAccounted
  BY DEF GatewayInv
<1> QED BY <1>1, GatewayInvariant, PTL

LEMMA ReplacedBy ==
  ASSUME GatewayInv, [Next]_vars, NEW t \in Terminals, GwAt(t, "written"), GwAt(t, "saved")'
  PROVE  Replaces(t)
<1>1. gw \in [Terminals -> Job \cup {None}] /\ gw[t] # None /\ gw[t].pc = "written" /\ gw'[t] # None /\ gw'[t].pc = "saved"
  BY DEF GwAt, GatewayInv, GatewayTypeOK
<1>2. CASE HandEdits \/ LiteLLMRestarts
  BY <1>1, <1>2 DEF HandEdits, LiteLLMRestarts
<1>3. CASE UNCHANGED gatewayVars
  BY <1>1, <1>3 DEF gatewayVars
<1>4. ASSUME NEW u \in Terminals, GatewayStep(u) PROVE Replaces(t)
  <2>1. CASE NothingRecorded(u) \/ LeavesIt(u) \/ Reloads(u) \/ TmpIsGone(u) \/ Interrupted(u) \/ RecordsOver(u) \/ RemovesRecord(u)
    BY <1>1, <2>1 DEF NothingRecorded, LeavesIt, Reloads, TmpIsGone, Interrupted, RecordsOver, RemovesRecord, GoesOn
  <2>2. CASE Loads(u)
    <3>1. gw[u] = None /\ \E do, name, to : LoadsConf(u, do, name, to)
      BY <2>2 DEF Loads
    <3>2. u # t
      BY <1>1, <3>1
    <3> QED BY <1>1, <3>1, <3>2 DEF LoadsConf
  <2>3. ASSUME NEW do, NEW name, GatewayCommand(u, do, name) PROVE Replaces(t)
    <3>1. gw[u] = None /\ \E to : LoadsConf(u, do, name, to)
      BY <2>3 DEF GatewayCommand
    <3>2. u # t
      BY <1>1, <3>1
    <3> QED BY <1>1, <3>1, <3>2 DEF LoadsConf
  <2>4. CASE SaveStep(u)
    <3>1. CASE u # t
      <4>1. JobKept(t, u)
        BY <2>4, BakOpensSaves, CopiesSaves, BakWritesSaves, TmpOpensSaves, TmpWritesSaves, ReplacesSaves
           DEF SaveStep, SaveKept
      <4> QED BY <1>1, <3>1, <4>1 DEF JobKept
    <3>2. CASE u = t
      BY <1>1, <2>4, <3>2, BakOpensSaves, CopiesSaves, BakWritesSaves, TmpOpensSaves, TmpWritesSaves DEF SaveStep
    <3> QED BY <3>1, <3>2
  <2> QED BY <1>4, <2>1, <2>2, <2>3, <2>4 DEF GatewayStep
<1> QED BY <1>2, <1>3, <1>4, GatewayApart DEF Commanded

\* A save of gateway.py that no other overlaps leaves in .bak what it copied
\* there, whatever people do to the file and earlier ones have left; and if the
\* file is as it was loaded, sync and remove leave people's lines as they are,
\* and sync makes no second route of a name they route by hand.
THEOREM HandIsKept == Spec => HandKept
<1>1. ASSUME GatewayInv, StartingInv, [Next]_vars, NEW t \in Terminals,
             GwAt(t, "written"), GwAt(t, "saved")', ~gw[t].beside
      PROVE  /\ bak' = gw[t].copy
             /\ gw[t].text = conf /\ gw[t].do # "adopt" => ByHand(conf') = ByHand(conf)
             /\ gw[t].do = "sync" => Outside(conf', gw[t].name) = {}
  <2>1. Replaces(t)
    BY <1>1, ReplacedBy
  <2>2. /\ gw[t] \in Job /\ conf' = Made(gw[t]) /\ conf' # Refused /\ conf' # gw[t].text
        /\ bak' = bak /\ bak = gw[t].copy
    BY <1>1, <2>1, OwnIs DEF Replaces
  <2>3. /\ gw[t].do # "adopt" => ByHand(conf') = ByHand(gw[t].text)
        /\ gw[t].do = "sync" => Outside(conf', gw[t].name) = {}
    BY <2>2, MadeOK
  <2> QED BY <2>2, <2>3
<1>2. GatewayInv /\ StartingInv /\ [Next]_vars =>
        [\A t \in Terminals :
           GwAt(t, "written") /\ GwAt(t, "saved")' /\ ~gw[t].beside =>
             /\ bak' = gw[t].copy
             /\ gw[t].text = conf /\ gw[t].do # "adopt" => ByHand(conf') = ByHand(conf)
             /\ gw[t].do = "sync" => Outside(conf', gw[t].name) = {}]_gatewayVars
  BY <1>1
<1> QED BY <1>2, GatewayInvariant, StartingInvariant, PTL DEF Spec, HandKept

-----------------------------------------------------------------------------
(***************************************************************************)
(* The types of the head.                                                  *)
(***************************************************************************)
\* serving.json, the clock, what is left of the scene, and the variables of the
\* gate, rack up and rack down, the monitor, its view and the gateway have their
\* types in every behaviour of the head.
THEOREM HeadTyped == Spec => []TypeOK
<1>1. Init => GateSafe /\ BudgetOK
  BY GateSafeInitially
<1>2. GateSafe /\ BudgetOK /\ StartingInv /\ [Next]_vars => (GateSafe /\ BudgetOK)'
  BY GateSafeStep, BudgetStep
<1>3. StartingInv /\ BudgetOK /\ GateTypeOK /\ MonitorTypeOK /\ PeersTypeOK /\ GatewayTypeOK => TypeOK
  BY DEF StartingInv, BudgetOK, TypeOK
<1> QED BY <1>1, <1>2, <1>3, StartingInvariant, GateTyped, MonitorTyped, PeersTyped, GatewayTyped, PTL DEF Spec
=============================================================================
