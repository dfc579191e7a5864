---------------------------- MODULE Slt3TranProofs ---------------------------
(***************************************************************************)
(* Proofs about the transactions of a connection: who owns what SQLite is  *)
(* in however objects are used, and, for nested scopes, that nothing is    *)
(* left open and that they are the nested transactions of NestedStore, for *)
(* any number of objects, writes and errors.                               *)
(***************************************************************************)
EXTENDS Slt3Tran, FiniteSetTheorems, SequenceTheorems, WellFoundedInduction, TLAPS

-----------------------------------------------------------------------------
(* Sets of numbers, their greatest element and their order.                *)

LEMMA LeastNat ==
    ASSUME NEW S, S # {}, S \subseteq Nat
    PROVE  \E d \in S : \A e \in S : d <= e
<1> DEFINE R == {ss \in Nat \X Nat : ss[1] < ss[2]}
<1>1. IsWellFoundedOn(R, Nat)
    BY NatLessThanWellFounded DEF OpToRel
<1> HIDE DEF R
<1>2. PICK d \in S : \A e \in S : ~(<<e, d>> \in R)
    BY <1>1, WFMin
<1>3. \A e \in S : ~(e < d)
    BY <1>2 DEF R
<1>4. \A e \in S : d <= e
    BY <1>3
<1> QED  BY <1>4

\* A bounded set has a greatest element, which Max returns.
LEMMA MaxIs ==
    ASSUME NEW n \in Nat, NEW S \in SUBSET (0 .. n), S # {}
    PROVE  Max(S) \in S /\ \A e \in S : e <= Max(S)
<1> DEFINE G == {n - e : e \in S}
<1>1. G # {} /\ G \subseteq Nat
    <2>1. \A e \in S : n - e \in Nat
        OBVIOUS
    <2> QED  BY <2>1
<1> HIDE DEF G
<1>2. PICK g \in G : \A h \in G : g <= h
    BY <1>1, LeastNat
<1>3. PICK m \in S : g = n - m
    BY DEF G
<1>4. ASSUME NEW e \in S PROVE m >= e
    <2>1. n - e \in G
        BY DEF G
    <2>2. n - m <= n - e
        BY <1>2, <1>3, <2>1
    <2> QED  BY <2>2
<1>5. \E x \in S : \A y \in S : x >= y
    BY <1>4
<1>6. Max(S) \in S /\ \A y \in S : Max(S) >= y
    BY <1>5, Zenon DEF Max
<1>7. ASSUME NEW e \in S PROVE e <= Max(S)
    BY <1>6
<1> QED  BY <1>6, <1>7

\* s lists the elements of S in ascending order.
Lists(s, S) ==
    /\ s \in [1 .. Cardinality(S) -> S]
    /\ Range(s) = S
    /\ \A i, j \in DOMAIN s : i < j => s[i] < s[j]

\* There is one such list: where two of them first differ, the smaller of the
\* two elements would be missing in the other one.
LEMMA OneList ==
    ASSUME NEW S \in SUBSET Nat, Cardinality(S) \in Nat, NEW r, Lists(r, S),
           NEW s, Lists(s, S)
    PROVE  r = s
<1> DEFINE n == Cardinality(S)
           D == {i \in 1 .. n : r[i] # s[i]}
<1> HIDE DEF n
<1>1. /\ n \in Nat /\ r \in [1 .. n -> S] /\ s \in [1 .. n -> S]
      /\ \A e \in S : (\E i \in 1 .. n : r[i] = e) /\ (\E i \in 1 .. n : s[i] = e)
      /\ \A i, j \in 1 .. n : i < j => r[i] < r[j] /\ s[i] < s[j]
    BY DEF Lists, Range, n
<1>2. SUFFICES ASSUME D # {} PROVE FALSE
    BY <1>1
<1>3. PICK d \in D : \A e \in D : d <= e
    <2>1. D \subseteq Nat
        BY <1>1
    <2> QED  BY <1>2, <2>1, LeastNat
<1>4. d \in 1 .. n /\ r[d] \in S /\ s[d] \in S /\ r[d] # s[d]
      /\ r[d] \in Nat /\ s[d] \in Nat
    BY <1>1
<1>5. \A i \in 1 .. n : i < d => r[i] = s[i]
    BY <1>1, <1>3, <1>4
<1>6. CASE r[d] < s[d]
    <2>1. PICK i \in 1 .. n : s[i] = r[d]
        BY <1>1, <1>4
    <2>2. CASE i < d
        <3>1. r[i] = r[d] /\ r[i] < r[d]
            BY <1>1, <1>4, <1>5, <2>1, <2>2
        <3> QED  BY <1>4, <3>1
    <2>3. CASE i = d
        BY <1>4, <2>1, <2>3
    <2>4. CASE d < i
        <3>1. s[d] < s[i]
            BY <1>1, <1>4, <2>4
        <3> QED  BY <1>4, <1>6, <2>1, <3>1
    <2> QED  BY <1>4, <2>2, <2>3, <2>4
<1>7. CASE s[d] < r[d]
    <2>1. PICK i \in 1 .. n : r[i] = s[d]
        BY <1>1, <1>4
    <2>2. CASE i < d
        <3>1. s[i] = s[d] /\ s[i] < s[d]
            BY <1>1, <1>4, <1>5, <2>1, <2>2
        <3> QED  BY <1>4, <3>1
    <2>3. CASE i = d
        BY <1>4, <2>1, <2>3
    <2>4. CASE d < i
        <3>1. r[d] < r[i]
            BY <1>1, <1>4, <2>4
        <3> QED  BY <1>4, <1>7, <2>1, <3>1
    <2> QED  BY <1>4, <2>2, <2>3, <2>4
<1> QED  BY <1>4, <1>6, <1>7

\* The list of a set with one greater element is one longer.
LEMMA LongerList ==
    ASSUME NEW S \in SUBSET Nat, IsFiniteSet(S), NEW s, Lists(s, S),
           NEW t \in Nat, \A e \in S : e < t
    PROVE  /\ s \in Seq(Nat) /\ Lists(Append(s, t), S \cup {t})
<1> DEFINE n == Cardinality(S)
           a == Append(s, t)
<1>1. n \in Nat /\ Cardinality(S \cup {t}) = n + 1
    BY FS_CardinalityType, FS_AddElement
<1> HIDE DEF n
<1>2. /\ s \in [1 .. n -> S] /\ \A e \in S : \E i \in 1 .. n : s[i] = e
      /\ \A i, j \in 1 .. n : i < j => s[i] < s[j]
    BY DEF Lists, Range, n
<1>3. s \in Seq(Nat) /\ Len(s) = n
    <2>1. s \in [1 .. n -> Nat]
        BY <1>2
    <2>2. s \in Seq(Nat)
        BY <1>1, <2>1, SeqDef
    <2> QED  BY <1>1, <2>1, <2>2, LenProperties
<1>4. /\ a \in [1 .. n + 1 -> Nat] /\ a[n + 1] = t
      /\ \A i \in 1 .. n : a[i] = s[i]
    <2>1. /\ a \in Seq(Nat) /\ Len(a) = n + 1 /\ a[n + 1] = t
          /\ \A i \in 1 .. n : a[i] = s[i]
        BY <1>3, AppendProperties
    <2> HIDE DEF a
    <2>2. a \in [1 .. n + 1 -> Nat]
        BY <2>1, LenProperties
    <2> QED  BY <2>1, <2>2
<1> HIDE DEF a
<1>5. \A i \in 1 .. n + 1 : i = n + 1 \/ i \in 1 .. n
    BY <1>1
<1>6. n + 1 \in 1 .. n + 1 /\ \A i \in 1 .. n : i \in 1 .. n + 1
    BY <1>1
<1>7. \A i \in 1 .. n + 1 : a[i] \in S \cup {t}
    BY <1>2, <1>4, <1>5
<1>8. a \in [1 .. n + 1 -> S \cup {t}]
    BY <1>4, <1>7
<1>9. Range(a) = S \cup {t}
    <2>1. \A e \in S \cup {t} : \E i \in 1 .. n + 1 : a[i] = e
        BY <1>2, <1>4, <1>6
    <2> QED  BY <1>8, <2>1 DEF Range
<1>10. ASSUME NEW i \in 1 .. n + 1, NEW j \in 1 .. n + 1, i < j PROVE a[i] < a[j]
    <2>1. i \in 1 .. n
        BY <1>1, <1>10
    <2>2. CASE j = n + 1
        BY <1>2, <1>4, <2>1, <2>2
    <2>3. CASE j \in 1 .. n
        BY <1>2, <1>4, <1>10, <2>1, <2>3
    <2> QED  BY <1>5, <2>2, <2>3
<1>11. DOMAIN a = 1 .. n + 1
    BY <1>8
<1>12. Lists(a, S \cup {t})
    BY <1>1, <1>8, <1>9, <1>10, <1>11 DEF Lists
<1> QED  BY <1>3, <1>12 DEF a

\* Every finite set of numbers has one: in the smallest set without a list, all
\* but the greatest element have one.
LEMMA HasList ==
    ASSUME NEW n \in Nat, NEW S \in SUBSET (1 .. n)
    PROVE  Lists(InOrder(S), S) /\ IsFiniteSet(S) /\ Cardinality(S) \in Nat
<1>0. \A X \in SUBSET (1 .. n) : IsFiniteSet(X) /\ Cardinality(X) \in Nat
    <2>1. IsFiniteSet(1 .. n)
        BY FS_Interval
    <2> QED  BY <2>1, FS_Subset, FS_CardinalityType
<1> DEFINE Bad == {X \in SUBSET (1 .. n) : ~ \E s : Lists(s, X)}
           Sizes == {Cardinality(X) : X \in Bad}
<1>1. Bad = {}
    <2> SUFFICES ASSUME Bad # {} PROVE FALSE
        OBVIOUS
    <2>1. Sizes # {} /\ Sizes \subseteq Nat
        BY <1>0
    <2>2. PICK c \in Sizes : \A d \in Sizes : c <= d
        BY <2>1, LeastNat
    <2>3. PICK X \in Bad : c = Cardinality(X)
        OBVIOUS
    <2>4. CASE X = {}
        <3>1. Cardinality({}) = 0
            BY FS_EmptySet
        <3>2. Lists(<<>>, {})
            BY <3>1 DEF Lists, Range
        <3> QED  BY <2>3, <2>4, <3>2
    <2>5. CASE X # {}
        <3> DEFINE m == Max(X)
                   Y == X \ {m}
        <3>1. m \in X /\ \A e \in X : e <= m
            <4>1. X \in SUBSET (0 .. n)
                BY <2>3
            <4> QED  BY <2>5, <4>1, MaxIs
        <3> HIDE DEF m
        <3>2. Y \in SUBSET (1 .. n) /\ X = Y \cup {m} /\ m \in Nat /\ \A e \in Y : e < m
            BY <2>3, <3>1
        <3>3. Cardinality(Y) < Cardinality(X)
            <4>1. Cardinality(Y) = Cardinality(X) - 1
                BY <1>0, <2>3, <3>1, FS_RemoveElement
            <4> QED  BY <1>0, <2>3, <4>1
        <3> HIDE DEF Y
        <3>4. Y \notin Bad
            <4> SUFFICES ASSUME Y \in Bad PROVE FALSE
                OBVIOUS
            <4>1. Cardinality(Y) \in Sizes
                OBVIOUS
            <4>2. Cardinality(X) <= Cardinality(Y)
                BY <2>2, <2>3, <4>1
            <4> QED  BY <1>0, <2>3, <3>2, <3>3, <4>2
        <3>5. PICK s : Lists(s, Y)
            BY <3>2, <3>4
        <3>6. Lists(Append(s, m), X)
            BY <1>0, <3>2, <3>5, LongerList
        <3> QED  BY <2>3, <3>6
    <2> QED  BY <2>4, <2>5
<1>2. \E s : Lists(s, S)
    BY <1>1
<1>3. Lists(InOrder(S), S)
    BY <1>2, Zenon DEF Lists, InOrder
<1> QED  BY <1>0, <1>3

LEMMA InOrderAppend ==
    ASSUME NEW n \in Nat, NEW S \in SUBSET (1 .. n), NEW t \in 1 .. n, \A e \in S : e < t
    PROVE  /\ InOrder(S) \in Seq(Nat) /\ Len(InOrder(S)) = Cardinality(S)
           /\ \A i \in 1 .. Len(InOrder(S)) : InOrder(S)[i] \in S
           /\ InOrder(S \cup {t}) = Append(InOrder(S), t)
<1>1. Lists(InOrder(S), S) /\ IsFiniteSet(S) /\ Cardinality(S) \in Nat
    BY HasList
<1>2. S \cup {t} \in SUBSET (1 .. n) /\ S \cup {t} \in SUBSET Nat /\ S \in SUBSET Nat
    OBVIOUS
<1>3. Lists(InOrder(S \cup {t}), S \cup {t}) /\ Cardinality(S \cup {t}) \in Nat
    BY <1>2, HasList
<1>4. InOrder(S) \in Seq(Nat) /\ Lists(Append(InOrder(S), t), S \cup {t})
    BY <1>1, <1>2, LongerList
<1>5. InOrder(S \cup {t}) = Append(InOrder(S), t)
    BY <1>2, <1>3, <1>4, OneList
<1>6. InOrder(S) \in [1 .. Cardinality(S) -> S]
    BY <1>1 DEF Lists
<1>7. Len(InOrder(S)) = Cardinality(S)
    BY <1>1, <1>4, <1>6, LenProperties
<1> QED  BY <1>4, <1>5, <1>6, <1>7

-----------------------------------------------------------------------------
(* SQLite: what a statement does to the connection.                        *)

Entry == [name : Nat, was : SUBSET Nat]

Conn == [auto : BOOLEAN, byName : BOOLEAN, stack : Seq(Entry), work : SUBSET Nat]

\* Outside a transaction there are no savepoints.
SqlOK(s) == s \in Conn /\ (s.auto => ~s.byName /\ s.stack = <<>>)

LEMMA SavepointIs ==
    ASSUME NEW s, s.stack \in Seq(Entry), NEW t
    PROVE  /\ Savepoint(s, t) \in 0 .. Len(s.stack)
           /\ Savepoint(s, t) # 0 => s.stack[Savepoint(s, t)].name = t
           /\ \A i \in 1 .. Len(s.stack) : s.stack[i].name = t => i <= Savepoint(s, t)
<1> DEFINE n == Len(s.stack)
           S == {i \in DOMAIN s.stack : s.stack[i].name = t} \cup {0}
<1>1. n \in Nat /\ DOMAIN s.stack = 1 .. n
    BY LenProperties
<1>2. S \in SUBSET (0 .. n) /\ S # {}
    BY <1>1
<1>3. \A i \in S : i # 0 => s.stack[i].name = t
    OBVIOUS
<1>4. \A i \in 1 .. n : s.stack[i].name = t => i \in S
    BY <1>1
<1>5. Savepoint(s, t) = Max(S)
    BY DEF Savepoint
<1> HIDE DEF S, n
<1>6. Max(S) \in S /\ \A e \in S : e <= Max(S)
    BY <1>1, <1>2, MaxIs
<1> QED  BY <1>2, <1>3, <1>4, <1>5, <1>6 DEF n

\* Savepoints of other transactions come and go above those of t.
LEMMA SavepointStays ==
    ASSUME NEW s, s.stack \in Seq(Entry), NEW r, r.stack \in Seq(Entry), NEW t,
           NEW k, k = Savepoint(s, t), k <= Len(r.stack),
           \A i \in 1 .. Len(r.stack) : i <= k => r.stack[i] = s.stack[i],
           \A i \in 1 .. Len(r.stack) : k < i => r.stack[i].name # t
    PROVE  Savepoint(r, t) = k
<1> DEFINE m == Savepoint(r, t)
<1>1. /\ k \in 0 .. Len(s.stack) /\ Len(s.stack) \in Nat
      /\ k # 0 => s.stack[k].name = t
    BY SavepointIs, LenProperties
<1>2. /\ m \in 0 .. Len(r.stack) /\ Len(r.stack) \in Nat
      /\ m # 0 => r.stack[m].name = t
      /\ \A i \in 1 .. Len(r.stack) : r.stack[i].name = t => i <= m
    BY SavepointIs, LenProperties
<1> HIDE DEF m
<1>3. k # 0 => k <= m
    <2> SUFFICES ASSUME k # 0 PROVE k <= m
        OBVIOUS
    <2>1. k \in 1 .. Len(r.stack)
        BY <1>1, <1>2
    <2>2. r.stack[k].name = t
        BY <1>1, <2>1
    <2> QED  BY <1>2, <2>1, <2>2
<1>4. m <= k
    <2> SUFFICES ASSUME k < m PROVE FALSE
        BY <1>1, <1>2
    <2>1. m # 0 /\ m \in 1 .. Len(r.stack)
        BY <1>1, <1>2
    <2> QED  BY <1>2, <2>1
<1>5. m = k
    BY <1>1, <1>2, <1>3, <1>4
<1> QED  BY <1>5 DEF m

LEMMA IdleIs ==
    ASSUME NEW c \in SUBSET Nat
    PROVE  SqlOK(Idle(c)) /\ Idle(c).auto /\ Idle(c).work = c /\ Idle(c).stack = <<>>
<1>1. <<>> \in Seq(Entry)
    BY EmptySeq
<1> QED  BY <1>1 DEF SqlOK, Conn, Idle

LEMMA BeginIs ==
    ASSUME SqlOK(sql), sql.auto, NEW t
    PROVE  LET s == After("begin", t)
           IN  /\ SqlOK(s) /\ ~s.auto /\ ~s.byName /\ s.work = sql.work
               /\ s.stack = sql.stack
<1>1. After("begin", t) = [sql EXCEPT !.auto = FALSE]
    BY DEF After
<1> QED  BY <1>1 DEF SqlOK, Conn

LEMMA SavepointSent ==
    ASSUME SqlOK(sql), NEW t \in Nat
    PROVE  LET s == After("savepoint", t)
           IN  /\ SqlOK(s) /\ ~s.auto /\ (~sql.auto => s.byName = sql.byName)
               /\ s.work = sql.work
               /\ s.stack = Append(sql.stack, [name |-> t, was |-> sql.work])
<1> DEFINE a == Append(sql.stack, [name |-> t, was |-> sql.work])
           b == sql.byName \/ sql.auto
<1>1. After("savepoint", t)
        = [sql EXCEPT !.auto = FALSE, !.byName = b, !.stack = a]
    BY DEF After
<1>2. a \in Seq(Entry)
    <2>1. [name |-> t, was |-> sql.work] \in Entry /\ sql.stack \in Seq(Entry)
        BY DEF SqlOK, Conn, Entry
    <2> QED  BY <2>1, AppendProperties
<1>3. b \in BOOLEAN /\ (~sql.auto => b = sql.byName)
    BY DEF SqlOK, Conn
<1> HIDE DEF a, b
<1>4. sql \in Conn
    BY DEF SqlOK
<1>5. LET s == After("savepoint", t)
      IN  s \in Conn /\ ~s.auto /\ s.byName = b /\ s.work = sql.work /\ s.stack = a
    BY <1>1, <1>2, <1>3, <1>4 DEF Conn
<1> QED  BY <1>3, <1>5 DEF SqlOK, a

LEMMA CutStack ==
    ASSUME NEW q \in Seq(Entry), NEW n \in 0 .. Len(q)
    PROVE  /\ SubSeq(q, 1, n) \in Seq(Entry) /\ Len(SubSeq(q, 1, n)) = n
           /\ \A i \in 1 .. n : SubSeq(q, 1, n)[i] = q[i]
<1>1. Len(q) \in Nat /\ n \in Nat
    BY LenProperties
<1>2. \A i \in 1 .. n : q[i] \in Entry
    BY <1>1, ElementOfSeq
<1>3. /\ SubSeq(q, 1, n) \in Seq(Entry)
      /\ Len(SubSeq(q, 1, n)) = IF 1 <= n THEN n - 1 + 1 ELSE 0
      /\ \A i \in 1 .. n - 1 + 1 : SubSeq(q, 1, n)[i] = q[1 + i - 1]
    BY <1>1, <1>2, SubSeqProperties
<1> QED  BY <1>1, <1>3

LEMMA ReleaseIs ==
    ASSUME SqlOK(sql), NEW t, Savepoint(sql, t) # 0
    PROVE  LET s == After("release", t)
           IN  /\ SqlOK(s)
               /\ s.work = sql.work
               /\ ~sql.byName => /\ ~s.auto /\ ~s.byName
                                 /\ s.stack = SubSeq(sql.stack, 1, Savepoint(sql, t) - 1)
<1> DEFINE k == Savepoint(sql, t)
           q == SubSeq(sql.stack, 1, k - 1)
<1>1. /\ sql \in Conn /\ sql.stack \in Seq(Entry) /\ sql.work \in SUBSET Nat
      /\ sql.auto => sql.stack = <<>>
    BY DEF SqlOK, Conn
<1>2. k \in 1 .. Len(sql.stack) /\ Len(sql.stack) \in Nat
    BY <1>1, SavepointIs, LenProperties
<1>3. ~sql.auto
    <2>1. sql.stack = <<>> => Len(sql.stack) = 0
        OBVIOUS
    <2> QED  BY <1>1, <1>2, <2>1
<1>4. q \in Seq(Entry)
    <2>1. k - 1 \in 0 .. Len(sql.stack)
        BY <1>2
    <2> QED  BY <1>1, <2>1, CutStack
<1>5. After("release", t)
        = IF k = 1 /\ sql.byName THEN Idle(sql.work) ELSE [sql EXCEPT !.stack = q]
    BY DEF After
<1> HIDE DEF k, q
<1>6. CASE k = 1 /\ sql.byName
    BY <1>1, <1>5, <1>6, IdleIs
<1>7. CASE ~(k = 1 /\ sql.byName)
    <2>1. After("release", t) = [sql EXCEPT !.stack = q]
        BY <1>5, <1>7
    <2>2. LET s == After("release", t)
          IN  /\ s \in Conn /\ ~s.auto /\ s.byName = sql.byName
              /\ s.work = sql.work /\ s.stack = q
        BY <1>1, <1>3, <1>4, <2>1 DEF Conn
    <2> QED  BY <1>3, <2>2 DEF SqlOK, q, k
<1> QED  BY <1>6, <1>7

LEMMA RollbackToIs ==
    ASSUME SqlOK(sql), NEW t, Savepoint(sql, t) # 0
    PROVE  LET s == After("rollbackTo", t)
               k == Savepoint(sql, t)
           IN  /\ SqlOK(s) /\ ~s.auto /\ s.byName = sql.byName
               /\ s.work = sql.stack[k].was
               /\ s.stack = SubSeq(sql.stack, 1, k)
<1> DEFINE k == Savepoint(sql, t)
           q == SubSeq(sql.stack, 1, k)
           w == sql.stack[k].was
<1>1. /\ sql \in Conn /\ sql.stack \in Seq(Entry)
      /\ sql.auto => sql.stack = <<>>
    BY DEF SqlOK, Conn
<1>2. k \in 1 .. Len(sql.stack) /\ Len(sql.stack) \in Nat
    BY <1>1, SavepointIs, LenProperties
<1>3. ~sql.auto
    <2>1. sql.stack = <<>> => Len(sql.stack) = 0
        OBVIOUS
    <2> QED  BY <1>1, <1>2, <2>1
<1>4. q \in Seq(Entry) /\ w \in SUBSET Nat
    <2>1. k \in 0 .. Len(sql.stack)
        BY <1>2
    <2>2. sql.stack[k] \in Entry
        BY <1>1, <1>2, ElementOfSeq
    <2> QED  BY <1>1, <2>1, <2>2, CutStack DEF Entry
<1>5. After("rollbackTo", t) = [sql EXCEPT !.stack = q, !.work = w]
    BY DEF After
<1> HIDE DEF k, q, w
<1>6. LET s == After("rollbackTo", t)
      IN  /\ s \in Conn /\ ~s.auto /\ s.byName = sql.byName
          /\ s.work = w /\ s.stack = q
    BY <1>1, <1>3, <1>4, <1>5 DEF Conn
<1> QED  BY <1>3, <1>6 DEF SqlOK, q, k, w

-----------------------------------------------------------------------------
(* The inductive invariant.                                                *)

Types ==
    /\ plan \in Plans /\ open \in BOOLEAN /\ cut \in SUBSET Tran
    /\ trans \in 0 .. MaxTran /\ alive \in SUBSET (1 .. trans)
    /\ parent \in [Tran -> Nat]
    /\ started \in [Tran -> BOOLEAN]
    /\ doRollback \in [Tran -> BOOLEAN] /\ doCommit \in [Tran -> BOOLEAN]
    /\ stmt \in [Tran -> {"none", "ready", "rows", "lost"}]
    /\ SqlOK(sql) /\ disk \in SUBSET Nat
    /\ writes \in Nat /\ faults \in Nat

\* Objects that were destroyed, or not constructed yet.
Dead == \A t \in Tran : t \notin alive => ~started[t] /\ stmt[t] = "none"

\* Of the started transactions L at most one is a main one, and then the
\* connection is in a transaction that a BEGIN has started.
MainsOK(L, p, s) ==
    /\ \A t \in L : p[t] = 0 => ~s.auto /\ ~s.byName
    /\ \A t, u \in L : p[t] = 0 /\ p[u] = 0 => t = u

OneMain == plan.useExc => MainsOK(Live \ cut, parent, sql)

Base == Types /\ Dead /\ OneMain

\* Nested scopes A of which L are started: all but the innermost are, the
\* outermost is the main one, and each nested one has its latest savepoint above
\* those of the scopes around it.  Other savepoints may be left on the stack.
ScopesAt(A, L, p, s, d) ==
    /\ \A t, u \in A : t < u => t \in L /\ p[u] # 0
    /\ \A t \in A : p[t] # 0 => \E u \in A : u < t
    /\ IF L = {} THEN s.auto /\ s.work = d ELSE ~s.auto /\ ~s.byName
    /\ \A t \in L : p[t] # 0 => Savepoint(s, t) # 0
    /\ \A t, u \in L : p[t] # 0 /\ t < u => Savepoint(s, t) < Savepoint(s, u)

\* Writes are numbered from 1 to n.
Numbered(n, s, d) ==
    /\ s.work \subseteq 1 .. n /\ d \subseteq 1 .. n
    /\ \A i \in 1 .. Len(s.stack) : s.stack[i].was \subseteq 1 .. n

\* Only the innermost scope is between two rows.
InnermostReads == \A t, u \in alive : t < u => stmt[t] # "rows"

ScopesOK ==
    Scoped => /\ open /\ (\A t \in Tran : doCommit[t]) /\ InnermostReads
              /\ ScopesAt(alive, Live, parent, sql, disk)
              /\ Numbered(writes, sql, disk)

Inv == Base /\ ScopesOK

-----------------------------------------------------------------------------
(* However objects are used.                                               *)

LEMMA PlanFacts ==
    ASSUME Types
    PROVE  /\ plan.useExc \in BOOLEAN /\ plan.trans \in 0 .. MaxTran
           /\ MaxTran \in Nat /\ trans \in Nat /\ alive \subseteq Tran
           /\ \A t \in alive : t \in Tran /\ t \in Nat /\ t # 0
<1>1. /\ plan.useExc \in BOOLEAN /\ plan.trans \in 0 .. MaxTran /\ MaxTran \in Nat
    BY Slt3Assumption DEF Types
<1>2. /\ trans \in 0 .. MaxTran /\ alive \in SUBSET (1 .. trans)
    BY DEF Types
<1> QED  BY <1>1, <1>2 DEF Tran

\* What start() sets.
LEMMA StartIs ==
    ASSUME Types, NEW t \in alive, Start(t), alive' = alive
    PROVE  /\ started' \in [Tran -> BOOLEAN]
           /\ \A u \in Tran : u # t => started'[u] = started[u]
           /\ plan.useExc => Live' = IF Starts(t) THEN Live \cup {t} ELSE Live
<1>1. t \in Tran /\ plan.useExc \in BOOLEAN /\ started \in [Tran -> BOOLEAN]
    BY PlanFacts DEF Types
<1>2. started' = [started EXCEPT ![t] = (started[t] \/ Starts(t) \/ ~plan.useExc)]
    BY DEF Start
<1>3. /\ started' \in [Tran -> BOOLEAN]
      /\ \A u \in Tran : u # t => started'[u] = started[u]
      /\ started'[t] = (started[t] \/ Starts(t) \/ ~plan.useExc)
    BY <1>1, <1>2
<1>4. started[t] => Starts(t)
    BY DEF Starts
<1>5. ASSUME plan.useExc PROVE Live' = IF Starts(t) THEN Live \cup {t} ELSE Live
    <2>1. started'[t] <=> Starts(t)
        BY <1>3, <1>4, <1>5
    <2>2. \A u \in alive : u \in Tran
        BY PlanFacts
    <2> QED  BY <1>3, <1>4, <2>1, <2>2 DEF Live
<1> QED  BY <1>3, <1>5

\* And what it sends.
LEMMA BegunIs ==
    ASSUME Types, NEW t \in alive
    PROVE  /\ SqlOK(Begun(t)) /\ Begun(t).work = sql.work
           /\ started[t] \/ ~Starts(t) => Begun(t) = sql
           /\ ~started[t] /\ Starts(t) => /\ ~Begun(t).auto
                                          /\ parent[t] = 0 => sql.auto
                                          /\ ~sql.auto \/ parent[t] = 0
                                                => Begun(t).byName = sql.byName
<1>1. SqlOK(sql) /\ t \in Nat /\ sql.byName \in BOOLEAN
    BY PlanFacts DEF Types, SqlOK, Conn
<1>2. CASE started[t] \/ ~Starts(t)
    BY <1>1, <1>2 DEF Begun
<1>3. CASE ~started[t] /\ Starts(t)
    <2>1. Accepts(StartStmt(t), t) /\ Begun(t) = After(StartStmt(t), t)
        BY <1>3 DEF Starts, Begun
    <2>2. CASE parent[t] = 0
        <3>1. StartStmt(t) = "begin"
            BY <2>2 DEF StartStmt
        <3>2. sql.auto
            BY <2>1, <3>1 DEF Accepts
        <3>3. ~sql.byName
            BY <1>1, <3>2 DEF SqlOK
        <3> QED  BY <1>1, <1>3, <2>1, <2>2, <3>1, <3>2, <3>3, BeginIs DEF SqlOK, Conn
    <2>3. CASE parent[t] # 0
        <3>1. StartStmt(t) = "savepoint"
            BY <2>3 DEF StartStmt
        <3> QED  BY <1>1, <1>3, <2>1, <2>3, <3>1, SavepointSent
    <2> QED  BY <2>2, <2>3
<1> QED  BY <1>2, <1>3

\* A BEGIN is accepted only when there is no main transaction yet, and a savepoint
\* inside one does not become the transaction.
LEMMA BegunMain ==
    ASSUME Types, OneMain, NEW t \in alive, Start(t), alive' = alive, parent' = parent,
           plan.useExc
    PROVE  MainsOK(Live' \ cut, parent', Begun(t))
<1>1. MainsOK(Live \ cut, parent, sql)
    BY DEF OneMain
<1>2. Live' = IF Starts(t) THEN Live \cup {t} ELSE Live
    BY StartIs
<1>3. CASE started[t] \/ ~Starts(t)
    <2>1. Begun(t) = sql
        BY <1>3, BegunIs
    <2>2. Live' = Live
        BY <1>2, <1>3 DEF Live
    <2> QED  BY <1>1, <2>1, <2>2
<1>4. CASE ~started[t] /\ Starts(t)
    <2>1. /\ ~Begun(t).auto /\ (parent[t] = 0 => sql.auto)
          /\ ~sql.auto \/ parent[t] = 0 => Begun(t).byName = sql.byName
        BY <1>4, BegunIs
    <2>2. sql.auto => ~sql.byName
        BY DEF Types, SqlOK
    <2> QED  BY <1>1, <1>2, <1>4, <2>1, <2>2 DEF MainsOK
<1> QED  BY <1>3, <1>4

LEMMA ExecuteBase ==
    ASSUME Base, NEW t \in alive, Execute(t)
    PROVE  Base'
<1> DEFINE s == Begun(t)
<1>1. /\ Start(t) /\ alive' = alive /\ plan' = plan /\ open' = open /\ trans' = trans
      /\ parent' = parent /\ doRollback' = doRollback /\ doCommit' = doCommit
      /\ faults' = faults /\ cut' = cut /\ stmt' = [stmt EXCEPT ![t] = "none"]
    BY DEF Execute, objects
<1>2. /\ Types /\ Dead /\ OneMain /\ t \in Tran
    BY PlanFacts DEF Base
<1>3. /\ started' \in [Tran -> BOOLEAN]
      /\ \A u \in Tran : u # t => started'[u] = started[u]
    BY <1>1, <1>2, StartIs
<1>4. SqlOK(s) /\ s.work = sql.work
    BY <1>2, BegunIs
<1>5. /\ SqlOK(sql') /\ disk' \in SUBSET Nat /\ writes' \in Nat
      /\ plan.useExc => MainsOK(Live' \ cut, parent', sql')
    <2>1. plan.useExc => MainsOK(Live' \ cut, parent', s)
        BY <1>1, <1>2, BegunMain
    <2>2. CASE open /\ GoesOn(t)
        <3>1. /\ writes' = writes + 1
              /\ sql' = [s EXCEPT !.work = s.work \cup {writes'}]
              /\ disk' = IF s.auto THEN disk \cup {writes'} ELSE disk
            BY <2>2 DEF Execute
        <3>2. writes' \in Nat /\ disk' \in SUBSET Nat
            BY <1>2, <3>1 DEF Types
        <3> HIDE DEF s
        <3>3. SqlOK(sql') /\ sql'.auto = s.auto /\ sql'.byName = s.byName
            BY <1>4, <3>1, <3>2 DEF SqlOK, Conn
        <3> QED  BY <2>1, <3>2, <3>3 DEF MainsOK
    <2>3. CASE ~(open /\ GoesOn(t))
        <3>1. UNCHANGED <<writes, sql, disk>>
            BY <2>3 DEF Execute
        <3>2. plan.useExc => s = sql
            <4>1. plan.useExc => ~Starts(t) \/ started[t]
                BY <2>3 DEF GoesOn, Starts
            <4> QED  BY <1>2, <4>1, BegunIs
        <3> QED  BY <1>2, <2>1, <3>1, <3>2 DEF Types
    <2> QED  BY <2>2, <2>3
<1>6. Types'
    BY <1>1, <1>2, <1>3, <1>5 DEF Types
<1>7. Dead'
    BY <1>1, <1>2, <1>3 DEF Dead, Types
<1> QED  BY <1>1, <1>5, <1>6, <1>7 DEF Base, OneMain

LEMMA ExecuteFailsBase ==
    ASSUME Base, NEW t \in alive, ExecuteFails(t)
    PROVE  Base'
<1>1. /\ Start(t) /\ alive' = alive /\ plan' = plan /\ open' = open /\ trans' = trans
      /\ parent' = parent /\ doRollback' = doRollback /\ doCommit' = doCommit
      /\ faults' = faults + 1 /\ cut' = Live' /\ stmt' = [stmt EXCEPT ![t] = "none"]
      /\ sql' = Idle(disk) /\ disk' = disk /\ writes' = writes
    BY DEF ExecuteFails, objects
<1>2. /\ Types /\ Dead /\ t \in Tran
    BY PlanFacts DEF Base
<1>3. /\ started' \in [Tran -> BOOLEAN]
      /\ \A u \in Tran : u # t => started'[u] = started[u]
    BY <1>1, <1>2, StartIs
<1>4. SqlOK(sql')
    BY <1>1, <1>2, IdleIs DEF Types
<1>5. cut' \in SUBSET Tran /\ Live' \ cut' = {}
    BY <1>1, <1>2, PlanFacts DEF Live
<1>6. Types'
    BY <1>1, <1>2, <1>3, <1>4, <1>5 DEF Types
<1>7. Dead'
    BY <1>1, <1>2, <1>3 DEF Dead, Types
<1> QED  BY <1>5, <1>6, <1>7 DEF Base, OneMain, MainsOK

LEMMA ExecuteRefusedBase ==
    ASSUME Base, NEW t \in alive, ExecuteRefused(t)
    PROVE  Base'
<1>1. /\ Start(t) /\ alive' = alive /\ plan' = plan /\ open' = open /\ trans' = trans
      /\ parent' = parent /\ doRollback' = doRollback /\ doCommit' = doCommit
      /\ faults' = faults + 1 /\ cut' = cut /\ writes' = writes /\ disk' = disk
      /\ stmt' = [stmt EXCEPT ![t] = "none"] /\ sql' = Begun(t)
    BY DEF ExecuteRefused, objects
<1>2. /\ Types /\ Dead /\ OneMain /\ t \in Tran
    BY PlanFacts DEF Base
<1>3. /\ started' \in [Tran -> BOOLEAN]
      /\ \A u \in Tran : u # t => started'[u] = started[u]
    BY <1>1, <1>2, StartIs
<1>4. SqlOK(sql')
    BY <1>1, <1>2, BegunIs
<1>5. plan.useExc => MainsOK(Live' \ cut, parent', sql')
    BY <1>1, <1>2, BegunMain
<1>6. Types'
    BY <1>1, <1>2, <1>3, <1>4 DEF Types
<1>7. Dead'
    BY <1>1, <1>2, <1>3 DEF Dead, Types
<1> QED  BY <1>1, <1>5, <1>6, <1>7 DEF Base, OneMain

LEMMA QueryRowsBase ==
    ASSUME Base, NEW t \in alive, QueryRows(t)
    PROVE  Base'
<1>1. /\ Start(t) /\ alive' = alive /\ plan' = plan /\ open' = open /\ trans' = trans
      /\ parent' = parent /\ doRollback' = doRollback /\ doCommit' = doCommit
      /\ faults' = faults /\ cut' = cut /\ writes' = writes /\ disk' = disk
      /\ stmt' = [stmt EXCEPT ![t] = IF GoesOn(t) THEN "rows" ELSE "none"]
      /\ sql' = Begun(t)
    BY DEF QueryRows, objects
<1>2. /\ Types /\ Dead /\ OneMain /\ t \in Tran
    BY PlanFacts DEF Base
<1>3. /\ started' \in [Tran -> BOOLEAN]
      /\ \A u \in Tran : u # t => started'[u] = started[u]
    BY <1>1, <1>2, StartIs
<1>4. SqlOK(sql')
    BY <1>1, <1>2, BegunIs
<1>5. plan.useExc => MainsOK(Live' \ cut, parent', sql')
    BY <1>1, <1>2, BegunMain
<1>6. stmt' \in [Tran -> {"none", "ready", "rows", "lost"}]
    BY <1>1, <1>2 DEF Types
<1>7. Types'
    BY <1>1, <1>2, <1>3, <1>4, <1>6 DEF Types
<1>8. Dead'
    BY <1>1, <1>2, <1>3 DEF Dead, Types
<1> QED  BY <1>1, <1>5, <1>7, <1>8 DEF Base, OneMain

\* A new object is not started, and its number is greater than any before.
LEMMA NewTranBase ==
    ASSUME Base, NEW p \in alive \cup {0}, NewTran(p)
    PROVE  /\ Base' /\ Live' = Live /\ trans + 1 \in Tran /\ trans + 1 \notin alive
           /\ \A t \in alive : t < trans + 1 /\ parent'[t] = parent[t]
           /\ parent'[trans + 1] = p
<1>1. /\ trans' = trans + 1 /\ alive' = alive \cup {trans + 1} /\ trans < plan.trans
      /\ parent' = [parent EXCEPT ![trans + 1] = p] /\ plan' = plan /\ open' = open
      /\ started' = started /\ doRollback' = doRollback /\ doCommit' = doCommit
      /\ stmt' = stmt /\ sql' = sql /\ disk' = disk /\ writes' = writes
      /\ faults' = faults /\ cut' = cut
    BY DEF NewTran
<1>2. /\ Types /\ Dead /\ OneMain
    BY DEF Base
<1>3. /\ trans + 1 \in Tran /\ trans + 1 \notin alive /\ trans + 1 \in 0 .. MaxTran
      /\ alive \cup {trans + 1} \in SUBSET (1 .. trans + 1)
      /\ \A t \in alive : t < trans + 1 /\ t \in Tran
      /\ p \in Nat
    <2>1. /\ trans \in 0 .. MaxTran /\ alive \in SUBSET (1 .. trans)
        BY <1>2 DEF Types
    <2>2. plan.trans \in 0 .. MaxTran /\ MaxTran \in Nat
        BY <1>2, PlanFacts
    <2> QED  BY <1>1, <2>1, <2>2 DEF Tran
<1>4. Live' = Live
    BY <1>1, <1>2, <1>3 DEF Live, Dead
<1>5. Types'
    BY <1>1, <1>2, <1>3 DEF Types
<1>6. Dead'
    BY <1>1, <1>2 DEF Dead
<1>7. /\ \A t \in alive : t < trans + 1 /\ parent'[t] = parent[t]
      /\ parent'[trans + 1] = p
    BY <1>1, <1>2, <1>3 DEF Types
<1>8. OneMain'
    <2>1. \A t \in Live : parent'[t] = parent[t]
        BY <1>7 DEF Live
    <2> QED  BY <1>1, <1>2, <1>4, <2>1 DEF OneMain, MainsOK
<1> QED  BY <1>3, <1>4, <1>5, <1>6, <1>7, <1>8 DEF Base

LEMMA OnDestructBase ==
    ASSUME Base, NEW t \in alive, NEW c \in BOOLEAN, NEW r \in BOOLEAN,
           OnDestruct(t, c, r)
    PROVE  Base'
<1>1. /\ doCommit' = [doCommit EXCEPT ![t] = c]
      /\ doRollback' = [doRollback EXCEPT ![t] = r]
      /\ UNCHANGED <<plan, open, trans, alive, parent, started, stmt, sql, disk,
                     writes, faults, cut>>
    BY DEF OnDestruct
<1>2. Types'
    BY <1>1 DEF Base, Types
<1>3. Dead' /\ OneMain'
    BY <1>1 DEF Base, Dead, OneMain, MainsOK, Live
<1> QED  BY <1>2, <1>3 DEF Base

LEMMA EndRowsBase ==
    ASSUME Base, NEW t \in alive, NEW left \in {"none", "ready"}, EndRows(t, left)
    PROVE  Base'
<1>1. /\ stmt' = [stmt EXCEPT ![t] = left]
      /\ UNCHANGED <<plan, open, trans, alive, parent, doRollback, doCommit, started,
                     sql, disk, writes, faults, cut>>
    BY DEF EndRows, objects
<1>2. Types'
    BY <1>1 DEF Base, Types
<1>3. Dead' /\ OneMain'
    BY <1>1, PlanFacts DEF Base, Dead, OneMain, MainsOK, Live, Types
<1> QED  BY <1>2, <1>3 DEF Base

\* Only what was started outside a transaction outlives the handle.
LEMMA ConnBase ==
    ASSUME Base, Close \/ Open
    PROVE  Base'
<1>1. UNCHANGED <<plan, trans, alive, parent, doRollback, doCommit, started,
                  disk, writes, faults>>
    BY DEF Close, Open, HandleGone, objects
<1>2. /\ open' \in BOOLEAN /\ sql' = Idle(disk)
      /\ cut' = IF sql.auto THEN cut ELSE Live
      /\ stmt' = [t \in Tran |-> IF stmt[t] = "none" THEN "none" ELSE "lost"]
    BY DEF Close, Open, HandleGone
<1>3. Types /\ Dead /\ OneMain
    BY DEF Base
<1>4. SqlOK(sql') /\ cut' \in SUBSET Tran /\ Live' = Live
      /\ stmt' \in [Tran -> {"none", "ready", "rows", "lost"}]
    BY <1>1, <1>2, <1>3, IdleIs, PlanFacts DEF Types, Live
<1>5. Types'
    BY <1>1, <1>2, <1>3, <1>4 DEF Types
<1>6. Dead'
    BY <1>1, <1>2, <1>3 DEF Dead
<1>7. OneMain'
    BY <1>1, <1>2, <1>3, <1>4 DEF OneMain, MainsOK
<1> QED  BY <1>5, <1>6, <1>7 DEF Base

\* The statements that end a transaction.
Endings(t) == {CommitStmt(t), RollbackStmt(t)}

LEMMA EndingIs ==
    ASSUME NEW t, NEW what \in Endings(t)
    PROVE  IF parent[t] = 0 THEN what \in {"commit", "rollback"}
                            ELSE what \in {"release", "rollbackTo"}
BY DEF Endings, CommitStmt, RollbackStmt

\* An ending that is accepted leaves at most the transactions it is not about.
LEMMA SentBase ==
    ASSUME Types, NEW t \in alive, NEW what \in Endings(t), Accepts(what, t),
           Sent(what, t)
    PROVE  /\ SqlOK(sql') /\ disk' \in SUBSET Nat /\ faults' \in Nat
           /\ cut' \in SUBSET Tran
           /\ MainsOK(Live \ cut, parent, sql) /\ started[t]
                => MainsOK((Live \ {t}) \ cut', parent, sql')
<1>1. /\ sql' = After(what, t) /\ disk' = IF sql'.auto THEN sql'.work ELSE disk
      /\ faults' = faults
    BY DEF Sent
<1>0. /\ cut' \in SUBSET Tran /\ (Live \ {t}) \ cut' \subseteq (Live \ cut) \ {t}
      /\ t \in cut => (Live \ {t}) \ cut' = {}
    BY PlanFacts DEF Sent, Types, Live
<1>2. SqlOK(sql) /\ disk \in SUBSET Nat /\ sql.work \in SUBSET Nat /\ faults \in Nat
    BY DEF Types, SqlOK, Conn
<1>3. CASE parent[t] = 0
    <2>1. what \in {"commit", "rollback"}
        BY <1>3, EndingIs
    <2>2. sql' = Idle(sql.work) \/ sql' = Idle(disk)
        BY <1>1, <2>1 DEF After
    <2>3. SqlOK(sql')
        BY <1>2, <2>2, IdleIs
    <2>4. disk' \in SUBSET Nat
        BY <1>1, <1>2, <2>3 DEF SqlOK, Conn
    <2> QED  BY <1>0, <1>1, <1>2, <1>3, <2>3, <2>4 DEF MainsOK, Live
<1>4. CASE parent[t] # 0
    <2>1. what \in {"release", "rollbackTo"}
        BY <1>4, EndingIs
    <2>2. Savepoint(sql, t) # 0
        BY <2>1 DEF Accepts
    <2>3. SqlOK(sql') /\ (~sql.auto /\ ~sql.byName => ~sql'.auto /\ ~sql'.byName)
        BY <1>1, <1>2, <2>1, <2>2, ReleaseIs, RollbackToIs
    <2>4. disk' \in SUBSET Nat
        BY <1>1, <1>2, <2>3 DEF SqlOK, Conn
    <2> QED  BY <1>0, <1>1, <1>2, <2>3, <2>4 DEF MainsOK
<1> QED  BY <1>3, <1>4

LEMMA RefusedBase ==
    ASSUME Types, NEW t, NEW what, Refused(what, t)
    PROVE  sql' = sql /\ disk' = disk /\ cut' = cut /\ faults' \in Nat
BY DEF Refused, Types

LEMMA EndBase ==
    ASSUME Base, NEW t \in alive, NEW what \in Endings(t), End(what, t)
    PROVE  Base'
<1>1. /\ alive' = alive /\ plan' = plan /\ open' = open /\ trans' = trans
      /\ parent' = parent /\ doRollback' = doRollback /\ doCommit' = doCommit
      /\ writes' = writes /\ stmt' = stmt /\ started[t]
    BY DEF End, objects
<1>2. /\ Types /\ Dead /\ OneMain /\ t \in Tran /\ plan.useExc \in BOOLEAN
    BY PlanFacts DEF Base
<1>3. /\ started' \in [Tran -> BOOLEAN]
      /\ \A u \in Tran : u # t => started'[u] = started[u]
    <2>1. \E b \in BOOLEAN : started' = [started EXCEPT ![t] = b]
        BY <1>2 DEF End
    <2> QED  BY <1>2, <2>1 DEF Types
<1>4. /\ SqlOK(sql') /\ disk' \in SUBSET Nat /\ faults' \in Nat
      /\ cut' \in SUBSET Tran
      /\ plan.useExc => MainsOK(Live' \ cut', parent', sql')
    <2>1. CASE Accepts(what, t) /\ Sent(what, t)
                 /\ started' = [started EXCEPT ![t] = FALSE]
        <3>1. ~started'[t]
            BY <1>2, <2>1 DEF Types
        <3>2. Live' = Live \ {t}
            BY <1>1, <1>2, <1>3, <3>1, PlanFacts DEF Live
        <3>3. /\ SqlOK(sql') /\ disk' \in SUBSET Nat /\ faults' \in Nat
              /\ cut' \in SUBSET Tran
              /\ MainsOK(Live \ cut, parent, sql) /\ started[t]
                   => MainsOK((Live \ {t}) \ cut', parent, sql')
            BY <1>2, <2>1, SentBase
        <3> QED  BY <1>1, <1>2, <3>2, <3>3 DEF OneMain
    <2>2. CASE Refused(what, t) /\ started' = [started EXCEPT ![t] = plan.useExc]
        <3>1. sql' = sql /\ disk' = disk /\ cut' = cut /\ faults' \in Nat
            BY <1>2, <2>2, RefusedBase
        <3>2. plan.useExc => Live' = Live
            <4>1. plan.useExc => started'[t] = TRUE
                BY <1>2, <2>2 DEF Types
            <4> QED  BY <1>1, <1>2, <1>3, <4>1, PlanFacts DEF Live
        <3> QED  BY <1>1, <1>2, <3>1, <3>2 DEF OneMain, Types
    <2> QED  BY <2>1, <2>2 DEF End
<1>5. Types'
    BY <1>1, <1>2, <1>3, <1>4 DEF Types
<1>6. Dead'
    BY <1>1, <1>2, <1>3 DEF Dead
<1> QED  BY <1>1, <1>4, <1>5, <1>6 DEF Base, OneMain

\* What is left of an object, and what its destructor sends.
LEMMA DestroyIs ==
    ASSUME Types, NEW t \in alive, Destroy(t)
    PROVE  /\ alive' = alive \ {t} /\ plan' = plan /\ open' = open /\ trans' = trans
           /\ writes' = writes /\ stmt' = stmt /\ stmt[t] = "none"
           /\ started' \in [Tran -> BOOLEAN] /\ ~started'[t]
           /\ parent' \in [Tran -> Nat]
           /\ doCommit' \in [Tran -> BOOLEAN] /\ doCommit'[t]
           /\ doRollback' \in [Tran -> BOOLEAN]
           /\ \A u \in Tran : u # t => /\ started'[u] = started[u]
                                       /\ parent'[u] = parent[u]
                                       /\ doCommit'[u] = doCommit[u]
           /\ Live' = Live \ {t}
           /\ \/ sql' = sql /\ disk' = disk /\ cut' = cut /\ faults' \in Nat
              \/ /\ started[t] /\ Ending(t) \in Endings(t) /\ Accepts(Ending(t), t)
                 /\ Sent(Ending(t), t)
<1>1. t \in Tran
    BY PlanFacts
<1>2. /\ alive' = alive \ {t} /\ plan' = plan /\ open' = open /\ trans' = trans
      /\ writes' = writes /\ stmt' = stmt /\ stmt[t] = "none"
      /\ started' = [started EXCEPT ![t] = FALSE]
      /\ parent' = [parent EXCEPT ![t] = 0]
      /\ doRollback' = [doRollback EXCEPT ![t] = FALSE]
      /\ doCommit' = [doCommit EXCEPT ![t] = TRUE]
    BY DEF Destroy
<1>3. /\ started' \in [Tran -> BOOLEAN] /\ ~started'[t]
      /\ parent' \in [Tran -> Nat]
      /\ doCommit' \in [Tran -> BOOLEAN] /\ doCommit'[t]
      /\ doRollback' \in [Tran -> BOOLEAN]
      /\ \A u \in Tran : u # t => /\ started'[u] = started[u]
                                  /\ parent'[u] = parent[u]
                                  /\ doCommit'[u] = doCommit[u]
    BY <1>1, <1>2 DEF Types
<1>4. Live' = Live \ {t}
    BY <1>2, <1>3, PlanFacts DEF Live
<1>5. \/ sql' = sql /\ disk' = disk /\ cut' = cut /\ faults' \in Nat
      \/ /\ started[t] /\ Ending(t) \in Endings(t) /\ Accepts(Ending(t), t)
         /\ Sent(Ending(t), t)
    <2>1. CASE started[t] /\ open /\ Ending(t) # "nothing"
        <3>1. Ending(t) \in Endings(t)
            BY <2>1 DEF Ending, Endings
        <3>2. (Accepts(Ending(t), t) /\ Sent(Ending(t), t)) \/ Refused(Ending(t), t)
            BY <2>1 DEF Destroy
        <3> QED  BY <2>1, <3>1, <3>2, RefusedBase
    <2>2. CASE ~(started[t] /\ open /\ Ending(t) # "nothing")
        BY <2>2 DEF Destroy, Types
    <2> QED  BY <2>1, <2>2
<1> QED  BY <1>2, <1>3, <1>4, <1>5

LEMMA DestroyBase ==
    ASSUME Base, NEW t \in alive, Destroy(t)
    PROVE  Base'
<1>1. Types /\ Dead /\ OneMain /\ t \in Tran
    BY PlanFacts DEF Base
<1>2. /\ alive' = alive \ {t} /\ plan' = plan /\ open' = open /\ trans' = trans
      /\ writes' = writes /\ stmt' = stmt /\ stmt[t] = "none"
      /\ started' \in [Tran -> BOOLEAN] /\ ~started'[t]
      /\ parent' \in [Tran -> Nat]
      /\ doCommit' \in [Tran -> BOOLEAN]
      /\ doRollback' \in [Tran -> BOOLEAN]
      /\ \A u \in Tran : u # t => started'[u] = started[u] /\ parent'[u] = parent[u]
      /\ Live' = Live \ {t}
    BY <1>1, DestroyIs
<1>3. /\ SqlOK(sql') /\ disk' \in SUBSET Nat /\ faults' \in Nat
      /\ cut' \in SUBSET Tran
      /\ plan.useExc => MainsOK((Live \ {t}) \ cut', parent, sql')
    <2>1. CASE sql' = sql /\ disk' = disk /\ cut' = cut /\ faults' \in Nat
        BY <1>1, <2>1 DEF Types, OneMain, MainsOK
    <2>2. CASE /\ started[t] /\ Ending(t) \in Endings(t) /\ Accepts(Ending(t), t)
               /\ Sent(Ending(t), t)
        BY <1>1, <2>2, SentBase DEF OneMain
    <2> QED  BY <1>1, <2>1, <2>2, DestroyIs
<1>4. plan.useExc => MainsOK(Live' \ cut', parent', sql')
    <2>1. \A u \in Live \ {t} : parent'[u] = parent[u]
        BY <1>1, <1>2, PlanFacts DEF Live
    <2> QED  BY <1>2, <1>3, <2>1 DEF MainsOK
<1>5. Types'
    BY <1>1, <1>2, <1>3 DEF Types
<1>6. Dead'
    BY <1>1, <1>2 DEF Dead
<1> QED  BY <1>2, <1>4, <1>5, <1>6 DEF Base, OneMain

-----------------------------------------------------------------------------
(* Nested scopes: the stack of savepoints.                                 *)

\* What a started transaction goes back to.
FrameOf(t, p, s, d) == IF p[t] = 0 THEN d ELSE s.stack[Savepoint(s, t)].was

\* t is the innermost scope.
Top(t, A) == t \in A /\ \A u \in A : u <= t

LEMMA InnermostIsTop ==
    ASSUME Types, NEW t \in alive, Innermost(t)
    PROVE  Top(t, alive)
<1>1. trans \in Nat /\ alive \in SUBSET (0 .. trans)
    BY DEF Types
<1> QED  BY <1>1, MaxIs DEF Innermost, Top

\* The main scope is alone when it is the innermost one; around a nested one
\* there are others, and they are started.
LEMMA AroundTop ==
    ASSUME NEW A \in SUBSET Nat, NEW L, NEW p, NEW s, NEW d, ScopesAt(A, L, p, s, d),
           L \subseteq A, NEW t, Top(t, A)
    PROVE  /\ \A u \in A : u = t \/ (u < t /\ u \in L)
           /\ p[t] = 0 => A = {t} /\ L \subseteq {t}
           /\ p[t] # 0 => \E u \in L : u < t
<1>1. t \in Nat /\ t \in A /\ \A u \in A : u \in Nat /\ u <= t
    BY DEF Top
<1>2. /\ \A u \in A : u < t => u \in L /\ p[t] # 0
      /\ p[t] # 0 => \E u \in A : u < t
    BY <1>1 DEF ScopesAt
<1>3. \A u \in A : u = t \/ u < t
    BY <1>1
<1> QED  BY <1>1, <1>2, <1>3

\* A savepoint on top of the stack.
LEMMA PushScope ==
    ASSUME Types, ScopesAt(alive, Live, parent, sql, disk), Numbered(writes, sql, disk),
           NEW t, Top(t, alive), t \notin Live, parent[t] # 0,
           NEW r, SqlOK(r), ~r.auto, ~r.byName, r.work = sql.work,
           r.stack = Append(sql.stack, [name |-> t, was |-> sql.work])
    PROVE  /\ ScopesAt(alive, Live \cup {t}, parent, r, disk)
           /\ Numbered(writes, r, disk)
           /\ \A u \in Live : FrameOf(u, parent, r, disk) = FrameOf(u, parent, sql, disk)
           /\ FrameOf(t, parent, r, disk) = sql.work
<1> DEFINE n == Len(sql.stack)
           e == [name |-> t, was |-> sql.work]
<1>1. /\ alive \in SUBSET Nat /\ t \in Nat /\ Live \subseteq alive /\ t \in alive
    BY PlanFacts DEF Top, Live
<1>2. /\ sql.stack \in Seq(Entry) /\ sql.work \in SUBSET Nat /\ r.stack \in Seq(Entry)
    BY DEF Types, SqlOK, Conn
<1>3. /\ n \in Nat /\ Len(r.stack) = n + 1 /\ r.stack[n + 1] = e
      /\ \A i \in 1 .. n : r.stack[i] = sql.stack[i]
    <2>1. e \in Entry
        BY <1>1, <1>2 DEF Entry
    <2> HIDE DEF e
    <2> QED  BY <1>2, <2>1, AppendProperties, LenProperties DEF e
<1>4. e.name = t /\ e.was = sql.work
    OBVIOUS
<1> HIDE DEF n, e
<1>5. \A u \in alive : u = t \/ (u < t /\ u \in Live)
    BY <1>1, AroundTop
<1>6. ASSUME NEW u \in Live
      PROVE  /\ Savepoint(r, u) = Savepoint(sql, u) /\ Savepoint(sql, u) \in 0 .. n
             /\ Savepoint(sql, u) # 0
                  => r.stack[Savepoint(sql, u)] = sql.stack[Savepoint(sql, u)]
    <2> DEFINE k == Savepoint(sql, u)
    <2>1. /\ k \in 0 .. n
          /\ \A i \in 1 .. n : sql.stack[i].name = u => i <= k
        BY <1>2, SavepointIs DEF n
    <2> HIDE DEF k
    <2>2. u # t
        OBVIOUS
    <2>3. \A i \in 1 .. n + 1 : i <= k => r.stack[i] = sql.stack[i]
        BY <1>3, <2>1
    <2>4. \A i \in 1 .. n + 1 : k < i => r.stack[i].name # u
        <3> SUFFICES ASSUME NEW i \in 1 .. n + 1, k < i PROVE r.stack[i].name # u
            OBVIOUS
        <3>1. CASE i = n + 1
            BY <1>3, <1>4, <2>2, <3>1
        <3>2. CASE i \in 1 .. n
            BY <1>3, <2>1, <3>2
        <3> QED  BY <1>3, <3>1, <3>2
    <2>5. Savepoint(r, u) = k
        <3>1. k = Savepoint(sql, u)
            BY DEF k
        <3>2. /\ k <= Len(r.stack)
              /\ \A i \in 1 .. Len(r.stack) : i <= k => r.stack[i] = sql.stack[i]
              /\ \A i \in 1 .. Len(r.stack) : k < i => r.stack[i].name # u
            BY <1>3, <2>1, <2>3, <2>4
        <3> QED  BY ONLY <1>2, <3>1, <3>2, SavepointStays
    <2>6. k # 0 => r.stack[k] = sql.stack[k]
        BY <1>3, <2>1
    <2> QED  BY <2>1, <2>5, <2>6 DEF k
<1>7. Savepoint(r, t) = n + 1
    <2>1. /\ Savepoint(r, t) \in 0 .. n + 1
          /\ \A i \in 1 .. n + 1 : r.stack[i].name = t => i <= Savepoint(r, t)
        BY <1>2, <1>3, SavepointIs
    <2>2. n + 1 \in 1 .. n + 1 /\ r.stack[n + 1].name = t
        BY <1>3, <1>4
    <2> QED  BY <1>3, <2>1, <2>2
<1>8. /\ \A u \in Live : parent[u] # 0 => Savepoint(sql, u) # 0
      /\ \A u, v \in Live : parent[u] # 0 /\ u < v
                              => Savepoint(sql, u) < Savepoint(sql, v)
    BY DEF ScopesAt
<1>9. ScopesAt(alive, Live \cup {t}, parent, r, disk)
    <2>1. /\ \A u, v \in alive : u < v => u \in Live \cup {t} /\ parent[v] # 0
          /\ \A u \in alive : parent[u] # 0 => \E v \in alive : v < u
        BY DEF ScopesAt
    <2>2. \A u \in Live \cup {t} : parent[u] # 0 => Savepoint(r, u) # 0
        BY <1>3, <1>6, <1>7, <1>8
    <2>3. ASSUME NEW u \in Live \cup {t}, NEW v \in Live \cup {t}, parent[u] # 0, u < v
          PROVE  Savepoint(r, u) < Savepoint(r, v)
        <3>1. u \in Live
            BY <1>1, <1>5, <2>3
        <3>2. CASE v = t
            BY <1>3, <1>6, <1>7, <3>1, <3>2
        <3>3. CASE v \in Live
            BY <1>6, <1>8, <2>3, <3>1, <3>3
        <3> QED  BY <3>2, <3>3
    <2>4. Live \cup {t} # {} /\ ~r.auto /\ ~r.byName
        OBVIOUS
    <2> QED  BY <2>1, <2>2, <2>3, <2>4 DEF ScopesAt
<1>10. Numbered(writes, r, disk)
    <2>1. /\ sql.work \subseteq 1 .. writes /\ disk \subseteq 1 .. writes
          /\ \A i \in 1 .. n : sql.stack[i].was \subseteq 1 .. writes
        BY DEF Numbered, n
    <2>2. \A i \in 1 .. n + 1 : i = n + 1 \/ i \in 1 .. n
        BY <1>3
    <2>3. \A i \in 1 .. n + 1 : r.stack[i].was \subseteq 1 .. writes
        BY <1>3, <1>4, <2>1, <2>2
    <2> QED  BY <1>3, <2>1, <2>3 DEF Numbered
<1>11. \A u \in Live : FrameOf(u, parent, r, disk) = FrameOf(u, parent, sql, disk)
    BY <1>6, <1>8 DEF FrameOf
<1>12. FrameOf(t, parent, r, disk) = sql.work
    BY <1>3, <1>4, <1>7 DEF FrameOf
<1> QED  BY <1>9, <1>10, <1>11, <1>12

\* The innermost transaction ends and takes the stack back to its savepoint, or to
\* what was below it.
LEMMA CutScope ==
    ASSUME Types, ScopesAt(alive, Live, parent, sql, disk), Numbered(writes, sql, disk),
           NEW t \in Live, Top(t, alive), parent[t] # 0,
           NEW r, SqlOK(r), ~r.auto, ~r.byName, r.work \subseteq 1 .. writes,
           NEW k \in {Savepoint(sql, t) - 1, Savepoint(sql, t)},
           r.stack = SubSeq(sql.stack, 1, k)
    PROVE  /\ ScopesAt(alive, Live \ {t}, parent, r, disk)
           /\ Numbered(writes, r, disk)
           /\ \A u \in Live \ {t} :
                FrameOf(u, parent, r, disk) = FrameOf(u, parent, sql, disk)
<1> DEFINE n == Len(sql.stack)
           M == Live \ {t}
<1>1. /\ alive \in SUBSET Nat /\ t \in Nat /\ Live \subseteq alive /\ t \in alive
    BY PlanFacts DEF Top, Live
<1>2. /\ sql.stack \in Seq(Entry) /\ r.stack \in Seq(Entry) /\ n \in Nat
    BY LenProperties DEF Types, SqlOK, Conn
<1>3. \A u \in alive : u = t \/ (u < t /\ u \in Live)
    BY <1>1, AroundTop
<1>4. /\ \A u \in Live : parent[u] # 0 => Savepoint(sql, u) # 0
      /\ \A u, v \in Live : parent[u] # 0 /\ u < v
                              => Savepoint(sql, u) < Savepoint(sql, v)
    BY DEF ScopesAt
<1>5. Savepoint(sql, t) \in 1 .. n /\ k \in 0 .. n /\ k \in Nat
    BY <1>2, <1>4, SavepointIs
<1> HIDE DEF n
<1>6. /\ Len(r.stack) = k /\ \A i \in 1 .. k : r.stack[i] = sql.stack[i]
    BY <1>2, <1>5, CutStack DEF n
<1>7. ASSUME NEW u \in M, parent[u] # 0
      PROVE  /\ Savepoint(r, u) = Savepoint(sql, u)
             /\ r.stack[Savepoint(r, u)] = sql.stack[Savepoint(sql, u)]
    <2> DEFINE j == Savepoint(sql, u)
    <2>1. /\ j \in 0 .. n
          /\ \A i \in 1 .. n : sql.stack[i].name = u => i <= j
        BY <1>2, SavepointIs DEF n
    <2>2. u \in Live /\ u < t
        BY <1>1, <1>3
    <2>3. j # 0 /\ j < Savepoint(sql, t)
        BY <1>4, <1>7, <2>2
    <2> HIDE DEF j
    <2>4. j \in 1 .. k
        BY <1>5, <2>1, <2>3
    <2>5. \A i \in 1 .. k : i \in 1 .. n
        BY <1>2, <1>5
    <2>6. \A i \in 1 .. k : j < i => r.stack[i].name # u
        BY <1>6, <2>1, <2>4, <2>5
    <2>7. Savepoint(r, u) = j
        BY <1>2, <1>6, <2>4, <2>6, SavepointStays DEF j
    <2> QED  BY <1>6, <2>4, <2>7 DEF j
<1>8. M # {}
    BY <1>1, <1>3, AroundTop
<1>9. ScopesAt(alive, M, parent, r, disk)
    <2>1. \A u, v \in alive : u < v => u \in M /\ parent[v] # 0
        <3> SUFFICES ASSUME NEW u \in alive, NEW v \in alive, u < v
                     PROVE  u \in M /\ parent[v] # 0
            OBVIOUS
        <3>1. u \in Live /\ parent[v] # 0
            BY DEF ScopesAt
        <3>2. u # t
            BY <1>1, <1>3
        <3> QED  BY <3>1, <3>2
    <2>2. \A u \in alive : parent[u] # 0 => \E v \in alive : v < u
        BY DEF ScopesAt
    <2>3. \A u \in M : parent[u] # 0 => Savepoint(r, u) # 0
        BY <1>4, <1>7
    <2>4. ASSUME NEW u \in M, NEW v \in M, parent[u] # 0, u < v
          PROVE  Savepoint(r, u) < Savepoint(r, v)
        <3>1. parent[v] # 0
            BY <1>1, <2>1, <2>4
        <3> QED  BY <1>4, <1>7, <2>4, <3>1
    <2> HIDE DEF M
    <2> QED  BY <1>8, <2>1, <2>2, <2>3, <2>4 DEF ScopesAt
<1>10. Numbered(writes, r, disk)
    <2>1. /\ disk \subseteq 1 .. writes
          /\ \A i \in 1 .. n : sql.stack[i].was \subseteq 1 .. writes
        BY DEF Numbered, n
    <2>2. \A i \in 1 .. k : r.stack[i].was \subseteq 1 .. writes
        BY <1>2, <1>5, <1>6, <2>1
    <2> QED  BY <1>6, <2>1, <2>2 DEF Numbered
<1>11. \A u \in M : FrameOf(u, parent, r, disk) = FrameOf(u, parent, sql, disk)
    BY <1>7 DEF FrameOf
<1> QED  BY <1>9, <1>10, <1>11

-----------------------------------------------------------------------------
(* Nested scopes: the abstract frames.                                     *)

Frames(L, p, s, d) ==
    [i \in DOMAIN InOrder(L) |-> FrameOf(InOrder(L)[i], p, s, d)]

SameFrames(L, p, s, d, q, r, e) ==
    \A u \in L : FrameOf(u, p, s, d) = FrameOf(u, q, r, e)

\* Frames g are the c frames f and one more, x.
Longer(g, f, x, c) ==
    /\ g = Append(f, x) /\ g # <<>> /\ Len(g) = c + 1
    /\ Front(g) = f /\ Last(g) = x

LEMMA FramesSame ==
    ASSUME NEW n \in Nat, NEW L \in SUBSET (1 .. n), NEW p, NEW s, NEW d,
           NEW q, NEW r, NEW e, SameFrames(L, p, s, d, q, r, e)
    PROVE  Frames(L, p, s, d) = Frames(L, q, r, e)
<1>1. InOrder(L) \in [1 .. Cardinality(L) -> L]
    BY HasList DEF Lists
<1>2. \A i \in DOMAIN InOrder(L) :
         FrameOf(InOrder(L)[i], p, s, d) = FrameOf(InOrder(L)[i], q, r, e)
    BY <1>1 DEF SameFrames
<1> QED  BY <1>2 DEF Frames

\* One more transaction inside the others adds its frame at the end.
LEMMA FramesAppend ==
    ASSUME NEW n \in Nat, NEW L \in SUBSET (1 .. n), NEW t \in 1 .. n, \A u \in L : u < t,
           NEW p, NEW s, NEW d, NEW q, NEW r, NEW e, SameFrames(L, p, s, d, q, r, e)
    PROVE  Longer(Frames(L \cup {t}, q, r, e), Frames(L, p, s, d), FrameOf(t, q, r, e),
                  Cardinality(L))
<1> DEFINE o == InOrder(L)
           f == Frames(L, p, s, d)
           g == FrameOf(t, q, r, e)
           V == {FrameOf(u, p, s, d) : u \in L} \cup {g}
           c == Cardinality(L)
           a == Append(f, g)
           h == Frames(L \cup {t}, q, r, e)
<1>1. /\ o \in Seq(Nat) /\ Len(o) = c /\ \A i \in 1 .. Len(o) : o[i] \in L
      /\ InOrder(L \cup {t}) = Append(o, t)
    BY InOrderAppend
<1>2. c \in Nat
    BY HasList
<1> HIDE DEF c, o
<1>3. DOMAIN o = 1 .. c
    BY <1>1, LenProperties
<1>4. f = [i \in 1 .. c |-> FrameOf(o[i], p, s, d)]
    BY <1>3 DEF Frames, o
<1>5. f \in Seq(V) /\ Len(f) = c /\ \A i \in 1 .. c : f[i] = FrameOf(o[i], p, s, d)
    <2>1. f \in [1 .. c -> V]
        BY <1>1, <1>4
    <2> HIDE DEF f
    <2>2. f \in Seq(V)
        BY <1>2, <2>1, SeqDef
    <2> QED  BY <1>2, <1>4, <2>1, <2>2, LenProperties
<1> HIDE DEF f
<1>6. g \in V
    OBVIOUS
<1> HIDE DEF V, g
<1>7. /\ a \in Seq(V) /\ Len(a) = c + 1 /\ a[c + 1] = g
      /\ \A i \in 1 .. c : a[i] = f[i]
    BY <1>5, <1>6, AppendProperties
<1>8. /\ Append(o, t) \in Seq(Nat) /\ Len(Append(o, t)) = c + 1
      /\ Append(o, t)[c + 1] = t /\ \A i \in 1 .. c : Append(o, t)[i] = o[i]
    BY <1>1, AppendProperties
<1>9. DOMAIN Append(o, t) = 1 .. c + 1
    BY <1>8, LenProperties
<1>10. h = [i \in 1 .. c + 1 |-> FrameOf(Append(o, t)[i], q, r, e)]
    BY <1>1, <1>9 DEF Frames
<1> HIDE DEF h, a
<1>11. DOMAIN a = 1 .. c + 1 /\ a \in [1 .. c + 1 -> V]
    BY <1>7, LenProperties
<1>12. \A i \in 1 .. c + 1 : h[i] = a[i]
    <2> SUFFICES ASSUME NEW i \in 1 .. c + 1 PROVE h[i] = a[i]
        OBVIOUS
    <2>1. h[i] = FrameOf(Append(o, t)[i], q, r, e)
        BY <1>10
    <2>2. CASE i = c + 1
        BY <1>7, <1>8, <2>1, <2>2 DEF g
    <2>3. CASE i \in 1 .. c
        BY <1>1, <1>5, <1>7, <1>8, <2>1, <2>3 DEF SameFrames
    <2> QED  BY <1>2, <2>2, <2>3
<1>13. h = a
    <2>1. DOMAIN h = 1 .. c + 1 /\ h = [i \in DOMAIN h |-> h[i]]
        BY <1>10
    <2> QED  BY <1>11, <1>12, <2>1
<1>14. Front(a) = f
    <2>1. Front(a) = SubSeq(a, 1, c)
        BY <1>2, <1>7 DEF Front
    <2>2. \A i \in 1 .. c : a[i] \in V
        BY <1>2, <1>11
    <2>3. /\ SubSeq(a, 1, c) \in Seq(V)
          /\ Len(SubSeq(a, 1, c)) = IF 1 <= c THEN c - 1 + 1 ELSE 0
          /\ \A i \in 1 .. c - 1 + 1 : SubSeq(a, 1, c)[i] = a[1 + i - 1]
        BY <1>2, <2>2, SubSeqProperties
    <2>4. Len(SubSeq(a, 1, c)) = c /\ \A i \in 1 .. c : SubSeq(a, 1, c)[i] = f[i]
        BY <1>2, <1>7, <2>3
    <2> QED  BY <1>5, <2>1, <2>3, <2>4, SeqEqual
<1>15. Last(a) = g
    BY <1>7 DEF Last
<1>16. a # <<>>
    <2>1. Len(<<>>) = 0
        OBVIOUS
    <2> QED  BY <1>2, <1>7, <2>1
<1>17. Longer(h, f, g, c)
    BY <1>7, <1>13, <1>14, <1>15, <1>16 DEF Longer, a
<1> QED  BY <1>17 DEF h, f, g, c

\* The frame of the innermost started transaction is the last one.
LEMMA FramesTop ==
    ASSUME NEW n \in Nat, NEW L \in SUBSET (1 .. n), NEW t \in L, \A u \in L : u <= t,
           NEW p, NEW s, NEW d
    PROVE  Longer(Frames(L, p, s, d), Frames(L \ {t}, p, s, d), FrameOf(t, p, s, d),
                  Cardinality(L \ {t}))
<1> DEFINE K == L \ {t}
<1>1. /\ n \in Nat /\ K \in SUBSET (1 .. n) /\ t \in 1 .. n
      /\ \A u \in K : u < t
    OBVIOUS
<1>2. L = K \cup {t}
    OBVIOUS
<1> HIDE DEF K
<1>3. SameFrames(K, p, s, d, p, s, d)
    BY DEF SameFrames
<1>4. Longer(Frames(K \cup {t}, p, s, d), Frames(K, p, s, d), FrameOf(t, p, s, d),
             Cardinality(K))
    BY ONLY <1>1, <1>3, FramesAppend
<1> QED  BY ONLY <1>2, <1>4 DEF K

\* Frames and scopes depend on the stack of savepoints, not on what is seen.
LEMMA SameStack ==
    ASSUME NEW s, NEW r, r.stack = s.stack, NEW p, NEW d
    PROVE  /\ \A t : Savepoint(r, t) = Savepoint(s, t)
           /\ \A t : FrameOf(t, p, r, d) = FrameOf(t, p, s, d)
BY DEF Savepoint, FrameOf

-----------------------------------------------------------------------------
(* Nested scopes: what each step does, seen as a step of NestedStore.      *)

NowFrames == Frames(Live, parent, sql, disk)

BeginStep ==
    /\ NowFrames' = Append(NowFrames, sql.work)
    /\ sql'.work = sql.work /\ disk' = disk

WriteStep ==
    /\ NowFrames' \in {NowFrames, Append(NowFrames, sql.work)} /\ NowFrames' # <<>>
    /\ sql.work \subseteq sql'.work /\ sql'.work # sql.work /\ disk' = disk

CommitStep ==
    /\ NowFrames # <<>> /\ NowFrames' = Front(NowFrames)
    /\ disk' = IF Len(NowFrames) = 1 THEN sql.work ELSE disk
    /\ sql'.work = sql.work

RollbackStep ==
    /\ NowFrames # <<>> /\ NowFrames' = Front(NowFrames)
    /\ sql'.work = Last(NowFrames) /\ disk' = disk

NoStep == NowFrames' = NowFrames /\ sql'.work = sql.work /\ disk' = disk

StoreStep == BeginStep \/ WriteStep \/ CommitStep \/ RollbackStep \/ NoStep

LEMMA ScopedFacts ==
    ASSUME Inv, Scoped, NEW t \in alive, Innermost(t)
    PROVE  /\ Types /\ Dead /\ open /\ (\A u \in Tran : doCommit[u]) /\ InnermostReads
           /\ ScopesAt(alive, Live, parent, sql, disk) /\ Numbered(writes, sql, disk)
           /\ Top(t, alive) /\ alive \in SUBSET Nat /\ Live \subseteq alive
           /\ trans \in Nat /\ Live \in SUBSET (1 .. trans) /\ t \in 1 .. trans
           /\ t \in Tran /\ plan.useExc
           /\ \A u \in alive : u = t \/ (u < t /\ u \in Live)
           /\ parent[t] = 0 => alive = {t} /\ Live \subseteq {t}
           /\ parent[t] # 0 => \E u \in Live : u < t
<1>1. /\ Types /\ Dead /\ open /\ (\A u \in Tran : doCommit[u]) /\ InnermostReads
      /\ ScopesAt(alive, Live, parent, sql, disk) /\ Numbered(writes, sql, disk)
    BY DEF Inv, Base, ScopesOK
<1>2. Top(t, alive)
    BY <1>1, InnermostIsTop
<1>3. /\ trans \in Nat /\ alive \in SUBSET (1 .. trans) /\ Live \subseteq alive
    BY <1>1 DEF Types, Live
<1>4. alive \in SUBSET Nat
    BY <1>3
<1>5. /\ \A u \in alive : u = t \/ (u < t /\ u \in Live)
      /\ parent[t] = 0 => alive = {t} /\ Live \subseteq {t}
      /\ parent[t] # 0 => \E u \in Live : u < t
    BY <1>1, <1>2, <1>3, <1>4, AroundTop
<1>6. t \in Tran
    BY <1>1, PlanFacts
<1>7. plan.useExc
    BY DEF Scoped
<1> QED  BY <1>1, <1>2, <1>3, <1>4, <1>5, <1>6, <1>7

\* start() succeeds in the innermost scope, and when it sends something, what the
\* connection sees is what a rollback of the new transaction goes back to.
LEMMA StartScope ==
    ASSUME Inv, Scoped, NEW t \in alive, Innermost(t), Start(t), alive' = alive
    PROVE  LET f == Frames(Live, parent, sql, disk)
               g == Frames(Live \cup {t}, parent, Begun(t), disk)
           IN  /\ Starts(t) /\ Live' = Live \cup {t} /\ Begun(t).work = sql.work
               /\ SqlOK(Begun(t)) /\ ~Begun(t).auto /\ ~Begun(t).byName
               /\ ScopesAt(alive, Live \cup {t}, parent, Begun(t), disk)
               /\ Numbered(writes, Begun(t), disk)
               /\ g # <<>> /\ g \in {f, Append(f, sql.work)}
<1>1. /\ Types /\ open /\ ScopesAt(alive, Live, parent, sql, disk)
      /\ Numbered(writes, sql, disk) /\ Top(t, alive) /\ alive \in SUBSET Nat
      /\ Live \subseteq alive /\ trans \in Nat /\ Live \in SUBSET (1 .. trans)
      /\ t \in 1 .. trans /\ plan.useExc
      /\ \A u \in alive : u = t \/ (u < t /\ u \in Live)
      /\ parent[t] = 0 => alive = {t} /\ Live \subseteq {t}
      /\ parent[t] # 0 => \E u \in Live : u < t
    BY ScopedFacts
<1>2. SqlOK(sql) /\ t \in Nat
    BY <1>1 DEF Types
<1>3. Begun(t).work = sql.work /\ SqlOK(Begun(t))
    BY <1>1, BegunIs
<1>4. CASE started[t]
    <2>1. Starts(t) /\ Begun(t) = sql
        BY <1>1, <1>4, BegunIs DEF Starts
    <2>2. t \in Live /\ Live \cup {t} = Live
        BY <1>4 DEF Live
    <2>3. Live' = Live \cup {t}
        BY <1>1, <2>1, StartIs
    <2>4. ~sql.auto /\ ~sql.byName
        BY <1>1, <2>2 DEF ScopesAt
    <2>5. \A u \in Live : u <= t
        BY <1>1 DEF Top
    <2>6. Frames(Live, parent, sql, disk) # <<>>
        <3>1. trans \in Nat /\ Live \in SUBSET (1 .. trans) /\ t \in Live
            BY <1>1, <2>2
        <3>2. Longer(Frames(Live, parent, sql, disk),
                     Frames(Live \ {t}, parent, sql, disk),
                     FrameOf(t, parent, sql, disk), Cardinality(Live \ {t}))
            BY ONLY <2>5, <3>1, FramesTop
        <3> QED  BY <3>2 DEF Longer
    <2> QED  BY <1>1, <1>3, <2>1, <2>2, <2>3, <2>4, <2>6
<1>5. CASE ~started[t]
    <2>1. t \notin Live /\ \A u \in Live : u < t
        BY <1>1, <1>5 DEF Live
    <2>2. /\ Starts(t) /\ ~Begun(t).auto /\ ~Begun(t).byName
          /\ ScopesAt(alive, Live \cup {t}, parent, Begun(t), disk)
          /\ Numbered(writes, Begun(t), disk)
          /\ \A u \in Live :
               FrameOf(u, parent, sql, disk) = FrameOf(u, parent, Begun(t), disk)
          /\ FrameOf(t, parent, Begun(t), disk) = sql.work
        <3>1. CASE parent[t] = 0
            <4>1. alive = {t} /\ Live = {}
                BY <1>1, <2>1, <3>1
            <4>2. sql.auto /\ sql.work = disk
                BY <1>1, <4>1 DEF ScopesAt
            <4>3. StartStmt(t) = "begin" /\ Starts(t)
                BY <1>1, <3>1, <4>2 DEF StartStmt, Starts, Accepts
            <4>4. Begun(t) = After("begin", t)
                BY <1>5, <4>3 DEF Begun
            <4>5. /\ ~Begun(t).auto /\ ~Begun(t).byName /\ Begun(t).stack = sql.stack
                BY <1>2, <4>2, <4>4, BeginIs
            <4>6. ScopesAt(alive, Live \cup {t}, parent, Begun(t), disk)
                <5>1. \A u, v \in alive : ~(u < v)
                    BY <1>2, <4>1
                <5>2. \A u, v \in Live \cup {t} : ~(u < v)
                    BY <1>2, <4>1
                <5> QED  BY <3>1, <4>1, <4>5, <5>1, <5>2 DEF ScopesAt
            <4>7. Numbered(writes, Begun(t), disk)
                BY <1>1, <1>3, <4>5 DEF Numbered
            <4>8. FrameOf(t, parent, Begun(t), disk) = sql.work
                BY <3>1, <4>2 DEF FrameOf
            <4> QED  BY <4>1, <4>3, <4>5, <4>6, <4>7, <4>8
        <3>2. CASE parent[t] # 0
            <4>1. Live # {}
                BY <1>1, <3>2
            <4>2. ~sql.auto /\ ~sql.byName
                BY <1>1, <4>1 DEF ScopesAt
            <4>3. StartStmt(t) = "savepoint" /\ Starts(t)
                BY <1>1, <3>2 DEF StartStmt, Starts, Accepts
            <4>4. Begun(t) = After("savepoint", t)
                BY <1>5, <4>3 DEF Begun
            <4>5. /\ ~Begun(t).auto /\ ~Begun(t).byName
                  /\ Begun(t).stack = Append(sql.stack, [name |-> t, was |-> sql.work])
                BY <1>2, <4>2, <4>4, SavepointSent
            <4>6. /\ ScopesAt(alive, Live \cup {t}, parent, Begun(t), disk)
                  /\ Numbered(writes, Begun(t), disk)
                  /\ \A u \in Live : FrameOf(u, parent, Begun(t), disk)
                                       = FrameOf(u, parent, sql, disk)
                  /\ FrameOf(t, parent, Begun(t), disk) = sql.work
                BY <1>1, <1>3, <2>1, <3>2, <4>5, PushScope
            <4> QED  BY <4>3, <4>5, <4>6
        <3> QED  BY <3>1, <3>2
    <2>3. Live' = Live \cup {t}
        BY <1>1, <2>2, StartIs
    <2>4. LET f == Frames(Live, parent, sql, disk)
          IN  /\ Frames(Live \cup {t}, parent, Begun(t), disk) = Append(f, sql.work)
              /\ Append(f, sql.work) # <<>>
        <3>1. trans \in Nat /\ Live \in SUBSET (1 .. trans) /\ t \in 1 .. trans
            BY <1>1
        <3>2. SameFrames(Live, parent, sql, disk, parent, Begun(t), disk)
            BY <2>2 DEF SameFrames
        <3>3. Longer(Frames(Live \cup {t}, parent, Begun(t), disk),
                     Frames(Live, parent, sql, disk),
                     FrameOf(t, parent, Begun(t), disk), Cardinality(Live))
            BY ONLY <2>1, <3>1, <3>2, FramesAppend
        <3> QED  BY <2>2, <3>3 DEF Longer
    <2> QED  BY <1>3, <2>2, <2>3, <2>4
<1> QED  BY <1>4, <1>5

LEMMA ExecuteScope ==
    ASSUME Inv, Scoped, NEW t \in alive, Innermost(t), Execute(t)
    PROVE  ScopesOK' /\ StoreStep
<1> DEFINE s == Begun(t)
           w == writes + 1
           f == Frames(Live, parent, sql, disk)
           L == Live \cup {t}
<1>1. /\ Start(t) /\ alive' = alive /\ plan' = plan /\ open' = open /\ parent' = parent
      /\ doCommit' = doCommit /\ stmt' = [stmt EXCEPT ![t] = "none"]
    BY DEF Execute, objects
<1>2. /\ Types /\ open /\ (\A u \in Tran : doCommit[u]) /\ InnermostReads /\ t \in Tran
      /\ alive \in SUBSET Nat /\ trans \in Nat /\ Live \in SUBSET (1 .. trans)
      /\ t \in 1 .. trans /\ Numbered(writes, sql, disk)
    BY ScopedFacts
<1>3. /\ Starts(t) /\ Live' = L /\ s.work = sql.work
      /\ SqlOK(s) /\ ~s.auto /\ ~s.byName
      /\ ScopesAt(alive, L, parent, s, disk) /\ Numbered(writes, s, disk)
      /\ Frames(L, parent, s, disk) # <<>>
      /\ Frames(L, parent, s, disk) \in {f, Append(f, sql.work)}
    BY <1>1, StartScope
<1> HIDE DEF s, L
<1>4. writes' = w /\ sql' = [s EXCEPT !.work = s.work \cup {w}] /\ disk' = disk
    BY <1>2, <1>3 DEF Execute, GoesOn, s
<1>5. writes \in Nat /\ w \in Nat /\ s \in Conn
    BY <1>2, <1>3 DEF Types, SqlOK
<1>6. /\ sql'.work = sql.work \cup {w} /\ sql'.stack = s.stack
      /\ sql'.auto = s.auto /\ sql'.byName = s.byName
    BY <1>3, <1>4, <1>5 DEF Conn
<1>7. /\ \A u : Savepoint(sql', u) = Savepoint(s, u)
      /\ \A u : FrameOf(u, parent, sql', disk) = FrameOf(u, parent, s, disk)
    BY <1>6, SameStack
<1>8. ScopesAt(alive, L, parent, sql', disk)
    <2>1. t \in L
        BY DEF L
    <2> QED  BY <1>3, <1>6, <1>7, <2>1 DEF ScopesAt
<1>9. Numbered(w, sql', disk)
    <2>1. 1 .. writes \subseteq 1 .. w /\ w \in 1 .. w
        BY <1>5
    <2>2. /\ s.work \subseteq 1 .. writes /\ disk \subseteq 1 .. writes
          /\ \A i \in 1 .. Len(s.stack) : s.stack[i].was \subseteq 1 .. writes
        BY <1>3 DEF Numbered
    <2> HIDE DEF w
    <2>3. sql'.work \subseteq 1 .. w
        BY <1>3, <1>6, <2>1, <2>2
    <2>4. disk \subseteq 1 .. w
        BY <2>1, <2>2
    <2>5. \A i \in 1 .. Len(sql'.stack) : sql'.stack[i].was \subseteq 1 .. w
        BY <1>6, <2>1, <2>2
    <2> QED  BY <2>3, <2>4, <2>5 DEF Numbered
<1>10. InnermostReads'
    <2>1. \A u \in alive : u \in Tran
        BY <1>2, PlanFacts
    <2>2. \A u \in Tran : stmt'[u] = stmt[u] \/ stmt'[u] = "none"
        BY <1>1, <1>2 DEF Types
    <2> QED  BY <1>1, <1>2, <2>1, <2>2 DEF InnermostReads
<1>11. ScopesOK'
    BY <1>1, <1>2, <1>3, <1>4, <1>8, <1>9, <1>10 DEF ScopesOK
<1>12. WriteStep
    <2>1. w \notin sql.work
        BY <1>2, <1>5 DEF Numbered
    <2>2. L \in SUBSET (1 .. trans)
        BY <1>2 DEF L
    <2>3. SameFrames(L, parent, sql', disk, parent, s, disk)
        BY <1>7 DEF SameFrames
    <2>4. Frames(L, parent, sql', disk) = Frames(L, parent, s, disk)
        BY ONLY <1>2, <2>2, <2>3, FramesSame
    <2>5. NowFrames' = Frames(L, parent, sql', disk) /\ NowFrames = f
        BY <1>1, <1>3, <1>4 DEF NowFrames
    <2> HIDE DEF f, w
    <2> QED  BY <1>3, <1>4, <1>6, <2>1, <2>4, <2>5 DEF WriteStep
<1> QED  BY <1>11, <1>12 DEF StoreStep

\* Neither a query nor a refused write does more than to start the transaction.
LEMMA QueryRowsScope ==
    ASSUME Inv, Scoped, NEW t \in alive, Innermost(t), QueryRows(t) \/ ExecuteRefused(t)
    PROVE  ScopesOK' /\ StoreStep
<1> DEFINE f == Frames(Live, parent, sql, disk)
<1>1. /\ Start(t) /\ alive' = alive /\ plan' = plan /\ open' = open /\ parent' = parent
      /\ doCommit' = doCommit /\ disk' = disk /\ writes' = writes /\ sql' = Begun(t)
      /\ \/ stmt' = [stmt EXCEPT ![t] = IF GoesOn(t) THEN "rows" ELSE "none"]
         \/ stmt' = [stmt EXCEPT ![t] = "none"]
    BY DEF QueryRows, ExecuteRefused, objects
<1>2. /\ Types /\ open /\ (\A u \in Tran : doCommit[u]) /\ InnermostReads /\ t \in Tran
      /\ \A u \in alive : u = t \/ (u < t /\ u \in Live)
      /\ alive \in SUBSET Nat
    BY ScopedFacts
<1>3. /\ Live' = Live \cup {t} /\ Begun(t).work = sql.work
      /\ ScopesAt(alive, Live \cup {t}, parent, Begun(t), disk)
      /\ Numbered(writes, Begun(t), disk)
      /\ Frames(Live \cup {t}, parent, Begun(t), disk) \in {f, Append(f, sql.work)}
    BY <1>1, StartScope
<1>4. InnermostReads'
    <2> SUFFICES ASSUME NEW u \in alive, NEW v \in alive, u < v PROVE stmt'[u] # "rows"
        BY <1>1 DEF InnermostReads
    <2>1. u # t
        BY <1>2
    <2>2. u \in Tran
        BY <1>2, PlanFacts
    <2> QED  BY <1>1, <1>2, <2>1, <2>2 DEF InnermostReads, Types
<1>5. ScopesOK'
    BY <1>1, <1>2, <1>3, <1>4 DEF ScopesOK
<1>6. NowFrames' \in {f, Append(f, sql.work)} /\ NowFrames = f
    BY <1>1, <1>3 DEF NowFrames
<1> HIDE DEF f
<1>7. BeginStep \/ NoStep
    BY <1>1, <1>3, <1>6 DEF BeginStep, NoStep
<1> QED  BY <1>5, <1>7 DEF StoreStep

\* The innermost transaction ends: SQLite goes back to the state it had without it,
\* and keeps or undoes what was done in it.
LEMMA EndScope ==
    ASSUME Inv, Scoped, NEW t \in alive, Innermost(t), started[t],
           NEW what \in Endings(t), Accepts(what, t), Sent(what, t)
    PROVE  LET f == Frames(Live, parent, sql, disk)
           IN  /\ ScopesAt(alive, Live \ {t}, parent, sql', disk')
               /\ Numbered(writes, sql', disk')
               /\ f # <<>> /\ Frames(Live \ {t}, parent, sql', disk') = Front(f)
               /\ \/ /\ disk' = IF Len(f) = 1 THEN sql.work ELSE disk
                     /\ sql'.work = sql.work
                  \/ sql'.work = Last(f) /\ disk' = disk
<1> DEFINE f == Frames(Live, parent, sql, disk)
           M == Live \ {t}
<1>1. /\ Types /\ ScopesAt(alive, Live, parent, sql, disk)
      /\ Numbered(writes, sql, disk) /\ Top(t, alive) /\ alive \in SUBSET Nat
      /\ Live \subseteq alive /\ trans \in Nat /\ Live \in SUBSET (1 .. trans)
      /\ parent[t] = 0 => alive = {t} /\ Live \subseteq {t}
      /\ parent[t] # 0 => \E u \in Live : u < t
    BY ScopedFacts
<1>2. t \in Live /\ SqlOK(sql) /\ ~sql.auto /\ ~sql.byName /\ t \in Nat
    BY <1>1 DEF Live, ScopesAt, Types
<1>3. sql' = After(what, t) /\ disk' = IF sql'.auto THEN sql'.work ELSE disk
    BY DEF Sent
<1>4. /\ f # <<>> /\ Len(f) = Cardinality(M) + 1
      /\ Front(f) = Frames(M, parent, sql, disk)
      /\ Last(f) = FrameOf(t, parent, sql, disk)
    <2>1. \A u \in Live : u <= t
        BY <1>1 DEF Top
    <2>2. Longer(f, Frames(M, parent, sql, disk), FrameOf(t, parent, sql, disk),
                 Cardinality(M))
        BY ONLY <1>1, <1>2, <2>1, FramesTop
    <2> QED  BY <2>2 DEF Longer
<1>5. M \in SUBSET (1 .. trans) /\ IsFiniteSet(M) /\ Cardinality(M) \in Nat
    <2>1. M \in SUBSET (1 .. trans)
        BY <1>1
    <2> QED  BY <1>1, <2>1, HasList
<1>6. /\ Numbered(writes, sql, disk)
      /\ sql.work \subseteq 1 .. writes /\ disk \subseteq 1 .. writes
    BY <1>1 DEF Numbered
<1>7. /\ ScopesAt(alive, M, parent, sql', disk') /\ Numbered(writes, sql', disk')
      /\ SameFrames(M, parent, sql', disk', parent, sql, disk)
      /\ \/ /\ disk' = IF Cardinality(M) = 0 THEN sql.work ELSE disk
            /\ sql'.work = sql.work
         \/ sql'.work = FrameOf(t, parent, sql, disk) /\ disk' = disk
    <2>1. CASE parent[t] = 0
        <3>1. alive = {t} /\ M = {} /\ Cardinality(M) = 0
            <4>1. alive = {t} /\ M = {}
                BY <1>1, <1>2, <2>1
            <4> QED  BY <4>1, FS_EmptySet
        <3>2. \/ what = "commit" /\ sql' = Idle(sql.work)
              \/ what = "rollback" /\ sql' = Idle(disk)
            <4>1. what \in {"commit", "rollback"}
                BY <2>1, EndingIs
            <4> QED  BY <1>3, <4>1 DEF After
        <3>3. PICK c \in {sql.work, disk} : sql' = Idle(c)
            BY <3>2
        <3>4. sql'.auto /\ sql'.work = c /\ sql'.stack = <<>> /\ disk' = c
            BY <1>3, <3>3 DEF Idle
        <3>5. ScopesAt(alive, M, parent, sql', disk')
            <4>1. \A u, v \in alive : ~(u < v)
                BY <1>2, <3>1
            <4> QED  BY <2>1, <3>1, <3>4, <4>1 DEF ScopesAt
        <3>6. Numbered(writes, sql', disk')
            <4>1. Len(sql'.stack) = 0
                BY <3>4
            <4>2. \A i \in 1 .. Len(sql'.stack) : FALSE
                BY <4>1
            <4> QED  BY <1>6, <3>4, <4>2 DEF Numbered
        <3>7. SameFrames(M, parent, sql', disk', parent, sql, disk)
            BY <3>1 DEF SameFrames
        <3>8. FrameOf(t, parent, sql, disk) = disk
            BY <2>1 DEF FrameOf
        <3> HIDE DEF M
        <3> QED  BY <3>1, <3>4, <3>5, <3>6, <3>7, <3>8
    <2>2. CASE parent[t] # 0
        <3> DEFINE k == Savepoint(sql, t)
        <3>1. Cardinality(M) # 0
            <4>1. M # {}
                BY <1>1, <1>2, <2>2
            <4> QED  BY <1>5, <4>1, FS_EmptySet
        <3>2. what \in {"release", "rollbackTo"} /\ k # 0
            <4>1. what \in {"release", "rollbackTo"}
                BY <2>2, EndingIs
            <4> QED  BY <4>1 DEF Accepts
        <3>3. /\ SqlOK(sql') /\ ~sql'.auto /\ ~sql'.byName
              /\ \/ sql'.stack = SubSeq(sql.stack, 1, k - 1) /\ sql'.work = sql.work
                 \/ sql'.stack = SubSeq(sql.stack, 1, k) /\ sql'.work = sql.stack[k].was
            BY <1>2, <1>3, <3>2, ReleaseIs, RollbackToIs
        <3>4. sql.stack[k].was \subseteq 1 .. writes
            <4>1. sql.stack \in Seq(Entry)
                BY <1>2 DEF SqlOK, Conn
            <4>2. k \in 1 .. Len(sql.stack)
                BY <3>2, <4>1, SavepointIs, LenProperties
            <4> QED  BY <1>6, <4>2 DEF Numbered
        <3>5. sql'.work \subseteq 1 .. writes /\ disk' = disk
            BY <1>3, <1>6, <3>3, <3>4
        <3>6. PICK j \in {k - 1, k} : sql'.stack = SubSeq(sql.stack, 1, j)
            BY <3>3
        <3>7. /\ ScopesAt(alive, M, parent, sql', disk) /\ Numbered(writes, sql', disk)
              /\ \A u \in M : FrameOf(u, parent, sql', disk)
                               = FrameOf(u, parent, sql, disk)
            BY <1>1, <1>2, <2>2, <3>3, <3>5, <3>6, CutScope
        <3>8. FrameOf(t, parent, sql, disk) = sql.stack[k].was
            BY <2>2 DEF FrameOf
        <3> HIDE DEF M, k
        <3> QED  BY <3>1, <3>3, <3>5, <3>7, <3>8 DEF SameFrames
    <2> QED  BY <2>1, <2>2
<1>8. Frames(M, parent, sql', disk') = Frames(M, parent, sql, disk)
    BY ONLY <1>1, <1>5, <1>7, FramesSame
<1> HIDE DEF M, f
<1>9. Cardinality(M) = 0 <=> Len(f) = 1
    BY <1>4, <1>5
<1>10. /\ ScopesAt(alive, M, parent, sql', disk') /\ Numbered(writes, sql', disk')
       /\ f # <<>> /\ Frames(M, parent, sql', disk') = Front(f)
       /\ \/ /\ disk' = IF Len(f) = 1 THEN sql.work ELSE disk
             /\ sql'.work = sql.work
          \/ sql'.work = Last(f) /\ disk' = disk
    BY <1>4, <1>7, <1>8, <1>9
<1> QED  BY <1>10 DEF M, f

\* commit() and rollback(): when SQLite refuses, the transaction stays started.
LEMMA EndActionScope ==
    ASSUME Inv, Scoped, NEW t \in alive, Innermost(t), NEW what \in Endings(t),
           End(what, t)
    PROVE  ScopesOK' /\ StoreStep
<1> DEFINE f == Frames(Live, parent, sql, disk)
<1>1. /\ alive' = alive /\ plan' = plan /\ open' = open /\ parent' = parent
      /\ doCommit' = doCommit /\ writes' = writes /\ stmt' = stmt /\ started[t]
    BY DEF End, objects
<1>2. /\ Types /\ open /\ (\A u \in Tran : doCommit[u]) /\ InnermostReads /\ t \in Tran
      /\ ScopesAt(alive, Live, parent, sql, disk) /\ Numbered(writes, sql, disk)
      /\ plan.useExc
    BY ScopedFacts
<1>3. NowFrames = f /\ InnermostReads' /\ started \in [Tran -> BOOLEAN]
    BY <1>1, <1>2 DEF NowFrames, InnermostReads, Types
<1>4. CASE Accepts(what, t) /\ Sent(what, t) /\ started' = [started EXCEPT ![t] = FALSE]
    <2>1. Live' = Live \ {t}
        <3>1. ~started'[t] /\ \A u \in Tran : u # t => started'[u] = started[u]
            BY <1>2, <1>3, <1>4
        <3> QED  BY <1>1, <1>2, <3>1, PlanFacts DEF Live
    <2>2. /\ ScopesAt(alive, Live \ {t}, parent, sql', disk')
          /\ Numbered(writes, sql', disk')
          /\ f # <<>> /\ Frames(Live \ {t}, parent, sql', disk') = Front(f)
          /\ \/ /\ disk' = IF Len(f) = 1 THEN sql.work ELSE disk
                /\ sql'.work = sql.work
             \/ sql'.work = Last(f) /\ disk' = disk
        BY <1>1, <1>4, EndScope
    <2>3. ScopesOK'
        BY <1>1, <1>2, <1>3, <2>1, <2>2 DEF ScopesOK
    <2>4. NowFrames' = Frames(Live \ {t}, parent, sql', disk')
        BY <1>1, <2>1 DEF NowFrames
    <2> HIDE DEF f
    <2>5. CommitStep \/ RollbackStep
        BY <1>3, <2>2, <2>4 DEF CommitStep, RollbackStep
    <2> QED  BY <2>3, <2>5 DEF StoreStep
<1>5. CASE Refused(what, t) /\ started' = [started EXCEPT ![t] = plan.useExc]
    <2>1. Live' = Live
        <3>1. started'[t] /\ \A u \in Tran : u # t => started'[u] = started[u]
            BY <1>2, <1>3, <1>5
        <3> QED  BY <1>1, <1>2, <3>1, PlanFacts DEF Live
    <2>2. sql' = sql /\ disk' = disk
        BY <1>5 DEF Refused
    <2>3. ScopesOK'
        BY <1>1, <1>2, <1>3, <2>1, <2>2 DEF ScopesOK
    <2>4. NoStep
        BY <1>1, <2>1, <2>2 DEF NoStep, NowFrames
    <2> QED  BY <2>3, <2>4 DEF StoreStep
<1> QED  BY <1>4, <1>5 DEF End

\* The innermost scope goes away once it is not started.
LEMMA DropScope ==
    ASSUME NEW A \in SUBSET Nat, NEW L, NEW p, NEW s, NEW d, ScopesAt(A, L, p, s, d),
           L \subseteq A, NEW t, Top(t, A), t \notin L,
           NEW q, \A u \in A \ {t} : q[u] = p[u]
    PROVE  ScopesAt(A \ {t}, L, q, s, d)
<1>1. t \in Nat /\ \A u \in A : u \in Nat /\ u <= t
    BY DEF Top
<1>2. \A u \in L : q[u] = p[u]
    OBVIOUS
<1>3. \A u, v \in A \ {t} : u < v => u \in L /\ q[v] # 0
    BY DEF ScopesAt
<1>4. \A v \in A \ {t} : q[v] # 0 => \E u \in A \ {t} : u < v
    <2> SUFFICES ASSUME NEW v \in A \ {t}, q[v] # 0 PROVE \E u \in A \ {t} : u < v
        OBVIOUS
    <2>1. PICK u \in A : u < v
        BY DEF ScopesAt
    <2>2. u # t
        BY <1>1, <2>1
    <2> QED  BY <2>1, <2>2
<1>5. /\ IF L = {} THEN s.auto /\ s.work = d ELSE ~s.auto /\ ~s.byName
      /\ \A u \in L : q[u] # 0 => Savepoint(s, u) # 0
      /\ \A u, v \in L : q[u] # 0 /\ u < v => Savepoint(s, u) < Savepoint(s, v)
    BY <1>2 DEF ScopesAt
<1> QED  BY <1>3, <1>4, <1>5 DEF ScopesAt

\* Nothing is read when the query of the innermost scope has ended.
LEMMA NobodyReads ==
    ASSUME Inv, Scoped, NEW t \in alive, Innermost(t), stmt[t] = "none"
    PROVE  ~Reading
<1>1. /\ Dead /\ InnermostReads /\ \A u \in alive : u = t \/ (u < t /\ u \in Live)
    BY ScopedFacts
<1>2. \A u \in Tran : stmt[u] # "rows"
    BY <1>1 DEF Dead, InnermostReads
<1> QED  BY <1>2 DEF Reading

\* What the destructor of a started transaction sends is accepted.
LEMMA DestructorEnds ==
    ASSUME Inv, Scoped, NEW t \in alive, Innermost(t), Destroy(t), UNCHANGED faults,
           started[t]
    PROVE  Ending(t) \in Endings(t) /\ Accepts(Ending(t), t) /\ Sent(Ending(t), t)
<1>1. /\ Types /\ open /\ (\A u \in Tran : doCommit[u]) /\ t \in Tran
      /\ ScopesAt(alive, Live, parent, sql, disk)
    BY ScopedFacts
<1>2. t \in Live /\ ~sql.auto
    BY <1>1 DEF Live, ScopesAt
<1>3. Ending(t) \in Endings(t) /\ Ending(t) # "nothing"
    BY <1>1 DEF Ending, Endings, CommitStmt, RollbackStmt
<1>4. ~Reading
    <2>1. stmt[t] = "none"
        BY DEF Destroy
    <2> QED  BY <2>1, NobodyReads
<1>5. Accepts(Ending(t), t)
    <2>1. CASE parent[t] = 0
        <3>1. Ending(t) \in {"commit", "rollback"}
            BY <1>3, <2>1, EndingIs
        <3> QED  BY <1>2, <1>4, <3>1 DEF Accepts
    <2>2. CASE parent[t] # 0
        <3>1. Ending(t) \in {"release", "rollbackTo"}
            BY <1>3, <2>2, EndingIs
        <3>2. Savepoint(sql, t) # 0
            BY <1>1, <1>2, <2>2 DEF ScopesAt
        <3> QED  BY <1>4, <3>1, <3>2 DEF Accepts
    <2> QED  BY <2>1, <2>2
<1>6. ~Refused(Ending(t), t)
    <2>1. faults \in Nat /\ faults' = faults
        BY <1>1 DEF Types
    <2>2. faults' # faults + 1
        BY <2>1
    <2> QED  BY <1>5, <2>2 DEF Refused
<1>7. Sent(Ending(t), t)
    BY <1>1, <1>3, <1>6 DEF Destroy
<1> QED  BY <1>3, <1>5, <1>7

LEMMA DestroyScope ==
    ASSUME Inv, Scoped, NEW t \in alive, Innermost(t), Destroy(t), UNCHANGED faults
    PROVE  ScopesOK' /\ StoreStep
<1> DEFINE f == Frames(Live, parent, sql, disk)
           M == Live \ {t}
<1>1. /\ Types /\ open /\ (\A u \in Tran : doCommit[u]) /\ InnermostReads /\ t \in Tran
      /\ ScopesAt(alive, Live, parent, sql, disk) /\ Numbered(writes, sql, disk)
      /\ Top(t, alive) /\ alive \in SUBSET Nat /\ Live \subseteq alive
      /\ trans \in Nat /\ Live \in SUBSET (1 .. trans)
    BY ScopedFacts
<1>2. /\ alive' = alive \ {t} /\ plan' = plan /\ open' = open /\ writes' = writes
      /\ stmt' = stmt /\ doCommit'[t] /\ Live' = M
      /\ \A u \in Tran : u # t => parent'[u] = parent[u] /\ doCommit'[u] = doCommit[u]
    BY <1>1, DestroyIs
<1>3. NowFrames = f /\ InnermostReads' /\ \A u \in Tran : doCommit'[u]
    BY <1>1, <1>2 DEF NowFrames, InnermostReads
<1>4. /\ ScopesAt(alive, M, parent, sql', disk') /\ Numbered(writes, sql', disk')
      /\ \/ /\ f # <<>> /\ Frames(M, parent, sql', disk') = Front(f)
            /\ \/ /\ disk' = IF Len(f) = 1 THEN sql.work ELSE disk
                  /\ sql'.work = sql.work
               \/ sql'.work = Last(f) /\ disk' = disk
         \/ Frames(M, parent, sql', disk') = f /\ sql'.work = sql.work /\ disk' = disk
    <2>1. CASE started[t]
        <3>1. Ending(t) \in Endings(t) /\ Accepts(Ending(t), t) /\ Sent(Ending(t), t)
            BY <2>1, DestructorEnds
        <3> QED  BY <2>1, <3>1, EndScope
    <2>2. CASE ~started[t]
        <3>1. sql' = sql /\ disk' = disk
            BY <2>2 DEF Destroy
        <3>2. M = Live
            BY <2>2 DEF Live
        <3> QED  BY <1>1, <3>1, <3>2
    <2> QED  BY <2>1, <2>2
<1>5. \A u \in alive \ {t} : parent'[u] = parent[u]
    BY <1>1, <1>2, PlanFacts
<1>6. ScopesAt(alive \ {t}, M, parent', sql', disk')
    <2>1. M \subseteq alive /\ t \notin M
        BY <1>1
    <2> HIDE DEF M
    <2> QED  BY <1>1, <1>4, <1>5, <2>1, DropScope
<1>7. ScopesOK'
    BY <1>1, <1>2, <1>3, <1>4, <1>6 DEF ScopesOK
<1>8. NowFrames' = Frames(M, parent, sql', disk')
    <2>1. M \in SUBSET (1 .. trans) /\ M \subseteq alive \ {t}
        BY <1>1
    <2>2. SameFrames(M, parent', sql', disk', parent, sql', disk')
        BY <1>5, <2>1 DEF SameFrames, FrameOf
    <2>3. Frames(M, parent', sql', disk') = Frames(M, parent, sql', disk')
        BY ONLY <1>1, <2>1, <2>2, FramesSame
    <2> QED  BY <1>2, <2>3 DEF NowFrames
<1> HIDE DEF f, M
<1>9. CommitStep \/ RollbackStep \/ NoStep
    BY <1>3, <1>4, <1>8 DEF CommitStep, RollbackStep, NoStep
<1> QED  BY <1>7, <1>9 DEF StoreStep

\* A new scope inside the started ones; nothing is sent.
LEMMA NewTranScope ==
    ASSUME Inv, Scoped, NEW p \in alive \cup {0}, NewTran(p),
           \/ alive = {} /\ p = 0
           \/ p \in alive /\ Innermost(p) /\ started[p] /\ ~Reading
    PROVE  ScopesOK' /\ StoreStep
<1> DEFINE n == trans + 1
<1>1. /\ open /\ (\A u \in Tran : doCommit[u]) /\ InnermostReads
      /\ ScopesAt(alive, Live, parent, sql, disk) /\ Numbered(writes, sql, disk)
      /\ Base /\ Types
    BY DEF Inv, Base, ScopesOK
<1>2. /\ alive' = alive \cup {n} /\ plan' = plan /\ open' = open /\ doCommit' = doCommit
      /\ stmt' = stmt /\ sql' = sql /\ disk' = disk /\ writes' = writes
    BY DEF NewTran
<1>3. /\ Live' = Live /\ n \in Tran /\ n \notin alive
      /\ \A t \in alive : t < n /\ parent'[t] = parent[t]
      /\ parent'[n] = p
    BY <1>1, NewTranBase
<1>4. /\ alive \in SUBSET Nat /\ n \in Nat /\ Live \subseteq alive /\ trans \in Nat
      /\ Live \in SUBSET (1 .. trans)
    <2>1. alive \in SUBSET (1 .. trans) /\ trans \in Nat
        BY <1>1 DEF Types
    <2>2. Live \subseteq alive
        BY DEF Live
    <2>3. alive \in SUBSET Nat /\ n \in Nat
        BY <2>1
    <2> QED  BY <2>1, <2>2, <2>3
<1>5. \A u \in alive : u \in Live
    <2>1. CASE alive = {}
        BY <2>1
    <2>2. CASE p \in alive /\ Innermost(p) /\ started[p]
        <3>1. p \in Live /\ \A u \in alive : u = p \/ (u < p /\ u \in Live)
            BY <2>2, ScopedFacts DEF Live
        <3> QED  BY <3>1
    <2> QED  BY <2>1, <2>2
<1>6. /\ p = 0 => alive = {}
      /\ p # 0 => p \in alive /\ p < n
      /\ alive # {} => p # 0
    <2>1. p \in alive => p # 0
        BY <1>1, PlanFacts
    <2> QED  BY <1>3, <2>1
<1> HIDE DEF n
<1>7. ScopesAt(alive', Live, parent', sql, disk)
    <2>1. \A u, v \in alive' : u < v => u \in Live /\ parent'[v] # 0
        <3> SUFFICES ASSUME NEW u \in alive', NEW v \in alive', u < v
                     PROVE  u \in Live /\ parent'[v] # 0
            OBVIOUS
        <3>1. u \in alive
            BY <1>2, <1>3, <1>4
        <3>2. CASE v = n
            BY <1>3, <1>5, <1>6, <3>1, <3>2
        <3>3. CASE v \in alive
            <4>1. parent[v] # 0
                BY <1>1, <3>1, <3>3 DEF ScopesAt
            <4> QED  BY <1>3, <1>5, <3>1, <3>3, <4>1
        <3> QED  BY <1>2, <3>2, <3>3
    <2>2. \A v \in alive' : parent'[v] # 0 => \E u \in alive' : u < v
        <3> SUFFICES ASSUME NEW v \in alive', parent'[v] # 0
                     PROVE  \E u \in alive' : u < v
            OBVIOUS
        <3>1. CASE v = n
            BY <1>2, <1>3, <1>6, <3>1
        <3>2. CASE v \in alive
            <4>1. PICK u \in alive : u < v
                BY <1>1, <1>3, <3>2 DEF ScopesAt
            <4> QED  BY <1>2, <4>1
        <3> QED  BY <1>2, <3>1, <3>2
    <2>3. \A u \in Live : parent'[u] = parent[u]
        BY <1>3, <1>4
    <2> QED  BY <1>1, <2>1, <2>2, <2>3 DEF ScopesAt
<1>8. InnermostReads'
    <2> SUFFICES ASSUME NEW u \in alive', NEW v \in alive', u < v PROVE stmt[u] # "rows"
        BY <1>2 DEF InnermostReads
    <2>1. u \in alive /\ u \in Tran
        BY <1>1, <1>2, <1>3, <1>4, PlanFacts
    <2>2. ~Reading
        BY <2>1
    <2> QED  BY <2>1, <2>2 DEF Reading
<1>9. ScopesOK'
    BY <1>1, <1>2, <1>3, <1>7, <1>8 DEF ScopesOK
<1>10. NoStep
    <2>1. \A u \in Live : parent'[u] = parent[u]
        BY <1>3, <1>4
    <2>2. SameFrames(Live, parent', sql, disk, parent, sql, disk)
        BY <2>1 DEF SameFrames, FrameOf
    <2>3. Frames(Live, parent', sql, disk) = Frames(Live, parent, sql, disk)
        BY ONLY <1>4, <2>2, FramesSame
    <2> QED  BY <1>2, <1>3, <2>3 DEF NoStep, NowFrames
<1> QED  BY <1>9, <1>10 DEF StoreStep

LEMMA OnDestructScope ==
    ASSUME Inv, Scoped, NEW t \in alive, Innermost(t), OnDestruct(t, TRUE, TRUE)
    PROVE  ScopesOK' /\ StoreStep
<1>1. /\ doCommit' = [doCommit EXCEPT ![t] = TRUE]
      /\ UNCHANGED <<plan, open, trans, alive, parent, started, stmt, sql, disk, writes>>
    BY DEF OnDestruct
<1>2. /\ Types /\ open /\ (\A u \in Tran : doCommit[u]) /\ InnermostReads
      /\ ScopesAt(alive, Live, parent, sql, disk) /\ Numbered(writes, sql, disk)
    BY ScopedFacts
<1>3. \A u \in Tran : doCommit'[u]
    BY <1>1, <1>2 DEF Types
<1>4. Live' = Live /\ InnermostReads'
    BY <1>1, <1>2 DEF Live, InnermostReads
<1>5. ScopesOK'
    BY <1>1, <1>2, <1>3, <1>4 DEF ScopesOK
<1>6. NoStep
    BY <1>1, <1>4 DEF NoStep, NowFrames
<1> QED  BY <1>5, <1>6 DEF StoreStep

LEMMA EndRowsScope ==
    ASSUME Inv, Scoped, NEW t \in alive, Innermost(t), EndRows(t, "none")
    PROVE  ScopesOK' /\ StoreStep
<1>1. /\ stmt' = [stmt EXCEPT ![t] = "none"]
      /\ UNCHANGED <<plan, open, alive, parent, doCommit, started, sql, disk, writes>>
    BY DEF EndRows, objects
<1>2. /\ Types /\ open /\ (\A u \in Tran : doCommit[u]) /\ InnermostReads
      /\ ScopesAt(alive, Live, parent, sql, disk) /\ Numbered(writes, sql, disk)
    BY ScopedFacts
<1>3. InnermostReads'
    BY <1>1, <1>2 DEF InnermostReads, Types
<1>4. Live' = Live
    BY <1>1 DEF Live
<1>5. ScopesOK'
    BY <1>1, <1>2, <1>3, <1>4 DEF ScopesOK
<1>6. NoStep
    BY <1>1, <1>4 DEF NoStep, NowFrames
<1> QED  BY <1>5, <1>6 DEF StoreStep

-----------------------------------------------------------------------------
(* The steps of the clients.                                               *)

LEMMA AnyBase ==
    ASSUME Base, AnyClient
    PROVE  Base'
<1>1. CASE \E p \in alive \cup {0} : NewTran(p)
    BY <1>1, NewTranBase
<1>2. CASE Close \/ Open
    BY <1>2, ConnBase
<1>3. ASSUME NEW t \in alive,
             \/ \E commit, rollback \in BOOLEAN : OnDestruct(t, commit, rollback)
             \/ Execute(t) \/ ExecuteRefused(t) \/ ExecuteFails(t) \/ QueryRows(t)
             \/ \E left \in {"none", "ready"} : EndRows(t, left)
             \/ End(CommitStmt(t), t) \/ End(RollbackStmt(t), t)
             \/ Destroy(t)
      PROVE  Base'
    <2>1. CASE \E commit, rollback \in BOOLEAN : OnDestruct(t, commit, rollback)
        BY <2>1, OnDestructBase
    <2>2. CASE Execute(t) \/ ExecuteRefused(t) \/ ExecuteFails(t) \/ QueryRows(t)
        BY <2>2, ExecuteBase, ExecuteRefusedBase, ExecuteFailsBase, QueryRowsBase
    <2>3. CASE \E left \in {"none", "ready"} : EndRows(t, left)
        BY <2>3, EndRowsBase
    <2>4. CASE End(CommitStmt(t), t) \/ End(RollbackStmt(t), t)
        <3>1. CommitStmt(t) \in Endings(t) /\ RollbackStmt(t) \in Endings(t)
            BY DEF Endings
        <3> QED  BY <2>4, <3>1, EndBase
    <2>5. CASE Destroy(t)
        BY <2>5, DestroyBase
    <2> QED  BY <1>3, <2>1, <2>2, <2>3, <2>4, <2>5
<1> QED  BY <1>1, <1>2, <1>3 DEF AnyClient

LEMMA NestedBase ==
    ASSUME Base, NestedClient
    PROVE  Base'
<1>1. CASE alive = {} /\ NewTran(0)
    BY <1>1, NewTranBase
<1>2. ASSUME NEW t \in alive, Innermost(t),
             \/ started[t] /\ ~Reading /\ NewTran(t)
             \/ OnDestruct(t, TRUE, TRUE)
             \/ Execute(t) \/ ExecuteRefused(t)
             \/ QueryRows(t) \/ EndRows(t, "none")
             \/ End(CommitStmt(t), t) \/ End(RollbackStmt(t), t)
             \/ Destroy(t) /\ UNCHANGED faults
      PROVE  Base'
    <2>1. CASE NewTran(t)
        BY <2>1, NewTranBase
    <2>2. CASE OnDestruct(t, TRUE, TRUE)
        BY <2>2, OnDestructBase
    <2>3. CASE \/ Execute(t) \/ ExecuteRefused(t)
               \/ QueryRows(t) \/ EndRows(t, "none")
        BY <2>3, ExecuteBase, ExecuteRefusedBase, QueryRowsBase, EndRowsBase
    <2>4. CASE End(CommitStmt(t), t) \/ End(RollbackStmt(t), t)
        <3>1. CommitStmt(t) \in Endings(t) /\ RollbackStmt(t) \in Endings(t)
            BY DEF Endings
        <3> QED  BY <2>4, <3>1, EndBase
    <2>5. CASE Destroy(t)
        BY <2>5, DestroyBase
    <2> QED  BY <1>2, <2>1, <2>2, <2>3, <2>4, <2>5
<1> QED  BY <1>1, <1>2 DEF NestedClient

LEMMA NestedScopes ==
    ASSUME Inv, Scoped, NestedClient
    PROVE  ScopesOK' /\ StoreStep
<1>1. CASE alive = {} /\ NewTran(0)
    BY <1>1, NewTranScope
<1>2. ASSUME NEW t \in alive, Innermost(t),
             \/ started[t] /\ ~Reading /\ NewTran(t)
             \/ OnDestruct(t, TRUE, TRUE)
             \/ Execute(t) \/ ExecuteRefused(t)
             \/ QueryRows(t) \/ EndRows(t, "none")
             \/ End(CommitStmt(t), t) \/ End(RollbackStmt(t), t)
             \/ Destroy(t) /\ UNCHANGED faults
      PROVE  ScopesOK' /\ StoreStep
    <2>1. CASE started[t] /\ ~Reading /\ NewTran(t)
        BY <1>2, <2>1, NewTranScope
    <2>2. CASE OnDestruct(t, TRUE, TRUE)
        BY <1>2, <2>2, OnDestructScope
    <2>3. CASE \/ Execute(t) \/ ExecuteRefused(t)
               \/ QueryRows(t) \/ EndRows(t, "none")
        BY <1>2, <2>3, ExecuteScope, QueryRowsScope, EndRowsScope
    <2>4. CASE End(CommitStmt(t), t) \/ End(RollbackStmt(t), t)
        <3>1. CommitStmt(t) \in Endings(t) /\ RollbackStmt(t) \in Endings(t)
            BY DEF Endings
        <3> QED  BY <1>2, <2>4, <3>1, EndActionScope
    <2>5. CASE Destroy(t) /\ UNCHANGED faults
        BY <1>2, <2>5, DestroyScope
    <2> QED  BY <1>2, <2>1, <2>2, <2>3, <2>4, <2>5
<1> QED  BY <1>1, <1>2 DEF NestedClient

\* The plan never changes.
LEMMA PlanStays ==
    ASSUME Next
    PROVE  plan' = plan
BY DEF Next, AnyClient, NestedClient, NewTran, OnDestruct, Execute, ExecuteRefused,
       ExecuteFails, QueryRows, EndRows, End, Destroy, Close, Open, HandleGone

LEMMA Initial ==
    ASSUME Init
    PROVE  Inv
<1>1. Types
    <2>1. MaxTran \in Nat
        BY Slt3Assumption
    <2>2. SqlOK(sql)
        BY IdleIs DEF Init
    <2>3. /\ trans \in 0 .. MaxTran /\ alive \in SUBSET (1 .. trans)
          /\ writes \in Nat /\ faults \in Nat /\ disk \in SUBSET Nat
        BY <2>1 DEF Init
    <2>4. /\ plan \in Plans /\ open \in BOOLEAN /\ cut \in SUBSET Tran
          /\ parent \in [Tran -> Nat] /\ started \in [Tran -> BOOLEAN]
          /\ doRollback \in [Tran -> BOOLEAN] /\ doCommit \in [Tran -> BOOLEAN]
          /\ stmt \in [Tran -> {"none", "ready", "rows", "lost"}]
        BY DEF Init
    <2> QED  BY <2>2, <2>3, <2>4 DEF Types
<1>2. Dead
    BY DEF Init, Dead
<1>3. Live = {} /\ alive = {}
    BY DEF Init, Live
<1>4. OneMain
    BY <1>3 DEF OneMain, MainsOK
<1>5. sql.auto /\ sql.work = {} /\ sql.stack = <<>> /\ disk = {} /\ writes = 0
    BY DEF Init, Idle
<1>6. ScopesAt(alive, Live, parent, sql, disk)
    BY <1>3, <1>5 DEF ScopesAt
<1>7. Numbered(writes, sql, disk)
    <2>1. Len(sql.stack) = 0
        BY <1>5
    <2>2. \A i \in 1 .. Len(sql.stack) : FALSE
        BY <2>1
    <2> QED  BY <1>5, <2>2 DEF Numbered
<1>8. open /\ (\A t \in Tran : doCommit[t]) /\ InnermostReads
    BY DEF Init, InnermostReads
<1> QED  BY <1>1, <1>2, <1>4, <1>6, <1>7, <1>8 DEF Inv, Base, ScopesOK

LEMMA Step ==
    ASSUME Inv, [Next]_vars
    PROVE  Inv' /\ (Scoped => StoreStep) /\ plan' = plan
<1>1. CASE Next
    <2>1. plan' = plan
        BY <1>1, PlanStays
    <2>2. Base'
        BY <1>1, AnyBase, NestedBase DEF Next, Inv
    <2>3. CASE Scoped
        <3>1. NestedClient
            BY <1>1, <2>3 DEF Next, Scoped
        <3> QED  BY <2>1, <2>2, <2>3, <3>1, NestedScopes DEF Inv
    <2>4. CASE ~Scoped
        <3>1. ScopesOK'
            BY <2>1, <2>4 DEF ScopesOK, Scoped
        <3> QED  BY <2>1, <2>2, <2>4, <3>1 DEF Inv
    <2> QED  BY <2>3, <2>4
<1>2. CASE UNCHANGED vars
    <2>1. /\ UNCHANGED <<plan, open, trans, alive, parent, started, doRollback, doCommit>>
          /\ UNCHANGED <<stmt, sql, disk, writes, faults, cut>>
        BY <1>2 DEF vars
    <2>2. Live' = Live /\ Scoped' = Scoped
        BY <2>1 DEF Live, Scoped
    <2>3. Types' /\ Dead'
        BY <2>1 DEF Inv, Base, Types, Dead
    <2>4. OneMain'
        BY <2>1, <2>2 DEF Inv, Base, OneMain
    <2>5. ScopesOK'
        BY <2>1, <2>2 DEF Inv, ScopesOK, InnermostReads
    <2>6. NoStep
        BY <2>1, <2>2 DEF NoStep, NowFrames
    <2> QED  BY <2>1, <2>3, <2>4, <2>5, <2>6 DEF Inv, Base, StoreStep
<1> QED  BY <1>1, <1>2

\* However objects and the connection are used, and whatever SQLite refuses.
THEOREM Slt3Invariant == Spec => []Inv
<1>1. Init => Inv
    BY Initial
<1>2. Inv /\ [Next]_vars => Inv'
    BY Step
<1> QED  BY <1>1, <1>2, PTL DEF Spec

-----------------------------------------------------------------------------
\* start(), commit(), rollback(), close() and open(): with exceptions on, among the
\* main transactions that have not lost theirs (to SQLite, to another handle, or to
\* an object that had lost its own) at most one is started, and SQLite is then in
\* the transaction of its BEGIN, not in one that a savepoint opened.
THEOREM Slt3MainOwns == Spec => []MainOwnsTransaction
<1>1. Inv => MainOwnsTransaction
    <2> DEFINE mains == {t \in Live \ cut : parent[t] = 0}
    <2> SUFFICES ASSUME Inv, plan.useExc, mains # {}
                 PROVE  Cardinality(mains) = 1 /\ ~sql.auto /\ ~sql.byName
        BY DEF MainOwnsTransaction
    <2>1. PICK t \in Live \ cut : parent[t] = 0 /\ t \in mains
        OBVIOUS
    <2>2. MainsOK(Live \ cut, parent, sql)
        BY DEF Inv, Base, OneMain
    <2>3. mains = {t}
        BY <2>1, <2>2 DEF MainsOK
    <2>4. Cardinality({t}) = 1
        BY FS_Singleton
    <2>5. ~sql.auto /\ ~sql.byName
        BY <2>1, <2>2 DEF MainsOK
    <2> QED  BY <2>3, <2>4, <2>5
<1> QED  BY <1>1, Slt3Invariant, PTL

\* ~tran(): when all nested scopes have ended, SQLite is outside a transaction and
\* what it shows is what is stored.
THEOREM Slt3NoneLeftOpen == Spec => []NoTransactionLeftOpen
<1>1. Inv => NoTransactionLeftOpen
    <2> SUFFICES ASSUME Inv, Scoped, alive = {} PROVE sql.auto /\ sql.work = disk
        BY DEF NoTransactionLeftOpen
    <2>1. Live = {}
        BY DEF Live
    <2> QED  BY <2>1 DEF Inv, ScopesOK, ScopesAt
<1> QED  BY <1>1, Slt3Invariant, PTL

\* tran, nested in scopes, with exceptions on: every step of the code is a step of
\* nested transactions as NestedStore has them, or is not seen there.
THEOREM Slt3ImplementsNestedStore == Spec => ImplementsNestedStore
<1> DEFINE d == IF Scoped THEN disk ELSE {}
           w == IF Scoped THEN sql.work ELSE {}
           f == IF Scoped THEN [i \in DOMAIN Running |-> Frame(Running[i])] ELSE <<>>
<1>1. f = IF Scoped THEN NowFrames ELSE <<>>
    BY DEF NowFrames, Frames, FrameOf, Frame, Running
<1>2. Init => Promise!AInit
    <2> SUFFICES ASSUME Init PROVE d = {} /\ w = {} /\ f = <<>>
        BY DEF Promise!AInit
    <2>1. d = {} /\ w = {}
        BY DEF Init, Idle
    <2>2. NowFrames = <<>>
        <3>1. Live = {}
            BY DEF Init, Live
        <3>2. InOrder({}) \in [1 .. 0 -> {}]
            BY HasList, FS_EmptySet DEF Lists
        <3> QED  BY <3>1, <3>2 DEF NowFrames, Frames
    <2> QED  BY <1>1, <2>1, <2>2
<1>3. Inv /\ [Next]_vars => [Promise!ANext]_<<d, w, f>>
    <2> SUFFICES ASSUME Inv, [Next]_vars
                 PROVE  Promise!ANext \/ (d' = d /\ w' = w /\ f' = f)
        OBVIOUS
    <2>1. plan' = plan /\ (Scoped => StoreStep) /\ Scoped' = Scoped
        BY Step DEF Scoped
    <2>2. f' = IF Scoped' THEN NowFrames' ELSE <<>>
        BY DEF NowFrames, Frames, FrameOf, Frame, Running
    <2>3. CASE ~Scoped
        <3>1. d' = d /\ w' = w /\ f' = f
            BY <1>1, <2>1, <2>2, <2>3
        <3> QED  BY <3>1
    <2>4. CASE Scoped
        <3>1. /\ d = disk /\ d' = disk' /\ w = sql.work /\ w' = sql'.work
              /\ f = NowFrames /\ f' = NowFrames'
            BY <1>1, <2>1, <2>2, <2>4
        <3>2. CASE BeginStep
            <4>1. f' = Append(f, w) /\ d' = d /\ w' = w
                BY <3>1, <3>2 DEF BeginStep
            <4> QED  BY <4>1 DEF Promise!ANext, Promise!ABegin
        <3>3. CASE WriteStep
            <4>1. /\ f' \in {f, Append(f, w)} /\ f' # <<>> /\ w \subseteq w' /\ w' # w
                  /\ d' = d
                BY <3>1, <3>3 DEF WriteStep
            <4> QED  BY <4>1 DEF Promise!ANext, Promise!AWrite
        <3>4. CASE CommitStep
            <4>1. /\ f # <<>> /\ f' = Front(f) /\ w' = w
                  /\ d' = IF Len(f) = 1 THEN w ELSE d
                BY <3>1, <3>4 DEF CommitStep
            <4> QED  BY <4>1 DEF Promise!ANext, Promise!ACommit, Promise!Front, Front
        <3>5. CASE RollbackStep
            <4>1. f # <<>> /\ f' = Front(f) /\ w' = Last(f) /\ d' = d
                BY <3>1, <3>5 DEF RollbackStep
            <4> QED  BY <4>1 DEF Promise!ANext, Promise!ARollback, Promise!Front,
                                 Promise!Last, Front, Last
        <3>6. CASE NoStep
            <4>1. d' = d /\ w' = w /\ f' = f
                BY <3>1, <3>6 DEF NoStep
            <4> QED  BY <4>1
        <3> QED  BY <2>1, <2>4, <3>2, <3>3, <3>4, <3>5, <3>6 DEF StoreStep
    <2> QED  BY <2>3, <2>4
<1> QED  BY <1>2, <1>3, Slt3Invariant, PTL
         DEF Spec, ImplementsNestedStore, Promise!ASpec
=============================================================================
