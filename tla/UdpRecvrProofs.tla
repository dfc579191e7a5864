--------------------------- MODULE UdpRecvrProofs ----------------------------
(***************************************************************************)
(* Proofs for CircBuf and for the UDP server on top of it (UdpRecvr), for  *)
(* every capacity, every number of workers and all three kinds of clients  *)
(* of MCUdpRecvr: which slot is on which list, how n_items_ relates to the *)
(* lists, that no handler copies a slot the receiver writes, that every    *)
(* stored message has its notification, and that circbuf is a lossy queue. *)
(***************************************************************************)
EXTENDS MCUdpRecvr, FiniteSetTheorems, SequenceTheorems, TLAPS

-----------------------------------------------------------------------------
(* Lists of slots.  The moves between them are reasoned about with Has     *)
(* alone; positions occur in the lemmas of this section only.              *)

Has(list, s) == \E i \in 1..Len(list) : list[i] = s

\* No slot above n, and none twice.
List(list, n) ==
    /\ list \in Seq(1..n)
    /\ \A i, j \in 1..Len(list) : list[i] = list[j] => i = j

\* Unlinking the end of a list.
LEMMA TakeHead ==
    ASSUME NEW n \in Nat, NEW list, List(list, n), list # <<>>
    PROVE  /\ List(Tail(list), n)
           /\ Head(list) \in 1..n
           /\ Len(Tail(list)) = Len(list) - 1
           /\ Len(list) \in Nat \ {0}
           /\ ~Has(Tail(list), Head(list))
           /\ \A s : Has(list, s) <=> s = Head(list) \/ Has(Tail(list), s)
<1>1. Len(list) \in Nat \ {0} /\ Len(Tail(list)) = Len(list) - 1
    BY DEF List
<1>2. \A i \in 1..Len(Tail(list)) : Tail(list)[i] = list[i + 1]
    BY DEF List
<1>3. List(Tail(list), n) /\ ~Has(Tail(list), Head(list))
    BY <1>1, <1>2 DEF List, Has
<1>4. ASSUME NEW s
      PROVE  Has(list, s) <=> s = Head(list) \/ Has(Tail(list), s)
    <2>1. ASSUME Has(list, s)
          PROVE  s = Head(list) \/ Has(Tail(list), s)
        <3>1. PICK i \in 1..Len(list) : list[i] = s
            BY <2>1 DEF Has
        <3>2. CASE i = 1
            BY <3>1, <3>2 DEF List
        <3>3. CASE i # 1
            <4>1. i - 1 \in 1..Len(Tail(list))
                BY <1>1, <3>3
            <4>2. Tail(list)[i - 1] = s
                BY <1>2, <3>1, <4>1
            <4> QED  BY <4>1, <4>2 DEF Has
        <3> QED  BY <3>2, <3>3
    <2>2. ASSUME s = Head(list) \/ Has(Tail(list), s)
          PROVE  Has(list, s)
        BY <1>1, <1>2, <2>2 DEF List, Has
    <2> QED  BY <2>1, <2>2
<1> QED  BY <1>1, <1>3, <1>4 DEF List

\* Linking a slot in at the front of active or free (link_after()).
LEMMA AddLast ==
    ASSUME NEW n \in Nat, NEW list, List(list, n), NEW s \in 1..n, ~Has(list, s)
    PROVE  /\ List(Append(list, s), n)
           /\ Append(list, s) # <<>>
           /\ Len(Append(list, s)) = Len(list) + 1
           /\ \A t : Has(Append(list, s), t) <=> t = s \/ Has(list, t)
<1>1. /\ Append(list, s) \in Seq(1..n)
      /\ Len(list) \in Nat
      /\ Len(Append(list, s)) = Len(list) + 1
      /\ \A i \in 1..Len(list) : Append(list, s)[i] = list[i]
      /\ Append(list, s)[Len(list) + 1] = s
    BY DEF List
<1>2. List(Append(list, s), n)
    BY <1>1 DEF List, Has
<1>3. ASSUME NEW t
      PROVE  Has(Append(list, s), t) <=> t = s \/ Has(list, t)
    BY <1>1 DEF Has
<1> QED  BY <1>1, <1>2, <1>3

\* Linking a slot in at the front of preplist_.
LEMMA AddFirst ==
    ASSUME NEW n \in Nat, NEW list, List(list, n), NEW s \in 1..n, ~Has(list, s)
    PROVE  /\ List(<<s>> \o list, n)
           /\ <<s>> \o list # <<>>
           /\ Head(<<s>> \o list) = s
           /\ Len(<<s>> \o list) = Len(list) + 1
           /\ \A t : Has(<<s>> \o list, t) <=> t = s \/ Has(list, t)
<1> DEFINE new == <<s>> \o list
<1>1. /\ new \in Seq(1..n)
      /\ Len(list) \in Nat
      /\ Len(new) = Len(list) + 1
      /\ new[1] = s
      /\ \A i \in 2..Len(new) : new[i] = list[i - 1]
    BY DEF List
<1>2. List(new, n)
    <2> SUFFICES ASSUME NEW i \in 1..Len(new), NEW j \in 1..Len(new),
                        new[i] = new[j]
                 PROVE  i = j
        BY <1>1 DEF List
    <2>1. \/ i = 1 /\ new[i] = s
          \/ i - 1 \in 1..Len(list) /\ new[i] = list[i - 1]
        BY <1>1
    <2>2. \/ j = 1 /\ new[j] = s
          \/ j - 1 \in 1..Len(list) /\ new[j] = list[j - 1]
        BY <1>1
    <2>3. \A k \in 1..Len(list) : list[k] # s
        BY DEF Has
    <2>4. CASE i = 1
        BY <2>1, <2>2, <2>3, <2>4
    <2>5. CASE j = 1
        BY <2>1, <2>2, <2>3, <2>5
    <2>6. CASE i # 1 /\ j # 1
        <3>1. list[i - 1] = list[j - 1] /\ i - 1 \in 1..Len(list)
              /\ j - 1 \in 1..Len(list)
            BY <2>1, <2>2, <2>6
        <3>2. i - 1 = j - 1
            BY <3>1 DEF List
        <3> QED  BY <3>2
    <2> QED  BY <2>4, <2>5, <2>6
<1>3. ASSUME NEW t
      PROVE  Has(new, t) <=> t = s \/ Has(list, t)
    <2>1. ASSUME Has(new, t)
          PROVE  t = s \/ Has(list, t)
        <3>1. PICK i \in 1..Len(new) : new[i] = t
            BY <2>1 DEF Has
        <3>2. i = 1 \/ (i - 1 \in 1..Len(list) /\ i \in 2..Len(new))
            BY <1>1
        <3> QED  BY <1>1, <3>1, <3>2 DEF Has
    <2>2. ASSUME NEW j \in 1..Len(list), list[j] = t
          PROVE  Has(new, t)
        <3>1. j + 1 \in 2..Len(new) /\ j + 1 \in 1..Len(new) /\ (j + 1) - 1 = j
            BY <1>1
        <3>2. new[j + 1] = t
            BY <1>1, <2>2, <3>1
        <3> QED  BY <3>1, <3>2 DEF Has
    <2>3. ASSUME t = s
          PROVE  Has(new, t)
        BY <1>1, <2>3 DEF Has
    <2> QED  BY <2>1, <2>2, <2>3 DEF Has
<1>4. Head(new) = s /\ new # <<>>
    BY <1>1
<1> QED  BY <1>1, <1>2, <1>3, <1>4

\* A new slot is on no list.
LEMMA NewSlot ==
    ASSUME NEW n \in Nat, NEW list, List(list, n)
    PROVE  List(list, n + 1) /\ ~Has(list, n + 1)
BY DEF List, Has

LEMMA Members ==
    ASSUME NEW n \in Nat, NEW list, List(list, n)
    PROVE  /\ Len(list) \in Nat
           /\ Len(list) = 0 <=> list = <<>>
           /\ \A s : Has(list, s) => s \in 1..n
BY DEF List, Has

\* No slot is on two lists.
Linked(a, f, p, n) ==
    /\ List(a, n) /\ List(f, n) /\ List(p, n)
    /\ \A s \in 1..n : /\ ~(Has(a, s) /\ Has(f, s))
                       /\ ~(Has(a, s) /\ Has(p, s))
                       /\ ~(Has(f, s) /\ Has(p, s))

\* Every allocated slot is on a list.
Whole(a, f, p, n) ==
    /\ Len(a) + Len(f) + Len(p) = n
    /\ \A s \in 1..n : Has(a, s) \/ Has(f, s) \/ Has(p, s)

\* Two lists without a common slot, one after the other.
LEMMA Joined ==
    ASSUME NEW n \in Nat, NEW k, NEW l, List(k, n), List(l, n),
           \A s \in 1..n : ~(Has(k, s) /\ Has(l, s))
    PROVE  /\ List(k \o l, n)
           /\ \A s : Has(k \o l, s) <=> Has(k, s) \/ Has(l, s)
<1> DEFINE new == k \o l
<1>1. /\ new \in Seq(1..n)
      /\ Len(k) \in Nat /\ Len(l) \in Nat
      /\ Len(new) = Len(k) + Len(l)
      /\ \A i \in 1..Len(k) : new[i] = k[i] /\ k[i] \in 1..n /\ Has(k, k[i])
      /\ \A i \in 1..Len(l) : new[Len(k) + i] = l[i] /\ l[i] \in 1..n
                             /\ Has(l, l[i])
    BY DEF List, Has
<1>2. ASSUME NEW i \in 1..Len(new)
      PROVE  \/ i \in 1..Len(k) /\ new[i] = k[i]
             \/ i - Len(k) \in 1..Len(l) /\ new[i] = l[i - Len(k)]
    <2>1. CASE i <= Len(k)
        BY <1>1, <2>1
    <2>2. CASE i > Len(k)
        <3>1. i - Len(k) \in 1..Len(l) /\ Len(k) + (i - Len(k)) = i
            BY <1>1, <2>2
        <3> QED  BY <1>1, <3>1
    <2> QED  BY <1>1, <2>1, <2>2
<1>3. ASSUME NEW i \in 1..Len(new), NEW j \in 1..Len(new), new[i] = new[j]
      PROVE  i = j
    <2>1. CASE i \in 1..Len(k) /\ new[i] = k[i] /\ j \in 1..Len(k) /\ new[j] = k[j]
        BY <1>3, <2>1 DEF List
    <2>2. CASE /\ i - Len(k) \in 1..Len(l) /\ new[i] = l[i - Len(k)]
               /\ j - Len(k) \in 1..Len(l) /\ new[j] = l[j - Len(k)]
        <3>1. i - Len(k) = j - Len(k)
            BY <1>3, <2>2 DEF List
        <3> QED  BY <1>1, <3>1
    <2>3. CASE \/ /\ i \in 1..Len(k) /\ new[i] = k[i]
                  /\ j - Len(k) \in 1..Len(l) /\ new[j] = l[j - Len(k)]
               \/ /\ j \in 1..Len(k) /\ new[j] = k[j]
                  /\ i - Len(k) \in 1..Len(l) /\ new[i] = l[i - Len(k)]
        <3>1. Has(k, new[i]) /\ Has(l, new[i]) /\ new[i] \in 1..n
            BY <1>1, <1>3, <2>3
        <3> QED  BY <3>1
    <2>4. \/ i \in 1..Len(k) /\ new[i] = k[i]
          \/ i - Len(k) \in 1..Len(l) /\ new[i] = l[i - Len(k)]
        BY <1>2
    <2>5. \/ j \in 1..Len(k) /\ new[j] = k[j]
          \/ j - Len(k) \in 1..Len(l) /\ new[j] = l[j - Len(k)]
        BY <1>2
    <2> QED  BY <2>1, <2>2, <2>3, <2>4, <2>5
<1>4. ASSUME NEW s, Has(new, s)
      PROVE  Has(k, s) \/ Has(l, s)
    <2>1. PICK i \in 1..Len(new) : new[i] = s
        BY <1>4 DEF Has
    <2> QED  BY <1>1, <1>2, <2>1
<1>5. ASSUME NEW s, Has(k, s) \/ Has(l, s)
      PROVE  Has(new, s)
    <2>1. ASSUME NEW i \in 1..Len(k), k[i] = s
          PROVE  Has(new, s)
        <3>1. i \in 1..Len(new) /\ new[i] = s
            BY <1>1, <2>1
        <3> QED  BY <3>1 DEF Has
    <2>2. ASSUME NEW i \in 1..Len(l), l[i] = s
          PROVE  Has(new, s)
        <3>1. Len(k) + i \in 1..Len(new) /\ new[Len(k) + i] = s
            BY <1>1, <2>2
        <3> QED  BY <3>1 DEF Has
    <2> QED  BY <1>5, <2>1, <2>2 DEF Has
<1>6. List(new, n)
    BY <1>1, <1>3 DEF List
<1> QED  BY <1>4, <1>5, <1>6

LEMMA AsSet ==
    ASSUME NEW n \in Nat, NEW list, List(list, n)
    PROVE  /\ IsInjective(list)
           /\ \A s : s \in ToSet(list) <=> Has(list, s)
BY DEF List, Has, IsInjective, ToSet

\* What the properties say of the concatenated lists.
LEMMA Concatenated ==
    ASSUME NEW n \in Nat, NEW a, NEW f, NEW p, Linked(a, f, p, n)
    PROVE  /\ IsInjective(a \o f \o p)
           /\ ToSet(a \o f \o p) \subseteq 1..n
           /\ Whole(a, f, p, n) => ToSet(a \o f \o p) = 1..n
<1>1. /\ List(a \o f, n)
      /\ \A s : Has(a \o f, s) <=> Has(a, s) \/ Has(f, s)
    BY Joined DEF Linked
<1>2. \A s \in 1..n : ~(Has(a \o f, s) /\ Has(p, s))
    BY <1>1 DEF Linked
<1>3. /\ List(a \o f \o p, n)
      /\ \A s : Has(a \o f \o p, s) <=> Has(a \o f, s) \/ Has(p, s)
    BY <1>1, <1>2, Joined DEF Linked
<1>4. IsInjective(a \o f \o p)
    BY <1>3, AsSet
<1>5. \A s : s \in ToSet(a \o f \o p) <=> Has(a \o f \o p, s)
    BY <1>3, AsSet
<1>6. ToSet(a \o f \o p) \subseteq 1..n
    BY <1>3, <1>5, Members
<1>7. ASSUME Whole(a, f, p, n)
      PROVE  1..n \subseteq ToSet(a \o f \o p)
    BY <1>1, <1>3, <1>5, <1>7 DEF Whole
<1> QED  BY <1>4, <1>6, <1>7

-----------------------------------------------------------------------------
(* The moves of slots that the operations of circbuf are made of.          *)

\* long is short and the slot s.
Adds(short, s, long, n) ==
    /\ List(short, n) /\ List(long, n)
    /\ s \in 1..n /\ ~Has(short, s)
    /\ Len(long) = Len(short) + 1
    /\ \A t \in 1..n : Has(long, t) <=> t = s \/ Has(short, t)

LEMMA Added ==
    ASSUME NEW n \in Nat, NEW list, List(list, n)
    PROVE  /\ list # <<>> => Adds(Tail(list), Head(list), list, n)
           /\ \A s \in 1..n : ~Has(list, s) =>
                 /\ Adds(list, s, Append(list, s), n)
                 /\ Adds(list, s, <<s>> \o list, n)
<1>1. ASSUME list # <<>>
      PROVE  Adds(Tail(list), Head(list), list, n)
    <2>1. Len(list) = Len(Tail(list)) + 1
        BY <1>1, TakeHead
    <2> QED  BY <1>1, <2>1, TakeHead DEF Adds
<1>2. ASSUME NEW s \in 1..n, ~Has(list, s)
      PROVE  /\ Adds(list, s, Append(list, s), n)
             /\ Adds(list, s, <<s>> \o list, n)
    BY <1>2, AddLast, AddFirst DEF Adds
<1> QED  BY <1>1, <1>2

Keeps(a, f, p, n, a2, f2, p2, n2) ==
    /\ Linked(a2, f2, p2, n2)
    /\ Whole(a, f, p, n) => Whole(a2, f2, p2, n2)

\* The order of the lists does not matter.
LEMMA Permuted ==
    ASSUME NEW n \in Nat, NEW a, NEW f, NEW p
    PROVE  /\ Linked(a, f, p, n) => Linked(f, a, p, n) /\ Linked(a, p, f, n)
                                    /\ Linked(f, p, a, n) /\ Linked(p, a, f, n)
                                    /\ Linked(p, f, a, n)
           /\ Linked(a, f, p, n) /\ Whole(a, f, p, n) =>
                 /\ Whole(f, a, p, n) /\ Whole(a, p, f, n) /\ Whole(f, p, a, n)
                 /\ Whole(p, a, f, n) /\ Whole(p, f, a, n)
<1>1. Linked(a, f, p, n) => Linked(f, a, p, n) /\ Linked(a, p, f, n)
                              /\ Linked(f, p, a, n) /\ Linked(p, a, f, n)
                              /\ Linked(p, f, a, n)
    BY DEF Linked
<1>2. ASSUME Linked(a, f, p, n), Whole(a, f, p, n)
      PROVE  /\ Whole(f, a, p, n) /\ Whole(a, p, f, n) /\ Whole(f, p, a, n)
             /\ Whole(p, a, f, n) /\ Whole(p, f, a, n)
    <2>1. Len(a) \in Nat /\ Len(f) \in Nat /\ Len(p) \in Nat
        BY <1>2, Members DEF Linked
    <2> QED  BY <1>2, <2>1 DEF Whole
<1> QED  BY <1>1, <1>2

\* A slot goes from one list to another.
LEMMA Move ==
    ASSUME NEW n \in Nat, NEW k, NEW l, NEW m, Linked(k, l, m, n),
           NEW s, NEW k2, NEW l2, Adds(k2, s, k, n), Adds(l, s, l2, n)
    PROVE  Keeps(k, l, m, n, k2, l2, m, n)
<1>1. Linked(k2, l2, m, n)
    BY DEF Linked, Adds
<1>2. ASSUME Whole(k, l, m, n)
      PROVE  Whole(k2, l2, m, n)
    <2>1. Len(k2) \in Nat /\ Len(l) \in Nat /\ Len(m) \in Nat
        BY Members DEF Linked, Adds
    <2>2. Len(k2) + Len(l2) + Len(m) = n
        BY <1>2, <2>1 DEF Whole, Adds
    <2> QED  BY <1>2, <2>2 DEF Whole, Adds
<1> QED  BY <1>1, <1>2 DEF Keeps

\* A new slot is put on a list.
LEMMA Allocate ==
    ASSUME NEW n \in Nat, NEW k, NEW l, NEW m, Linked(k, l, m, n),
           NEW l2, Adds(l, n + 1, l2, n + 1)
    PROVE  Keeps(k, l, m, n, k, l2, m, n + 1)
<1>1. /\ List(k, n + 1) /\ List(m, n + 1) /\ List(l, n + 1)
      /\ ~Has(k, n + 1) /\ ~Has(l, n + 1) /\ ~Has(m, n + 1)
    BY NewSlot DEF Linked
<1>2. n + 1 \in 1..(n + 1) /\ 1..(n + 1) = (1..n) \cup {n + 1}
    OBVIOUS
<1>3. Linked(k, l2, m, n + 1)
    BY <1>1, <1>2 DEF Linked, Adds
<1>4. ASSUME Whole(k, l, m, n)
      PROVE  Whole(k, l2, m, n + 1)
    <2>1. Len(k) \in Nat /\ Len(l) \in Nat /\ Len(m) \in Nat
        BY Members DEF Linked
    <2>2. Len(k) + Len(l2) + Len(m) = n + 1
        BY <1>4, <2>1 DEF Whole, Adds
    <2> QED  BY <1>2, <1>4, <2>2 DEF Whole, Adds
<1> QED  BY <1>3, <1>4 DEF Keeps

\* The first slot of a list is on no other one.
LEMMA HeadIsApart ==
    ASSUME NEW n \in Nat, NEW k, NEW l, NEW m, Linked(k, l, m, n), k # <<>>
    PROVE  /\ Head(k) \in 1..n
           /\ Adds(Tail(k), Head(k), k, n)
           /\ ~Has(l, Head(k)) /\ ~Has(m, Head(k))
BY Added DEF Linked, Adds

\* The new slot is on none.
LEMMA NewIsApart ==
    ASSUME NEW n \in Nat, NEW list, List(list, n)
    PROVE  /\ Adds(list, n + 1, Append(list, n + 1), n + 1)
           /\ Adds(list, n + 1, <<n + 1>> \o list, n + 1)
<1>1. n + 1 \in Nat /\ n + 1 \in 1..(n + 1)
    OBVIOUS
<1> QED  BY <1>1, NewSlot, Added

\* prepare() takes a free slot, allocates one or takes the oldest stored one.
LEMMA MovesToPrepared ==
    ASSUME NEW n \in Nat, NEW a, NEW f, NEW p, Linked(a, f, p, n)
    PROVE  /\ f # <<>> => Keeps(a, f, p, n, a, Tail(f), <<Head(f)>> \o p, n)
           /\ Keeps(a, f, p, n, a, f, <<n + 1>> \o p, n + 1)
           /\ a # <<>> => Keeps(a, f, p, n, Tail(a), f, <<Head(a)>> \o p, n)
<1>1. ASSUME f # <<>>
      PROVE  Keeps(a, f, p, n, a, Tail(f), <<Head(f)>> \o p, n)
    <2>1. Linked(f, p, a, n)
        BY Permuted
    <2>2. Adds(Tail(f), Head(f), f, n) /\ Adds(p, Head(f), <<Head(f)>> \o p, n)
        BY <1>1, <2>1, HeadIsApart, Added DEF Linked
    <2>3. Keeps(f, p, a, n, Tail(f), <<Head(f)>> \o p, a, n)
        BY <2>1, <2>2, Move
    <2> QED  BY <2>3, Permuted DEF Keeps
<1>2. Keeps(a, f, p, n, a, f, <<n + 1>> \o p, n + 1)
    <2>1. Linked(a, p, f, n) /\ n + 1 \in Nat
        BY Permuted
    <2>2. Adds(p, n + 1, <<n + 1>> \o p, n + 1)
        BY NewIsApart DEF Linked
    <2>3. Keeps(a, p, f, n, a, <<n + 1>> \o p, f, n + 1)
        BY <2>1, <2>2, Allocate
    <2> QED  BY <2>1, <2>3, Permuted DEF Keeps
<1>3. ASSUME a # <<>>
      PROVE  Keeps(a, f, p, n, Tail(a), f, <<Head(a)>> \o p, n)
    <2>1. Linked(a, p, f, n)
        BY Permuted
    <2>2. Adds(Tail(a), Head(a), a, n) /\ Adds(p, Head(a), <<Head(a)>> \o p, n)
        BY <1>3, <2>1, HeadIsApart, Added DEF Linked
    <2>3. Keeps(a, p, f, n, Tail(a), <<Head(a)>> \o p, f, n)
        BY <2>1, <2>2, Move
    <2> QED  BY <2>3, Permuted DEF Keeps
<1> QED  BY <1>1, <1>2, <1>3

\* commit() and push() store a slot.
LEMMA MovesToActive ==
    ASSUME NEW n \in Nat, NEW a, NEW f, NEW p, Linked(a, f, p, n)
    PROVE  /\ p # <<>> => Keeps(a, f, p, n, Append(a, Head(p)), f, Tail(p), n)
           /\ f # <<>> => Keeps(a, f, p, n, Append(a, Head(f)), Tail(f), p, n)
           /\ Keeps(a, f, p, n, Append(a, n + 1), f, p, n + 1)
           /\ a # <<>> => Keeps(a, f, p, n, Append(Tail(a), Head(a)), f, p, n)
<1>1. ASSUME p # <<>>
      PROVE  Keeps(a, f, p, n, Append(a, Head(p)), f, Tail(p), n)
    <2>1. Linked(p, a, f, n)
        BY Permuted
    <2>2. Adds(Tail(p), Head(p), p, n) /\ Adds(a, Head(p), Append(a, Head(p)), n)
        BY <1>1, <2>1, HeadIsApart, Added DEF Linked
    <2>3. Keeps(p, a, f, n, Tail(p), Append(a, Head(p)), f, n)
        BY <2>1, <2>2, Move
    <2> QED  BY <2>3, Permuted DEF Keeps
<1>2. ASSUME f # <<>>
      PROVE  Keeps(a, f, p, n, Append(a, Head(f)), Tail(f), p, n)
    <2>1. Linked(f, a, p, n)
        BY Permuted
    <2>2. Adds(Tail(f), Head(f), f, n) /\ Adds(a, Head(f), Append(a, Head(f)), n)
        BY <1>2, <2>1, HeadIsApart, Added DEF Linked
    <2>3. Keeps(f, a, p, n, Tail(f), Append(a, Head(f)), p, n)
        BY <2>1, <2>2, Move
    <2> QED  BY <2>3, Permuted DEF Keeps
<1>3. Keeps(a, f, p, n, Append(a, n + 1), f, p, n + 1)
    <2>1. Linked(f, a, p, n) /\ n + 1 \in Nat
        BY Permuted
    <2>2. Adds(a, n + 1, Append(a, n + 1), n + 1)
        BY NewIsApart DEF Linked
    <2>3. Keeps(f, a, p, n, f, Append(a, n + 1), p, n + 1)
        BY <2>1, <2>2, Allocate
    <2> QED  BY <2>1, <2>3, Permuted DEF Keeps
<1>4. ASSUME a # <<>>
      PROVE  Keeps(a, f, p, n, Append(Tail(a), Head(a)), f, p, n)
    <2>1. /\ Adds(Tail(a), Head(a), a, n)
          /\ Adds(Tail(a), Head(a), Append(Tail(a), Head(a)), n)
        BY <1>4, HeadIsApart, Added DEF Adds
    <2> QED  BY <2>1 DEF Keeps, Adds, Linked, Whole
<1> QED  BY <1>1, <1>2, <1>3, <1>4

\* rollback(), pop() and the error path of pop() free a slot.  With n_items_
\* zero that path also drops a slot from active.
LEMMA MovesToFree ==
    ASSUME NEW n \in Nat, NEW a, NEW f, NEW p, Linked(a, f, p, n)
    PROVE  /\ p # <<>> => Keeps(a, f, p, n, a, Append(f, Head(p)), Tail(p), n)
           /\ a # <<>> => Keeps(a, f, p, n, Tail(a), Append(f, Head(a)), p, n)
           /\ Keeps(a, f, p, n, a, Append(f, n + 1), p, n + 1)
           /\ a # <<>> => Linked(Tail(a), Append(f, n + 1), p, n + 1)
<1>1. ASSUME p # <<>>
      PROVE  Keeps(a, f, p, n, a, Append(f, Head(p)), Tail(p), n)
    <2>1. Linked(p, f, a, n)
        BY Permuted
    <2>2. Adds(Tail(p), Head(p), p, n) /\ Adds(f, Head(p), Append(f, Head(p)), n)
        BY <1>1, <2>1, HeadIsApart, Added DEF Linked
    <2>3. Keeps(p, f, a, n, Tail(p), Append(f, Head(p)), a, n)
        BY <2>1, <2>2, Move
    <2> QED  BY <2>3, Permuted DEF Keeps
<1>2. ASSUME a # <<>>
      PROVE  Keeps(a, f, p, n, Tail(a), Append(f, Head(a)), p, n)
    <2>1. Adds(Tail(a), Head(a), a, n) /\ Adds(f, Head(a), Append(f, Head(a)), n)
        BY <1>2, HeadIsApart, Added DEF Linked
    <2> QED  BY <2>1, Move
<1>3. Keeps(a, f, p, n, a, Append(f, n + 1), p, n + 1)
    <2>1. Adds(f, n + 1, Append(f, n + 1), n + 1)
        BY NewIsApart DEF Linked
    <2> QED  BY <2>1, Allocate
<1>4. ASSUME a # <<>>
      PROVE  Linked(Tail(a), Append(f, n + 1), p, n + 1)
    <2>1. Adds(Tail(a), Head(a), a, n + 1)
        BY <1>3, <1>4, Added DEF Keeps, Linked
    <2> QED  BY <1>3, <2>1 DEF Keeps, Linked, Adds
<1> QED  BY <1>1, <1>2, <1>3, <1>4

-----------------------------------------------------------------------------
(* The operations of circbuf, whoever calls them.                          *)

Lists == Linked(active, free, prepared, size)

AllLinked == Whole(active, free, prepared, size)

\* TypeOK without the lists.
Values ==
    /\ nItems \in 0..MaxItems
    /\ size \in 0..MaxSlots
    /\ hollow \subseteq Slots
    /\ content \in [Slots -> 0..MaxMessages]
    /\ stamp \in 0..MaxMessages
    /\ popped \in 0..MaxMessages
    /\ fault \in Faults

\* Lists of allocated slots are lists of slots.
LEMMA ListsHaveTypes ==
    ASSUME Values, Lists
    PROVE  TypeOK
<1>1. 1..size \subseteq Slots /\ size \in Nat
    BY BoundsAssumption DEF Values, Slots
<1>2. ASSUME NEW list, List(list, size)
      PROVE  list \in Seq(Slots)
    <2>1. list \in Seq(1..size)
        BY <1>2 DEF List
    <2> QED  BY <1>1, <2>1
<1> QED  BY <1>2 DEF Values, Lists, Linked, TypeOK

\* Every list is a sequence of numbers, which ends the talk of slots for Len.
LEMMA ListsAreSeqs ==
    ASSUME Lists, size \in Nat
    PROVE  active \in Seq(Nat) /\ free \in Seq(Nat) /\ prepared \in Seq(Nat)
<1>1. 1..size \subseteq Nat
    OBVIOUS
<1>2. active \in Seq(1..size) /\ free \in Seq(1..size) /\ prepared \in Seq(1..size)
    BY DEF Lists, Linked, List
<1> QED  BY <1>1, <1>2

LEMMA HandValue ==
    ASSUME NEW s, Hand(s)
    PROVE  fault' \in Faults
BY DEF Hand, Faults

LEMMA PrepareKeeps ==
    ASSUME Values, Lists, size < MaxSlots, Prepare
    PROVE  Values' /\ Lists' /\ (AllLinked => AllLinked')
<1>1. size \in Nat /\ size + 1 \in 0..MaxSlots
    BY BoundsAssumption DEF Values
<1>2. CASE free # <<>> /\ prepared' = <<Head(free)>> \o prepared /\ free' = Tail(free)
           /\ Hand(Head(free))
           /\ UNCHANGED <<active, nItems, size, hollow, content, stamp, popped>>
    <2>1. Lists' /\ (AllLinked => AllLinked')
        BY <1>1, <1>2, MovesToPrepared DEF Lists, AllLinked, Keeps
    <2>2. Values'
        BY <1>2, HandValue DEF Values
    <2> QED  BY <2>1, <2>2
<1>3. CASE free = <<>> /\ size' = size + 1 /\ prepared' = <<size'>> \o prepared
           /\ fault' = "none"
           /\ UNCHANGED <<active, free, nItems, hollow, content, stamp, popped>>
    <2>1. Lists' /\ (AllLinked => AllLinked')
        BY <1>1, <1>3, MovesToPrepared DEF Lists, AllLinked, Keeps
    <2>2. Values'
        BY <1>1, <1>3 DEF Values, Faults
    <2> QED  BY <2>1, <2>2
<1>4. CASE /\ prepared' = IF active = <<>> THEN prepared
                          ELSE <<Head(active)>> \o prepared
           /\ active' = Unlinked(active)
           /\ Hand(EndOf(active))
           /\ UNCHANGED <<free, nItems, size, hollow, content, stamp, popped>>
    <2>1. Lists' /\ (AllLinked => AllLinked')
        <3>1. CASE active = <<>>
            BY <1>4, <3>1 DEF Lists, AllLinked, Unlinked
        <3>2. CASE active # <<>>
            BY <1>1, <1>4, <3>2, MovesToPrepared DEF Lists, AllLinked, Keeps, Unlinked
        <3> QED  BY <3>1, <3>2
    <2>2. Values'
        BY <1>4, HandValue DEF Values
    <2> QED  BY <2>1, <2>2
<1> QED  BY <1>2, <1>3, <1>4 DEF Prepare

LEMMA HangKeeps ==
    ASSUME Values, Lists, Hang
    PROVE  Values' /\ Lists' /\ (AllLinked => AllLinked')
BY DEF Hang, Values, Lists, AllLinked, Faults

LEMMA CommitKeeps ==
    ASSUME Values, Lists, NEW s, Commit(s)
    PROVE  Values' /\ Lists' /\ (AllLinked => AllLinked')
<1>1. CASE /\ Finds(s) /\ stamp < MaxMessages /\ stamp' = stamp + 1
           /\ content' = [content EXCEPT ![s] = stamp']
           /\ prepared' = Tail(prepared) /\ active' = Append(active, s)
           /\ nItems' = (IF nItems + 1 > MaxItems THEN MaxItems ELSE nItems + 1)
           /\ fault' = "none" /\ UNCHANGED <<free, size, hollow, popped>>
    <2>1. Lists' /\ (AllLinked => AllLinked')
        BY <1>1, MovesToActive, BoundsAssumption
        DEF Lists, AllLinked, Keeps, Finds, Values
    <2>2. nItems' \in 0..MaxItems
        BY <1>1, MaxItemsAssumption DEF Values
    <2>3. stamp' \in 0..MaxMessages
        BY <1>1, BoundsAssumption DEF Values
    <2>4. content' \in [Slots -> 0..MaxMessages]
        BY <1>1, <2>3 DEF Values
    <2>5. Values'
        BY <1>1, <2>2, <2>3, <2>4 DEF Values, Faults
    <2> QED  BY <2>1, <2>5
<1>2. CASE Hang
    BY <1>2, HangKeeps
<1> QED  BY <1>1, <1>2 DEF Commit

LEMMA RollbackKeeps ==
    ASSUME Values, Lists, NEW s, Rollback(s)
    PROVE  Values' /\ Lists' /\ (AllLinked => AllLinked')
<1>1. CASE /\ Finds(s) /\ prepared' = Tail(prepared) /\ free' = Append(free, s)
           /\ fault' = "none"
           /\ UNCHANGED <<active, nItems, size, hollow, content, stamp, popped>>
    <2>1. Lists' /\ (AllLinked => AllLinked')
        BY <1>1, MovesToFree, BoundsAssumption
        DEF Lists, AllLinked, Keeps, Finds, Values
    <2>2. Values'
        BY <1>1 DEF Values, Faults
    <2> QED  BY <2>1, <2>2
<1>2. CASE Hang
    BY <1>2, HangKeeps
<1> QED  BY <1>1, <1>2 DEF Rollback

LEMMA PopKeeps ==
    ASSUME Values, Lists, size < MaxSlots, Pop
    PROVE  Values' /\ Lists' /\ (nItems > 0 /\ AllLinked => AllLinked')
<1>1. /\ size \in Nat /\ size + 1 \in 0..MaxSlots /\ size + 1 \in Slots
      /\ nItems > 0 => nItems - 1 \in 0..MaxItems
    BY BoundsAssumption, MaxItemsAssumption DEF Values, Slots
<1>2. ASSUME EmptyError
      PROVE  /\ size' = size + 1 /\ size' \in 0..MaxSlots /\ hollow' \subseteq Slots
             /\ fault' \in Faults /\ free' = Append(free, size + 1)
    BY <1>1, <1>2 DEF EmptyError, Values, Faults
<1>3. CASE /\ nItems = 0 /\ active' = Unlinked(active) /\ EmptyError
           /\ UNCHANGED <<prepared, nItems, content, stamp, popped>>
    <2>1. Lists'
        <3>1. CASE active = <<>>
            BY <1>1, <1>2, <1>3, <3>1, MovesToFree DEF Lists, Keeps, Unlinked
        <3>2. CASE active # <<>>
            BY <1>1, <1>2, <1>3, <3>2, MovesToFree DEF Lists, Keeps, Unlinked
        <3> QED  BY <3>1, <3>2
    <2>2. Values'
        BY <1>2, <1>3 DEF Values
    <2> QED  BY <1>3, <2>1, <2>2
<1>4. CASE /\ nItems > 0 /\ active = <<>> /\ nItems' = nItems - 1 /\ EmptyError
           /\ UNCHANGED <<active, prepared, content, stamp, popped>>
    <2>1. Lists' /\ (AllLinked => AllLinked')
        BY <1>1, <1>2, <1>4, MovesToFree DEF Lists, AllLinked, Keeps
    <2>2. Values'
        BY <1>1, <1>2, <1>4 DEF Values
    <2> QED  BY <2>1, <2>2
<1>5. CASE /\ nItems > 0 /\ active # <<>> /\ active' = Tail(active)
           /\ nItems' = nItems - 1 /\ free' = Append(free, Head(active))
           /\ popped' = content[Head(active)] /\ fault' = "none"
           /\ UNCHANGED <<prepared, size, hollow, content, stamp>>
    <2>1. Lists' /\ (AllLinked => AllLinked')
        BY <1>1, <1>5, MovesToFree DEF Lists, AllLinked, Keeps
    <2>2. Head(active) \in Slots
        <3>1. Head(active) \in 1..size
            BY <1>1, <1>5, HeadIsApart DEF Lists
        <3> QED  BY <1>1, <3>1, BoundsAssumption DEF Slots
    <2>3. popped' \in 0..MaxMessages
        BY <1>5, <2>2 DEF Values
    <2>4. Values'
        BY <1>1, <1>5, <2>3 DEF Values, Faults
    <2> QED  BY <2>1, <2>4
<1> QED  BY <1>3, <1>4, <1>5 DEF Pop

LEMMA PeekKeeps ==
    ASSUME Values, Lists, size < MaxSlots, Peek
    PROVE  Values' /\ Lists'
<1>1. CASE /\ nItems = 0 /\ EmptyError
           /\ UNCHANGED <<active, prepared, nItems, content, stamp, popped>>
    <2>1. size \in Nat /\ size + 1 \in 0..MaxSlots /\ size + 1 \in Slots
        BY BoundsAssumption DEF Values, Slots
    <2>2. Lists'
        BY <1>1, <2>1, MovesToFree DEF EmptyError, Lists, Keeps
    <2>3. Values'
        BY <1>1, <2>1 DEF EmptyError, Values, Faults
    <2> QED  BY <2>2, <2>3
<1>2. CASE /\ fault' \in {"null", "none"}
           /\ UNCHANGED <<active, free, prepared, nItems, size, hollow, content, stamp,
                          popped>>
    BY <1>2 DEF Values, Lists, Faults
<1>3. (\E s : Hand(s)) => fault' \in {"null", "none"}
    BY DEF Hand
<1> QED  BY <1>1, <1>2, <1>3 DEF Peek

\* push() rotates a full buffer, and stores a free or a new slot otherwise.
LEMMA PushCases ==
    ASSUME Values, Lists, Push
    PROVE  \/ /\ nItems >= MaxItems /\ active = <<>>
              /\ UNCHANGED <<active, free, prepared, nItems, size, hollow, content,
                             stamp, popped>>
           \/ /\ nItems >= MaxItems /\ active # <<>> /\ PushSlot = Head(active)
              /\ active' = Append(Tail(active), Head(active))
              /\ UNCHANGED <<free, size, prepared>>
           \/ /\ nItems < MaxItems /\ free # <<>> /\ PushSlot = Head(free)
              /\ active' = Append(active, Head(free)) /\ free' = Tail(free)
              /\ UNCHANGED <<size, prepared>>
           \/ /\ nItems < MaxItems /\ free = <<>> /\ PushSlot = size + 1
              /\ active' = Append(active, size + 1) /\ size' = size + 1
              /\ UNCHANGED <<free, prepared>>
<1>1. size \in Nat /\ nItems \in Nat /\ MaxItems \in Nat
    BY BoundsAssumption, MaxItemsAssumption DEF Values
<1>2. CASE nItems >= MaxItems /\ active = <<>>
    BY <1>1, <1>2 DEF Push, PushSlot, EndOf, NoSlot
<1>3. CASE nItems >= MaxItems /\ active # <<>>
    <2>1. Head(active) \in 1..size
        BY <1>1, <1>3, HeadIsApart DEF Lists
    <2>2. PushSlot = Head(active) /\ PushSlot # NoSlot /\ PushSlot # size + 1
        BY <1>1, <1>3, <2>1 DEF PushSlot, EndOf, NoSlot
    <2> QED  BY <1>1, <1>3, <2>2 DEF Push
<1>4. CASE nItems < MaxItems /\ free # <<>>
    <2>1. Linked(free, active, prepared, size)
        BY <1>1, Permuted DEF Lists
    <2>2. Head(free) \in 1..size
        BY <1>1, <1>4, <2>1, HeadIsApart
    <2>3. PushSlot = Head(free) /\ PushSlot # NoSlot /\ PushSlot # size + 1
        BY <1>1, <1>4, <2>2 DEF PushSlot, NoSlot
    <2> QED  BY <1>1, <1>4, <2>3 DEF Push, Unlinked
<1>5. CASE nItems < MaxItems /\ free = <<>>
    <2>1. PushSlot = size + 1 /\ PushSlot # NoSlot
        BY <1>1, <1>5 DEF PushSlot, NoSlot
    <2> QED  BY <1>1, <1>5, <2>1 DEF Push, Unlinked
<1> QED  BY <1>1, <1>2, <1>3, <1>4, <1>5

LEMMA PushKeeps ==
    ASSUME Values, Lists, size < MaxSlots, Push
    PROVE  Values' /\ Lists' /\ (AllLinked => AllLinked')
<1>1. size \in Nat /\ size + 1 \in 0..MaxSlots
    BY BoundsAssumption DEF Values
<1>2. Lists' /\ (AllLinked => AllLinked')
    <2>1. CASE UNCHANGED <<active, free, prepared, size>>
        BY <2>1 DEF Lists, AllLinked
    <2>2. CASE active # <<>> /\ active' = Append(Tail(active), Head(active))
               /\ UNCHANGED <<free, size, prepared>>
        BY <1>1, <2>2, MovesToActive DEF Lists, AllLinked, Keeps
    <2>3. CASE free # <<>> /\ active' = Append(active, Head(free))
               /\ free' = Tail(free) /\ UNCHANGED <<size, prepared>>
        BY <1>1, <2>3, MovesToActive DEF Lists, AllLinked, Keeps
    <2>4. CASE active' = Append(active, size + 1) /\ size' = size + 1
               /\ UNCHANGED <<free, prepared>>
        BY <1>1, <2>4, MovesToActive DEF Lists, AllLinked, Keeps
    <2> QED  BY <2>1, <2>2, <2>3, <2>4, PushCases
<1>3. fault' \in Faults
    BY HandValue DEF Push
<1>4. CASE PushSlot = NoSlot
    <2>1. Values'
        BY <1>3, <1>4 DEF Push, Values
    <2> QED  BY <1>2, <2>1
<1>5. CASE PushSlot # NoSlot
    <2>1. nItems' \in 0..MaxItems
        BY <1>5, MaxItemsAssumption DEF Push, Values
    <2>2. stamp' \in 0..MaxMessages
        BY <1>5, BoundsAssumption DEF Push, Values
    <2>3. content' \in [Slots -> 0..MaxMessages]
        BY <1>5, <2>2 DEF Push, Values
    <2>4. size' \in 0..MaxSlots
        BY <1>1, <1>5 DEF Push, Values
    <2>5. Values'
        BY <1>3, <1>5, <2>1, <2>2, <2>3, <2>4 DEF Push, Values
    <2> QED  BY <1>2, <2>5
<1> QED  BY <1>4, <1>5

-----------------------------------------------------------------------------
(* The inductive invariant.                                                *)

\* Where the threads of a server are.  No handler reads a slot without the
\* lock, nor the slot that is prepared.
ThreadsOK ==
    /\ recv \in {"loop", "prepare", "receive", "commit", "rollback", "done"}
    /\ work \in [Worker -> {"wait", "called", "copy", "handle", "gone"}]
    /\ reading \in [Worker -> Nat]
    /\ pending \in Nat
    /\ client \in {"server", "push", "any"}
    /\ client # "server" => recv = "done"

\* The receiver holds one slot from prepare() to commit() or rollback().
OnePrepared ==
    /\ recv \in {"loop", "prepare"} => prepared = <<>>
    /\ recv \in {"receive", "commit", "rollback"} => Len(prepared) = 1

\* n_items_ is exact until all slots are allocated; from then on it may exceed
\* what is stored, by the slots that prepare() took, and never falls short.
CountBounds ==
    /\ hollow = {}
    /\ size <= MaxItems
    /\ Len(active) <= nItems
    /\ size < MaxItems => nItems = Len(active)

\* A handler copies under the lock, from a slot that is not prepared.
CopiesApart ==
    \A w \in Worker :
        /\ reading[w] # NoSlot => mtx = w
        /\ prepared # <<>> => reading[w] # Head(prepared)

ServerOK ==
    client = "server" =>
        AllLinked /\ OnePrepared /\ CopiesApart /\ (Usable => CountBounds)

PushOK ==
    client = "push" =>
        /\ AllLinked /\ prepared = <<>> /\ CountExact
        /\ hollow = {} /\ size <= MaxItems /\ Usable

\* The workers that have taken a notification and not popped yet.
Called == {w \in Worker : work[w] = "called"}

Inv == Values /\ Lists /\ ThreadsOK /\ ServerOK /\ PushOK /\ NoneStranded

LEMMA EmptyLists == Linked(<<>>, <<>>, <<>>, 0) /\ Whole(<<>>, <<>>, <<>>, 0)
<1>1. List(<<>>, 0)
    BY DEF List
<1>2. 1..0 = {} /\ Len(<<>>) = 0
    OBVIOUS
<1> QED  BY <1>1, <1>2 DEF Linked, Whole

LEMMA Initial == MCInit => Inv
<1> SUFFICES ASSUME MCInit PROVE Inv
    OBVIOUS
<1>1. /\ Init /\ pending = 0 /\ mtx = Nobody
      /\ reading = [w \in Worker |-> NoSlot]
      /\ client \in {"server", "push", "any"}
      /\ \/ recv = "loop" /\ work = [w \in Worker |-> "wait"] /\ client = "server"
         \/ recv = "done" /\ work = [w \in Worker |-> "gone"] /\ client # "server"
    BY DEF MCInit, RInit
<1>2. Values /\ Lists /\ AllLinked
    BY <1>1, EmptyLists, MaxItemsAssumption, BoundsAssumption
    DEF Init, Values, Lists, AllLinked, Faults
<1>3. ThreadsOK
    BY <1>1 DEF ThreadsOK, NoSlot
<1>4. ServerOK
    <2>1. client = "server" => recv = "loop"
        BY <1>1
    <2>2. CopiesApart
        BY <1>1 DEF CopiesApart, Init
    <2>3. CountBounds
        BY <1>1, MaxItemsAssumption DEF CountBounds, Init
    <2> QED  BY <1>1, <1>2, <2>1, <2>2, <2>3 DEF ServerOK, OnePrepared, Init
<1>5. PushOK
    BY <1>1, <1>2, MaxItemsAssumption DEF PushOK, CountExact, Usable, Init
<1>6. NoneStranded
    <2>1. Cardinality(Called) = 0
        <3>1. Called = {}
            BY <1>1 DEF Called
        <3> QED  BY <3>1, FS_EmptySet
    <2>2. Len(active) <= pending + Cardinality(Called)
        BY <1>1, <2>1 DEF Init
    <2> QED  BY <2>2 DEF NoneStranded, NothingStranded, Called
<1> QED  BY <1>2, <1>3, <1>4, <1>5, <1>6 DEF Inv

-----------------------------------------------------------------------------
(* Clients without threads.                                                *)

LEMMA AnyStep ==
    ASSUME Inv, client = "any", AnyNext,
           UNCHANGED <<inbox, Threads, pending, stopMe, client>>
    PROVE  Inv'
<1>1. Values /\ Lists /\ size < MaxSlots
    BY DEF Inv, AnyNext
<1>2. Values' /\ Lists'
    BY <1>1, PushKeeps, PrepareKeeps, CommitKeeps, RollbackKeeps, PopKeeps,
       PeekKeeps DEF AnyNext
<1>3. ThreadsOK'
    BY DEF Inv, ThreadsOK, Threads
<1> QED  BY <1>2, <1>3 DEF Inv, ServerOK, PushOK, NoneStranded

\* With the lists of push() clients everything that is allocated is stored or
\* free, so that a new slot is needed below the capacity only.
LEMMA PushStep ==
    ASSUME Inv, client = "push", OneStepNext,
           UNCHANGED <<inbox, Threads, pending, stopMe, client>>
    PROVE  Inv'
<1>1. /\ Values /\ Lists /\ AllLinked /\ prepared = <<>> /\ nItems = Len(active)
      /\ hollow = {} /\ size <= MaxItems /\ Usable
    BY DEF Inv, PushOK, CountExact
<1>2. /\ size \in Nat /\ nItems \in Nat /\ size < MaxSlots
      /\ MaxItems \in Nat \ {0} /\ nItems <= MaxItems
    BY <1>1, BoundsAssumption, MaxItemsAssumption DEF Values
<1>3. /\ active \in Seq(Nat) /\ free \in Seq(Nat)
      /\ Len(active) \in Nat /\ Len(free) \in Nat
      /\ Len(active) + Len(free) = size
    BY <1>1, <1>2, ListsAreSeqs DEF AllLinked, Whole
<1>4. ThreadsOK'
    BY DEF Inv, ThreadsOK, Threads
<1>5. CASE Push
    <2>1. Values' /\ Lists' /\ AllLinked'
        BY <1>1, <1>2, <1>5, PushKeeps
    <2>2. PushSlot # NoSlot /\ prepared' = <<>> /\ hollow' = {}
        <3>1. nItems >= MaxItems => active # <<>>
            BY <1>1, <1>2, <1>3
        <3>2. PushSlot \in Nat \ {0}
            <4>1. active # <<>> => Head(active) \in 1..size
                BY <1>1, <1>2, HeadIsApart DEF Lists
            <4>2. free # <<>> => Head(free) \in 1..size
                BY <1>1, <1>2, Permuted, HeadIsApart DEF Lists
            <4> QED  BY <1>2, <3>1, <4>1, <4>2 DEF PushSlot, EndOf
        <3> QED  BY <1>1, <1>5, <3>2 DEF Push, NoSlot
    <2>3. Usable'
        BY <1>1, <1>5, <2>2 DEF Push, Hand, Usable
    <2>4. nItems' = Len(active')
        BY <1>1, <1>2, <1>3, <1>5, <2>2 DEF Push
    <2>5. size' <= MaxItems
        <3>1. nItems < MaxItems /\ free = <<>> => size + 1 <= MaxItems
            BY <1>1, <1>2, <1>3
        <3> QED  BY <1>1, <1>2, <1>5, <3>1, PushCases
    <2>6. PushOK'
        BY <2>1, <2>2, <2>3, <2>4, <2>5 DEF PushOK, CountExact
    <2> QED  BY <1>4, <2>1, <2>6 DEF Inv, ServerOK, NoneStranded
<1>6. CASE PopChecked
    <2>1. Pop /\ nItems > 0 /\ active # <<>>
        BY <1>1, <1>2, <1>3, <1>6 DEF PopChecked
    <2>2. Values' /\ Lists' /\ AllLinked'
        BY <1>1, <1>2, <2>1, PopKeeps
    <2>3. /\ active' = Tail(active) /\ nItems' = nItems - 1 /\ fault' = "none"
          /\ UNCHANGED <<prepared, size, hollow>>
        BY <1>2, <2>1 DEF Pop
    <2>4. PushOK'
        BY <1>1, <1>3, <2>1, <2>2, <2>3 DEF PushOK, CountExact, Usable
    <2> QED  BY <1>4, <2>2, <2>4 DEF Inv, ServerOK, NoneStranded
<1> QED  BY <1>5, <1>6 DEF OneStepNext

-----------------------------------------------------------------------------
(* The steps of a server.                                                  *)

LEMMA CalledCount ==
    IsFiniteSet(Called) /\ Cardinality(Called) \in Nat
<1>1. IsFiniteSet(Called)
    BY WorkerAssumption, FS_Subset DEF Called
<1> QED  BY <1>1, FS_CardinalityType

LEMMA CalledMore ==
    ASSUME ThreadsOK, NEW w \in Worker, work[w] # "called",
           work' = [work EXCEPT ![w] = "called"]
    PROVE  Cardinality(Called') = Cardinality(Called) + 1
<1>1. Called' = Called \cup {w} /\ w \notin Called
    BY DEF Called, ThreadsOK
<1> QED  BY <1>1, CalledCount, FS_AddElement

LEMMA CalledLess ==
    ASSUME ThreadsOK, NEW w \in Worker, work[w] = "called",
           NEW p, p # "called", work' = [work EXCEPT ![w] = p]
    PROVE  Cardinality(Called') = Cardinality(Called) - 1
<1>1. Called' = Called \ {w} /\ w \in Called
    BY DEF Called, ThreadsOK
<1> QED  BY <1>1, CalledCount, FS_RemoveElement

LEMMA CalledSame ==
    ASSUME ThreadsOK, NEW w \in Worker, work[w] # "called",
           NEW p, p # "called", work' = [work EXCEPT ![w] = p]
    PROVE  Called' = Called
BY DEF Called, ThreadsOK

\* What the steps of a server may use.
LEMMA ServerFacts ==
    ASSUME Inv, client = "server", Usable
    PROVE  /\ Values /\ Lists /\ AllLinked /\ ThreadsOK
           /\ OnePrepared /\ CopiesApart /\ CountBounds
           /\ size \in Nat /\ nItems \in Nat /\ size < MaxSlots
           /\ MaxItems \in Nat \ {0} /\ nItems <= MaxItems
           /\ active \in Seq(Nat) /\ free \in Seq(Nat) /\ prepared \in Seq(Nat)
           /\ Len(active) \in Nat /\ Len(free) \in Nat /\ Len(prepared) \in Nat
           /\ Len(active) + Len(free) + Len(prepared) = size
           /\ Len(active) <= pending + Cardinality(Called)
<1>1. /\ Values /\ Lists /\ AllLinked /\ ThreadsOK
      /\ OnePrepared /\ CopiesApart /\ CountBounds
    BY DEF Inv, ServerOK
<1>2. /\ size \in Nat /\ nItems \in Nat /\ size < MaxSlots
      /\ MaxItems \in Nat \ {0} /\ nItems <= MaxItems
    BY <1>1, BoundsAssumption, MaxItemsAssumption DEF Values, CountBounds
<1>3. active \in Seq(Nat) /\ free \in Seq(Nat) /\ prepared \in Seq(Nat)
    BY <1>1, <1>2, ListsAreSeqs
<1>4. Len(active) + Len(free) + Len(prepared) = size
    BY <1>1 DEF AllLinked, Whole
<1>5. Len(active) <= pending + Cardinality(Called)
    BY DEF Inv, NoneStranded, NothingStranded, Called
<1> QED  BY <1>1, <1>2, <1>3, <1>4, <1>5

\* A step that leaves the buffer alone and moves no worker from or to "called".
LEMMA QuietStep ==
    ASSUME Inv, client = "server", Usable, UNCHANGED <<Buffer, client>>,
           ThreadsOK', OnePrepared', CopiesApart',
           pending' = pending, Called' = Called
    PROVE  Inv'
<1>1. Values' /\ Lists' /\ AllLinked'
    BY ServerFacts DEF Buffer, vars, Values, Lists, AllLinked
<1>2. ServerOK'
    BY <1>1, ServerFacts DEF ServerOK, CountBounds, Buffer, vars
<1>3. NoneStranded'
    BY ServerFacts DEF NoneStranded, NothingStranded, Called, Buffer, vars
<1> QED  BY <1>1, <1>2, <1>3 DEF Inv, PushOK

LEMMA ArriveStep ==
    ASSUME Inv, client = "server", Usable, UNCHANGED client,
           \/ \E kind \in {"data", "empty"} : Arrive(kind)
           \/ Stop
    PROVE  Inv'
<1>1. UNCHANGED <<Buffer, Threads, pending, client>>
    BY DEF Arrive, Stop
<1>2. Called' = Called
    BY <1>1 DEF Threads, Called
<1>3. ThreadsOK' /\ OnePrepared' /\ CopiesApart'
    BY <1>1, ServerFacts
    DEF Buffer, vars, Threads, ThreadsOK, OnePrepared, CopiesApart
<1> QED  BY <1>1, <1>2, <1>3, QuietStep

LEMMA SelectStep ==
    ASSUME Inv, client = "server", Usable, UNCHANGED client, Select
    PROVE  Inv'
<1>1. UNCHANGED <<Buffer, work, reading, mtx, pending>> /\ recv = "loop"
      /\ recv' \in {"prepare", "done"}
    BY DEF Select
<1>2. Called' = Called
    BY <1>1 DEF Called
<1>3. ThreadsOK' /\ OnePrepared' /\ CopiesApart'
    BY <1>1, ServerFacts DEF Buffer, vars, ThreadsOK, OnePrepared, CopiesApart
<1> QED  BY <1>1, <1>2, <1>3, QuietStep

LEMMA ReceiveStep ==
    ASSUME Inv, client = "server", Usable, UNCHANGED client, Receive
    PROVE  Inv'
<1>1. UNCHANGED <<Buffer, work, reading, mtx, pending>> /\ recv = "receive"
      /\ recv' \in {"rollback", "commit", "done"}
    BY DEF Receive
<1>2. Called' = Called
    BY <1>1 DEF Called
<1>3. ThreadsOK' /\ OnePrepared' /\ CopiesApart'
    BY <1>1, ServerFacts DEF Buffer, vars, ThreadsOK, OnePrepared, CopiesApart
<1> QED  BY <1>1, <1>2, <1>3, QuietStep

LEMMA QuietWorkerStep ==
    ASSUME Inv, client = "server", Usable, UNCHANGED client, NEW w \in Worker,
           HandlerCopied(w) \/ HandlerDone(w) \/ WorkerLeaves(w)
    PROVE  Inv'
<1>1. /\ UNCHANGED <<Buffer, recv, pending>>
      /\ work[w] # "called"
      /\ \E p \in {"handle", "wait", "gone"} : work' = [work EXCEPT ![w] = p]
      /\ \/ UNCHANGED <<reading, mtx>>
         \/ /\ reading' = [reading EXCEPT ![w] = NoSlot]
            /\ mtx' = IF mtx = w THEN Nobody ELSE mtx
    BY DEF HandlerCopied, HandlerDone, WorkerLeaves
<1>2. Called' = Called
    BY <1>1, ServerFacts, CalledSame
<1>3. ThreadsOK' /\ OnePrepared'
    <2>1. OnePrepared'
        BY <1>1, ServerFacts DEF Buffer, vars, OnePrepared
    <2>2. work' \in [Worker -> {"wait", "called", "copy", "handle", "gone"}]
        BY <1>1, ServerFacts DEF ThreadsOK
    <2>3. reading' \in [Worker -> Nat]
        BY <1>1, ServerFacts DEF ThreadsOK, NoSlot
    <2> QED  BY <1>1, <2>1, <2>2, <2>3, ServerFacts DEF ThreadsOK
<1>4. CopiesApart'
    <2>1. prepared # <<>> => Head(prepared) # NoSlot
        <3>1. prepared # <<>> => Head(prepared) \in 1..size
            BY ServerFacts, Permuted, HeadIsApart DEF Lists
        <3> QED  BY <3>1, ServerFacts DEF NoSlot
    <2> QED  BY <1>1, <2>1, ServerFacts DEF Buffer, vars, ThreadsOK, CopiesApart
<1> QED  BY <1>1, <1>2, <1>3, <1>4, QuietStep

LEMMA WakeStep ==
    ASSUME Inv, client = "server", Usable, UNCHANGED client, NEW w \in Worker,
           Wake(w)
    PROVE  Inv'
<1>1. /\ UNCHANGED <<Buffer, recv, reading, mtx>> /\ work[w] = "wait"
      /\ pending > 0 /\ pending' = pending - 1
      /\ work' = [work EXCEPT ![w] = "called"]
    BY DEF Wake
<1>2. Cardinality(Called') = Cardinality(Called) + 1
    BY <1>1, ServerFacts, CalledMore
<1>3. Values' /\ Lists' /\ AllLinked' /\ ThreadsOK' /\ OnePrepared' /\ CopiesApart'
    <2>1. Values' /\ Lists' /\ AllLinked'
        BY <1>1, ServerFacts DEF Buffer, vars, Values, Lists, AllLinked
    <2>2. OnePrepared' /\ CopiesApart'
        BY <1>1, ServerFacts DEF Buffer, vars, OnePrepared, CopiesApart
    <2>3. work' \in [Worker -> {"wait", "called", "copy", "handle", "gone"}]
        BY <1>1, ServerFacts DEF ThreadsOK
    <2>4. pending' \in Nat
        BY <1>1, ServerFacts DEF ThreadsOK
    <2>5. ThreadsOK'
        BY <1>1, <2>3, <2>4, ServerFacts DEF ThreadsOK
    <2> QED  BY <2>1, <2>2, <2>5
<1>4. ServerOK'
    BY <1>1, <1>3, ServerFacts DEF ServerOK, CountBounds, Buffer, vars
<1>5. Len(active') <= pending' + Cardinality(Called')
    <2>1. pending \in Nat /\ Cardinality(Called) \in Nat
        BY ServerFacts, CalledCount DEF ThreadsOK
    <2>2. pending' + Cardinality(Called') = pending + Cardinality(Called)
        BY <1>1, <1>2, <2>1
    <2> QED  BY <1>1, <2>2, ServerFacts DEF Buffer, vars
<1>6. NoneStranded'
    BY <1>5 DEF NoneStranded, NothingStranded, Called
<1> QED  BY <1>3, <1>4, <1>6 DEF Inv, PushOK

LEMMA NotEmpty ==
    ASSUME NEW s \in Seq(Nat), Len(s) # 0
    PROVE  s # <<>>
OBVIOUS

LEMMA Singleton ==
    ASSUME NEW s \in Seq(Nat), Len(s) = 1
    PROVE  s # <<>> /\ Tail(s) = <<>> /\ Head(s) \in Nat
<1>1. s # <<>>
    <2>1. Len(s) # 0
        OBVIOUS
    <2> QED  BY <2>1, NotEmpty, Zenon
<1>2. Tail(s) \in Seq(Nat) /\ Len(Tail(s)) = 0 /\ Head(s) \in Nat
    BY <1>1, HeadTailProperties
<1>3. Tail(s) = <<>>
    BY <1>2, EmptySeq
<1> QED  BY <1>1, <1>2, <1>3

\* The slot that is prepared is no handler's: the lock is free, so that no
\* handler copies at all.
LEMMA PrepareStep ==
    ASSUME Inv, client = "server", Usable, UNCHANGED client, RecvPrepare
    PROVE  Inv'
<1>1. /\ recv = "prepare" /\ recv' = "receive" /\ mtx = Nobody /\ Prepare
      /\ UNCHANGED <<work, reading, mtx, pending>>
    BY DEF RecvPrepare
<1>2. Values' /\ Lists' /\ AllLinked'
    BY <1>1, ServerFacts, PrepareKeeps
<1>3. prepared = <<>> /\ Len(active) + Len(free) = size
    <2>1. prepared = <<>>
        BY <1>1, ServerFacts DEF OnePrepared
    <2> QED  BY <2>1, ServerFacts
<1>4. ThreadsOK'
    BY <1>1, ServerFacts DEF ThreadsOK
<1>5. nItems >= MaxItems /\ free = <<>> => active # <<>> /\ size = MaxItems
    <2>1. size <= MaxItems /\ (size < MaxItems => nItems = Len(active))
        BY ServerFacts DEF CountBounds
    <2>2. nItems >= MaxItems /\ free = <<>> => Len(active) = MaxItems
        BY <1>3, <2>1, ServerFacts
    <2> QED  BY <1>3, <2>2, ServerFacts
<1>6. /\ Len(prepared') = 1
      /\ nItems' = nItems /\ hollow' = hollow
      /\ \/ active' = active /\ size' = size
         \/ active' = active /\ size' = size + 1 /\ free = <<>> /\ nItems < MaxItems
         \/ active' = Tail(active) /\ size' = size /\ size = MaxItems /\ active # <<>>
    BY <1>1, <1>3, <1>5, ServerFacts DEF Prepare, Unlinked
<1>7. CountBounds'
    BY <1>3, <1>6, ServerFacts DEF CountBounds
<1>8. CopiesApart'
    <2>1. \A w \in Worker : reading[w] = NoSlot
        BY <1>1, ServerFacts, WorkerAssumption DEF CopiesApart
    <2>2. prepared' # <<>> => Head(prepared') # NoSlot
        <3>1. prepared' # <<>> => Head(prepared') \in 1..size'
            BY <1>2, Permuted, HeadIsApart DEF Lists, Values
        <3> QED  BY <1>2, <3>1 DEF Values, NoSlot
    <2> QED  BY <1>1, <2>1, <2>2 DEF CopiesApart
<1>9. ServerOK'
    BY <1>1, <1>2, <1>6, <1>7, <1>8 DEF ServerOK, OnePrepared
<1>10. NoneStranded'
    <2>1. Len(active') <= Len(active)
        BY <1>6, ServerFacts
    <2>2. Called' = Called
        BY <1>1 DEF Called
    <2>3. Len(active') <= pending' + Cardinality(Called')
        <3>1. pending \in Nat /\ Cardinality(Called) \in Nat
            BY ServerFacts, CalledCount DEF ThreadsOK
        <3> QED  BY <1>1, <1>6, <2>1, <2>2, <3>1, ServerFacts
    <2> QED  BY <2>3 DEF NoneStranded, NothingStranded, Called
<1> QED  BY <1>2, <1>4, <1>9, <1>10 DEF Inv, PushOK

\* The prepared slot is stored, with a notification of its own.
LEMMA CommitStep ==
    ASSUME Inv, client = "server", Usable, UNCHANGED client, RecvCommit
    PROVE  Inv'
<1>1. /\ recv = "commit" /\ recv' = "loop" /\ mtx = Nobody
      /\ Commit(Head(prepared)) /\ pending' = pending + 1
      /\ UNCHANGED <<work, reading, mtx>>
    BY DEF RecvCommit
<1>2. Values' /\ Lists' /\ AllLinked'
    BY <1>1, ServerFacts, CommitKeeps
<1>3. /\ Len(prepared) = 1 /\ prepared # <<>>
      /\ Tail(prepared) = <<>> /\ Head(prepared) \in Nat
    <2>1. Len(prepared) = 1
        BY <1>1, ServerFacts DEF OnePrepared
    <2> QED  BY <2>1, ServerFacts, Singleton
<1>4. ThreadsOK'
    <2>1. pending' \in Nat
        BY <1>1, ServerFacts DEF ThreadsOK
    <2> QED  BY <1>1, <2>1, ServerFacts DEF ThreadsOK
<1>5. /\ prepared' = Tail(prepared) /\ active' = Append(active, Head(prepared))
      /\ nItems' = (IF nItems + 1 > MaxItems THEN MaxItems ELSE nItems + 1)
      /\ size' = size /\ hollow' = hollow
    BY <1>1, <1>3 DEF Commit, Finds
<1>6. Len(active') = Len(active) + 1 /\ prepared' = <<>>
    BY <1>3, <1>5, ServerFacts
<1>7. CountBounds'
    <2>1. Len(active) + 1 <= size
        BY <1>3, ServerFacts
    <2> QED  BY <1>5, <1>6, <2>1, ServerFacts DEF CountBounds
<1>8. CopiesApart'
    BY <1>1, <1>6, ServerFacts DEF CopiesApart
<1>9. ServerOK'
    BY <1>1, <1>2, <1>6, <1>7, <1>8 DEF ServerOK, OnePrepared
<1>10. NoneStranded'
    <2>1. pending \in Nat /\ Cardinality(Called) \in Nat
        BY ServerFacts, CalledCount DEF ThreadsOK
    <2>2. Called' = Called
        BY <1>1 DEF Called
    <2>3. Len(active') <= pending' + Cardinality(Called')
        BY <1>1, <1>6, <2>1, <2>2, ServerFacts
    <2> QED  BY <2>3 DEF NoneStranded, NothingStranded, Called
<1> QED  BY <1>2, <1>4, <1>9, <1>10 DEF Inv, PushOK

LEMMA RollbackStep ==
    ASSUME Inv, client = "server", Usable, UNCHANGED client, RecvRollback
    PROVE  Inv'
<1>1. /\ recv = "rollback" /\ recv' = "loop"
      /\ Rollback(Head(prepared))
      /\ UNCHANGED <<work, reading, mtx, pending>>
    BY DEF RecvRollback
<1>2. Values' /\ Lists' /\ AllLinked'
    BY <1>1, ServerFacts, RollbackKeeps
<1>3. /\ Len(prepared) = 1 /\ prepared # <<>>
      /\ Tail(prepared) = <<>> /\ Head(prepared) \in Nat
    <2>1. Len(prepared) = 1
        BY <1>1, ServerFacts DEF OnePrepared
    <2> QED  BY <2>1, ServerFacts, Singleton
<1>4. /\ prepared' = Tail(prepared)
      /\ UNCHANGED <<active, nItems, size, hollow>>
    BY <1>1, <1>3 DEF Rollback, Finds
<1>5. prepared' = <<>>
    BY <1>3, <1>4, ServerFacts
<1>6. ThreadsOK' /\ CopiesApart' /\ CountBounds'
    BY <1>1, <1>4, <1>5, ServerFacts DEF ThreadsOK, CopiesApart, CountBounds
<1>7. ServerOK'
    BY <1>1, <1>2, <1>5, <1>6 DEF ServerOK, OnePrepared
<1>8. NoneStranded'
    <2>1. Called' = Called
        BY <1>1 DEF Called
    <2>2. Len(active') <= pending' + Cardinality(Called')
        BY <1>1, <1>4, <2>1, ServerFacts
    <2> QED  BY <2>2 DEF NoneStranded, NothingStranded, Called
<1> QED  BY <1>2, <1>6, <1>7, <1>8 DEF Inv, PushOK

\* A handler that finds n_items_ zero leaves nothing behind, and one that pops
\* takes what its notification stands for.
LEMMA HandlerPopStep ==
    ASSUME Inv, client = "server", Usable, UNCHANGED client, NEW w \in Worker,
           HandlerPop(w)
    PROVE  Inv'
<1>1. /\ work[w] = "called" /\ mtx = Nobody /\ UNCHANGED <<recv, pending>>
      /\ pending \in Nat /\ Cardinality(Called) \in Nat
    BY ServerFacts, CalledCount DEF HandlerPop, ThreadsOK
<1>2. CASE /\ nItems > 0 /\ Pop /\ mtx' = w
           /\ work' = [work EXCEPT ![w] = "copy"]
           /\ reading' = [reading EXCEPT ![w] = EndOf(active)]
    <2>1. Values' /\ Lists' /\ AllLinked'
        BY <1>2, ServerFacts, PopKeeps
    <2>2. UNCHANGED prepared
        BY <1>2 DEF Pop
    <2>3. /\ EndOf(active) \in Nat
          /\ prepared # <<>> => EndOf(active) # Head(prepared)
        <3>1. active # <<>> => /\ Head(active) \in 1..size
                               /\ ~Has(prepared, Head(active))
            BY ServerFacts, HeadIsApart DEF Lists
        <3>2. prepared # <<>> => /\ Head(prepared) \in 1..size
                                 /\ Has(prepared, Head(prepared))
            BY ServerFacts, TakeHead DEF Lists, Linked
        <3> QED  BY <3>1, <3>2, ServerFacts DEF EndOf, NoSlot
    <2>4. ThreadsOK'
        <3>1. work' \in [Worker -> {"wait", "called", "copy", "handle", "gone"}]
            BY <1>2, ServerFacts DEF ThreadsOK
        <3>2. reading' \in [Worker -> Nat]
            BY <1>2, <2>3, ServerFacts DEF ThreadsOK
        <3> QED  BY <1>1, <3>1, <3>2, ServerFacts DEF ThreadsOK
    <2>5. CopiesApart'
        <3>1. \A v \in Worker : reading[v] = NoSlot
            BY <1>1, ServerFacts, WorkerAssumption DEF CopiesApart
        <3>2. \A v \in Worker : reading'[v] = IF v = w THEN EndOf(active) ELSE NoSlot
            BY <1>2, <3>1, ServerFacts DEF ThreadsOK
        <3>3. prepared # <<>> => Head(prepared) # NoSlot
            <4>1. prepared # <<>> => Head(prepared) \in 1..size
                BY ServerFacts, TakeHead DEF Lists, Linked
            <4> QED  BY <4>1, ServerFacts DEF NoSlot
        <3> QED  BY <1>2, <2>2, <2>3, <3>2, <3>3 DEF CopiesApart
    <2>6. Usable' => /\ active # <<>> /\ active' = Tail(active)
                     /\ nItems' = nItems - 1
                     /\ UNCHANGED <<size, hollow>>
        BY <1>2 DEF Pop, EmptyError, Usable
    <2>7. Usable' => CountBounds'
        BY <2>6, ServerFacts DEF CountBounds
    <2>8. ServerOK'
        BY <1>1, <2>1, <2>2, <2>5, <2>7, ServerFacts DEF ServerOK, OnePrepared
    <2>9. Cardinality(Called') = Cardinality(Called) - 1
        BY <1>1, <1>2, ServerFacts, CalledLess
    <2>10. Usable' => Len(active') <= pending' + Cardinality(Called')
        BY <1>1, <2>6, <2>9, ServerFacts
    <2>11. NoneStranded'
        BY <2>10 DEF NoneStranded, NothingStranded, Called
    <2> QED  BY <2>1, <2>4, <2>8, <2>11 DEF Inv, PushOK
<1>3. CASE /\ nItems = 0 /\ work' = [work EXCEPT ![w] = "wait"]
           /\ UNCHANGED <<Buffer, reading, mtx>>
    <2>1. Values' /\ Lists' /\ AllLinked'
        BY <1>3, ServerFacts DEF Buffer, vars, Values, Lists, AllLinked
    <2>2. ThreadsOK'
        <3>1. work' \in [Worker -> {"wait", "called", "copy", "handle", "gone"}]
            BY <1>3, ServerFacts DEF ThreadsOK
        <3> QED  BY <1>1, <1>3, <3>1, ServerFacts DEF ThreadsOK
    <2>3. ServerOK'
        BY <1>1, <1>3, <2>1, ServerFacts
        DEF ServerOK, OnePrepared, CopiesApart, CountBounds, Buffer, vars
    <2>4. Cardinality(Called') = Cardinality(Called) - 1 /\ Called' \subseteq Called
        <3>1. Called' \subseteq Called
            BY <1>1, <1>3, ServerFacts DEF Called, ThreadsOK
        <3> QED  BY <1>1, <1>3, <3>1, ServerFacts, CalledLess
    <2>5. Cardinality(Called') \in Nat
        BY <2>4, CalledCount, FS_Subset, FS_CardinalityType
    <2>6. Len(active') <= pending' + Cardinality(Called')
        <3>1. Len(active') = 0
            BY <1>3, ServerFacts DEF CountBounds, Buffer, vars
        <3> QED  BY <1>1, <2>5, <3>1
    <2>7. NoneStranded'
        BY <2>6 DEF NoneStranded, NothingStranded, Called
    <2> QED  BY <2>1, <2>2, <2>3, <2>7 DEF Inv, PushOK
<1> QED  BY <1>2, <1>3 DEF HandlerPop

LEMMA Step == Inv /\ [MCNext]_mcVars => Inv'
<1> SUFFICES ASSUME Inv, [MCNext]_mcVars PROVE Inv'
    OBVIOUS
<1>1. CASE client = "server" /\ RNext /\ UNCHANGED client
    <2>1. Usable
        BY <1>1 DEF RNext
    <2> QED  BY <1>1, <2>1, ArriveStep, SelectStep, PrepareStep, ReceiveStep,
                CommitStep, RollbackStep, WakeStep, HandlerPopStep,
                QuietWorkerStep DEF RNext
<1>2. CASE client = "push" /\ OneStepNext
           /\ UNCHANGED <<inbox, Threads, pending, stopMe, client>>
    BY <1>2, PushStep
<1>3. CASE client = "any" /\ AnyNext
           /\ UNCHANGED <<inbox, Threads, pending, stopMe, client>>
    BY <1>3, AnyStep
<1>4. CASE UNCHANGED mcVars
    <2>1. UNCHANGED <<vars, recv, work, reading, mtx, pending, client>>
        BY <1>4 DEF mcVars, rvars
    <2>2. Values' /\ Lists' /\ ThreadsOK' /\ (AllLinked => AllLinked')
        BY <2>1 DEF vars, Inv, Values, Lists, AllLinked, ThreadsOK
    <2>3. (ServerOK /\ PushOK)'
        BY <2>1, <2>2 DEF vars, Inv, ServerOK, PushOK, OnePrepared, CopiesApart,
                          CountBounds, CountExact, Usable
    <2>4. NoneStranded'
        BY <2>1 DEF vars, Inv, NoneStranded, NothingStranded, Usable
    <2> QED  BY <2>2, <2>3, <2>4 DEF Inv
<1> QED  BY <1>1, <1>2, <1>3, <1>4 DEF MCNext

-----------------------------------------------------------------------------
(* The theorems.                                                           *)

\* The inductive invariant holds for a server and for the two kinds of clients
\* that use circbuf without threads, with any capacity and any workers.
THEOREM CircBufInvariant == MCSpec => []Inv
BY Initial, Step, PTL DEF MCSpec

\* Every field of circbuf keeps its type, whatever is called.
THEOREM CircBufTypeCorrect == MCSpec => []TypeOK
<1>1. Inv => TypeOK
    BY ListsHaveTypes DEF Inv
<1> QED  BY <1>1, CircBufInvariant, PTL

\* No slot is ever on two lists, n_items_ is exact for push(), and a server
\* neither loses a slot nor forgets a message (prepare(), commit(), pop()).
THEOREM CircBufSlotsKept == MCSpec => []SlotsKept
<1>1. ASSUME Inv PROVE SlotsKept
    <2>1. size \in Nat
        BY <1>1, BoundsAssumption DEF Inv, Values
    <2>2. NoDoubleLink
        BY <1>1, <2>1, Concatenated DEF Inv, Lists, NoDoubleLink
    <2>3. client = "push" => CountExact
        BY <1>1 DEF Inv, PushOK
    <2>4. client = "server" => SlotsPartitioned
        BY <1>1, <2>1, Concatenated
        DEF Inv, Lists, ServerOK, AllLinked, SlotsPartitioned
    <2>5. client = "server" => NothingForgotten
        BY <1>1 DEF Inv, ServerOK, CountBounds, NothingForgotten
    <2> QED  BY <2>2, <2>3, <2>4, <2>5 DEF SlotsKept
<1> QED  BY <1>1, CircBufInvariant, PTL

\* recvfrom() never writes into the slot that a handler is copying, although it
\* runs without msgs_.mtx_.
THEOREM RecvrNoTornMessage == MCSpec => []NoTornMessage
<1>1. ASSUME Inv, recv = "receive" PROVE \A w \in Worker : reading[w] # Head(prepared)
    <2>1. client = "server" /\ Lists /\ size \in Nat
        BY <1>1, BoundsAssumption DEF Inv, ThreadsOK, Values
    <2>2. CopiesApart /\ Len(prepared) = 1
        BY <1>1, <2>1 DEF Inv, ServerOK, OnePrepared
    <2>3. prepared # <<>>
        <3>1. prepared \in Seq(Nat)
            BY <2>1, ListsAreSeqs
        <3> QED  BY <2>2, <3>1, Singleton
    <2> QED  BY <2>2, <2>3 DEF CopiesApart
<1>2. Inv => NoTornMessage
    BY <1>1 DEF NoTornMessage
<1> QED  BY <1>2, CircBufInvariant, PTL

\* Every stored message of a server has a notification, or a handler that was
\* called for one: on_new_item() and ev_ never strand a message.
THEOREM RecvrNoneStranded == MCSpec => []NoneStranded
<1>1. Inv => NoneStranded
    BY DEF Inv
<1> QED  BY <1>1, CircBufInvariant, PTL

-----------------------------------------------------------------------------
(* circbuf implements the lossy queue: the stored messages in the order of *)
(* the list.                                                               *)

\* The messages c in the slots of list a, which is what Stored is.
Messages(a, c) == [i \in 1..Len(a) |-> c[a[i]]]

LEMMA FunctionIsSeq ==
    ASSUME NEW k \in Nat, NEW M, NEW q \in [1..k -> M]
    PROVE  q \in Seq(M) /\ Len(q) = k
OBVIOUS

LEMMA MessagesType ==
    ASSUME NEW n \in 0..MaxSlots,
           NEW c \in [Slots -> 0..MaxMessages], NEW a, List(a, n)
    PROVE  Messages(a, c) \in Seq(0..MaxMessages) /\ Len(Messages(a, c)) = Len(a)
<1> n \in Nat /\ 1..n \subseteq Slots
    BY BoundsAssumption DEF Slots
<1>1. \A i \in 1..Len(a) : a[i] \in Slots
    BY DEF List
<1>2. Len(a) \in Nat
    BY DEF List
<1>3. \A i \in 1..Len(a) : c[a[i]] \in 0..MaxMessages
    BY <1>1
<1> QED  BY <1>2, <1>3 DEF Messages

\* Taking the oldest slot takes the oldest message.
LEMMA MessagesTail ==
    ASSUME NEW n \in 0..MaxSlots,
           NEW c \in [Slots -> 0..MaxMessages], NEW a, List(a, n), a # <<>>
    PROVE  /\ Messages(a, c) # <<>>
           /\ Head(Messages(a, c)) = c[Head(a)]
           /\ Messages(Tail(a), c) = Tail(Messages(a, c))
<1> n \in Nat /\ 1..n \subseteq Slots
    BY BoundsAssumption DEF Slots
<1> DEFINE q == Messages(a, c)
<1>1. q \in Seq(0..MaxMessages) /\ Len(q) = Len(a) /\ Len(a) \in Nat \ {0}
    <2>1. q \in Seq(0..MaxMessages) /\ Len(q) = Len(a)
        BY MessagesType
    <2> QED  BY <2>1, TakeHead
<1>2. a \in Seq(1..n)
    BY DEF List
<1>3. q # <<>>
    BY <1>1, EmptySeq
<1>4. Head(q) = c[Head(a)]
    <2>1. q[1] = c[a[1]]
        BY <1>1 DEF Messages
    <2> QED  BY <1>1, <1>2, <1>3, <2>1
<1>5. /\ Messages(Tail(a), c) \in Seq(0..MaxMessages)
      /\ Len(Messages(Tail(a), c)) = Len(a) - 1
    <2>1. List(Tail(a), n) /\ Len(Tail(a)) = Len(a) - 1
        BY TakeHead
    <2>2. /\ Messages(Tail(a), c) \in Seq(0..MaxMessages)
          /\ Len(Messages(Tail(a), c)) = Len(Tail(a))
        BY <2>1, MessagesType
    <2> QED  BY <2>1, <2>2
<1>6. /\ Tail(q) \in Seq(0..MaxMessages) /\ Len(Tail(q)) = Len(a) - 1
      /\ \A i \in 1..(Len(a) - 1) : Tail(q)[i] = q[i + 1]
    BY <1>1, <1>3, HeadTailProperties
<1>7. ASSUME NEW i \in 1..(Len(a) - 1)
      PROVE  Messages(Tail(a), c)[i] = Tail(q)[i]
    <2>1. Tail(a)[i] = a[i + 1] /\ Len(Tail(a)) = Len(a) - 1
        BY <1>2, HeadTailProperties
    <2>2. i + 1 \in 1..Len(a)
        BY <1>1
    <2>3. Messages(Tail(a), c)[i] = c[a[i + 1]]
        BY <2>1 DEF Messages
    <2>4. q[i + 1] = c[a[i + 1]]
        BY <2>2 DEF Messages
    <2> QED  BY <1>6, <2>3, <2>4
<1>8. Messages(Tail(a), c) = Tail(q)
    BY <1>5, <1>6, <1>7, SeqEqual
<1> QED  BY <1>3, <1>4, <1>8

\* Storing a slot that is not stored yet stores its new message last.
LEMMA MessagesAppend ==
    ASSUME NEW n \in 0..MaxSlots,
           NEW c \in [Slots -> 0..MaxMessages], NEW a, List(a, n),
           NEW s \in Slots, ~Has(a, s), NEW m \in 0..MaxMessages
    PROVE  Messages(Append(a, s), [c EXCEPT ![s] = m]) = Append(Messages(a, c), m)
<1> n \in Nat /\ 1..n \subseteq Slots
    BY BoundsAssumption DEF Slots
<1> DEFINE q  == Messages(a, c)
           a2 == Append(a, s)
           c2 == [c EXCEPT ![s] = m]
           q2 == Messages(a2, c2)
<1>1. q \in Seq(0..MaxMessages) /\ Len(q) = Len(a) /\ Len(a) \in Nat
    <2>1. q \in Seq(0..MaxMessages) /\ Len(q) = Len(a)
        BY MessagesType
    <2> QED  BY <2>1, Members
<1>2. a \in Seq(Slots) /\ c2 \in [Slots -> 0..MaxMessages]
    <2>1. a \in Seq(1..n)
        BY DEF List
    <2> QED  BY <2>1
<1>3. /\ a2 \in Seq(Slots) /\ Len(a2) = Len(a) + 1
      /\ \A i \in 1..Len(a) : a2[i] = a[i]
      /\ a2[Len(a) + 1] = s
    BY <1>2, AppendProperties
<1>4. /\ Append(q, m) \in Seq(0..MaxMessages) /\ Len(Append(q, m)) = Len(a) + 1
      /\ \A i \in 1..Len(a) : Append(q, m)[i] = q[i]
      /\ Append(q, m)[Len(a) + 1] = m
    BY <1>1, AppendProperties
<1>5. q2 = [i \in 1..(Len(a) + 1) |-> c2[a2[i]]]
    BY <1>3 DEF Messages
<1>6. ASSUME NEW i \in 1..(Len(a) + 1)
      PROVE  q2[i] \in 0..MaxMessages /\ q2[i] = Append(q, m)[i]
    <2>1. CASE i = Len(a) + 1
        <3>1. q2[i] = c2[s]
            BY <1>3, <1>5, <2>1
        <3> QED  BY <1>2, <1>4, <2>1, <3>1
    <2>2. CASE i \in 1..Len(a)
        <3>1. a[i] # s /\ a[i] \in Slots
            BY <1>2, <2>2 DEF Has
        <3>2. q2[i] = c2[a[i]]
            BY <1>3, <1>5, <2>2
        <3>3. c2[a[i]] = c[a[i]] /\ c[a[i]] \in 0..MaxMessages
            BY <3>1
        <3>4. q[i] = c[a[i]]
            BY <2>2 DEF Messages
        <3> QED  BY <1>4, <2>2, <3>2, <3>3, <3>4
    <2> QED  BY <1>1, <2>1, <2>2
<1>7. q2 \in Seq(0..MaxMessages) /\ Len(q2) = Len(a) + 1
    <2> HIDE DEF q2
    <2>1. q2 \in [1..(Len(a) + 1) -> 0..MaxMessages] /\ Len(a) + 1 \in Nat
        BY <1>1, <1>5, <1>6
    <2> QED  BY <2>1, FunctionIsSeq
<1> QED  BY <1>4, <1>6, <1>7, SeqEqual

\* A step that stores message m in the prepared, free or new slot s.
LEMMA PutStep ==
    ASSUME Inv, client # "any", UNCHANGED <<popped, client>>,
           NEW s \in Slots, ~Has(active, s), stamp < MaxMessages,
           active' = Append(active, s), content' = [content EXCEPT ![s] = stamp + 1],
           Len(active) # MaxItems
    PROVE  Abstract!LNext
<1>1. /\ size \in 0..MaxSlots /\ List(active, size)
      /\ content \in [Slots -> 0..MaxMessages]
      /\ stamp + 1 \in 0..MaxMessages /\ stamp + 1 \in 1..MaxMessages
    BY BoundsAssumption DEF Inv, Values, Lists, Linked
<1>2. Stored = Messages(active, content) /\ Stored' = Messages(active', content')
    BY DEF Stored, Messages
<1>3. Stored' = Append(Stored, stamp + 1)
    BY <1>1, <1>2, MessagesAppend
<1>4. Len(Stored) = Len(active)
    BY <1>1, <1>2, MessagesType
<1>5. Abstract!Put(stamp + 1)
    BY <1>3, <1>4 DEF Abstract!Put
<1> QED  BY <1>1, <1>5 DEF Abstract!LNext

\* A step that takes the oldest slot from active, and nothing else.
LEMMA TakeStep ==
    ASSUME Inv, client # "any", UNCHANGED <<client, content>>,
           active # <<>>, active' = Tail(active),
           \/ popped' = popped /\ Len(active) = MaxItems
           \/ popped' = content[Head(active)]
    PROVE  Abstract!LNext
<1>1. /\ size \in 0..MaxSlots /\ List(active, size)
      /\ content \in [Slots -> 0..MaxMessages]
    BY DEF Inv, Values, Lists, Linked
<1>2. Stored = Messages(active, content) /\ Stored' = Messages(active', content')
    BY DEF Stored, Messages
<1>3. Stored' = Tail(Stored) /\ Stored # <<>> /\ Head(Stored) = content[Head(active)]
    BY <1>1, <1>2, MessagesTail
<1>4. Len(Stored) = Len(active)
    BY <1>1, <1>2, MessagesType
<1>5. CASE popped' = popped /\ Len(active) = MaxItems
    BY <1>3, <1>4, <1>5 DEF Abstract!LNext, Abstract!Drop
<1>6. CASE popped' = content[Head(active)]
    BY <1>3, <1>6 DEF Abstract!LNext, Abstract!Get
<1> QED  BY <1>5, <1>6

QueueUnchanged ==
    UNCHANGED <<IF client = "any" THEN <<>> ELSE Stored,
                IF client = "any" THEN 0 ELSE popped>>

LEMMA SameQueue ==
    ASSUME UNCHANGED <<client, active, content, popped>>
    PROVE  QueueUnchanged
BY DEF QueueUnchanged, Stored

\* push() into a full buffer reuses the oldest slot.
LEMMA RotateStep ==
    ASSUME Inv, client # "any", UNCHANGED <<popped, client>>,
           active # <<>>, Len(active) = MaxItems, stamp < MaxMessages,
           active' = Append(Tail(active), Head(active)),
           content' = [content EXCEPT ![Head(active)] = stamp + 1]
    PROVE  Abstract!LNext
<1>1. /\ size \in 0..MaxSlots /\ size \in Nat /\ List(active, size)
      /\ content \in [Slots -> 0..MaxMessages]
      /\ stamp + 1 \in 0..MaxMessages /\ stamp + 1 \in 1..MaxMessages
    BY BoundsAssumption DEF Inv, Values, Lists, Linked
<1>2. Stored = Messages(active, content) /\ Stored' = Messages(active', content')
    BY DEF Stored, Messages
<1>3. List(Tail(active), size) /\ ~Has(Tail(active), Head(active))
    BY <1>1, TakeHead
<1>4. Head(active) \in Slots
    <2>1. Head(active) \in 1..size
        BY <1>1, TakeHead
    <2> QED  BY <1>1, <2>1, BoundsAssumption DEF Slots
<1>5. Stored' = Append(Messages(Tail(active), content), stamp + 1)
    BY <1>1, <1>2, <1>3, <1>4, MessagesAppend
<1>6. Messages(Tail(active), content) = Tail(Stored)
    BY <1>1, <1>2, MessagesTail
<1>7. Len(Stored) = MaxItems
    BY <1>1, <1>2, MessagesType
<1>8. Abstract!Put(stamp + 1)
    BY <1>5, <1>6, <1>7 DEF Abstract!Put
<1> QED  BY <1>1, <1>8 DEF Abstract!LNext

LEMMA PushRefines ==
    ASSUME Inv, client = "push", OneStepNext, UNCHANGED client
    PROVE  Abstract!LNext \/ QueueUnchanged
<1>1. /\ Values /\ Lists /\ AllLinked /\ nItems = Len(active) /\ size <= MaxItems
    BY DEF Inv, PushOK, CountExact
<1>2. /\ size \in Nat /\ nItems \in Nat /\ size < MaxSlots
      /\ MaxItems \in Nat \ {0} /\ nItems <= MaxItems
    BY <1>1, BoundsAssumption, MaxItemsAssumption DEF Values
<1>3. active \in Seq(Nat) /\ Len(active) \in Nat
    BY <1>1, <1>2, ListsAreSeqs
<1>4. CASE Push
    <2>1. nItems >= MaxItems => active # <<>> /\ Len(active) = MaxItems
        BY <1>1, <1>2, <1>3
    <2>2. ASSUME PushSlot # NoSlot
          PROVE  /\ content' = [content EXCEPT ![PushSlot] = stamp + 1]
                 /\ stamp < MaxMessages /\ popped' = popped
        BY <1>4, <2>2 DEF Push
    <2>3. CASE /\ nItems >= MaxItems /\ active # <<>> /\ PushSlot = Head(active)
               /\ active' = Append(Tail(active), Head(active))
        <3>1. Head(active) # NoSlot
            <4>1. Head(active) \in 1..size
                BY <1>1, <1>2, <2>3, HeadIsApart DEF Lists
            <4> QED  BY <1>2, <4>1 DEF NoSlot
        <3> QED  BY <2>1, <2>2, <2>3, <3>1, RotateStep
    <2>4. CASE /\ nItems < MaxItems /\ free # <<>> /\ PushSlot = Head(free)
               /\ active' = Append(active, Head(free))
        <3>1. Head(free) \in 1..size /\ ~Has(active, Head(free))
            BY <1>1, <1>2, <2>4, Permuted, HeadIsApart DEF Lists
        <3>2. Head(free) \in Slots /\ Head(free) # NoSlot
            BY <1>2, <3>1, BoundsAssumption DEF Slots, NoSlot
        <3>3. Len(active) # MaxItems
            BY <1>1, <1>2, <2>4
        <3> QED  BY <2>2, <2>4, <3>1, <3>2, <3>3, PutStep
    <2>5. CASE /\ nItems < MaxItems /\ PushSlot = size + 1
               /\ active' = Append(active, size + 1)
        <3>1. ~Has(active, size + 1)
            BY <1>1, <1>2, NewSlot DEF Lists, Linked
        <3>2. size + 1 \in Slots /\ size + 1 # NoSlot
            BY <1>2, BoundsAssumption DEF Slots, NoSlot
        <3>3. Len(active) # MaxItems
            BY <1>1, <1>2, <2>5
        <3> QED  BY <2>2, <2>5, <3>1, <3>2, <3>3, PutStep
    <2> QED  BY <1>1, <1>4, <2>1, <2>3, <2>4, <2>5, PushCases
<1>5. CASE PopChecked
    <2>1. active # <<>>
        BY <1>1, <1>2, <1>3, <1>5 DEF PopChecked
    <2>2. /\ active' = Tail(active) /\ popped' = content[Head(active)]
          /\ UNCHANGED content
        BY <1>2, <1>5, <2>1 DEF PopChecked, Pop
    <2> QED  BY <2>1, <2>2, TakeStep
<1> QED  BY <1>4, <1>5 DEF OneStepNext

LEMMA ServerRefines ==
    ASSUME Inv, client = "server", RNext, UNCHANGED client
    PROVE  Abstract!LNext \/ QueueUnchanged
<1>1. Usable
    BY DEF RNext
<1>2. CASE RecvPrepare
    <2>1. recv = "prepare" /\ Prepare
        BY <1>2 DEF RecvPrepare
    <2>2. prepared = <<>> /\ Len(active) + Len(free) = size
        <3>1. prepared = <<>>
            BY <1>1, <2>1, ServerFacts DEF OnePrepared
        <3> QED  BY <1>1, <3>1, ServerFacts
    <2>3. nItems >= MaxItems /\ free = <<>> => active # <<>> /\ Len(active) = MaxItems
        <3>1. size <= MaxItems /\ (size < MaxItems => nItems = Len(active))
            BY <1>1, ServerFacts DEF CountBounds
        <3>2. nItems >= MaxItems /\ free = <<>> => Len(active) = MaxItems
            BY <1>1, <2>2, <3>1, ServerFacts
        <3> QED  BY <1>1, <2>2, <3>2, ServerFacts
    <2>4. /\ UNCHANGED <<content, popped>>
          /\ \/ active' = active
             \/ active # <<>> /\ active' = Tail(active) /\ Len(active) = MaxItems
        BY <2>1, <2>3 DEF Prepare, Unlinked
    <2> QED  BY <2>4, TakeStep, SameQueue
<1>3. CASE RecvCommit
    <2>1. recv = "commit" /\ Commit(Head(prepared))
        BY <1>3 DEF RecvCommit
    <2>2. Len(prepared) = 1 /\ prepared # <<>>
        <3>1. Len(prepared) = 1
            BY <1>1, <2>1, ServerFacts DEF OnePrepared
        <3> QED  BY <1>1, <3>1, ServerFacts, Singleton
    <2>3. /\ stamp < MaxMessages /\ popped' = popped
          /\ content' = [content EXCEPT ![Head(prepared)] = stamp + 1]
          /\ active' = Append(active, Head(prepared))
        BY <2>1, <2>2 DEF Commit, Finds
    <2>4. Head(prepared) \in 1..size /\ ~Has(active, Head(prepared))
        BY <1>1, <2>2, ServerFacts, Permuted, HeadIsApart DEF Lists
    <2>5. Head(prepared) \in Slots
        BY <1>1, <2>4, ServerFacts, BoundsAssumption DEF Slots
    <2>6. Len(active) # MaxItems
        <3>1. size <= MaxItems
            BY <1>1, ServerFacts DEF CountBounds
        <3> QED  BY <1>1, <2>2, <3>1, ServerFacts
    <2> QED  BY <2>3, <2>4, <2>5, <2>6, PutStep
<1>4. CASE RecvRollback
    <2>1. UNCHANGED <<active, content, popped>>
        BY <1>4 DEF RecvRollback, Rollback, Hang
    <2> QED  BY <2>1, SameQueue
<1>5. ASSUME NEW w \in Worker, HandlerPop(w)
      PROVE  Abstract!LNext \/ QueueUnchanged
    <2>1. CASE nItems > 0 /\ Pop
        <3>1. \/ UNCHANGED <<active, content, popped>>
              \/ /\ active # <<>> /\ active' = Tail(active)
                 /\ popped' = content[Head(active)] /\ UNCHANGED content
            BY <1>1, <2>1, ServerFacts DEF Pop
        <3> QED  BY <3>1, TakeStep, SameQueue
    <2>2. CASE UNCHANGED Buffer
        BY <2>2, SameQueue DEF Buffer, vars
    <2> QED  BY <1>5, <2>1, <2>2 DEF HandlerPop
<1>6. CASE \/ \E kind \in {"data", "empty"} : Arrive(kind)
           \/ Select \/ Receive \/ Stop
           \/ \E w \in Worker : Wake(w) \/ HandlerCopied(w) \/ HandlerDone(w)
                                \/ WorkerLeaves(w)
    <2>1. UNCHANGED Buffer
        BY <1>6 DEF Arrive, Select, Receive, Stop, Wake, HandlerCopied,
                    HandlerDone, WorkerLeaves
    <2> QED  BY <2>1, SameQueue DEF Buffer, vars
<1> QED  BY <1>2, <1>3, <1>4, <1>5, <1>6 DEF RNext

\* For a server and for clients of push() circbuf is a first-in first-out queue
\* of max_ messages that loses its oldest one when it is full, and only then:
\* prepare(), commit(), push() and pop() reorder and duplicate nothing.
THEOREM CircBufImplementsLossyQueue == MCSpec => ImplementsLossyQueue
<1>1. MCInit => Abstract!LInit
    <2> SUFFICES ASSUME MCInit PROVE Abstract!LInit
        OBVIOUS
    <2>1. active = <<>> /\ popped = 0
        BY DEF MCInit, RInit, Init
    <2>2. Stored = <<>>
        <3>1. 1..Len(active) = {}
            BY <2>1
        <3> QED  BY <3>1 DEF Stored
    <2> QED  BY <2>1, <2>2 DEF Abstract!LInit
<1>2. ASSUME Inv, [MCNext]_mcVars
      PROVE  Abstract!LNext \/ QueueUnchanged
    <2>1. CASE UNCHANGED mcVars
        BY <2>1, SameQueue DEF mcVars, rvars, vars
    <2>2. CASE client = "any" /\ UNCHANGED client
        BY <2>2 DEF QueueUnchanged
    <2> QED  BY <1>2, <2>1, <2>2, PushRefines, ServerRefines DEF MCNext
<1>3. Inv /\ [MCNext]_mcVars =>
        [Abstract!LNext]_<<IF client = "any" THEN <<>> ELSE Stored,
                           IF client = "any" THEN 0 ELSE popped>>
    BY <1>2 DEF QueueUnchanged
<1> QED  BY <1>1, <1>3, CircBufInvariant, PTL
         DEF MCSpec, ImplementsLossyQueue, Abstract!LSpec
=============================================================================
