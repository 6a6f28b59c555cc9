---------------------------- MODULE WaitersProofs ----------------------------
(***************************************************************************)
(* What appending a waiter, serving the first one and taking a cancelled   *)
(* one out from the middle do to a queue that lists each waiter once.      *)
(***************************************************************************)
EXTENDS Waiters, FiniteSetTheorems, TLAPS

\* A waiter stands once in a queue that lists it, and not at all in another.
LEMMA ListedOnce ==
    ASSUME NEW W, NEW q \in Seq(W), NEW S, NEW c, Lists(q, S)
    PROVE  Cardinality({i \in DOMAIN q : q[i] = c}) = IF c \in S THEN 1 ELSE 0
<1>1. CASE c \in S
    <2>1. PICK i \in DOMAIN q : q[i] = c
        BY <1>1 DEF Lists
    <2>2. {k \in DOMAIN q : q[k] = c} = {i}
        BY <2>1 DEF Lists
    <2>3. Cardinality({i}) = 1
        BY FS_Singleton
    <2> QED BY <1>1, <2>2, <2>3
<1>2. CASE c \notin S
    <2>1. {k \in DOMAIN q : q[k] = c} = {}
        BY <1>2 DEF Lists
    <2> QED BY <1>2, <2>1, FS_EmptySet
<1> QED BY <1>1, <1>2

\* A new waiter stands at the end.
LEMMA AppendLists ==
    ASSUME NEW W, NEW q \in Seq(W), NEW S, NEW c \in W, c \notin S, Lists(q, S)
    PROVE  Append(q, c) \in Seq(W) /\ Lists(Append(q, c), S \cup {c})
<1> DEFINE r == Append(q, c)
<1>1. /\ r \in Seq(W) /\ Len(q) \in Nat /\ DOMAIN q = 1 .. Len(q)
      /\ DOMAIN r = 1 .. Len(q) + 1 /\ r[Len(q) + 1] = c
      /\ \A i \in DOMAIN q : r[i] = q[i]
    OBVIOUS
<1> HIDE DEF r
<1>2. \A i \in DOMAIN r : i \in DOMAIN q \/ i = Len(q) + 1
    BY <1>1
<1>3. \A i \in DOMAIN q : i \in DOMAIN r /\ i # Len(q) + 1
    BY <1>1
<1>4. Len(q) + 1 \in DOMAIN r
    BY <1>1
<1>5. \A i \in DOMAIN q : r[i] # c
    BY <1>1 DEF Lists
<1>6. \A i, j \in DOMAIN r : r[i] = r[j] => i = j
    BY <1>1, <1>2, <1>5 DEF Lists
<1>7. \A i \in DOMAIN r : r[i] \in S \cup {c}
    BY <1>1, <1>2 DEF Lists
<1>8. \A x \in S \cup {c} : \E i \in DOMAIN r : r[i] = x
    BY <1>1, <1>3, <1>4 DEF Lists
<1> QED BY <1>1, <1>6, <1>7, <1>8 DEF Lists, r

\* The first waiter is served.
LEMMA TailLists ==
    ASSUME NEW W, NEW q \in Seq(W), NEW S, NEW c \in S, Head(q) = c, Lists(q, S)
    PROVE  Tail(q) \in Seq(W) /\ Lists(Tail(q), S \ {c})
<1> DEFINE r == Tail(q)
<1>1. q # <<>>
    BY DEF Lists
<1>2. /\ r \in Seq(W) /\ Len(q) \in Nat /\ Len(q) >= 1 /\ DOMAIN q = 1 .. Len(q)
      /\ DOMAIN r = 1 .. Len(q) - 1 /\ q[1] = c
      /\ \A i \in DOMAIN r : r[i] = q[i + 1]
    BY <1>1
<1> HIDE DEF r
<1>3. \A i \in DOMAIN r : i \in Int /\ i + 1 \in DOMAIN q /\ i + 1 # 1
    BY <1>2
<1>4. \A i \in DOMAIN q : i # 1 => i - 1 \in DOMAIN r /\ (i - 1) + 1 = i
    BY <1>2
<1>5. 1 \in DOMAIN q
    BY <1>2
<1>6. \A i, j \in DOMAIN r : r[i] = r[j] => i = j
    <2> SUFFICES ASSUME NEW i \in DOMAIN r, NEW j \in DOMAIN r, r[i] = r[j]
                 PROVE  i = j
        OBVIOUS
    <2>1. i + 1 = j + 1
        BY <1>2, <1>3 DEF Lists
    <2> QED BY <1>3, <2>1
<1>7. \A i \in DOMAIN r : r[i] \in S \ {c}
    BY <1>2, <1>3, <1>5 DEF Lists
<1>8. \A x \in S \ {c} : \E i \in DOMAIN r : r[i] = x
    <2> SUFFICES ASSUME NEW x \in S \ {c}
                 PROVE  \E i \in DOMAIN r : r[i] = x
        OBVIOUS
    <2>1. PICK i \in DOMAIN q : q[i] = x
        BY DEF Lists
    <2>2. i # 1
        BY <1>2, <2>1
    <2>3. i - 1 \in DOMAIN r /\ r[i - 1] = x
        BY <1>2, <1>4, <2>1, <2>2
    <2> QED BY <2>3
<1> QED BY <1>2, <1>6, <1>7, <1>8 DEF Lists, r

\* A cancelled waiter leaves a gap that closes.
LEMMA WithoutLists ==
    ASSUME NEW W, NEW q \in Seq(W), NEW S, NEW c \in S, Lists(q, S)
    PROVE  Without(q, c) \in Seq(W) /\ Lists(Without(q, c), S \ {c})
<1> DEFINE r == Without(q, c)
           k == CHOOSE i \in DOMAIN q : q[i] = c
<1>1. \E i \in DOMAIN q : q[i] = c
    BY DEF Lists
<1>2. k \in DOMAIN q /\ q[k] = c
    BY <1>1
<1>3. r = [j \in 1 .. Len(q) - 1 |-> IF j < k THEN q[j] ELSE q[j + 1]]
    BY DEF Without
<1> HIDE DEF r, k
<1>4. Len(q) \in Nat /\ DOMAIN q = 1 .. Len(q) /\ k \in Int
    BY <1>2
<1>5. DOMAIN r = 1 .. Len(q) - 1 /\ Len(q) - 1 \in Nat
    BY <1>2, <1>3, <1>4
<1>6. \A j \in DOMAIN r : /\ j \in Int /\ j \in DOMAIN q /\ j + 1 \in DOMAIN q
                          /\ r[j] = IF j < k THEN q[j] ELSE q[j + 1]
    BY <1>3, <1>4, <1>5
<1>7. r \in Seq(W)
    <2>1. \A j \in 1 .. Len(q) - 1 : r[j] \in W
        BY <1>5, <1>6
    <2> QED BY <1>3, <1>5, <2>1
<1>8. \A i, j \in DOMAIN r : r[i] = r[j] => i = j
    <2> SUFFICES ASSUME NEW i \in DOMAIN r, NEW j \in DOMAIN r, r[i] = r[j]
                 PROVE  i = j
        OBVIOUS
    <2> DEFINE from(x) == IF x < k THEN x ELSE x + 1
    <2>1. /\ from(i) \in DOMAIN q /\ from(j) \in DOMAIN q
          /\ r[i] = q[from(i)] /\ r[j] = q[from(j)]
        BY <1>6
    <2>2. from(i) = from(j)
        BY <2>1 DEF Lists
    <2> QED BY <1>4, <1>6, <2>2
<1>9. \A i \in DOMAIN r : r[i] \in S \ {c}
    <2> SUFFICES ASSUME NEW i \in DOMAIN r
                 PROVE  r[i] \in S \ {c}
        OBVIOUS
    <2>1. CASE i < k
        <3>1. i # k
            BY <1>4, <1>6, <2>1
        <3> QED BY <1>2, <1>6, <2>1, <3>1 DEF Lists
    <2>2. CASE ~(i < k)
        <3>1. i + 1 # k
            BY <1>4, <1>6, <2>2
        <3> QED BY <1>2, <1>6, <2>2, <3>1 DEF Lists
    <2> QED BY <2>1, <2>2
<1>10. \A x \in S \ {c} : \E i \in DOMAIN r : r[i] = x
    <2> SUFFICES ASSUME NEW x \in S \ {c}
                 PROVE  \E i \in DOMAIN r : r[i] = x
        OBVIOUS
    <2>1. PICK i \in DOMAIN q : q[i] = x
        BY DEF Lists
    <2>2. i # k
        BY <1>2, <2>1
    <2>3. CASE i < k
        <3>1. i \in DOMAIN r
            BY <1>2, <1>4, <1>5, <2>3
        <3> QED BY <1>6, <2>1, <2>3, <3>1
    <2>4. CASE ~(i < k)
        <3>1. i - 1 \in DOMAIN r /\ ~(i - 1 < k) /\ (i - 1) + 1 = i
            BY <1>2, <1>4, <1>5, <2>2, <2>4
        <3> QED BY <1>6, <2>1, <3>1
    <2> QED BY <2>3, <2>4
<1> QED BY <1>7, <1>8, <1>9, <1>10 DEF Lists, r

\* Nobody waits in an empty queue.
LEMMA EmptyLists == Lists(<<>>, {})
    BY DEF Lists

\* A queue that lists somebody has a head, and lists it.
LEMMA HeadListed ==
    ASSUME NEW W, NEW q \in Seq(W), NEW S, S # {}, Lists(q, S)
    PROVE  q # <<>> /\ Head(q) \in S
<1>1. PICK c \in S : TRUE
    OBVIOUS
<1>2. q # <<>>
    BY <1>1 DEF Lists
<1>3. 1 \in DOMAIN q /\ Head(q) = q[1]
    BY <1>2
<1> QED BY <1>2, <1>3 DEF Lists
=============================================================================
