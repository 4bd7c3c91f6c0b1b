---------------------- MODULE ProviderSupervisorProofs ----------------------
(***************************************************************************)
(* What holds of a provider supervisor with any number of operations and   *)
(* any limits: it never lets go of a running process, its queues keep to   *)
(* their capacities, every exit is acknowledged once and with its cause,   *)
(* and the kernel is not accused of what it did not do.                    *)
(*                                                                         *)
(* The queues matter by which items they hold and whether they hold them   *)
(* once; Has, One and Before say that, and the first section gives what    *)
(* the operations of queues do to them.  The rest never looks at an index. *)
(***************************************************************************)
EXTENDS ProviderSupervisor, FiniteSetTheorems, SequenceTheorems, TLAPS

-----------------------------------------------------------------------------
(* Queues.                                                                 *)

\* An item of M is in the queue s; at most one is; b never comes before a.
Has(s, M) == \E j \in 1 .. Len(s) : s[j] \in M
One(s, M) == \A j, k \in 1 .. Len(s) : s[j] \in M /\ s[k] \in M => j = k
Before(s, a, b) == \A j, k \in 1 .. Len(s) : s[j] = a /\ s[k] = b => j < k

\* What appending to a queue does to its contents.
LEMMA AppendQueue ==
    ASSUME NEW T, NEW s \in Seq(T), NEW x \in T
    PROVE  /\ Append(s, x) \in Seq(T) /\ Append(s, x) # <<>> /\ Len(Append(s, x)) = Len(s) + 1
           /\ \A M : Has(Append(s, x), M) <=> Has(s, M) \/ x \in M
           /\ \A M : One(s, M) /\ ~(Has(s, M) /\ x \in M) => One(Append(s, x), M)
           /\ \A a, b : Before(s, a, b) /\ a # b /\ ~(x = a /\ Has(s, {b})) =>
                            Before(Append(s, x), a, b)
<1>1. /\ Append(s, x) \in Seq(T) /\ Append(s, x) # <<>> /\ Len(Append(s, x)) = Len(s) + 1
      /\ Len(s) \in Nat
      /\ \A j \in 1 .. Len(s) : Append(s, x)[j] = s[j]
      /\ Append(s, x)[Len(s) + 1] = x
    BY AppendProperties, LenProperties
<1>. DEFINE t == Append(s, x)
<1>2. \A j \in 1 .. Len(t) : j \in 1 .. Len(s) \/ j = Len(s) + 1
    BY <1>1
<1>3. \A j \in 1 .. Len(s) : j \in 1 .. Len(t)
    BY <1>1
<1>4. Len(s) + 1 \in 1 .. Len(t) /\ Len(s) + 1 \notin 1 .. Len(s)
    BY <1>1
<1>. HIDE DEF t
<1>5. \A M : Has(t, M) <=> Has(s, M) \/ x \in M
    BY <1>1, <1>2, <1>3, <1>4 DEF Has, t
<1>6. \A M : One(s, M) /\ ~(Has(s, M) /\ x \in M) => One(t, M)
    BY <1>1, <1>2 DEF Has, One, t
<1>7. ASSUME NEW a, NEW b, Before(s, a, b), a # b, ~(x = a /\ Has(s, {b})),
             NEW j \in 1 .. Len(t), NEW k \in 1 .. Len(t), t[j] = a, t[k] = b
      PROVE  j < k
    <2>1. CASE j \in 1 .. Len(s) /\ k \in 1 .. Len(s)
        BY <1>1, <1>7, <2>1 DEF Before, t
    <2>2. CASE j \in 1 .. Len(s) /\ k = Len(s) + 1
        BY <1>1, <2>2
    <2>3. CASE j = Len(s) + 1 /\ k \in 1 .. Len(s)
        BY <1>1, <1>7, <2>3 DEF Has, t
    <2>4. CASE j = Len(s) + 1 /\ k = Len(s) + 1
        BY <1>1, <1>7, <2>4
    <2>. QED  BY <1>2, <2>1, <2>2, <2>3, <2>4
<1>8. \A a, b : Before(s, a, b) /\ a # b /\ ~(x = a /\ Has(s, {b})) => Before(t, a, b)
    BY <1>7 DEF Before
<1>. QED  BY <1>1, <1>5, <1>6, <1>8 DEF t

\* What taking the head of a queue does to its contents.
LEMMA TailQueue ==
    ASSUME NEW T, NEW s \in Seq(T), s # <<>>
    PROVE  /\ Head(s) \in T /\ Tail(s) \in Seq(T) /\ Len(Tail(s)) = Len(s) - 1 /\ Len(s) > 0
           /\ \A M : Has(s, M) <=> Head(s) \in M \/ Has(Tail(s), M)
           /\ \A M : One(s, M) => One(Tail(s), M) /\ ~(Head(s) \in M /\ Has(Tail(s), M))
           /\ \A a, b : Before(s, a, b) => Before(Tail(s), a, b)
           /\ \A a, b : Before(s, a, b) /\ Head(s) = b => ~Has(s, {a})
<1>1. /\ Head(s) \in T /\ Tail(s) \in Seq(T) /\ Len(Tail(s)) = Len(s) - 1
      /\ \A j \in 1 .. Len(Tail(s)) : Tail(s)[j] = s[j + 1]
    BY HeadTailProperties
<1>2. Len(s) \in Nat \ {0} /\ Head(s) = s[1]
    BY EmptySeq, LenProperties
<1>. DEFINE t == Tail(s)
<1>3. \A j \in 1 .. Len(s) : j = 1 \/ (j - 1 \in 1 .. Len(t) /\ t[j - 1] = s[j])
    BY <1>1, <1>2
<1>4. 1 \in 1 .. Len(s) /\ \A j \in 1 .. Len(t) : j + 1 \in 1 .. Len(s) /\ j + 1 # 1 /\ t[j] = s[j + 1]
    BY <1>1, <1>2
<1>5. Len(s) > 0
    BY <1>2
<1>. HIDE DEF t
<1>6. \A M : Has(s, M) <=> Head(s) \in M \/ Has(t, M)
    <2>1. ASSUME NEW M, Has(s, M), Head(s) \notin M  PROVE Has(t, M)
        <3>1. PICK j \in 1 .. Len(s) : s[j] \in M
            BY <2>1 DEF Has
        <3>. QED  BY <1>2, <1>3, <2>1, <3>1 DEF Has
    <2>2. ASSUME NEW M, Has(t, M)  PROVE Has(s, M)
        BY <1>4, <2>2 DEF Has
    <2>3. ASSUME NEW M, Head(s) \in M  PROVE Has(s, M)
        BY <1>2, <1>4, <2>3 DEF Has
    <2>. QED  BY <2>1, <2>2, <2>3
<1>7. ASSUME NEW M, One(s, M)  PROVE One(t, M) /\ ~(Head(s) \in M /\ Has(t, M))
    <2>1. ASSUME NEW j \in 1 .. Len(t), NEW k \in 1 .. Len(t), t[j] \in M, t[k] \in M
          PROVE  j = k
        <3>1. j + 1 = k + 1
            BY <1>4, <1>7, <2>1 DEF One
        <3>. QED  BY <3>1
    <2>2. ASSUME Head(s) \in M, NEW j \in 1 .. Len(t), t[j] \in M  PROVE FALSE
        BY <1>2, <1>4, <1>7, <2>2 DEF One
    <2>. QED  BY <2>1, <2>2 DEF One, Has
<1>8. ASSUME NEW a, NEW b, Before(s, a, b)  PROVE Before(t, a, b)
    <2>1. ASSUME NEW j \in 1 .. Len(t), NEW k \in 1 .. Len(t), t[j] = a, t[k] = b
          PROVE  j < k
        <3>1. j + 1 < k + 1
            BY <1>4, <1>8, <2>1 DEF Before
        <3>. QED  BY <3>1
    <2>. QED  BY <2>1 DEF Before
<1>9. ASSUME NEW a, NEW b, Before(s, a, b), Head(s) = b, NEW j \in 1 .. Len(s), s[j] = a
      PROVE  FALSE
    <2>1. j < 1
        BY <1>2, <1>4, <1>9 DEF Before
    <2>. QED  BY <2>1
<1>10. \A a, b : Before(s, a, b) /\ Head(s) = b => ~Has(s, {a})
    BY <1>9 DEF Has
<1>. QED  BY <1>1, <1>5, <1>6, <1>7, <1>8, <1>10 DEF t

\* What an empty queue contains.
LEMMA EmptyQueue ==
    /\ \A M : ~Has(<<>>, M) /\ One(<<>>, M)
    /\ \A a, b : Before(<<>>, a, b)
    /\ Len(<<>>) = 0
    /\ \A T : <<>> \in Seq(T)
BY EmptySeq DEF Has, One, Before

\* What taking an item out of a queue does to its contents.
LEMMA RemoveQueue ==
    ASSUME NEW T, NEW s \in Seq(T), NEW i \in 1 .. Len(s)
    PROVE  /\ RemoveAt(s, i) \in Seq(T)
           /\ \A M : Has(RemoveAt(s, i), M) => Has(s, M)
           /\ \A M : Has(s, M) /\ s[i] \notin M => Has(RemoveAt(s, i), M)
           /\ \A M : One(s, M) => One(RemoveAt(s, i), M)
           /\ \A M : One(s, M) /\ s[i] \in M => ~Has(RemoveAt(s, i), M)
<1>. DEFINE p == SubSeq(s, 1, i - 1)
            q == SubSeq(s, i + 1, Len(s))
            t == RemoveAt(s, i)
<1>1. Len(s) \in Nat /\ \A j \in 1 .. Len(s) : s[j] \in T
    BY LenProperties, ElementOfSeq
<1>2. /\ p \in Seq(T) /\ Len(p) = i - 1
      /\ \A j \in 1 .. Len(p) : p[j] = s[j]
    <2>1. \A j \in 1 .. i - 1 : s[j] \in T
        BY <1>1
    <2>2. /\ p \in Seq(T) /\ Len(p) = IF 1 <= i - 1 THEN i - 1 - 1 + 1 ELSE 0
          /\ \A j \in 1 .. i - 1 - 1 + 1 : p[j] = s[1 + j - 1]
        BY <1>1, <2>1, SubSeqProperties
    <2>. HIDE DEF p
    <2>. QED  BY <1>1, <2>2
<1>3. /\ q \in Seq(T) /\ Len(q) = Len(s) - i
      /\ \A j \in 1 .. Len(q) : q[j] = s[i + j]
    <2>1. \A j \in i + 1 .. Len(s) : s[j] \in T
        BY <1>1
    <2>2. /\ q \in Seq(T) /\ Len(q) = IF i + 1 <= Len(s) THEN Len(s) - (i + 1) + 1 ELSE 0
          /\ \A j \in 1 .. Len(s) - (i + 1) + 1 : q[j] = s[i + 1 + j - 1]
        BY <1>1, <2>1, SubSeqProperties
    <2>. HIDE DEF q
    <2>. QED  BY <1>1, <2>2
<1>4. /\ t \in Seq(T) /\ Len(t) = Len(s) - 1
      /\ \A j \in 1 .. Len(t) : t[j] = IF j < i THEN s[j] ELSE s[j + 1]
    <2>1. t = p \o q
        BY DEF RemoveAt
    <2>. HIDE DEF p, q, t
    <2>2. /\ p \o q \in Seq(T) /\ Len(p \o q) = Len(p) + Len(q)
          /\ \A j \in 1 .. Len(p) + Len(q) : (p \o q)[j] = IF j <= Len(p) THEN p[j] ELSE q[j - Len(p)]
        BY <1>2, <1>3, ConcatProperties
    <2>3. t \in Seq(T) /\ Len(t) = Len(s) - 1 /\ Len(p) + Len(q) = Len(t)
        BY <1>1, <1>2, <1>3, <2>1, <2>2
    <2>4. ASSUME NEW j \in 1 .. Len(t)
          PROVE  t[j] = IF j < i THEN s[j] ELSE s[j + 1]
        <3>1. CASE j < i
            <4>1. j <= Len(p) /\ j \in 1 .. Len(p)
                BY <1>1, <1>2, <3>1
            <4>. QED  BY <1>2, <2>1, <2>2, <2>3, <3>1, <4>1
        <3>2. CASE ~(j < i)
            <4>1. ~(j <= Len(p)) /\ j - Len(p) \in 1 .. Len(q) /\ i + (j - Len(p)) = j + 1
                BY <1>1, <1>2, <1>3, <2>3, <3>2
            <4>. QED  BY <1>3, <2>1, <2>2, <2>3, <3>2, <4>1
        <3>. QED  BY <3>1, <3>2
    <2>. QED  BY <2>3, <2>4
<1>. HIDE DEF t
<1>5. \A M : Has(t, M) => Has(s, M)
    BY <1>1, <1>4 DEF Has
<1>6. ASSUME NEW M, Has(s, M), s[i] \notin M  PROVE Has(t, M)
    <2>1. PICK j \in 1 .. Len(s) : s[j] \in M
        BY <1>6 DEF Has
    <2>2. CASE j < i
        BY <1>1, <1>4, <2>1, <2>2 DEF Has
    <2>3. CASE j > i
        <3>1. j - 1 \in 1 .. Len(t) /\ t[j - 1] = s[j]
            BY <1>1, <1>4, <2>1, <2>3
        <3>. QED  BY <2>1, <3>1 DEF Has
    <2>. QED  BY <1>1, <1>6, <2>1, <2>2, <2>3
<1>7. ASSUME NEW M, One(s, M)  PROVE One(t, M) /\ (s[i] \in M => ~Has(t, M))
    <2>. DEFINE at(j) == IF j < i THEN j ELSE j + 1
    <2>1. \A j \in 1 .. Len(t) : at(j) \in 1 .. Len(s) /\ at(j) # i /\ t[j] = s[at(j)]
        BY <1>1, <1>4
    <2>2. \A j, k \in 1 .. Len(t) : at(j) = at(k) => j = k
        BY <1>1, <1>4
    <2>. HIDE DEF at
    <2>. QED  BY <1>7, <2>1, <2>2 DEF One, Has
<1>. QED  BY <1>4, <1>5, <1>6, <1>7 DEF t

\* What joining two queues does to their contents.
LEMMA ConcatQueue ==
    ASSUME NEW T, NEW s \in Seq(T), NEW t \in Seq(T)
    PROVE  /\ s \o t \in Seq(T) /\ Len(s \o t) = Len(s) + Len(t)
           /\ \A M : Has(s \o t, M) <=> Has(s, M) \/ Has(t, M)
           /\ \A M : One(s, M) /\ One(t, M) /\ ~(Has(s, M) /\ Has(t, M)) => One(s \o t, M)
<1>. DEFINE u == s \o t
<1>1. /\ u \in Seq(T) /\ Len(u) = Len(s) + Len(t) /\ Len(s) \in Nat /\ Len(t) \in Nat
      /\ \A j \in 1 .. Len(s) + Len(t) : u[j] = IF j <= Len(s) THEN s[j] ELSE t[j - Len(s)]
    BY ConcatProperties, LenProperties
<1>. HIDE DEF u
<1>2. \A j \in 1 .. Len(u) : \/ j \in 1 .. Len(s) /\ u[j] = s[j]
                             \/ j - Len(s) \in 1 .. Len(t) /\ u[j] = t[j - Len(s)]
    BY <1>1
<1>3. \A j \in 1 .. Len(s) : j \in 1 .. Len(u) /\ u[j] = s[j]
    BY <1>1
<1>4. ASSUME NEW j \in 1 .. Len(t)  PROVE Len(s) + j \in 1 .. Len(u) /\ u[Len(s) + j] = t[j]
    <2>1. Len(s) + j \in 1 .. Len(s) + Len(t) /\ ~(Len(s) + j <= Len(s)) /\ Len(s) + j - Len(s) = j
        BY <1>1
    <2>. QED  BY <1>1, <2>1
<1>5. \A M : Has(u, M) <=> Has(s, M) \/ Has(t, M)
    BY <1>2, <1>3, <1>4 DEF Has
<1>6. ASSUME NEW M, One(s, M), One(t, M), ~(Has(s, M) /\ Has(t, M)),
             NEW j \in 1 .. Len(u), NEW k \in 1 .. Len(u), u[j] \in M, u[k] \in M
      PROVE  j = k
    <2>1. CASE j \in 1 .. Len(s) /\ k \in 1 .. Len(s)
        BY <1>3, <1>6, <2>1 DEF One
    <2>2. CASE j \notin 1 .. Len(s) /\ k \notin 1 .. Len(s)
        <3>1. j - Len(s) = k - Len(s)
            BY <1>2, <1>6, <2>2 DEF One
        <3>. QED  BY <1>1, <3>1
    <2>3. CASE j \in 1 .. Len(s) /\ k \notin 1 .. Len(s)
        <3>1. Has(s, M) /\ Has(t, M)
            BY <1>2, <1>3, <1>6, <2>3 DEF Has
        <3>. QED  BY <1>6, <3>1
    <2>4. CASE j \notin 1 .. Len(s) /\ k \in 1 .. Len(s)
        <3>1. Has(s, M) /\ Has(t, M)
            BY <1>2, <1>3, <1>6, <2>4 DEF Has
        <3>. QED  BY <1>6, <3>1
    <2>. QED  BY <2>1, <2>2, <2>3, <2>4
<1>7. \A M : One(s, M) /\ One(t, M) /\ ~(Has(s, M) /\ Has(t, M)) => One(u, M)
    BY <1>6 DEF One
<1>. QED  BY <1>1, <1>5, <1>7 DEF u

\* What dividing a queue does to its contents.
LEMMA SplitQueue ==
    ASSUME NEW T, NEW s \in Seq(T), NEW n \in 0 .. Len(s)
    PROVE  LET p == SubSeq(s, 1, n)
               q == SubSeq(s, n + 1, Len(s))
           IN  /\ p \in Seq(T) /\ Len(p) = n
               /\ q \in Seq(T) /\ Len(q) = Len(s) - n
               /\ \A M : Has(s, M) <=> Has(p, M) \/ Has(q, M)
               /\ \A M : One(s, M) => One(p, M) /\ One(q, M) /\ ~(Has(p, M) /\ Has(q, M))
<1>. DEFINE p == SubSeq(s, 1, n)
            q == SubSeq(s, n + 1, Len(s))
<1>1. Len(s) \in Nat /\ \A j \in 1 .. Len(s) : s[j] \in T
    BY LenProperties, ElementOfSeq
<1>2. /\ p \in Seq(T) /\ Len(p) = n
      /\ \A j \in 1 .. n : j \in 1 .. Len(s) /\ p[j] = s[j]
    <2>1. \A j \in 1 .. n : s[j] \in T
        BY <1>1
    <2>2. /\ p \in Seq(T) /\ Len(p) = IF 1 <= n THEN n - 1 + 1 ELSE 0
          /\ \A j \in 1 .. n - 1 + 1 : p[j] = s[1 + j - 1]
        BY <1>1, <2>1, SubSeqProperties
    <2>. HIDE DEF p
    <2>. QED  BY <1>1, <2>2
<1>3. /\ q \in Seq(T) /\ Len(q) = Len(s) - n
      /\ \A j \in 1 .. Len(q) : n + j \in 1 .. Len(s) /\ q[j] = s[n + j]
    <2>1. \A j \in n + 1 .. Len(s) : s[j] \in T
        BY <1>1
    <2>2. /\ q \in Seq(T) /\ Len(q) = IF n + 1 <= Len(s) THEN Len(s) - (n + 1) + 1 ELSE 0
          /\ \A j \in 1 .. Len(s) - (n + 1) + 1 : q[j] = s[n + 1 + j - 1]
        BY <1>1, <2>1, SubSeqProperties
    <2>. HIDE DEF q
    <2>. QED  BY <1>1, <2>2
<1>. HIDE DEF p, q
<1>4. ASSUME NEW M, Has(s, M)  PROVE Has(p, M) \/ Has(q, M)
    <2>1. PICK j \in 1 .. Len(s) : s[j] \in M
        BY <1>4 DEF Has
    <2>2. CASE j <= n
        BY <1>1, <1>2, <2>1, <2>2 DEF Has
    <2>3. CASE j > n
        <3>1. j - n \in 1 .. Len(q) /\ n + (j - n) = j
            BY <1>1, <1>3, <2>3
        <3>. QED  BY <1>3, <2>1, <3>1 DEF Has
    <2>. QED  BY <1>1, <2>2, <2>3
<1>5. ASSUME NEW M  PROVE (Has(p, M) => Has(s, M)) /\ (Has(q, M) => Has(s, M))
    BY <1>1, <1>2, <1>3 DEF Has
<1>6. ASSUME NEW M, One(s, M)  PROVE One(p, M) /\ One(q, M) /\ ~(Has(p, M) /\ Has(q, M))
    <2>1. One(p, M)
        BY <1>2, <1>6 DEF One
    <2>2. ASSUME NEW j \in 1 .. Len(q), NEW k \in 1 .. Len(q), q[j] \in M, q[k] \in M
          PROVE  j = k
        <3>1. n + j = n + k
            BY <1>3, <1>6, <2>2 DEF One
        <3>. QED  BY <1>1, <3>1
    <2>3. ASSUME NEW j \in 1 .. Len(p), NEW k \in 1 .. Len(q), p[j] \in M, q[k] \in M
          PROVE  FALSE
        <3>1. j = n + k
            BY <1>2, <1>3, <1>6, <2>3 DEF One
        <3>. QED  BY <1>1, <1>2, <3>1
    <2>. QED  BY <2>1, <2>2, <2>3 DEF One, Has
<1>. QED  BY <1>2, <1>3, <1>4, <1>5, <1>6 DEF p, q

\* The items of a queue as a set.
LEMMA RangeQueue ==
    ASSUME NEW T, NEW s \in Seq(T)
    PROVE  /\ Range(s) \subseteq T
           /\ \A M : Has(s, M) <=> Range(s) \cap M # {}
           /\ \A M : One(s, M) => \A a, b \in Range(s) \cap M : a = b
<1>1. DOMAIN s = 1 .. Len(s) /\ \A j \in 1 .. Len(s) : s[j] \in T
    BY LenProperties, ElementOfSeq
<1>2. \A x : x \in Range(s) <=> \E j \in 1 .. Len(s) : s[j] = x
    BY <1>1 DEF Range
<1>3. \A M : Has(s, M) <=> Range(s) \cap M # {}
    BY <1>2 DEF Has
<1>4. \A M : One(s, M) => \A a, b \in Range(s) \cap M : a = b
    BY <1>2 DEF One
<1>. QED  BY <1>1, <1>2, <1>3, <1>4

-----------------------------------------------------------------------------
(* Types.                                                                  *)

Commands ==
    {c \in [kind : {"Attach", "Detach", "Observe"}, operation : 0 .. MaxOperation] :
        c.kind = "Observe" => c.operation \in Operations}

Outcomes ==
    {x \in [kind : {"Attach", "Detach", "Observe"}, operation : 0 .. MaxOperation,
            ok : BOOLEAN] :
        x.kind = "Observe" => x.operation \in Operations}

Effects == [kind : {"Invoke", "Cancel"}, operation : Operations]
Receipts == [operation : Operations, ok : BOOLEAN]
Causes == {"None", "Cancellation", "Retirement", "Fault"}
Acks == [operation : Operations, stopped : BOOLEAN, cause : Causes]
Lives == {"AttachSent", "Active", "Quiescing", "ClosingRetry", "DetachSent", "Closed"}

RuntimeState ==
    [life : Lives, cancelled : BOOLEAN, tokens : SUBSET Operations,
     operations : SUBSET Operations, settled : SUBSET Operations, work : Seq(Effects),
     receipts : Seq(Receipts)]

Types ==
    /\ pc \in {"idle", "drain", "reduce", "publish", "outcomes", "owned", "work", "collect"}
    /\ ingress \in Seq(Commands) /\ batch \in Seq(Commands)
    /\ outcomes \in Seq(Outcomes) /\ published \in Seq(Effects)
    /\ engine \in [Operations -> {"New", "Dispatched", "Done"}]
    /\ bound \in BOOLEAN /\ lane \in BOOLEAN
    /\ sequence \in {"open", "spent", "exhausted"}
    /\ runtime \in RuntimeState
    /\ owned \in [Operations -> OwnedState]
    /\ outstanding \in Nat
    /\ retirement \in BOOLEAN /\ blocked \in BOOLEAN /\ closed \in BOOLEAN
    /\ tombstones \subseteq Operations
    /\ exit_acks \in Seq(Acks) /\ provider_exit_acks \in Seq(Acks) /\ told \subseteq Acks
    /\ todo \subseteq Operations /\ taken \in Nat
    /\ process \in [Operations -> {"none", "running", "exited"}]
    /\ errors \in Nat /\ overflowed \in BOOLEAN /\ unread \in BOOLEAN

-----------------------------------------------------------------------------
(* The inductive invariant.                                                *)

Invoke(o) == {Effect("Invoke", o)}
Cancel(o) == {Effect("Cancel", o)}
ObserveOf(o) == {c \in Commands : c.kind = "Observe" /\ c.operation = o}
AnswerTo(o) == {x \in Outcomes : x.kind = "Observe" /\ x.operation = o}
ReceiptOf(o) == {x \in Receipts : x.operation = o}
AckOf(o) == {a \in Acks : a.operation = o}
Attached == {x \in Outcomes : x.kind = "Attach" /\ x.ok}

OkAnswerTo(o) == {x \in Outcomes : x.kind = "Observe" /\ x.ok /\ x.operation = o}
OkReceiptOf(o) == {x \in Receipts : x.ok /\ x.operation = o}
Refusal == {x \in Receipts : ~x.ok}
Unexplained == {a \in Acks : a.stopped /\ a.cause = "None"}

Physical(o) == owned[o].state = "Physical"
Awaits(o) == owned[o].state = "AwaitingOutcome"
Noticed(o) == (Physical(o) \/ Awaits(o)) /\ owned[o].noticed

\* The binding serves no longer, and never will again.
Dead == runtime.life \in {"ClosingRetry", "DetachSent", "Closed"}

\* An invocation is on its way to the supervisor; a result is on its way to
\* the kernel, or its receipt to the supervisor; a cancellation is on its way,
\* or may yet be sent.
Issued(o) == Has(published, Invoke(o)) \/ Has(runtime.work, Invoke(o))
Sent(o) == \/ Has(ingress, ObserveOf(o)) \/ Has(batch, ObserveOf(o))
           \/ Has(outcomes, AnswerTo(o))
Received(o) == Has(runtime.receipts, ReceiptOf(o))
CancelSent(o) == Has(published, Cancel(o)) \/ Has(runtime.work, Cancel(o))
Due(o) == (lane /\ engine[o] = "Dispatched") \/ CancelSent(o)

\* The supervisor has not seen the operation yet.
Fresh(o) == /\ owned[o] = Absent /\ process[o] = "none"
            /\ ~Sent(o) /\ o \notin tombstones

\* A physical operation has a process, and knows of its exit only after it.
Held(o) ==
    /\ process[o] = "running" => Physical(o)
    /\ Physical(o) => /\ process[o] # "none"
                      /\ owned[o].exited => process[o] = "exited"
                      /\ owned[o].acked => owned[o].exited

\* An invocation is delivered once, before anything else happens to it.
Invocations(o) ==
    /\ One(published, Invoke(o)) /\ One(runtime.work, Invoke(o))
    /\ ~(Has(published, Invoke(o)) /\ Has(runtime.work, Invoke(o)))
    /\ Has(published, Invoke(o)) => engine[o] = "Dispatched"
    /\ engine[o] = "New" => ~Issued(o)
    /\ engine[o] = "New" \/ Issued(o) => Fresh(o)

\* A cancellation is sent once, after its invocation, for a request that is
\* closed; the token is cancelled before it arrives.
Cancellations(o) ==
    /\ One(published, Cancel(o)) /\ One(runtime.work, Cancel(o))
    /\ ~(Has(published, Cancel(o)) /\ Has(runtime.work, Cancel(o)))
    /\ CancelSent(o) => engine[o] = "Done"
    /\ Before(runtime.work, Effect("Invoke", o), Effect("Cancel", o))
    /\ Has(runtime.work, Cancel(o)) => IsCancelled(o)
    /\ Noticed(o) => engine[o] = "Done" /\ ~CancelSent(o)

\* A result is submitted once, and its operation waits for the receipt, until
\* a runtime closes with receipts that were not read.
Answers(o) ==
    /\ One(ingress, ObserveOf(o)) /\ One(batch, ObserveOf(o))
    /\ One(outcomes, AnswerTo(o)) /\ One(runtime.receipts, ReceiptOf(o))
    /\ ~(Has(ingress, ObserveOf(o)) /\ Has(batch, ObserveOf(o)))
    /\ ~(Has(ingress, ObserveOf(o)) /\ Has(outcomes, AnswerTo(o)))
    /\ ~(Has(batch, ObserveOf(o)) /\ Has(outcomes, AnswerTo(o)))
    /\ ~(Received(o) /\ Sent(o))
    /\ (Received(o) /\ ~unread) \/ (Sent(o) /\ ~RuntimeClosed) => Awaits(o)
    /\ Sent(o) => ~Physical(o)
    /\ Has(outcomes, OkAnswerTo(o)) => engine[o] = "Done"
    /\ Has(runtime.receipts, OkReceiptOf(o)) => engine[o] = "Done"

\* An exit is acknowledged in one place.
Told(o) == told \cap AckOf(o) # {}
Acked(o) == Has(exit_acks, AckOf(o)) \/ Has(provider_exit_acks, AckOf(o)) \/ Told(o)

Acknowledged(o) ==
    /\ One(exit_acks, AckOf(o)) /\ One(provider_exit_acks, AckOf(o))
    /\ \A a, b \in told \cap AckOf(o) : a = b
    /\ ~(Has(exit_acks, AckOf(o)) /\ Has(provider_exit_acks, AckOf(o)))
    /\ ~(Has(exit_acks, AckOf(o)) /\ Told(o))
    /\ ~(Has(provider_exit_acks, AckOf(o)) /\ Told(o))
    /\ Acked(o) => process[o] = "exited"
    /\ Physical(o) => (Acked(o) <=> owned[o].acked)
    /\ process[o] = "exited" /\ ~Physical(o) => Acked(o)

Orderly(o) ==
    Held(o) /\ Invocations(o) /\ Cancellations(o) /\ Answers(o) /\ Acknowledged(o)

\* Whoever may still be cancelled is known, unless the supervisor has run out
\* of room for operations or for tombstones.
Exceeded == overflowed \/ "TombstoneCapacityExceeded" \in accused

Recognised(o) ==
    Exceeded \/ Dead \/ (Due(o) /\ ~Issued(o) => owned[o] # Absent \/ o \in tombstones)

\* A phase leaves nothing behind, and a closed supervisor does nothing.
Phases ==
    /\ pc # "reduce" => batch = <<>>
    /\ pc \notin {"reduce", "publish"} => outcomes = <<>> /\ published = <<>>
    /\ pc = "work" => ~RuntimeClosed
    /\ closed => (\A o \in Operations : owned[o] = Absent)
                  /\ pc \notin {"outcomes", "owned", "work"}

\* What is outstanding are the operations that wait for a receipt, until the
\* runtime closes.
Waiting == {o \in Operations : Awaits(o)}

\* Nothing is outstanding, although receipts may be.
Cleared == outstanding = 0 /\ (unread \/ runtime.receipts = <<>>)

Accounts ==
    /\ \/ outstanding = Cardinality(Waiting)
       \/ RuntimeClosed /\ Cleared
    /\ RuntimeClosed /\ pc \notin {"publish", "outcomes"} => Cleared
    /\ unread => RuntimeClosed /\ outstanding = 0

\* Effects come after the attach that they rest on.
Attachment ==
    /\ \A o \in Operations : engine[o] = "Dispatched" => bound
    /\ runtime.life = "AttachSent" /\ (bound \/ published # <<>>) => Has(outcomes, Attached)

\* Queues and tables within their limits.
Limits ==
    /\ Cardinality(Owned) <= MaxOwned
    /\ outstanding <= Capacity
    /\ Len(runtime.work) <= Capacity /\ Len(runtime.receipts) <= Capacity
    /\ Len(exit_acks) <= MaxAcks /\ Len(provider_exit_acks) <= MaxAcks
    /\ \A o \in tombstones : owned[o] = Absent

\* What is reported: a refused result has closed the binding, a stop has its
\* cause, and nobody is accused but where the supervisor lost track.
Reported ==
    /\ Has(runtime.receipts, Refusal) => Dead
    /\ ~Has(exit_acks, Unexplained) /\ ~Has(provider_exit_acks, Unexplained)
    /\ told \cap Unexplained = {}
    /\ NoFalseAccusation

Inv ==
    /\ Types /\ Phases /\ Accounts /\ Attachment /\ Limits /\ Reported
    /\ \A o \in Operations : Orderly(o) /\ Recognised(o)

-----------------------------------------------------------------------------
(* Items of the queues.                                                    *)

\* Which items are the invocation and the cancellation of an operation.
LEMMA EffectItems ==
    /\ \A e \in Effects, n \in Operations :
          /\ e \in Invoke(n) <=> e.kind = "Invoke" /\ e.operation = n
          /\ e \in Cancel(n) <=> e.kind = "Cancel" /\ e.operation = n
    /\ \A o \in Operations : /\ Effect("Invoke", o) \in Effects /\ Effect("Cancel", o) \in Effects
                             /\ Effect("Invoke", o).kind = "Invoke"
                             /\ Effect("Cancel", o).kind = "Cancel"
                             /\ Effect("Invoke", o).operation = o
                             /\ Effect("Cancel", o).operation = o
                             /\ Effect("Invoke", o) # Effect("Cancel", o)
BY DEF Effects, Effect, Invoke, Cancel

\* Which commands, outcomes and receipts are about the result of an operation.
LEMMA ResultItems ==
    /\ \A n \in Operations :
          /\ \A c \in Commands : c \in ObserveOf(n) <=> c.kind = "Observe" /\ c.operation = n
          /\ \A x \in Outcomes : x \in AnswerTo(n) <=> x.kind = "Observe" /\ x.operation = n
          /\ \A x \in Outcomes : x \in OkAnswerTo(n) <=> x \in AnswerTo(n) /\ x.ok
          /\ \A x \in Receipts : x \in ReceiptOf(n) <=> x.operation = n
          /\ \A x \in Receipts : x \in OkReceiptOf(n) <=> x.operation = n /\ x.ok
    /\ \A x \in Receipts : x \in Refusal <=> ~x.ok
    /\ \A x \in Outcomes : x \in Attached <=> x.kind = "Attach" /\ x.ok
BY DEF ObserveOf, AnswerTo, OkAnswerTo, ReceiptOf, OkReceiptOf, Refusal, Attached

\* The operation and the kind of a queued item.
LEMMA ItemTypes ==
    /\ \A c \in Commands : /\ c.kind \in {"Attach", "Detach", "Observe"}
                           /\ c.kind = "Observe" => c.operation \in Operations
    /\ \A x \in Outcomes : /\ x.kind \in {"Attach", "Detach", "Observe"} /\ x.ok \in BOOLEAN
                           /\ x.kind = "Observe" => x.operation \in Operations
    /\ \A e \in Effects : e.kind \in {"Invoke", "Cancel"} /\ e.operation \in Operations
    /\ \A x \in Receipts : x.operation \in Operations /\ x.ok \in BOOLEAN
BY DEF Commands, Outcomes, Effects, Receipts

\* The commands that are sent, and what the kernel answers.
LEMMA NewItems ==
    /\ [kind |-> "Detach", operation |-> 0] \in Commands
    /\ [kind |-> "Attach", operation |-> 0] \in Commands
    /\ \A o \in Operations :
          [kind |-> "Observe", operation |-> o] \in ObserveOf(o)
    /\ \A c \in Commands, b \in BOOLEAN :
          [kind |-> c.kind, operation |-> c.operation, ok |-> b] \in Outcomes
    /\ \A o \in Operations, b \in BOOLEAN : [operation |-> o, ok |-> b] \in Receipts
BY SupervisorAssumption DEF Commands, Outcomes, Receipts, ObserveOf, Operations

-----------------------------------------------------------------------------
(* The handle of the binding.                                              *)

DeadLives == {"ClosingRetry", "DetachSent", "Closed"}

\* The queues of a binding are left alone, what was cancelled stays cancelled,
\* and it is not revived.
Tame(q, r) ==
    /\ q \in RuntimeState
    /\ q.work = r.work /\ q.receipts = r.receipts
    /\ r.cancelled => q.cancelled
    /\ q.cancelled \/ r.tokens \subseteq q.tokens
    /\ r.life \in DeadLives => q.life \in DeadLives
    /\ q.life = "AttachSent" => r.life = "AttachSent"
    /\ r.life = "Closed" => q.life = "Closed"

\* Quiescing, faulting and closing leave the queues alone.
LEMMA HandleIsTame ==
    ASSUME NEW r \in RuntimeState
    PROVE  /\ Tame(r, r)
           /\ Tame(Quiesced(r), r) /\ (Quiesced(r).life = "Closed" => r.life = "Closed")
           /\ Tame(Faulted(r), r) /\ Faulted(r).life \in DeadLives
           /\ (Faulted(r).life = "Closed" => r.life = "Closed")
           /\ Tame(Retired(r), r) /\ Retired(r).life = "Closed"
           /\ Tame(Silenced(r), r) /\ Silenced(r).life = r.life
           /\ \A l \in DeadLives : r.life # "Closed" =>
                 /\ Tame([Silenced(r) EXCEPT !.life = l], r)
                 /\ [Silenced(r) EXCEPT !.life = l].life = l
<1>1. Tame(r, r)
    BY DEF Tame
<1>2. Tame(Quiesced(r), r) /\ (Quiesced(r).life = "Closed" => r.life = "Closed")
    BY DEF Tame, Quiesced, RuntimeState, DeadLives, Lives
<1>3. /\ Silenced(r) \in RuntimeState /\ Silenced(r).life = r.life
      /\ Silenced(r).cancelled = TRUE /\ Silenced(r).work = r.work
      /\ Silenced(r).receipts = r.receipts
    BY DEF Silenced, RuntimeState
<1>4. Tame(Silenced(r), r)
    BY <1>3 DEF Tame
<1>5. ASSUME NEW l \in DeadLives, r.life # "Closed" \/ l = "Closed"
      PROVE  /\ Tame([Silenced(r) EXCEPT !.life = l], r)
             /\ [Silenced(r) EXCEPT !.life = l].life = l
    <2>. DEFINE s == Silenced(r)
                q == [s EXCEPT !.life = l]
    <2>1. s \in RuntimeState /\ s.cancelled = TRUE /\ s.work = r.work /\ s.receipts = r.receipts
        BY <1>3
    <2>. HIDE DEF s
    <2>2. /\ q \in RuntimeState /\ q.life = l /\ q.cancelled = TRUE
          /\ q.work = r.work /\ q.receipts = r.receipts
        BY <2>1 DEF RuntimeState, DeadLives, Lives
    <2>3. Tame(q, r)
        BY <1>5, <2>2 DEF Tame, DeadLives
    <2>. QED  BY <2>2, <2>3 DEF s
<1>6. Tame(Retired(r), r) /\ Retired(r).life = "Closed"
    BY <1>5 DEF Retired, DeadLives
<1>7. /\ Tame(Faulted(r), r) /\ Faulted(r).life \in DeadLives
      /\ Faulted(r).life = "Closed" => r.life = "Closed"
    <2>1. CASE r.life \in {"DetachSent", "Closed"}
        BY <1>3, <1>4, <2>1 DEF Faulted, DeadLives
    <2>2. CASE r.life \notin {"DetachSent", "Closed"}
        BY <1>5, <2>2 DEF Faulted, DeadLives
    <2>. QED  BY <2>1, <2>2
<1>. QED  BY <1>1, <1>2, <1>3, <1>4, <1>5, <1>6, <1>7

-----------------------------------------------------------------------------
(* The operations that the supervisor owns.                                *)

\* Two records of an operation that differ at most in why and how it is being
\* stopped.
Alike(a, b) ==
    /\ a \in OwnedState /\ a.state = b.state /\ (a = Absent <=> b = Absent)
    /\ a.state = "Physical" => a.exited = b.exited /\ a.acked = b.acked /\ a.noticed = b.noticed
    /\ a.state = "AwaitingOutcome" => a.noticed = b.noticed

\* The states of an operation.
LEMMA OwnedStates ==
    /\ \A r \in OwnedState :
          /\ r.state \in {"Physical", "Absent", "PendingCompletion", "AwaitingCancellation",
                          "AwaitingOutcome"}
          /\ r.state = "Physical" <=> r \in PhysicalState
          /\ r.state = "Absent" <=> r = Absent
          /\ r.state = "AwaitingOutcome" => r.noticed \in BOOLEAN
    /\ Absent \in OwnedState /\ Absent.state = "Absent"
    /\ \A s \in {"PendingCompletion", "AwaitingCancellation"} :
          [state |-> s] \in OwnedState /\ [state |-> s].state = s
    /\ \A b \in BOOLEAN :
          LET r == [state |-> "AwaitingOutcome", noticed |-> b]
          IN  r \in OwnedState /\ r.state = "AwaitingOutcome" /\ r.noticed = b
    /\ PhysicalState \subseteq OwnedState
<1>1. \A r \in PhysicalState : r.state = "Physical"
    BY DEF PhysicalState
<1>2. \A r \in [state : {"Absent", "PendingCompletion", "AwaitingCancellation"}] :
          /\ r.state \in {"Absent", "PendingCompletion", "AwaitingCancellation"}
          /\ r.state = "Absent" <=> r = Absent
    BY DEF Absent
<1>3. \A r \in [state : {"AwaitingOutcome"}, noticed : BOOLEAN] :
          r.state = "AwaitingOutcome" /\ r.noticed \in BOOLEAN
    OBVIOUS
<1>4. Absent.state = "Absent" /\ Absent \in [state : {"Absent", "PendingCompletion", "AwaitingCancellation"}]
    BY DEF Absent
<1>. QED  BY <1>1, <1>2, <1>3, <1>4 DEF OwnedState

\* A fence gives an operation a cause, and nothing else.
LEMMA FencesAreAlike ==
    ASSUME NEW r \in OwnedState, retirement \in BOOLEAN
    PROVE  /\ Alike(r, r) /\ Alike(Fenced(r), r)
           /\ r.state = "Physical" => Alike(FencedAtClose(r), r)
           /\ r.state = "Physical" /\ Untouched(r) =>
                 Alike([r EXCEPT !.cause = "Retirement"], r)
<1>1. Alike(r, r)
    BY DEF Alike
<1>2. ASSUME r \in PhysicalState, NEW c \in Causes
      PROVE  Alike([r EXCEPT !.cause = c], r)
    <2>. DEFINE q == [r EXCEPT !.cause = c]
    <2>1. /\ q \in PhysicalState /\ q.state = "Physical" /\ r.state = "Physical"
          /\ q.exited = r.exited /\ q.acked = r.acked /\ q.noticed = r.noticed
        BY <1>2 DEF PhysicalState, Causes
    <2>. HIDE DEF q
    <2>2. q \in OwnedState /\ q # Absent /\ r # Absent
        BY <2>1, OwnedStates
    <2>3. Alike(q, r)
        BY <2>1, <2>2 DEF Alike
    <2>. QED  BY <2>3 DEF q
<1>3. Alike(Fenced(r), r)
    BY <1>1, <1>2, OwnedStates DEF Fenced, Causes
<1>. QED  BY <1>1, <1>2, <1>3, OwnedStates DEF FencedAtClose, Causes

\* Nothing but Alike matters of what became of the operations.
LEMMA AlikeIsTransitive ==
    ASSUME NEW a, NEW b, NEW c, Alike(a, b), Alike(b, c)
    PROVE  Alike(a, c)
BY DEF Alike

\* Conclude: the operations are as in `rest` but for fences, the runtime is as
\* in `r` but for quiescing, and what finds no tombstone is a fault.
LEMMA Concluding ==
    ASSUME NEW rest \in [Operations -> OwnedState], NEW r \in RuntimeState,
           NEW bury \in SUBSET Operations, NEW fault, NEW kinds,
           Types, Conclude(rest, r, bury, fault, kinds)
    PROVE  /\ owned' \in [Operations -> OwnedState]
           /\ \A n \in Operations : Alike(owned'[n], rest[n])
           /\ Tame(runtime', r) /\ (runtime'.life = "Closed" <=> r.life = "Closed")
           /\ \/ tombstones' = tombstones \cup bury
              \/ /\ tombstones' = tombstones /\ bury # {} /\ NoTombstone
                 /\ "TombstoneCapacityExceeded" \in accused'
           /\ tombstones' \subseteq Operations
           /\ accused \subseteq accused'
           /\ accused' \subseteq accused \cup kinds \cup {"TombstoneCapacityExceeded"}
           /\ blocked' \in BOOLEAN
<1>. DEFINE full == bury # {} /\ NoTombstone
<1>1. /\ tombstones' = IF full THEN tombstones ELSE tombstones \cup bury
      /\ accused' = accused \cup kinds \cup {k \in {"TombstoneCapacityExceeded"} : full}
      /\ IF fault \/ full
           THEN /\ blocked' = TRUE
                /\ owned' = [n \in Operations |-> Fenced(rest[n])]
                /\ runtime' = Quiesced(r)
           ELSE owned' = rest /\ runtime' = r /\ UNCHANGED blocked
    BY DEF Conclude
<1>2. retirement \in BOOLEAN /\ blocked \in BOOLEAN /\ tombstones \subseteq Operations
    BY DEF Types
<1>3. /\ Tame(r, r) /\ Tame(Quiesced(r), r)
      /\ Quiesced(r).life = "Closed" => r.life = "Closed"
      /\ r.life = "Closed" => Quiesced(r).life = "Closed"
    BY HandleIsTame DEF Tame
<1>4. \A n \in Operations : rest[n] \in OwnedState
    OBVIOUS
<1>5. \A n \in Operations : /\ Alike(rest[n], rest[n]) /\ Alike(Fenced(rest[n]), rest[n])
                            /\ Fenced(rest[n]) \in OwnedState
    BY <1>2, <1>4, FencesAreAlike DEF Alike
<1>. HIDE DEF full
<1>6. /\ owned' \in [Operations -> OwnedState] /\ blocked' \in BOOLEAN
      /\ \A n \in Operations : Alike(owned'[n], rest[n])
      /\ Tame(runtime', r) /\ (runtime'.life = "Closed" <=> r.life = "Closed")
    BY <1>1, <1>2, <1>3, <1>5
<1>7. /\ accused \subseteq accused'
      /\ accused' \subseteq accused \cup kinds \cup {"TombstoneCapacityExceeded"}
      /\ full => "TombstoneCapacityExceeded" \in accused'
    BY <1>1
<1>. QED  BY <1>1, <1>2, <1>6, <1>7 DEF full

-----------------------------------------------------------------------------
(* The tick of a physical operation.                                       *)

TickState == [r : PhysicalState, blocked : BOOLEAN, hit : BOOLEAN]

\* A part of the tick that only signals or polls.
Signals(y, x) ==
    /\ y \in TickState
    /\ y.r.exited = x.r.exited /\ y.r.acked = x.r.acked /\ y.r.noticed = x.r.noticed

\* The constants are positive.
LEMMA PositiveConstants ==
    /\ MaxOperation \in Nat /\ MaxOperation > 0 /\ Capacity \in Nat /\ Capacity > 0
    /\ WorkPerTick \in Nat /\ MaxOwned \in Nat /\ MaxOwned > 0 /\ MaxAcks \in Nat
    /\ MaxStops \in Nat /\ MaxForces \in Nat /\ MaxErrors \in Nat
BY SupervisorAssumption

\* A blocking fault leaves the operation alone.
LEMMA BlockingSignals ==
    ASSUME NEW x \in TickState
    PROVE  Blocking(x) \in TickState /\ Blocking(x).r = x.r
BY DEF Blocking, TickState

\* Updates of an operation in a tick.
LEMMA TickUpdates ==
    ASSUME NEW x \in TickState
    PROVE  /\ \A ok \in BOOLEAN : x.r.stops < MaxStops =>
                 Signals([x EXCEPT !.r.stops = @ + 1, !.r.stopped = ok], x)
           /\ \A ok \in BOOLEAN : x.r.forces < MaxForces =>
                 Signals([x EXCEPT !.r.forces = @ + 1, !.r.forced = ok], x)
           /\ \A p \in {"Pending", "Ready"} : Signals([x EXCEPT !.r.result = p], x)
           /\ \A c \in Causes : Signals([x EXCEPT !.r.result = "Ready", !.r.cause = c], x)
           /\ Signals(x, x)
<1>1. x.r \in PhysicalState /\ x.blocked \in BOOLEAN /\ x.hit \in BOOLEAN
    BY DEF TickState
<1>2. ASSUME NEW p \in PhysicalState, p.exited = x.r.exited, p.acked = x.r.acked,
             p.noticed = x.r.noticed
      PROVE  Signals([x EXCEPT !.r = p], x)
    BY <1>1, <1>2 DEF Signals, TickState
<1>3. ASSUME NEW ok \in BOOLEAN, x.r.stops < MaxStops
      PROVE  Signals([x EXCEPT !.r.stops = @ + 1, !.r.stopped = ok], x)
    <2>. DEFINE p == [x.r EXCEPT !.stops = @ + 1, !.stopped = ok]
    <2>1. p \in PhysicalState /\ p.exited = x.r.exited /\ p.acked = x.r.acked /\ p.noticed = x.r.noticed
        <3>1. x.r.stops + 1 \in 0 .. MaxStops
            BY <1>1, <1>3, PositiveConstants DEF PhysicalState
        <3>. QED  BY <1>1, <3>1 DEF PhysicalState
    <2>2. [x EXCEPT !.r.stops = @ + 1, !.r.stopped = ok] = [x EXCEPT !.r = p]
        BY <1>1 DEF TickState, PhysicalState
    <2>. HIDE DEF p
    <2>. QED  BY <1>2, <2>1, <2>2
<1>4. ASSUME NEW ok \in BOOLEAN, x.r.forces < MaxForces
      PROVE  Signals([x EXCEPT !.r.forces = @ + 1, !.r.forced = ok], x)
    <2>. DEFINE p == [x.r EXCEPT !.forces = @ + 1, !.forced = ok]
    <2>1. p \in PhysicalState /\ p.exited = x.r.exited /\ p.acked = x.r.acked /\ p.noticed = x.r.noticed
        <3>1. x.r.forces + 1 \in 0 .. MaxForces
            BY <1>1, <1>4, PositiveConstants DEF PhysicalState
        <3>. QED  BY <1>1, <3>1 DEF PhysicalState
    <2>2. [x EXCEPT !.r.forces = @ + 1, !.r.forced = ok] = [x EXCEPT !.r = p]
        BY <1>1 DEF TickState, PhysicalState
    <2>. HIDE DEF p
    <2>. QED  BY <1>2, <2>1, <2>2
<1>5. ASSUME NEW q \in {"Pending", "Ready"}  PROVE Signals([x EXCEPT !.r.result = q], x)
    <2>. DEFINE p == [x.r EXCEPT !.result = q]
    <2>1. p \in PhysicalState /\ p.exited = x.r.exited /\ p.acked = x.r.acked /\ p.noticed = x.r.noticed
        BY <1>1 DEF PhysicalState
    <2>2. [x EXCEPT !.r.result = q] = [x EXCEPT !.r = p]
        BY <1>1 DEF TickState, PhysicalState
    <2>. HIDE DEF p
    <2>. QED  BY <1>2, <2>1, <2>2
<1>6. ASSUME NEW c \in Causes  PROVE Signals([x EXCEPT !.r.result = "Ready", !.r.cause = c], x)
    <2>. DEFINE p == [x.r EXCEPT !.result = "Ready", !.cause = c]
    <2>1. p \in PhysicalState /\ p.exited = x.r.exited /\ p.acked = x.r.acked /\ p.noticed = x.r.noticed
        BY <1>1 DEF PhysicalState, Causes
    <2>2. [x EXCEPT !.r.result = "Ready", !.r.cause = c] = [x EXCEPT !.r = p]
        BY <1>1 DEF TickState, PhysicalState
    <2>. HIDE DEF p
    <2>. QED  BY <1>2, <2>1, <2>2
<1>. QED  BY <1>3, <1>4, <1>5, <1>6 DEF Signals

\* The two signals and the poll.
LEMMA SignalsAndPoll ==
    ASSUME NEW x \in TickState, NEW o \in Operations, retirement \in BOOLEAN
    PROVE  /\ \A ok \in BOOLEAN : Signals(StopSignal(x, o, ok), x)
           /\ \A ok \in BOOLEAN : Signals(ForceSignal(x, o, ok), x)
           /\ \A poll \in {"Pending", "Ready", "Error"} : Signals(PollResult(x, o, poll), x)
<1>1. ASSUME NEW y, Signals(y, x)  PROVE Signals(Blocking(y), x)
    BY <1>1, BlockingSignals DEF Signals
<1>2. ASSUME NEW ok \in BOOLEAN  PROVE Signals(StopSignal(x, o, ok), x)
    <2>. DEFINE y == [x EXCEPT !.r.stops = @ + 1, !.r.stopped = ok]
    <2>1. MayStop(x, o) => Signals(y, x)
        BY TickUpdates DEF MayStop
    <2>2. Signals(x, x)
        BY TickUpdates
    <2>3. StopSignal(x, o, ok) \in {x, y, Blocking(y)} /\ (~MayStop(x, o) => StopSignal(x, o, ok) = x)
        BY DEF StopSignal
    <2>. HIDE DEF y
    <2>. QED  BY <1>1, <2>1, <2>2, <2>3
<1>3. ASSUME NEW ok \in BOOLEAN  PROVE Signals(ForceSignal(x, o, ok), x)
    <2>. DEFINE y == [x EXCEPT !.r.forces = @ + 1, !.r.forced = ok]
    <2>1. MayForce(x, o) => Signals(y, x)
        BY TickUpdates DEF MayForce
    <2>2. Signals(x, x)
        BY TickUpdates
    <2>3. ForceSignal(x, o, ok) \in {x, y, Blocking(y)} /\ (~MayForce(x, o) => ForceSignal(x, o, ok) = x)
        BY DEF ForceSignal
    <2>. HIDE DEF y
    <2>. QED  BY <1>1, <2>1, <2>2, <2>3
<1>4. ASSUME NEW poll \in {"Pending", "Ready", "Error"}  PROVE Signals(PollResult(x, o, poll), x)
    <2>1. CASE ~MayPoll(x, o)
        BY <2>1, TickUpdates DEF PollResult
    <2>2. CASE MayPoll(x, o) /\ poll # "Error"
        BY <2>2, TickUpdates DEF PollResult
    <2>3. CASE MayPoll(x, o) /\ poll = "Error"
        <3>. DEFINE c == IF retirement THEN "None" ELSE "Fault"
                    y == [x EXCEPT !.r.result = "Ready", !.r.cause = c]
        <3>1. Signals(y, x)
            BY TickUpdates DEF Causes
        <3>2. PollResult(x, o, poll) = Blocking(y)
            BY <2>3 DEF PollResult
        <3>. HIDE DEF y
        <3>. QED  BY <1>1, <3>1, <3>2
    <2>. QED  BY <2>1, <2>2, <2>3
<1>. QED  BY <1>2, <1>3, <1>4

\* The wait learns of an exit after it has happened.
LEMMA Waits ==
    ASSUME NEW x \in TickState, NEW o \in Operations, NEW ok \in BOOLEAN,
           retirement \in BOOLEAN, x.r.exited => process[o] = "exited"
    PROVE  LET y == Wait(x, o, ok)
           IN  /\ y \in TickState /\ y.r.acked = x.r.acked /\ y.r.noticed = x.r.noticed
               /\ y.r.exited => process[o] = "exited"
               /\ x.r.exited => y.r.exited
<1>1. x.r \in PhysicalState /\ x.blocked \in BOOLEAN /\ x.hit \in BOOLEAN /\ x.r.exited \in BOOLEAN
    BY DEF TickState, PhysicalState
<1>2. CASE x.r.exited
    BY <1>2 DEF Wait
<1>3. CASE ~x.r.exited /\ ok
    <2>. DEFINE p == [x.r EXCEPT !.exited = process[o] = "exited"]
                y == [x EXCEPT !.r = p]
    <2>1. /\ p \in PhysicalState /\ p.exited = (process[o] = "exited")
          /\ p.acked = x.r.acked /\ p.noticed = x.r.noticed
        BY <1>1 DEF PhysicalState
    <2>2. Wait(x, o, ok) = y
        BY <1>1, <1>3 DEF Wait, TickState, PhysicalState
    <2>. HIDE DEF p
    <2>3. y \in TickState /\ y.r = p
        BY <1>1, <2>1 DEF TickState
    <2>. QED  BY <1>3, <2>1, <2>2, <2>3
<1>4. CASE ~x.r.exited /\ ~ok
    <2>. DEFINE p == IF retirement THEN x.r ELSE Fenced(x.r)
                y == [x EXCEPT !.r = p]
    <2>1. x.r \in OwnedState /\ x.r.state = "Physical"
        BY <1>1, OwnedStates
    <2>2. /\ p \in PhysicalState /\ p.exited = x.r.exited
          /\ p.acked = x.r.acked /\ p.noticed = x.r.noticed
        <3>1. Alike(Fenced(x.r), x.r)
            BY <2>1, FencesAreAlike
        <3>2. Fenced(x.r) \in OwnedState /\ Fenced(x.r).state = "Physical"
            BY <2>1, <3>1 DEF Alike
        <3>3. Fenced(x.r) \in PhysicalState
            BY <3>2, OwnedStates
        <3>. QED  BY <1>1, <3>1, <3>2, <3>3 DEF Alike
    <2>3. Wait(x, o, ok) = Blocking(y)
        BY <1>1, <1>4 DEF Wait, TickState
    <2>. HIDE DEF p
    <2>4. y \in TickState /\ y.r = p
        BY <1>1, <2>2 DEF TickState
    <2>. HIDE DEF y
    <2>5. Blocking(y) \in TickState /\ Blocking(y).r = p
        BY <2>4, BlockingSignals
    <2>. QED  BY <1>4, <2>2, <2>3, <2>5
<1>. QED  BY <1>1, <1>2, <1>3, <1>4

\* What becomes of a physical operation after its tick: its exit is known only
\* after it has happened, it is let go only with an acknowledgement, and
\* without a notice of its cancellation only with a tombstone.
TickResult(o, r, kept, bury) ==
    /\ kept \in OwnedState /\ bury \in SUBSET {o}
    /\ kept.state \in {"Physical", "Absent", "PendingCompletion"}
    /\ kept.state = "Physical" => /\ kept.exited => process[o] = "exited"
                                  /\ kept.acked => kept.exited
                                  /\ kept.noticed = r.noticed
    /\ kept.state # "Physical" => process[o] = "exited"
    /\ kept = Absent /\ ~r.noticed => bury = {o}
    /\ bury # {} => kept = Absent
    /\ \/ /\ exit_acks' = exit_acks
          /\ IF kept.state = "Physical" THEN kept.acked = r.acked ELSE r.acked
       \/ /\ ~r.acked /\ process[o] = "exited" /\ Len(exit_acks) < MaxAcks
          /\ kept.state = "Physical" => kept.acked
          /\ \E a \in AckOf(o) : a \notin Unexplained /\ exit_acks' = Append(exit_acks, a)

\* tick_owned does one of these to a physical operation.
LEMMA Ticking ==
    ASSUME Types, NEW o \in Operations, NEW r \in PhysicalState, NEW rt \in RuntimeState,
           r.exited => process[o] = "exited", r.acked => r.exited,
           TickPhysical(o, r, rt)
    PROVE  /\ errors' \in Nat /\ overflowed' = overflowed
           /\ \E kept, bury, fault : /\ TickResult(o, r, kept, bury)
                                     /\ Conclude([owned EXCEPT ![o] = kept], rt, bury, fault, {})
<1>1. PICK stop \in BOOLEAN, force \in BOOLEAN, wait \in BOOLEAN,
           poll \in {"Pending", "Ready", "Error"} : TickWith(o, r, rt, stop, force, poll, wait)
    BY DEF TickPhysical
<1>. DEFINE x0 == Taken(IF retirement \/ blocked THEN Fenced(r) ELSE r)
            x1 == StopSignal(x0, o, stop)
            x2 == ForceSignal(x1, o, force)
            x3 == PollResult(x2, o, poll)
            x4 == Wait(x3, o, wait)
            failing == {c \in {"stop", "force", "poll", "wait"} :
                          CASE c = "stop" -> ~stop [] c = "force" -> ~force
                            [] c = "poll" -> poll = "Error" [] c = "wait" -> ~wait}
            acks == wait /\ x4.r.exited /\ MayAck(x4.r)
            kept == IF wait THEN Settled(x4) ELSE x4.r
            bury == {n \in {o} : kept = Absent /\ ~x4.r.noticed}
<1>2. /\ x3.r.exited => wait
      /\ errors' = errors + Cardinality(failing) /\ overflowed' = overflowed
      /\ exit_acks' = IF acks THEN Append(exit_acks, Ack(o, x4.r)) ELSE exit_acks
      /\ Conclude([owned EXCEPT ![o] = kept], rt, bury, x4.hit, {})
    BY <1>1 DEF TickWith
<1>3. retirement \in BOOLEAN /\ blocked \in BOOLEAN /\ errors \in Nat
    BY DEF Types
<1>4. x0 \in TickState /\ x0.r.exited = r.exited /\ x0.r.acked = r.acked /\ x0.r.noticed = r.noticed
    <2>. DEFINE p == IF retirement \/ blocked THEN Fenced(r) ELSE r
    <2>1. r \in OwnedState /\ r.state = "Physical"
        BY OwnedStates
    <2>2. Alike(p, r)
        BY <1>3, <2>1, FencesAreAlike
    <2>3. p \in OwnedState /\ p.state = "Physical"
        BY <2>1, <2>2 DEF Alike
    <2>4. p \in PhysicalState
        BY <2>3, OwnedStates
    <2>5. p.exited = r.exited /\ p.acked = r.acked /\ p.noticed = r.noticed
        BY <2>2, <2>3 DEF Alike
    <2>6. x0 = [r |-> p, blocked |-> blocked, hit |-> FALSE]
        BY DEF Taken
    <2>. HIDE DEF p, x0
    <2>. QED  BY <1>3, <2>4, <2>5, <2>6 DEF TickState
<1>. HIDE DEF x0
<1>6. Signals(x1, x0) /\ x1 \in TickState
    BY <1>3, <1>4, SignalsAndPoll DEF Signals
<1>. HIDE DEF x1
<1>7. Signals(x2, x1) /\ x2 \in TickState
    BY <1>3, <1>6, SignalsAndPoll DEF Signals
<1>. HIDE DEF x2
<1>8. Signals(x3, x2) /\ x3 \in TickState
    <2>1. \A p \in {"Pending", "Ready", "Error"} : Signals(PollResult(x2, o, p), x2)
        BY <1>3, <1>7, SignalsAndPoll
    <2>2. Signals(x3, x2)
        BY <2>1
    <2>. QED  BY <2>2 DEF Signals
<1>. HIDE DEF x3
<1>9. x3 \in TickState /\ x3.r.exited = r.exited /\ x3.r.acked = r.acked /\ x3.r.noticed = r.noticed
    BY <1>4, <1>6, <1>7, <1>8 DEF Signals
<1>10. /\ x4 \in TickState /\ x4.r.acked = r.acked /\ x4.r.noticed = r.noticed
       /\ x4.r.exited => process[o] = "exited"
       /\ r.exited => x4.r.exited
    <2>1. x3.r.exited => process[o] = "exited"
        BY <1>9
    <2>2. x3 \in TickState /\ wait \in BOOLEAN
        BY <1>8
    <2>3. /\ x4 \in TickState /\ x4.r.acked = x3.r.acked /\ x4.r.noticed = x3.r.noticed
          /\ x4.r.exited => process[o] = "exited"
          /\ x3.r.exited => x4.r.exited
        BY <1>3, <2>1, <2>2, Waits
    <2>. HIDE DEF x4
    <2>. QED  BY <1>9, <2>3
<1>. HIDE DEF x4
<1>11. /\ x4.r \in PhysicalState /\ x4.r \in OwnedState /\ x4.r.state = "Physical"
       /\ x4.r # Absent /\ x4.blocked \in BOOLEAN
    BY <1>10, OwnedStates DEF TickState
<1>12. /\ x4.r.exited \in BOOLEAN /\ x4.r.acked \in BOOLEAN /\ x4.r.noticed \in BOOLEAN
       /\ x4.r.stops \in Nat /\ x4.r.cause \in Causes
    BY <1>11 DEF PhysicalState, Causes
<1>. DEFINE q == [x4.r EXCEPT !.acked = TRUE]
<1>13. /\ q \in PhysicalState /\ q.exited = x4.r.exited /\ q.acked = TRUE
       /\ q.noticed = x4.r.noticed
    BY <1>11 DEF PhysicalState
<1>14. q \in OwnedState /\ q.state = "Physical" /\ q # Absent
    BY <1>13, OwnedStates
<1>. HIDE DEF q
<1>15. Settled(x4) = x4.r \/ Settled(x4) = Absent \/ Settled(x4) = [state |-> "PendingCompletion"]
       \/ Settled(x4) = q
    BY <1>12 DEF Settled, q
<1>16. /\ x4.r.exited /\ (x4.r.acked \/ MayAck(x4.r)) => Settled(x4) # x4.r \/ x4.r.acked
       /\ Settled(x4) \in {Absent, [state |-> "PendingCompletion"], q} =>
             (x4.r.exited /\ (x4.r.acked \/ MayAck(x4.r))) \/ Settled(x4) = x4.r
    <2>1. CASE ~x4.r.exited \/ ~(x4.r.acked \/ MayAck(x4.r))
        <3>1. Settled(x4) = x4.r
            BY <2>1 DEF Settled
        <3>. QED  BY <2>1, <3>1
    <2>2. CASE x4.r.exited /\ (x4.r.acked \/ MayAck(x4.r))
        <3>1. Settled(x4) \in {Absent, [state |-> "PendingCompletion"], q}
            BY <2>2 DEF Settled, q
        <3>2. [state |-> "PendingCompletion"].state = "PendingCompletion" /\ Absent.state = "Absent"
            BY OwnedStates
        <3>3. x4.r # [state |-> "PendingCompletion"]
            BY <1>11, <3>2
        <3>. QED  BY <1>11, <1>13, <2>2, <3>1, <3>3
    <2>. QED  BY <2>1, <2>2
<1>17. errors' \in Nat
    <2>1. failing \subseteq {"stop", "force", "poll", "wait"}
        OBVIOUS
    <2>2. IsFiniteSet({"stop", "force", "poll", "wait"})
        <3>1. IsFiniteSet({"stop"} \cup {"force"})
            BY FS_Singleton, FS_AddElement
        <3>2. IsFiniteSet(({"stop"} \cup {"force"}) \cup {"poll"})
            BY <3>1, FS_AddElement
        <3>3. IsFiniteSet((({"stop"} \cup {"force"}) \cup {"poll"}) \cup {"wait"})
            BY <3>2, FS_AddElement
        <3>4. {"stop", "force", "poll", "wait"}
                 = (({"stop"} \cup {"force"}) \cup {"poll"}) \cup {"wait"}
            OBVIOUS
        <3>. QED  BY <3>3, <3>4
    <2>3. Cardinality(failing) \in Nat
        <3>. HIDE DEF failing
        <3>. QED  BY <2>1, <2>2, FS_Subset, FS_CardinalityType
    <2>. HIDE DEF failing
    <2>. QED  BY <1>2, <1>3, <2>3
<1>18. kept \in OwnedState /\ kept.state \in {"Physical", "Absent", "PendingCompletion"}
    BY <1>11, <1>14, <1>15, OwnedStates
<1>19. /\ kept.state = "Physical" => /\ kept.exited => process[o] = "exited"
                                     /\ kept.acked => kept.exited
                                     /\ kept.noticed = r.noticed
       /\ kept.state # "Physical" => process[o] = "exited"
    <2>1. CASE kept = x4.r
        BY <1>10, <1>11, <2>1
    <2>2. CASE kept = q /\ kept # x4.r
        BY <1>10, <1>13, <1>14, <1>16, <2>2
    <2>3. CASE kept \in {Absent, [state |-> "PendingCompletion"]} /\ kept # x4.r
        BY <1>10, <1>16, <2>3, OwnedStates
    <2>. QED  BY <1>15, <2>1, <2>2, <2>3
<1>20. /\ bury \in SUBSET {o} /\ (bury # {} => kept = Absent)
       /\ kept = Absent /\ ~r.noticed => bury = {o}
    <2>. HIDE DEF kept
    <2>. QED  BY <1>10
<1>21. CASE ~acks
    <2>1. exit_acks' = exit_acks
        BY <1>2, <1>21
    <2>2. IF kept.state = "Physical" THEN kept.acked = r.acked ELSE r.acked
        <3>1. CASE kept = x4.r
            BY <1>10, <1>11, <3>1
        <3>2. CASE kept # x4.r
            <4>1. wait /\ x4.r.exited /\ x4.r.acked
                BY <1>15, <1>16, <1>21, <3>2
            <4>2. r.acked = TRUE
                BY <1>10, <4>1 DEF PhysicalState
            <4>3. CASE kept = q
                BY <1>13, <1>14, <4>2, <4>3
            <4>4. CASE kept # q
                BY <1>15, <3>2, <4>1, <4>2, <4>4, OwnedStates
            <4>. QED  BY <4>3, <4>4
        <3>. QED  BY <3>1, <3>2
    <2>3. TickResult(o, r, kept, bury)
        <3>. HIDE DEF kept, bury
        <3>. QED  BY <1>18, <1>19, <1>20, <2>1, <2>2 DEF TickResult
    <2>. QED  BY <1>2, <1>17, <2>3
<1>22. CASE acks
    <2>. DEFINE a == Ack(o, x4.r)
    <2>1. /\ ~x4.r.acked /\ ~(x4.r.stops > 0 /\ x4.r.cause = "None") /\ Len(exit_acks) < MaxAcks
          /\ x4.r.exited /\ wait
        BY <1>22 DEF MayAck
    <2>2. a \in AckOf(o) /\ a \notin Unexplained
        BY <1>12, <2>1 DEF Ack, AckOf, Acks, Unexplained
    <2>3. exit_acks' = Append(exit_acks, a)
        BY <1>2, <1>22
    <2>4. ~r.acked /\ process[o] = "exited"
        BY <1>10, <2>1
    <2>5. kept.state = "Physical" => kept.acked
        <3>1. kept # x4.r /\ kept = Settled(x4)
            BY <1>16, <1>22, <2>1
        <3>. QED  BY <1>13, <1>15, <3>1, OwnedStates
    <2>6. TickResult(o, r, kept, bury)
        <3>. HIDE DEF kept, bury, a
        <3>. QED  BY <1>18, <1>19, <1>20, <2>1, <2>2, <2>3, <2>4, <2>5 DEF TickResult
    <2>. QED  BY <1>2, <1>17, <2>6
<1>. QED  BY <1>21, <1>22

-----------------------------------------------------------------------------
(* Steps that have nothing to do with an operation.                        *)

\* Two queues hold the same of M.
SameItems(t, s, M) == (Has(t, M) <=> Has(s, M)) /\ (One(s, M) => One(t, M))

\* A step does not disturb an operation: the queues hold the same of it, but
\* for a receipt, and its record is the same but for the way it is being stopped.
Undisturbed(n) ==
    /\ Alike(owned'[n], owned[n]) /\ process'[n] = process[n] /\ engine'[n] = engine[n]
    /\ n \in tombstones' <=> n \in tombstones
    /\ SameItems(published', published, Invoke(n)) /\ SameItems(published', published, Cancel(n))
    /\ SameItems(runtime'.work, runtime.work, Invoke(n))
    /\ SameItems(runtime'.work, runtime.work, Cancel(n))
    /\ Before(runtime.work, Effect("Invoke", n), Effect("Cancel", n)) =>
          Before(runtime'.work, Effect("Invoke", n), Effect("Cancel", n))
    /\ IsCancelled(n) => IsCancelled(n)'
    /\ (RuntimeClosed => RuntimeClosed') /\ (unread => unread')
    /\ SameItems(ingress', ingress, ObserveOf(n)) /\ SameItems(batch', batch, ObserveOf(n))
    /\ SameItems(outcomes', outcomes, AnswerTo(n))
    /\ Has(outcomes', OkAnswerTo(n)) => Has(outcomes, OkAnswerTo(n))
    /\ Has(runtime'.receipts, ReceiptOf(n)) => Has(runtime.receipts, ReceiptOf(n))
    /\ One(runtime.receipts, ReceiptOf(n)) => One(runtime'.receipts, ReceiptOf(n))
    /\ Has(runtime'.receipts, OkReceiptOf(n)) => Has(runtime.receipts, OkReceiptOf(n))
    /\ SameItems(exit_acks', exit_acks, AckOf(n))
    /\ SameItems(provider_exit_acks', provider_exit_acks, AckOf(n))
    /\ told' \cap AckOf(n) = told \cap AckOf(n)

\* What is said of an operation survives what does not disturb it.
LEMMA Elsewhere ==
    ASSUME NEW n \in Operations, Orderly(n), Undisturbed(n)
    PROVE  Orderly(n)'
<1>1. /\ Physical(n)' <=> Physical(n)
      /\ Awaits(n)' <=> Awaits(n)
      /\ Physical(n) => /\ owned'[n].exited = owned[n].exited /\ owned'[n].acked = owned[n].acked
                        /\ owned'[n].noticed = owned[n].noticed
      /\ Awaits(n) => owned'[n].noticed = owned[n].noticed
      /\ owned'[n] = Absent <=> owned[n] = Absent
      /\ process'[n] = process[n] /\ engine'[n] = engine[n]
    BY DEF Undisturbed, Alike, Physical, Awaits
<1>2. Noticed(n)' <=> Noticed(n)
    BY <1>1 DEF Noticed
<1>3. /\ Issued(n)' <=> Issued(n)
      /\ CancelSent(n)' <=> CancelSent(n)
      /\ Sent(n)' <=> Sent(n)
      /\ Received(n)' => Received(n)
      /\ Told(n)' <=> Told(n)
      /\ Acked(n)' <=> Acked(n)
    BY DEF Undisturbed, SameItems, Issued, CancelSent, Sent, Received, Told, Acked
<1>4. Fresh(n)' <=> Fresh(n)
    BY <1>1, <1>3 DEF Fresh, Undisturbed
<1>5. Held(n)'
    BY <1>1 DEF Orderly, Held
<1>6. Invocations(n)'
    BY <1>1, <1>3, <1>4 DEF Orderly, Invocations, Undisturbed, SameItems
<1>7. Cancellations(n)'
    BY <1>1, <1>2, <1>3 DEF Orderly, Cancellations, Undisturbed, SameItems
<1>8. Answers(n)'
    BY <1>1, <1>3 DEF Orderly, Answers, Undisturbed, SameItems
<1>9. Acknowledged(n)'
    <2>1. \A a, b \in told' \cap AckOf(n) : a = b
        BY DEF Orderly, Acknowledged, Undisturbed
    <2>. QED  BY <1>1, <1>3, <2>1 DEF Orderly, Acknowledged, Undisturbed, SameItems
<1>. QED  BY <1>5, <1>6, <1>7, <1>8, <1>9 DEF Orderly

\* Whoever was known still is.
LEMMA RecognisedElsewhere ==
    ASSUME NEW n \in Operations, Recognised(n), Undisturbed(n),
           Exceeded => Exceeded', Dead => Dead', lane' => lane
    PROVE  Recognised(n)'
<1>1. /\ owned'[n] = Absent <=> owned[n] = Absent
      /\ engine'[n] = engine[n] /\ (n \in tombstones' <=> n \in tombstones)
    BY DEF Undisturbed, Alike
<1>2. (Issued(n)' <=> Issued(n)) /\ (CancelSent(n)' <=> CancelSent(n))
    BY DEF Undisturbed, SameItems, Issued, CancelSent
<1>. QED  BY <1>1, <1>2 DEF Recognised, Due

-----------------------------------------------------------------------------
(* The steps of the kernel.                                                *)

\* A step of the kernel leaves the supervisor alone.
LEMMA KernelFrame ==
    ASSUME Inv, NotSupervisor
    PROVE  /\ UNCHANGED <<todo, taken, owned, outstanding, retirement, blocked, closed,
                          tombstones, exit_acks, provider_exit_acks, told, process, accused,
                          overflowed, unread>>
           /\ \A n \in Operations :
                 /\ Alike(owned'[n], owned[n]) /\ owned'[n] = owned[n] /\ process'[n] = process[n]
                 /\ Held(n)' /\ Acknowledged(n)'
                 /\ (Physical(n)' <=> Physical(n)) /\ (Awaits(n)' <=> Awaits(n))
                 /\ (Noticed(n)' <=> Noticed(n))
           /\ Waiting' = Waiting /\ Owned' = Owned
           /\ Exceeded' <=> Exceeded
<1>1. UNCHANGED <<todo, taken, owned, outstanding, retirement, blocked, closed,
                  tombstones, exit_acks, provider_exit_acks, told, process, accused, overflowed, unread>>
    BY DEF NotSupervisor, own_vars, ack_vars
<1>2. \A n \in Operations : owned[n] \in OwnedState /\ Alike(owned[n], owned[n])
    <2>1. \A n \in Operations : owned[n] \in OwnedState
        BY DEF Inv, Types
    <2>. QED  BY <2>1 DEF Alike
<1>3. \A n \in Operations :
         /\ Physical(n)' <=> Physical(n)
         /\ Awaits(n)' <=> Awaits(n)
         /\ Noticed(n)' <=> Noticed(n)
    BY <1>1 DEF Physical, Awaits, Noticed
<1>4. \A n \in Operations : Held(n)' /\ Acknowledged(n)'
    <2>1. ASSUME NEW n \in Operations  PROVE Held(n)' /\ Acknowledged(n)'
        <3>1. Held(n) /\ Acknowledged(n)
            BY DEF Inv, Orderly
        <3>. QED  BY <1>1, <3>1 DEF Held, Acknowledged, Physical, Acked, Told
    <2>. QED  BY <2>1
<1>5. Waiting' = Waiting /\ Owned' = Owned /\ (Exceeded' <=> Exceeded)
    BY <1>1 DEF Waiting, Owned, Exceeded, Awaits
<1>. QED  BY <1>1, <1>2, <1>3, <1>4, <1>5

\* A step of the kernel that takes nothing from a queue and adds nothing that
\* is about an operation.
LEMMA QuietKernel ==
    ASSUME Inv, NotSupervisor, Tame(runtime', runtime),
           UNCHANGED <<published, engine, batch, outcomes>>,
           \A n \in Operations : SameItems(ingress', ingress, ObserveOf(n))
    PROVE  \A n \in Operations : Undisturbed(n)
<1>1. ASSUME NEW n \in Operations  PROVE Undisturbed(n)
    <2>1. IsCancelled(n) => IsCancelled(n)'
        BY DEF IsCancelled, Tame
    <2>2. runtime'.work = runtime.work /\ runtime'.receipts = runtime.receipts
          /\ (RuntimeClosed => RuntimeClosed')
        BY DEF Tame, RuntimeClosed
    <2>. QED  BY <2>1, <2>2, KernelFrame DEF Undisturbed, SameItems
<1>. QED  BY <1>1

\* A close that is sent, or tried, adds at most a Detach to the channel.
LEMMA Closing ==
    ASSUME Types, runtime.life # "Closed",
           CloseSent(runtime) \/ CloseFull(runtime) \/ CloseExhausted(runtime)
    PROVE  /\ Tame(runtime', runtime) /\ runtime'.life \in {"DetachSent", "ClosingRetry"}
           /\ ingress' \in Seq(Commands)
           /\ \A n \in Operations : SameItems(ingress', ingress, ObserveOf(n))
           /\ sequence' \in {"open", "spent", "exhausted"} /\ errors' \in Nat
<1>1. runtime \in RuntimeState /\ ingress \in Seq(Commands) /\ errors \in Nat
      /\ sequence \in {"open", "spent", "exhausted"}
    BY DEF Types
<1>2. runtime' \in {Silenced(runtime), [Silenced(runtime) EXCEPT !.life = "DetachSent"],
                    [Silenced(runtime) EXCEPT !.life = "ClosingRetry"]}
      /\ (runtime' = Silenced(runtime) => runtime.life = "DetachSent" \/
             runtime' \in {[Silenced(runtime) EXCEPT !.life = "DetachSent"],
                    [Silenced(runtime) EXCEPT !.life = "ClosingRetry"]})
    BY DEF CloseSent, CloseFull, CloseExhausted
<1>3. /\ \A l \in DeadLives : /\ Tame([Silenced(runtime) EXCEPT !.life = l], runtime)
                              /\ [Silenced(runtime) EXCEPT !.life = l].life = l
      /\ Tame(Silenced(runtime), runtime) /\ Silenced(runtime).life = runtime.life
    BY <1>1, HandleIsTame
<1>4. Tame(runtime', runtime) /\ runtime'.life \in {"DetachSent", "ClosingRetry"}
    BY <1>2, <1>3 DEF DeadLives
<1>5. sequence' \in {"open", "spent", "exhausted"} /\ errors' \in Nat
    BY <1>1 DEF CloseSent, CloseFull, CloseExhausted, Works, Fails, Committed, LastCommitted
<1>. DEFINE c == [kind |-> "Detach", operation |-> 0]
<1>6. ingress' = ingress \/ ingress' = Append(ingress, c)
    BY DEF CloseSent, CloseFull, CloseExhausted
<1>7. c \in Commands /\ \A n \in Operations : c \notin ObserveOf(n)
    <2>1. c \in Commands /\ c.kind # "Observe"
        BY NewItems
    <2>. HIDE DEF c
    <2>. QED  BY <2>1, ResultItems
<1>. HIDE DEF c
<1>8. Append(ingress, c) \in Seq(Commands)
      /\ \A n \in Operations : SameItems(Append(ingress, c), ingress, ObserveOf(n))
    BY <1>1, <1>7, AppendQueue DEF SameItems
<1>. QED  BY <1>1, <1>4, <1>5, <1>6, <1>8 DEF SameItems

\* Everything but the operations, after a step of the kernel that leaves most
\* of the state as it is.
LEMMA QuietRest ==
    ASSUME Inv, Tame(runtime', runtime), RuntimeClosed' => RuntimeClosed,
           UNCHANGED <<pc, batch, outcomes, published, engine, bound, lane>>,
           UNCHANGED <<todo, taken, owned, outstanding, retirement, blocked, closed,
                       tombstones, exit_acks, provider_exit_acks, told, process, accused,
                       overflowed, unread>>,
           ingress' \in Seq(Commands), sequence' \in {"open", "spent", "exhausted"}, errors' \in Nat,
           \A n \in Operations : Undisturbed(n)
    PROVE  Inv'
<1>1. Types'
    BY DEF Inv, Types, Tame
<1>2. Phases'
    BY DEF Inv, Phases
<1>3. Accounts'
    <2>1. Waiting' = Waiting
        BY DEF Waiting, Awaits
    <2>. QED  BY <2>1 DEF Inv, Accounts, Cleared, Tame, RuntimeClosed
<1>4. Attachment'
    BY DEF Inv, Attachment, Tame
<1>5. Limits'
    BY DEF Inv, Limits, Tame, Owned
<1>6. Dead => Dead'
    BY DEF Dead, Tame, DeadLives
<1>7. Reported'
    BY <1>6 DEF Inv, Reported, NoFalseAccusation, Tame, Exceeded
<1>8. \A n \in Operations : Orderly(n)' /\ Recognised(n)'
    BY <1>6, Elsewhere, RecognisedElsewhere DEF Inv, Exceeded
<1>. QED  BY <1>1, <1>2, <1>3, <1>4, <1>5, <1>7, <1>8 DEF Inv

\* Another provider takes the last sequence number.
LEMMA SequenceSpentKeeps ==
    ASSUME Inv, SequenceSpent  PROVE Inv'
<1>1. NotSupervisor /\ UNCHANGED <<pc, batch, outcomes, published, engine, bound, lane, ingress, runtime>>
      /\ sequence' = "spent" /\ errors' \in Nat
    BY DEF SequenceSpent, NotSupervisor, thread_vars, own_vars, ack_vars, Fails, Inv, Types
<1>2. Tame(runtime', runtime) /\ (RuntimeClosed' => RuntimeClosed)
    BY <1>1, HandleIsTame DEF Inv, Types, RuntimeClosed
<1>3. \A n \in Operations : Undisturbed(n)
    BY <1>1, <1>2, QuietKernel DEF SameItems
<1>4. ingress' \in Seq(Commands)
    BY <1>1 DEF Inv, Types
<1>. QED  BY <1>1, <1>2, <1>3, <1>4, KernelFrame, QuietRest

\* A binding that waits to be closed asks again.
LEMMA FlushClosingKeeps ==
    ASSUME Inv, FlushClosing  PROVE Inv'
<1>1. NotSupervisor /\ UNCHANGED <<batch, outcomes, published, engine, bound, lane>>
      /\ pc = "idle" /\ pc' = "drain" /\ runtime.life = "ClosingRetry"
      /\ (CloseSent(runtime) \/ CloseFull(runtime) \/ CloseExhausted(runtime))
    BY DEF FlushClosing
<1>2. /\ Tame(runtime', runtime) /\ runtime'.life \in {"DetachSent", "ClosingRetry"}
      /\ ingress' \in Seq(Commands)
      /\ \A n \in Operations : SameItems(ingress', ingress, ObserveOf(n))
      /\ sequence' \in {"open", "spent", "exhausted"} /\ errors' \in Nat
    BY <1>1, Closing DEF Inv
<1>3. \A n \in Operations : Undisturbed(n)
    BY <1>1, <1>2, QuietKernel
<1>4. UNCHANGED <<todo, taken, owned, outstanding, retirement, blocked, closed,
                  tombstones, exit_acks, provider_exit_acks, told, process, accused, overflowed, unread>>
      /\ Waiting' = Waiting
    BY <1>1, KernelFrame
<1>5. Types'
    BY <1>1, <1>2, <1>4 DEF Inv, Types, Tame
<1>6. Phases'
    BY <1>1, <1>4 DEF Inv, Phases
<1>7. ~RuntimeClosed /\ ~RuntimeClosed' /\ Dead /\ Dead'
    BY <1>1, <1>2 DEF RuntimeClosed, Dead
<1>8. Accounts'
    BY <1>4, <1>7 DEF Inv, Accounts, Cleared
<1>9. Attachment'
    BY <1>1, <1>2 DEF Inv, Attachment
<1>10. Limits'
    BY <1>2, <1>4 DEF Inv, Limits, Tame, Owned
<1>11. Reported'
    BY <1>2, <1>4, <1>7 DEF Inv, Reported, NoFalseAccusation, Tame, Exceeded
<1>12. \A n \in Operations : Orderly(n)' /\ Recognised(n)'
    BY <1>1, <1>3, <1>4, <1>7, Elsewhere, RecognisedElsewhere DEF Inv, Exceeded
<1>. QED  BY <1>5, <1>6, <1>8, <1>9, <1>10, <1>11, <1>12 DEF Inv

\* The step takes what is in the channel.
LEMMA DrainIngressKeeps ==
    ASSUME Inv, DrainIngress  PROVE Inv'
<1>1. /\ NotSupervisor /\ UNCHANGED <<outcomes, published, engine, bound, lane, sequence, runtime>>
      /\ pc \in {"idle", "drain"} /\ pc' = "reduce" /\ errors' \in Nat
      /\ \E i \in 0 .. Len(ingress) :
            batch' = SubSeq(ingress, 1, i) /\ ingress' = SubSeq(ingress, i + 1, Len(ingress))
    <2>1. errors \in Nat
        BY DEF Inv, Types
    <2>2. PICK i \in 0 .. Len(ingress) :
             /\ batch' = SubSeq(ingress, 1, i) /\ ingress' = SubSeq(ingress, i + 1, Len(ingress))
             /\ IF i = Len(ingress) THEN Works ELSE Fails
        BY DEF DrainIngress
    <2>3. errors' \in Nat
        BY <2>1, <2>2 DEF Works, Fails
    <2>. QED  BY <2>2, <2>3 DEF DrainIngress
<1>2. batch = <<>> /\ ingress \in Seq(Commands)
    BY <1>1 DEF Inv, Phases, Types
<1>3. /\ UNCHANGED <<todo, taken, owned, outstanding, retirement, blocked, closed,
                  tombstones, exit_acks, provider_exit_acks, told, process, accused, overflowed, unread>>
      /\ Waiting' = Waiting /\ Owned' = Owned
    BY <1>1, KernelFrame
<1>9. /\ batch' \in Seq(Commands) /\ ingress' \in Seq(Commands)
      /\ \A M : Has(ingress, M) <=> Has(batch', M) \/ Has(ingress', M)
      /\ \A M : One(ingress, M) =>
                   One(batch', M) /\ One(ingress', M) /\ ~(Has(batch', M) /\ Has(ingress', M))
    BY <1>1, <1>2, SplitQueue
<1>4. Types'
    BY <1>1, <1>3, <1>9 DEF Inv, Types
<1>5. Phases'
    BY <1>1, <1>3 DEF Inv, Phases
<1>6. Accounts'
    BY <1>1, <1>3 DEF Inv, Accounts, Cleared, RuntimeClosed
<1>7. Attachment' /\ Limits' /\ Reported'
    BY <1>1, <1>3 DEF Inv, Attachment, Limits, Reported, NoFalseAccusation, Dead, Exceeded
<1>8. ASSUME NEW n \in Operations  PROVE Orderly(n)' /\ Recognised(n)'
    <2>1. Orderly(n) /\ Recognised(n)
        BY DEF Inv
    <2>2. /\ Sent(n)' <=> Sent(n)
          /\ One(ingress', ObserveOf(n)) /\ One(batch', ObserveOf(n))
          /\ ~(Has(ingress', ObserveOf(n)) /\ Has(batch', ObserveOf(n)))
          /\ Has(ingress', ObserveOf(n)) \/ Has(batch', ObserveOf(n)) => Has(ingress, ObserveOf(n))
        BY <1>1, <1>2, <1>9, <2>1, EmptyQueue DEF Orderly, Answers, Sent
    <2>3. Held(n)' /\ Acknowledged(n)'
        BY <1>1, KernelFrame
    <2>4. Answers(n)'
        BY <1>1, <1>3, <2>1, <2>2 DEF Orderly, Answers, Received, RuntimeClosed, Awaits, Physical
    <2>5. Invocations(n)'
        BY <1>1, <1>3, <2>1, <2>2 DEF Orderly, Invocations, Issued, Fresh
    <2>6. Cancellations(n)'
        BY <1>1, <1>3, <2>1 DEF Orderly, Cancellations, CancelSent, IsCancelled, Noticed, Physical, Awaits
    <2>7. Recognised(n)'
        BY <1>1, <1>3, <2>1 DEF Recognised, Exceeded, Dead, Due, Issued, CancelSent
    <2>. QED  BY <2>3, <2>4, <2>5, <2>6, <2>7 DEF Orderly
<1>. QED  BY <1>4, <1>5, <1>6, <1>7, <1>8 DEF Inv

\* The kernel closes requests, with or without the effects that are queued for
\* them: nothing is lost that the supervisor would miss.
Closes ==
    /\ \A n \in Operations :
          engine'[n] = engine[n] \/ (engine'[n] = "Done" /\ engine[n] # "New" /\
                                     (Has(published, Invoke(n)) => published' = <<>>))
    /\ \/ published' = published
       \/ published' = <<>> /\ \A n \in Operations : engine'[n] # "Dispatched" \/ ~lane'
    /\ engine' \in [Operations -> {"New", "Dispatched", "Done"}]
    /\ lane' => lane

\* Requests that are closed leave the operations in order.
LEMMA ClosesKeeps ==
    ASSUME Inv, NotSupervisor, UNCHANGED runtime, Closes,
           NEW n \in Operations, Sent(n)' <=> Sent(n)
    PROVE  Invocations(n)' /\ Cancellations(n)' /\ Recognised(n)'
<1>1. Orderly(n) /\ Recognised(n)
    BY DEF Inv
<1>2. /\ UNCHANGED <<owned, tombstones, process, accused, overflowed, unread>>
      /\ Noticed(n)' <=> Noticed(n)
    BY KernelFrame
<1>3. /\ Fresh(n)' <=> Fresh(n)
      /\ IsCancelled(n)' <=> IsCancelled(n)
    BY <1>2 DEF Fresh, IsCancelled
<1>4. engine'[n] \in {"New", "Dispatched", "Done"} /\ engine[n] \in {"New", "Dispatched", "Done"}
    BY DEF Closes, Inv, Types
<1>5. /\ Has(published', Invoke(n)) => Has(published, Invoke(n)) /\ published' = published
      /\ Has(published', Cancel(n)) => Has(published, Cancel(n))
      /\ One(published', Invoke(n)) /\ One(published', Cancel(n))
    BY <1>1, EmptyQueue DEF Closes, Orderly, Invocations, Cancellations
<1>6. Has(published', Invoke(n)) => engine'[n] = "Dispatched"
    <2>. SUFFICES ASSUME Has(published', Invoke(n))  PROVE engine'[n] = "Dispatched"
        OBVIOUS
    <2>1. Has(published, Invoke(n)) /\ engine[n] = "Dispatched"
        BY <1>1, <1>5 DEF Orderly, Invocations
    <2>2. published' # <<>>
        BY EmptyQueue
    <2>. QED  BY <2>1, <2>2 DEF Closes
<1>7. /\ engine'[n] = "New" => engine[n] = "New"
      /\ engine[n] = "Done" => engine'[n] = "Done"
    BY <1>4 DEF Closes
<1>8. Invocations(n)'
    BY <1>1, <1>3, <1>5, <1>6, <1>7 DEF Orderly, Invocations, Issued
<1>9. Cancellations(n)'
    BY <1>1, <1>2, <1>3, <1>5, <1>7 DEF Orderly, Cancellations, CancelSent
<1>10. Recognised(n)'
    <2>1. SUFFICES ASSUME ~Exceeded, ~Dead, Due(n)', ~Issued(n)'
                   PROVE  owned[n] # Absent \/ n \in tombstones
        BY <1>2 DEF Recognised, Exceeded, Dead
    <2>2. Due(n)
        BY <1>5, <2>1, <1>4 DEF Due, CancelSent, Closes
    <2>3. ~Issued(n)
        <3>1. SUFFICES ASSUME Has(published, Invoke(n)), ~Has(published', Invoke(n))  PROVE FALSE
            BY <2>1 DEF Issued
        <3>2. engine[n] = "Dispatched" /\ ~CancelSent(n)
            BY <1>1, <3>1 DEF Orderly, Invocations, Cancellations
        <3>3. lane' /\ engine'[n] = "Dispatched"
            BY <1>5, <2>1, <3>2 DEF Due, CancelSent
        <3>. QED  BY <3>1, <3>3 DEF Closes
    <2>. QED  BY <1>1, <2>1, <2>2, <2>3 DEF Recognised
<1>. QED  BY <1>8, <1>9, <1>10

\* The kernel reduces a command.
LEMMA ReduceCommandKeeps ==
    ASSUME Inv, ReduceCommand  PROVE Inv'
<1>. DEFINE c == Head(batch)
            admitted == lane /\ sequence # "exhausted" /\ (bound <=> c.kind # "Attach")
            x == [kind |-> c.kind, operation |-> c.operation, ok |-> admitted]
<1>1. /\ NotSupervisor /\ pc = "reduce" /\ UNCHANGED <<pc, runtime, ingress, lane, sequence, errors>>
      /\ batch # <<>> /\ batch' = Tail(batch)
      /\ outcomes' = Append(outcomes, x)
      /\ bound' = IF admitted /\ c.kind # "Observe" THEN c.kind = "Attach" ELSE bound
      /\ \/ admitted /\ c.kind = "Detach" /\ CloseRequests
         \/ /\ admitted /\ c.kind = "Observe"
            /\ engine' = [engine EXCEPT ![c.operation] = "Done"] /\ UNCHANGED published
         \/ ~(admitted /\ c.kind # "Attach") /\ UNCHANGED <<engine, published>>
    BY DEF ReduceCommand, Reducing, Works
<1>2. /\ batch \in Seq(Commands) /\ outcomes \in Seq(Outcomes) /\ lane \in BOOLEAN /\ bound \in BOOLEAN
      /\ engine \in [Operations -> {"New", "Dispatched", "Done"}] /\ published \in Seq(Effects)
    BY DEF Inv, Types
<1>3. /\ c \in Commands /\ Tail(batch) \in Seq(Commands)
      /\ \A M : Has(batch, M) <=> c \in M \/ Has(Tail(batch), M)
      /\ \A M : One(batch, M) => One(Tail(batch), M) /\ ~(c \in M /\ Has(Tail(batch), M))
    BY <1>1, <1>2, TailQueue
<1>4. /\ x \in Outcomes /\ x.kind = c.kind /\ x.operation = c.operation /\ x.ok = admitted
    BY <1>2, <1>3, NewItems
<1>5. c.kind \in {"Attach", "Detach", "Observe"} /\ (c.kind = "Observe" => c.operation \in Operations)
    BY <1>3, ItemTypes
<1>6. admitted \in BOOLEAN
    BY <1>2
<1>. HIDE DEF c, admitted, x
<1>7. /\ Append(outcomes, x) \in Seq(Outcomes)
      /\ \A M : Has(outcomes', M) <=> Has(outcomes, M) \/ x \in M
      /\ \A M : One(outcomes, M) /\ ~(Has(outcomes, M) /\ x \in M) => One(outcomes', M)
    BY <1>1, <1>2, <1>4, AppendQueue
<1>8. \A n \in Operations :
         /\ c \in ObserveOf(n) <=> c.kind = "Observe" /\ c.operation = n
         /\ x \in AnswerTo(n) <=> c.kind = "Observe" /\ c.operation = n
         /\ x \in OkAnswerTo(n) <=> c.kind = "Observe" /\ c.operation = n /\ admitted
    BY <1>3, <1>4, ResultItems
<1>9. x \in Attached <=> c.kind = "Attach" /\ admitted
    BY <1>4, ResultItems
<1>10. \A n \in Operations : Sent(n)' <=> Sent(n)
    BY <1>1, <1>3, <1>7, <1>8 DEF Sent
<1>11. Closes
    <2>1. CASE admitted /\ c.kind = "Detach" /\ CloseRequests
        BY <1>1, <1>2, <2>1 DEF Closes, CloseRequests
    <2>2. CASE admitted /\ c.kind = "Observe" /\ engine' = [engine EXCEPT ![c.operation] = "Done"]
               /\ UNCHANGED published
        <3>1. c.operation \in Operations /\ Has(batch, ObserveOf(c.operation))
            BY <1>3, <1>5, <1>8, <2>2
        <3>2. Orderly(c.operation)
            BY <3>1 DEF Inv
        <3>3. engine[c.operation] # "New" /\ ~Has(published, Invoke(c.operation))
            BY <3>1, <3>2 DEF Orderly, Invocations, Issued, Fresh, Sent
        <3>. QED  BY <1>1, <1>2, <2>2, <3>1, <3>3 DEF Closes
    <2>3. CASE UNCHANGED <<engine, published>>
        BY <1>1, <1>2, <2>3 DEF Closes
    <2>. QED  BY <1>1, <2>1, <2>2, <2>3
<1>12. ASSUME NEW n \in Operations  PROVE Orderly(n)' /\ Recognised(n)'
    <2>1. Answers(n)
        BY DEF Inv, Orderly
    <2>2. Held(n)' /\ Acknowledged(n)' /\ (Physical(n)' <=> Physical(n)) /\ (Awaits(n)' <=> Awaits(n))
        BY <1>1, KernelFrame
    <2>3. Invocations(n)' /\ Cancellations(n)' /\ Recognised(n)'
        BY <1>1, <1>10, <1>11, ClosesKeeps
    <2>4. /\ One(batch', ObserveOf(n)) /\ One(outcomes', AnswerTo(n))
          /\ ~(Has(batch', ObserveOf(n)) /\ Has(outcomes', AnswerTo(n)))
          /\ ~(Has(ingress', ObserveOf(n)) /\ Has(batch', ObserveOf(n)))
          /\ ~(Has(ingress', ObserveOf(n)) /\ Has(outcomes', AnswerTo(n)))
        BY <1>1, <1>3, <1>7, <1>8, <2>1 DEF Answers
    <2>5. /\ Has(outcomes', OkAnswerTo(n)) => engine'[n] = "Done"
          /\ Has(runtime'.receipts, OkReceiptOf(n)) => engine'[n] = "Done"
        <3>1. engine[n] = "Done" => engine'[n] = "Done"
            BY <1>11 DEF Closes
        <3>2. c.kind = "Observe" /\ c.operation = n /\ admitted => engine'[n] = "Done"
            BY <1>1, <1>2
        <3>. QED  BY <1>1, <1>7, <1>8, <2>1, <3>1, <3>2 DEF Answers
    <2>6. Answers(n)'
        BY <1>1, <1>10, <2>1, <2>2, <2>4, <2>5, KernelFrame DEF Answers, Received, RuntimeClosed
    <2>. QED  BY <2>2, <2>3, <2>6 DEF Orderly
<1>13. UNCHANGED <<todo, taken, owned, outstanding, retirement, blocked, closed,
                  tombstones, exit_acks, provider_exit_acks, told, process, accused, overflowed, unread>>
      /\ Waiting' = Waiting /\ Owned' = Owned
    BY <1>1, KernelFrame
<1>14. Types'
    <2>1. published' \in Seq(Effects)
        BY <1>2, <1>11, EmptyQueue DEF Closes
    <2>2. bound' \in BOOLEAN
        BY <1>1, <1>2
    <2>. QED  BY <1>1, <1>3, <1>7, <1>11, <1>13, <2>1, <2>2 DEF Inv, Types, Closes
<1>15. Phases'
    BY <1>1, <1>13 DEF Inv, Phases
<1>16. Accounts' /\ Limits' /\ Reported'
    BY <1>1, <1>13 DEF Inv, Accounts, Cleared, Limits, Reported, NoFalseAccusation, RuntimeClosed, Dead, Exceeded
<1>17. Attachment'
    <2>1. ASSUME NEW n \in Operations, engine'[n] = "Dispatched"  PROVE bound'
        <3>1. engine[n] = "Dispatched" /\ bound
            BY <1>11, <2>1 DEF Closes, Inv, Attachment
        <3>2. ~(admitted /\ c.kind = "Detach")
            BY <1>1, <2>1 DEF CloseRequests
        <3>. QED  BY <1>1, <1>5, <3>1, <3>2
    <2>2. ASSUME runtime'.life = "AttachSent", bound' \/ published' # <<>>
          PROVE  Has(outcomes', Attached)
        <3>1. CASE admitted /\ c.kind = "Attach"
            BY <1>7, <1>9, <3>1
        <3>2. CASE ~(admitted /\ c.kind = "Attach")
            <4>1. bound \/ published # <<>>
                BY <1>1, <1>11, <2>2, <3>2 DEF Closes
            <4>2. Has(outcomes, Attached)
                BY <1>1, <2>2, <4>1 DEF Inv, Attachment
            <4>. QED  BY <1>7, <4>2
        <3>. QED  BY <3>1, <3>2
    <2>. QED  BY <2>1, <2>2 DEF Attachment
<1>. QED  BY <1>12, <1>14, <1>15, <1>16, <1>17 DEF Inv

\* Requests are closed while commands are being reduced.
LEMMA ReducingKeeps ==
    ASSUME Inv, Reducing, Closes, UNCHANGED <<ingress, batch, outcomes>>,
           bound' \in BOOLEAN, bound' => bound, lane' \in BOOLEAN,
           \A n \in Operations : engine'[n] = "Dispatched" => bound',
           pc' \in {"reduce", "publish"}, pc' = "publish" => batch = <<>>,
           sequence' \in {"open", "spent", "exhausted"}, errors' \in Nat
    PROVE  Inv'
<1>1. NotSupervisor /\ UNCHANGED runtime /\ pc = "reduce"
    BY DEF Reducing
<1>2. UNCHANGED <<todo, taken, owned, outstanding, retirement, blocked, closed,
                  tombstones, exit_acks, provider_exit_acks, told, process, accused, overflowed, unread>>
      /\ Waiting' = Waiting /\ Owned' = Owned
    BY <1>1, KernelFrame
<1>3. Types'
    <2>1. published' \in Seq(Effects)
        BY EmptyQueue DEF Closes, Inv, Types
    <2>. QED  BY <1>1, <1>2, <2>1 DEF Inv, Types, Closes
<1>4. Phases'
    BY <1>1, <1>2 DEF Inv, Phases
<1>5. Accounts' /\ Limits' /\ Reported'
    BY <1>1, <1>2 DEF Inv, Accounts, Cleared, Limits, Reported, NoFalseAccusation, RuntimeClosed, Dead, Exceeded
<1>6. Attachment'
    BY <1>1 DEF Inv, Attachment, Closes
<1>7. ASSUME NEW n \in Operations  PROVE Orderly(n)' /\ Recognised(n)'
    <2>1. Answers(n)
        BY DEF Inv, Orderly
    <2>2. Held(n)' /\ Acknowledged(n)' /\ (Physical(n)' <=> Physical(n)) /\ (Awaits(n)' <=> Awaits(n))
        BY <1>1, KernelFrame
    <2>3. Sent(n)' <=> Sent(n)
        BY DEF Sent
    <2>4. Invocations(n)' /\ Cancellations(n)' /\ Recognised(n)'
        BY <1>1, <2>3, ClosesKeeps
    <2>5. engine[n] = "Done" => engine'[n] = "Done"
        BY DEF Closes
    <2>6. Answers(n)'
        BY <1>1, <1>2, <2>1, <2>2, <2>3, <2>5 DEF Answers, Received, RuntimeClosed
    <2>. QED  BY <2>2, <2>4, <2>6 DEF Orderly
<1>. QED  BY <1>3, <1>4, <1>5, <1>6, <1>7 DEF Inv

\* The lanes close.
LEMMA LaneFailsKeeps ==
    ASSUME Inv, LaneFails  PROVE Inv'
<1>1. /\ Reducing /\ lane' = FALSE /\ published' = <<>> /\ errors' \in Nat
      /\ UNCHANGED <<pc, ingress, batch, outcomes, engine, bound, sequence>> /\ pc = "reduce"
    BY DEF LaneFails, Fails, Inv, Types, Reducing
<1>2. Closes
    BY <1>1 DEF Closes, Inv, Types
<1>3. /\ bound' \in BOOLEAN /\ (bound' => bound) /\ lane' \in BOOLEAN
      /\ \A n \in Operations : engine'[n] = "Dispatched" => bound'
      /\ pc' \in {"reduce", "publish"} /\ (pc' = "publish" => batch = <<>>)
      /\ sequence' \in {"open", "spent", "exhausted"}
    BY <1>1 DEF Inv, Types, Attachment
<1>. QED  BY <1>1, <1>2, <1>3, ReducingKeeps

\* The commands are reduced, and with the last sequence number the bindings go.
LEMMA EndReduceKeeps ==
    ASSUME Inv, EndReduce  PROVE Inv'
<1>. DEFINE last == sequence = "spent" /\ ingress = <<>>
<1>1. /\ Reducing /\ batch = <<>> /\ pc' = "publish" /\ errors' \in Nat
      /\ sequence' = IF last THEN "exhausted" ELSE sequence
      /\ IF last THEN bound' = FALSE /\ CloseRequests
         ELSE UNCHANGED <<bound, engine, published>>
      /\ UNCHANGED <<ingress, batch, outcomes, lane>>
    BY DEF EndReduce, Works, Inv, Types
<1>. HIDE DEF last
<1>2. engine \in [Operations -> {"New", "Dispatched", "Done"}]
    BY DEF Inv, Types
<1>3. Closes
    BY <1>1, <1>2 DEF Closes, CloseRequests
<1>4. \A n \in Operations : engine'[n] = "Dispatched" => bound'
    BY <1>1, <1>2 DEF CloseRequests, Inv, Attachment
<1>5. /\ bound' \in BOOLEAN /\ (bound' => bound) /\ lane' \in BOOLEAN
      /\ pc' \in {"reduce", "publish"} /\ (pc' = "publish" => batch = <<>>)
      /\ sequence' \in {"open", "spent", "exhausted"}
    BY <1>1 DEF Inv, Types
<1>. QED  BY <1>1, <1>3, <1>4, <1>5, ReducingKeeps

\* A request is dispatched: nothing was known of it.
LEMMA EngineInvokeKeeps ==
    ASSUME Inv, NEW o \in Operations, EngineInvoke(o)  PROVE Inv'
<1>. DEFINE e == Effect("Invoke", o)
<1>1. /\ NotSupervisor /\ pc = "reduce" /\ UNCHANGED <<runtime, pc, ingress, batch, outcomes, bound, lane, sequence, errors>>
      /\ lane /\ bound /\ engine[o] = "New"
      /\ engine' = [engine EXCEPT ![o] = "Dispatched"]
      /\ published' = Append(published, e)
    BY DEF EngineInvoke, Reducing, Works
<1>2. engine \in [Operations -> {"New", "Dispatched", "Done"}] /\ published \in Seq(Effects)
    BY DEF Inv, Types
<1>3. /\ e \in Effects
      /\ \A n \in Operations : (e \in Invoke(n) <=> n = o) /\ e \notin Cancel(n)
    BY EffectItems
<1>. HIDE DEF e
<1>4. /\ published' \in Seq(Effects)
      /\ \A M : Has(published', M) <=> Has(published, M) \/ e \in M
      /\ \A M : One(published, M) /\ ~(Has(published, M) /\ e \in M) => One(published', M)
    BY <1>1, <1>2, <1>3, AppendQueue
<1>5. UNCHANGED <<todo, taken, owned, outstanding, retirement, blocked, closed,
                  tombstones, exit_acks, provider_exit_acks, told, process, accused, overflowed, unread>>
      /\ Waiting' = Waiting /\ Owned' = Owned
    BY <1>1, KernelFrame
<1>6. Types'
    <2>1. engine' \in [Operations -> {"New", "Dispatched", "Done"}]
        BY <1>1, <1>2
    <2>. QED  BY <1>1, <1>4, <1>5, <2>1 DEF Inv, Types
<1>7. Phases'
    BY <1>1, <1>5 DEF Inv, Phases
<1>8. Accounts' /\ Limits' /\ Reported'
    BY <1>1, <1>5 DEF Inv, Accounts, Cleared, Limits, Reported, NoFalseAccusation, RuntimeClosed, Dead, Exceeded
<1>9. Attachment'
    BY <1>1 DEF Inv, Attachment
<1>10. ASSUME NEW n \in Operations, n # o  PROVE Orderly(n)' /\ Recognised(n)'
    <2>1. Undisturbed(n)
        BY <1>1, <1>2, <1>3, <1>4, <1>5, <1>10, KernelFrame DEF Undisturbed, SameItems, IsCancelled, RuntimeClosed
    <2>. QED  BY <1>1, <1>5, <2>1, Elsewhere, RecognisedElsewhere DEF Inv, Exceeded, Dead
<1>11. Orderly(o)' /\ Recognised(o)'
    <2>1. Orderly(o) /\ ~Issued(o) /\ Fresh(o) /\ ~CancelSent(o) /\ ~Noticed(o)
        BY <1>1 DEF Inv, Orderly, Invocations, Cancellations
    <2>2. engine'[o] = "Dispatched" /\ Has(published', Invoke(o))
        BY <1>1, <1>2, <1>3, <1>4
    <2>3. Held(o)' /\ Acknowledged(o)' /\ (Physical(o)' <=> Physical(o)) /\ (Awaits(o)' <=> Awaits(o)) /\ (Noticed(o)' <=> Noticed(o))
        BY <1>1, KernelFrame
    <2>4. Sent(o)' <=> Sent(o)
        BY <1>1 DEF Sent
    <2>5. ~CancelSent(o)'
        BY <1>1, <1>3, <1>4, <2>1 DEF CancelSent
    <2>6. Invocations(o)'
        BY <1>1, <1>3, <1>4, <1>5, <2>1, <2>2, <2>4 DEF Orderly, Invocations, Issued, Fresh
    <2>7. Cancellations(o)'
        BY <1>1, <1>3, <1>4, <2>1, <2>3, <2>5 DEF Orderly, Cancellations, CancelSent
    <2>8. Answers(o)'
        <3>1. ~Has(outcomes, OkAnswerTo(o)) /\ ~Has(runtime.receipts, OkReceiptOf(o))
            BY <1>1, <2>1 DEF Orderly, Answers
        <3>. QED  BY <1>1, <1>5, <2>1, <2>3, <2>4, <3>1 DEF Orderly, Answers, Received, RuntimeClosed
    <2>9. Recognised(o)'
        BY <2>2 DEF Recognised, Issued
    <2>. QED  BY <2>3, <2>6, <2>7, <2>8, <2>9 DEF Orderly
<1>. QED  BY <1>6, <1>7, <1>8, <1>9, <1>10, <1>11 DEF Inv

\* A request is closed: its invocation is taken back, or cancelled.
LEMMA EngineCloseKeeps ==
    ASSUME Inv, NEW o \in Operations, EngineClose(o)  PROVE Inv'
<1>. DEFINE i == Effect("Invoke", o)
            c == Effect("Cancel", o)
<1>1. /\ NotSupervisor /\ pc = "reduce" /\ UNCHANGED <<runtime, pc, ingress, batch, outcomes, bound, lane, sequence, errors>>
      /\ lane /\ engine[o] = "Dispatched"
      /\ engine' = [engine EXCEPT ![o] = "Done"]
      /\ \/ \E j \in DOMAIN published : published[j] = i /\ published' = RemoveAt(published, j)
         \/ i \notin Range(published) /\ published' = Append(published, c)
    BY DEF EngineClose, Reducing, Works
<1>2. /\ engine \in [Operations -> {"New", "Dispatched", "Done"}] /\ published \in Seq(Effects)
      /\ DOMAIN published = 1 .. Len(published)
    BY LenProperties DEF Inv, Types
<1>3. /\ i \in Effects /\ c \in Effects
      /\ \A n \in Operations : (i \in Invoke(n) <=> n = o) /\ i \notin Cancel(n)
      /\ \A n \in Operations : (c \in Cancel(n) <=> n = o) /\ c \notin Invoke(n)
      /\ Invoke(o) = {i}
    BY EffectItems DEF Invoke
<1>. HIDE DEF i, c
<1>4. /\ published' \in Seq(Effects)
      /\ \A n \in Operations : n # o =>
            /\ SameItems(published', published, Invoke(n))
            /\ SameItems(published', published, Cancel(n))
      /\ \/ /\ Has(published, Invoke(o))
            /\ One(published, Invoke(o)) => ~Has(published', Invoke(o))
            /\ One(published, Invoke(o)) => One(published', Invoke(o))
            /\ SameItems(published', published, Cancel(o))
         \/ /\ ~Has(published, Invoke(o)) /\ ~Has(published', Invoke(o))
            /\ One(published, Invoke(o)) => One(published', Invoke(o))
            /\ One(published, Cancel(o)) /\ ~Has(published, Cancel(o)) => One(published', Cancel(o))
    <2>1. ASSUME NEW j \in DOMAIN published, published[j] = i, published' = RemoveAt(published, j)
          PROVE  <1>4!1 /\ <1>4!2 /\ <1>4!3!1
        <3>1. /\ published' \in Seq(Effects)
              /\ \A M : Has(published', M) => Has(published, M)
              /\ \A M : Has(published, M) /\ published[j] \notin M => Has(published', M)
              /\ \A M : One(published, M) => One(published', M)
              /\ \A M : One(published, M) /\ published[j] \in M => ~Has(published', M)
            BY <1>2, <2>1, RemoveQueue
        <3>2. Has(published, Invoke(o))
            BY <1>2, <1>3, <2>1 DEF Has
        <3>. QED  BY <1>3, <2>1, <3>1, <3>2 DEF SameItems
    <2>2. ASSUME i \notin Range(published), published' = Append(published, c)
          PROVE  <1>4!1 /\ <1>4!2 /\ <1>4!3!2
        <3>1. /\ published' \in Seq(Effects)
              /\ \A M : Has(published', M) <=> Has(published, M) \/ c \in M
              /\ \A M : One(published, M) /\ ~(Has(published, M) /\ c \in M) => One(published', M)
            BY <1>2, <1>3, <2>2, AppendQueue
        <3>2. ~Has(published, Invoke(o))
            BY <1>2, <1>3, <2>2, RangeQueue
        <3>. QED  BY <1>3, <2>2, <3>1, <3>2 DEF SameItems
    <2>. QED  BY <1>1, <2>1, <2>2
<1>5. UNCHANGED <<todo, taken, owned, outstanding, retirement, blocked, closed,
                  tombstones, exit_acks, provider_exit_acks, told, process, accused, overflowed, unread>>
      /\ Waiting' = Waiting /\ Owned' = Owned
    BY <1>1, KernelFrame
<1>6. Types'
    <2>1. engine' \in [Operations -> {"New", "Dispatched", "Done"}]
        BY <1>1, <1>2
    <2>. QED  BY <1>1, <1>4, <1>5, <2>1 DEF Inv, Types
<1>7. Phases'
    BY <1>1, <1>5 DEF Inv, Phases
<1>8. Accounts' /\ Limits' /\ Reported'
    BY <1>1, <1>5 DEF Inv, Accounts, Cleared, Limits, Reported, NoFalseAccusation, RuntimeClosed, Dead, Exceeded
<1>9. Attachment'
    BY <1>1, <1>2 DEF Inv, Attachment
<1>10. ASSUME NEW n \in Operations, n # o  PROVE Orderly(n)' /\ Recognised(n)'
    <2>1. Undisturbed(n)
        BY <1>1, <1>2, <1>3, <1>4, <1>5, <1>10, KernelFrame DEF Undisturbed, SameItems, IsCancelled, RuntimeClosed
    <2>. QED  BY <1>1, <1>5, <2>1, Elsewhere, RecognisedElsewhere DEF Inv, Exceeded, Dead
<1>11. Orderly(o)' /\ Recognised(o)'
    <2>1. Orderly(o) /\ Recognised(o) /\ ~CancelSent(o) /\ ~Noticed(o)
        BY <1>1 DEF Inv, Orderly, Cancellations
    <2>2. engine'[o] = "Done"
        BY <1>1, <1>2
    <2>3. Held(o)' /\ Acknowledged(o)' /\ (Physical(o)' <=> Physical(o)) /\ (Awaits(o)' <=> Awaits(o)) /\ (Noticed(o)' <=> Noticed(o))
        BY <1>1, KernelFrame
    <2>4. Sent(o)' <=> Sent(o)
        BY <1>1 DEF Sent
    <2>5. ~Has(published', Invoke(o)) /\ One(published', Invoke(o)) /\ One(published', Cancel(o))
          /\ (Has(published, Invoke(o)) => ~CancelSent(o)')
        BY <1>1, <1>4, <2>1 DEF Orderly, Invocations, Cancellations, CancelSent, SameItems
    <2>6. Invocations(o)'
        BY <1>1, <1>5, <2>1, <2>2, <2>4, <2>5 DEF Orderly, Invocations, Issued, Fresh
    <2>7. Cancellations(o)'
        BY <1>1, <2>1, <2>2, <2>3, <2>5 DEF Orderly, Cancellations, CancelSent
    <2>8. Answers(o)'
        BY <1>1, <1>5, <2>1, <2>2, <2>3, <2>4 DEF Orderly, Answers, Received, RuntimeClosed
    <2>9. Recognised(o)'
        <3>1. CASE Has(published, Invoke(o))
            BY <2>2, <2>5, <3>1 DEF Recognised, Due
        <3>2. CASE ~Has(published, Invoke(o))
            <4>1. Issued(o)' <=> Issued(o)
                BY <1>1, <2>5, <3>2 DEF Issued
            <4>. QED  BY <1>1, <1>5, <2>1, <4>1 DEF Recognised, Due, Exceeded, Dead
        <3>. QED  BY <3>1, <3>2
    <2>. QED  BY <2>3, <2>6, <2>7, <2>8, <2>9 DEF Orderly
<1>. QED  BY <1>6, <1>7, <1>8, <1>9, <1>10, <1>11 DEF Inv

-----------------------------------------------------------------------------
(* The publication of a step.                                              *)

\* An outcome never revives a binding, and adds at most its receipt.
LEMMA Concludes ==
    ASSUME NEW r \in RuntimeState, NEW x \in Outcomes
    PROVE  LET q == Concluded(r, x)
           IN  /\ q \in RuntimeState /\ q.work = r.work
               /\ (r.cancelled => q.cancelled) /\ (q.cancelled \/ r.tokens \subseteq q.tokens)
               /\ r.life \in DeadLives => q.life \in DeadLives
               /\ r.life = "Closed" => q.life = "Closed"
               /\ q.life = "AttachSent" => r.life = "AttachSent" /\ x \notin Attached
               /\ \/ q.receipts = r.receipts
                  \/ /\ x.kind = "Observe" /\ r.life # "Closed"
                     /\ q.receipts = Append(r.receipts, [operation |-> x.operation, ok |-> x.ok])
                     /\ x.ok \/ q.life \in DeadLives
                     /\ Len(r.receipts) < Capacity
<1>. DEFINE q == Concluded(r, x)
            y == [operation |-> x.operation, ok |-> x.ok]
            kept == [r EXCEPT !.receipts = IF Len(@) < Capacity THEN Append(@, y) ELSE @,
                              !.settled = @ \cup ({x.operation} \cap r.operations)]
<1>1. x.kind \in {"Attach", "Detach", "Observe"} /\ (x \in Attached <=> x.kind = "Attach" /\ x.ok)
    BY ItemTypes, ResultItems
<1>2. CASE r.life = "Closed"
    <2>1. q = r
        BY <1>2 DEF Concluded
    <2>. QED  BY <1>2, <2>1
<1>3. CASE r.life # "Closed" /\ x.kind = "Observe"
    <2>1. q = IF x.ok /\ Len(r.receipts) < Capacity THEN kept ELSE Faulted(kept)
        BY <1>3 DEF Concluded
    <2>2. /\ kept \in RuntimeState /\ kept.work = r.work /\ kept.life = r.life
          /\ kept.cancelled = r.cancelled /\ kept.tokens = r.tokens
          /\ \/ kept.receipts = r.receipts
             \/ kept.receipts = Append(r.receipts, y) /\ Len(r.receipts) < Capacity
        <3>1. y \in Receipts /\ r.receipts \in Seq(Receipts) /\ r.operations \subseteq Operations
              /\ r.settled \subseteq Operations
            BY <1>3, ItemTypes, NewItems DEF RuntimeState
        <3>2. Append(r.receipts, y) \in Seq(Receipts)
            BY <3>1, AppendQueue
        <3>. HIDE DEF y
        <3>3. r.settled \cup ({x.operation} \cap r.operations) \subseteq Operations
            BY <3>1
        <3>. QED  BY <3>1, <3>2, <3>3 DEF RuntimeState
    <2>. HIDE DEF kept, y, q
    <2>3. /\ Tame(Faulted(kept), kept) /\ Faulted(kept).life \in DeadLives
        BY <2>2, HandleIsTame
    <2>4. CASE x.ok /\ Len(r.receipts) < Capacity
        BY <1>1, <1>3, <2>1, <2>2, <2>4 DEF y, q
    <2>5. CASE ~(x.ok /\ Len(r.receipts) < Capacity)
        BY <1>1, <1>3, <2>1, <2>2, <2>3, <2>5 DEF y, q, Tame
    <2>. QED  BY <2>4, <2>5
<1>4. CASE r.life # "Closed" /\ x.kind = "Attach"
    <2>1. q = IF ~x.ok THEN Retired(r)
              ELSE IF r.life = "AttachSent" THEN [r EXCEPT !.life = "Active"] ELSE r
        BY <1>4 DEF Concluded
    <2>2. Tame(Retired(r), r) /\ Retired(r).life = "Closed"
        BY HandleIsTame
    <2>3. CASE ~x.ok
        BY <2>1, <2>2, <2>3 DEF Tame, DeadLives
    <2>4. CASE x.ok /\ r.life = "AttachSent"
        <3>1. q = [r EXCEPT !.life = "Active"]
            BY <2>1, <2>4
        <3>. QED  BY <2>4, <3>1 DEF RuntimeState, Lives, DeadLives
    <2>5. CASE x.ok /\ r.life # "AttachSent"
        BY <2>1, <2>5
    <2>. QED  BY <2>3, <2>4, <2>5
<1>5. CASE r.life # "Closed" /\ x.kind = "Detach"
    <2>1. q = IF r.life # "DetachSent" THEN r
              ELSE IF x.ok THEN Retired(r) ELSE [r EXCEPT !.life = "ClosingRetry"]
        BY <1>5 DEF Concluded
    <2>2. Tame(Retired(r), r) /\ Retired(r).life = "Closed"
        BY HandleIsTame
    <2>3. CASE r.life # "DetachSent"
        BY <1>1, <1>5, <2>1, <2>3
    <2>4. CASE r.life = "DetachSent" /\ x.ok
        BY <2>1, <2>2, <2>4 DEF Tame, DeadLives
    <2>5. CASE r.life = "DetachSent" /\ ~x.ok
        <3>1. q = [r EXCEPT !.life = "ClosingRetry"]
            BY <2>1, <2>5
        <3>. QED  BY <2>5, <3>1 DEF RuntimeState, Lives, DeadLives
    <2>. QED  BY <2>3, <2>4, <2>5
<1>. QED  BY <1>1, <1>2, <1>3, <1>4, <1>5

\* An outcome is published.
LEMMA PublishOutcomeKeeps ==
    ASSUME Inv, PublishOutcome  PROVE Inv'
<1>. DEFINE x == Head(outcomes)
            y == [operation |-> x.operation, ok |-> x.ok]
<1>1. /\ NotSupervisor /\ pc = "publish" /\ runtime' = Concluded(runtime, x)
      /\ outcomes # <<>> /\ outcomes' = Tail(outcomes)
      /\ UNCHANGED <<pc, published, batch, ingress, engine, bound, lane, sequence, errors>>
    BY DEF PublishOutcome, Publishing, kernel_vars
<1>2. outcomes \in Seq(Outcomes) /\ runtime \in RuntimeState
    BY DEF Inv, Types
<1>3. /\ x \in Outcomes /\ outcomes' \in Seq(Outcomes)
      /\ \A M : Has(outcomes, M) <=> x \in M \/ Has(outcomes', M)
      /\ \A M : One(outcomes, M) => One(outcomes', M) /\ ~(x \in M /\ Has(outcomes', M))
    BY <1>1, <1>2, TailQueue
<1>4. /\ x.kind = "Observe" => x.operation \in Operations /\ y \in Receipts
      /\ y.operation = x.operation /\ y.ok = x.ok
      /\ \A n \in Operations :
            /\ x \in AnswerTo(n) <=> x.kind = "Observe" /\ x.operation = n
            /\ x \in OkAnswerTo(n) <=> x \in AnswerTo(n) /\ x.ok
    BY <1>3, ItemTypes, ResultItems, NewItems
<1>. HIDE DEF x, y
<1>5. /\ runtime' \in RuntimeState /\ runtime'.work = runtime.work
      /\ (runtime.cancelled => runtime'.cancelled)
      /\ (runtime'.cancelled \/ runtime.tokens \subseteq runtime'.tokens)
      /\ runtime.life \in DeadLives => runtime'.life \in DeadLives
      /\ runtime.life = "Closed" => runtime'.life = "Closed"
      /\ runtime'.life = "AttachSent" => runtime.life = "AttachSent" /\ x \notin Attached
      /\ \/ runtime'.receipts = runtime.receipts
         \/ /\ x.kind = "Observe" /\ runtime.life # "Closed"
            /\ runtime'.receipts = Append(runtime.receipts, y)
            /\ x.ok \/ runtime'.life \in DeadLives
            /\ Len(runtime.receipts) < Capacity
    BY <1>1, <1>2, <1>3, Concludes DEF y
<1>6. /\ RuntimeClosed => RuntimeClosed' /\ runtime'.receipts = runtime.receipts
      /\ Dead => Dead'
      /\ \A n \in Operations : IsCancelled(n) => IsCancelled(n)'
    BY <1>5 DEF RuntimeClosed, Dead, DeadLives, IsCancelled
<1>7. \/ runtime'.receipts = runtime.receipts
      \/ /\ x.kind = "Observe" /\ ~RuntimeClosed /\ y \in Receipts
         /\ x.ok \/ Dead'
         /\ \A M : Has(runtime'.receipts, M) <=> Has(runtime.receipts, M) \/ y \in M
         /\ \A M : One(runtime.receipts, M) /\ ~(Has(runtime.receipts, M) /\ y \in M) =>
                      One(runtime'.receipts, M)
    <2>1. runtime.receipts \in Seq(Receipts)
        BY <1>2 DEF RuntimeState
    <2>2. ASSUME x.kind = "Observe", runtime.life # "Closed",
                 runtime'.receipts = Append(runtime.receipts, y), x.ok \/ runtime'.life \in DeadLives
          PROVE  <1>7!2
        <3>1. y \in Receipts
            BY <1>4, <2>2
        <3>2. /\ \A M : Has(runtime'.receipts, M) <=> Has(runtime.receipts, M) \/ y \in M
              /\ \A M : One(runtime.receipts, M) /\ ~(Has(runtime.receipts, M) /\ y \in M) =>
                           One(runtime'.receipts, M)
            BY <2>1, <2>2, <3>1, AppendQueue
        <3>. QED  BY <2>2, <3>1, <3>2 DEF RuntimeClosed, Dead, DeadLives
    <2>. QED  BY <1>5, <2>2
<1>8. y \in Receipts =>
         /\ \A n \in Operations : /\ y \in ReceiptOf(n) <=> x.operation = n
                                  /\ y \in OkReceiptOf(n) <=> x.operation = n /\ x.ok
         /\ y \in Refusal <=> ~x.ok
    BY <1>4, ResultItems
<1>9. UNCHANGED <<todo, taken, owned, outstanding, retirement, blocked, closed,
                  tombstones, exit_acks, provider_exit_acks, told, process, accused, overflowed, unread>>
      /\ Waiting' = Waiting /\ Owned' = Owned
    BY <1>1, KernelFrame
<1>10. Types'
    BY <1>1, <1>3, <1>5, <1>9 DEF Inv, Types
<1>11. Phases'
    BY <1>1, <1>9 DEF Inv, Phases
<1>12. Accounts'
    BY <1>1, <1>6, <1>9 DEF Inv, Accounts, Cleared
<1>13. Attachment'
    BY <1>1, <1>3, <1>5 DEF Inv, Attachment
<1>14. Limits'
    <2>1. runtime.receipts \in Seq(Receipts)
        BY <1>2 DEF RuntimeState
    <2>2. Len(Append(runtime.receipts, y)) = Len(runtime.receipts) + 1 /\ Len(runtime.receipts) \in Nat
        BY <2>1
    <2>3. Len(runtime'.receipts) <= Capacity
        BY <1>5, <2>2, PositiveConstants DEF Inv, Limits
    <2>. QED  BY <1>5, <1>9, <2>3 DEF Inv, Limits
<1>15. Reported'
    BY <1>6, <1>7, <1>8, <1>9 DEF Inv, Reported, NoFalseAccusation, Exceeded
<1>16. ASSUME NEW n \in Operations, ~(x \in AnswerTo(n))  PROVE Undisturbed(n)
    <2>1. /\ SameItems(outcomes', outcomes, AnswerTo(n))
          /\ Has(outcomes', OkAnswerTo(n)) => Has(outcomes, OkAnswerTo(n))
        BY <1>3, <1>4, <1>16 DEF SameItems
    <2>2. /\ SameItems(runtime'.receipts, runtime.receipts, ReceiptOf(n))
          /\ Has(runtime'.receipts, OkReceiptOf(n)) => Has(runtime.receipts, OkReceiptOf(n))
        BY <1>4, <1>7, <1>8, <1>16 DEF SameItems
    <2>. QED  BY <1>1, <1>5, <1>6, <1>9, <2>1, <2>2, KernelFrame DEF Undisturbed, SameItems
<1>17. ASSUME NEW n \in Operations, x \in AnswerTo(n)  PROVE Orderly(n)'
    <2>1. Orderly(n) /\ Sent(n)
        BY <1>3, <1>17 DEF Inv, Sent
    <2>2. Held(n)' /\ Acknowledged(n)' /\ (Physical(n)' <=> Physical(n)) /\ (Awaits(n)' <=> Awaits(n)) /\ (Noticed(n)' <=> Noticed(n))
        BY <1>1, KernelFrame
    <2>3. engine[n] # "New" /\ ~Issued(n) /\ ~Received(n) /\ ~Has(ingress, ObserveOf(n)) /\ ~Has(batch, ObserveOf(n))
        BY <1>3, <1>17, <2>1 DEF Orderly, Invocations, Fresh, Answers
    <2>4. Invocations(n)'
        BY <1>1, <1>5, <2>1, <2>3 DEF Orderly, Invocations, Issued
    <2>5. Cancellations(n)'
        BY <1>1, <1>5, <1>6, <2>1, <2>2 DEF Orderly, Cancellations, CancelSent
    <2>6. ~Sent(n)'
        BY <1>1, <1>3, <1>17, <2>1, <2>3 DEF Sent, Orderly, Answers
    <2>7. /\ One(runtime'.receipts, ReceiptOf(n))
          /\ Received(n)' /\ ~unread' => Awaits(n)'
          /\ Has(runtime'.receipts, OkReceiptOf(n)) => engine'[n] = "Done"
        <3>1. x \in OkAnswerTo(n) => engine[n] = "Done"
            BY <1>3, <2>1 DEF Orderly, Answers
        <3>. QED  BY <1>1, <1>4, <1>7, <1>8, <1>9, <1>17, <2>1, <2>2, <2>3, <3>1 DEF Orderly, Answers, Received
    <2>8. Answers(n)'
        BY <1>1, <1>3, <2>1, <2>6, <2>7 DEF Orderly, Answers, Sent
    <2>. QED  BY <2>2, <2>4, <2>5, <2>8 DEF Orderly
<1>18. ASSUME NEW n \in Operations  PROVE Orderly(n)' /\ Recognised(n)'
    <2>1. Orderly(n) /\ Recognised(n)
        BY DEF Inv
    <2>2. Recognised(n)'
        BY <1>1, <1>5, <1>6, <1>9, <2>1 DEF Recognised, Exceeded, Due, Issued, CancelSent
    <2>. QED  BY <1>16, <1>17, <2>1, <2>2, Elsewhere
<1>. QED  BY <1>10, <1>11, <1>12, <1>13, <1>14, <1>15, <1>18 DEF Inv

\* An effect is added to the work, with the token cancelled, or nothing is
\* served any more.
LEMMA Delivers ==
    ASSUME NEW r \in RuntimeState, NEW e \in Effects, r.life # "AttachSent"
    PROVE  LET q == Delivered(r, e)
           IN  /\ q \in RuntimeState /\ q.receipts = r.receipts
               /\ (r.cancelled => q.cancelled) /\ (q.cancelled \/ r.tokens \subseteq q.tokens)
               /\ r.life \in DeadLives => q.life \in DeadLives
               /\ r.life = "Closed" => q.life = "Closed"
               /\ q.life # "AttachSent"
               /\ \/ q.work = r.work /\ q.life \in DeadLives
                  \/ /\ q.work = Append(r.work, e) /\ Len(r.work) < Capacity
                     /\ e.kind = "Cancel" => q.cancelled \/ e.operation \in q.tokens
<1>. DEFINE q == Delivered(r, e)
            o == e.operation
            next == [r EXCEPT !.work = Append(@, e),
                              !.operations = IF e.kind = "Invoke" THEN @ \cup {o} ELSE @ \ {o},
                              !.tokens = IF e.kind = "Cancel" /\ ~r.cancelled
                                         THEN @ \cup {o} ELSE @]
<1>1. \/ ~Serves(r) /\ q = r
      \/ Serves(r) /\ q = Faulted(r)
      \/ Serves(r) /\ Len(r.work) < Capacity /\ q = next
    BY DEF Delivered
<1>2. CASE ~Serves(r) /\ q = r
    BY <1>2 DEF Serves, RuntimeState, Lives, DeadLives
<1>3. CASE Serves(r) /\ q = Faulted(r)
    <2>1. Tame(Faulted(r), r) /\ Faulted(r).life \in DeadLives
        BY HandleIsTame
    <2>. QED  BY <1>3, <2>1 DEF Tame, DeadLives
<1>4. CASE Serves(r) /\ Len(r.work) < Capacity /\ q = next
    <2>1. o \in Operations /\ r.work \in Seq(Effects) /\ r.operations \subseteq Operations
          /\ r.tokens \subseteq Operations /\ r.cancelled \in BOOLEAN
        BY ItemTypes DEF RuntimeState
    <2>2. Append(r.work, e) \in Seq(Effects)
        BY <2>1, AppendQueue
    <2>3. /\ next \in RuntimeState /\ next.work = Append(r.work, e) /\ next.receipts = r.receipts
          /\ next.life = r.life /\ next.cancelled = r.cancelled
          /\ next.tokens = IF e.kind = "Cancel" /\ ~r.cancelled THEN r.tokens \cup {o} ELSE r.tokens
        BY <2>1, <2>2 DEF RuntimeState
    <2>. HIDE DEF next, q
    <2>. QED  BY <1>4, <2>1, <2>3 DEF q
<1>. QED  BY <1>1, <1>2, <1>3, <1>4

\* An effect is published.
LEMMA PublishEffectKeeps ==
    ASSUME Inv, PublishEffect  PROVE Inv'
<1>. DEFINE e == Head(published)
            o == e.operation
<1>1. /\ NotSupervisor /\ pc = "publish" /\ runtime' = Delivered(runtime, e)
      /\ published # <<>> /\ published' = Tail(published) /\ outcomes = <<>>
      /\ UNCHANGED <<pc, outcomes, batch, ingress, engine, bound, lane, sequence, errors>>
    BY DEF PublishEffect, Publishing, kernel_vars
<1>2. published \in Seq(Effects) /\ runtime \in RuntimeState /\ runtime.work \in Seq(Effects)
      /\ runtime.life # "AttachSent"
    BY <1>1, EmptyQueue DEF Inv, Types, RuntimeState, Attachment
<1>3. /\ e \in Effects /\ published' \in Seq(Effects)
      /\ \A M : Has(published, M) <=> e \in M \/ Has(published', M)
      /\ \A M : One(published, M) => One(published', M) /\ ~(e \in M /\ Has(published', M))
    BY <1>1, <1>2, TailQueue
<1>4. /\ o \in Operations /\ e.kind \in {"Invoke", "Cancel"}
      /\ \A n \in Operations : /\ e \in Invoke(n) <=> e.kind = "Invoke" /\ n = o
                               /\ e \in Cancel(n) <=> e.kind = "Cancel" /\ n = o
    BY <1>3, ItemTypes, EffectItems
<1>5. \A n \in Operations : /\ Invoke(n) = {Effect("Invoke", n)} /\ Cancel(n) = {Effect("Cancel", n)}
                            /\ Effect("Invoke", n) # Effect("Cancel", n)
    BY EffectItems DEF Invoke, Cancel
<1>. HIDE DEF e, o
<1>6. /\ runtime' \in RuntimeState /\ runtime'.receipts = runtime.receipts
      /\ (runtime.cancelled => runtime'.cancelled)
      /\ (runtime'.cancelled \/ runtime.tokens \subseteq runtime'.tokens)
      /\ runtime.life \in DeadLives => runtime'.life \in DeadLives
      /\ runtime.life = "Closed" => runtime'.life = "Closed"
      /\ runtime'.life # "AttachSent"
      /\ \/ runtime'.work = runtime.work /\ runtime'.life \in DeadLives
         \/ /\ runtime'.work = Append(runtime.work, e) /\ Len(runtime.work) < Capacity
            /\ e.kind = "Cancel" => runtime'.cancelled \/ o \in runtime'.tokens
    BY <1>1, <1>2, <1>3, Delivers DEF o
<1>7. /\ RuntimeClosed => RuntimeClosed'
      /\ Dead => Dead'
      /\ \A n \in Operations : IsCancelled(n) => IsCancelled(n)'
    BY <1>6 DEF RuntimeClosed, Dead, DeadLives, IsCancelled
<1>8. \/ runtime'.work = runtime.work /\ Dead'
      \/ /\ Len(runtime'.work) = Len(runtime.work) + 1 /\ Len(runtime.work) < Capacity
         /\ \A n \in Operations : e.kind = "Cancel" /\ n = o => IsCancelled(n)'
         /\ \A M : Has(runtime'.work, M) <=> Has(runtime.work, M) \/ e \in M
         /\ \A M : One(runtime.work, M) /\ ~(Has(runtime.work, M) /\ e \in M) => One(runtime'.work, M)
         /\ \A a, b : Before(runtime.work, a, b) /\ a # b /\ ~(e = a /\ Has(runtime.work, {b})) =>
                         Before(runtime'.work, a, b)
    <2>1. CASE runtime'.work = runtime.work /\ runtime'.life \in DeadLives
        BY <2>1 DEF Dead, DeadLives
    <2>2. ASSUME runtime'.work = Append(runtime.work, e), Len(runtime.work) < Capacity,
                 e.kind = "Cancel" => runtime'.cancelled \/ o \in runtime'.tokens
          PROVE  <1>8!2
        <3>1. \A n \in Operations : e.kind = "Cancel" /\ n = o => IsCancelled(n)'
            BY <2>2 DEF IsCancelled
        <3>2. /\ Len(Append(runtime.work, e)) = Len(runtime.work) + 1
              /\ \A M : Has(Append(runtime.work, e), M) <=> Has(runtime.work, M) \/ e \in M
              /\ \A M : One(runtime.work, M) /\ ~(Has(runtime.work, M) /\ e \in M) =>
                           One(Append(runtime.work, e), M)
              /\ \A a, b : Before(runtime.work, a, b) /\ a # b /\ ~(e = a /\ Has(runtime.work, {b})) =>
                              Before(Append(runtime.work, e), a, b)
            BY <1>2, <1>3, AppendQueue
        <3>. QED  BY <2>2, <3>1, <3>2
    <2>. QED  BY <1>6, <2>1, <2>2
<1>9. UNCHANGED <<todo, taken, owned, outstanding, retirement, blocked, closed,
                  tombstones, exit_acks, provider_exit_acks, told, process, accused, overflowed, unread>>
      /\ Waiting' = Waiting /\ Owned' = Owned
    BY <1>1, KernelFrame
<1>10. Types'
    BY <1>1, <1>3, <1>6, <1>9 DEF Inv, Types
<1>11. Phases'
    BY <1>1, <1>9 DEF Inv, Phases
<1>12. Accounts'
    BY <1>1, <1>6, <1>7, <1>9 DEF Inv, Accounts, Cleared
<1>13. Attachment'
    BY <1>1, <1>6 DEF Inv, Attachment
<1>14. Limits'
    <2>1. Len(runtime'.work) <= Capacity
        BY <1>2, <1>6, <1>8, PositiveConstants, LenProperties DEF Inv, Limits
    <2>. QED  BY <1>6, <1>9, <2>1 DEF Inv, Limits
<1>15. Reported'
    BY <1>6, <1>7, <1>9 DEF Inv, Reported, NoFalseAccusation, Exceeded
<1>16. ASSUME NEW n \in Operations, n # o  PROVE Orderly(n)' /\ Recognised(n)'
    <2>1. e \notin Invoke(n) /\ e \notin Cancel(n) /\ e # Effect("Invoke", n)
        BY <1>4, <1>5, <1>16
    <2>2. /\ SameItems(published', published, Invoke(n)) /\ SameItems(published', published, Cancel(n))
          /\ SameItems(runtime'.work, runtime.work, Invoke(n))
          /\ SameItems(runtime'.work, runtime.work, Cancel(n))
        BY <1>3, <1>8, <2>1 DEF SameItems
    <2>3. Before(runtime.work, Effect("Invoke", n), Effect("Cancel", n)) =>
            Before(runtime'.work, Effect("Invoke", n), Effect("Cancel", n))
        BY <1>5, <1>8, <2>1
    <2>4. Undisturbed(n)
        BY <1>1, <1>6, <1>7, <1>9, <2>2, <2>3, KernelFrame DEF Undisturbed, SameItems
    <2>. QED  BY <1>1, <1>7, <1>9, <2>4, Elsewhere, RecognisedElsewhere DEF Inv, Exceeded
<1>17. ASSUME NEW n \in Operations, n = o  PROVE Orderly(n)' /\ Recognised(n)'
    <2>1. Orderly(n) /\ Recognised(n)
        BY <1>4, <1>17 DEF Inv
    <2>2. Held(n)' /\ Acknowledged(n)' /\ (Physical(n)' <=> Physical(n)) /\ (Awaits(n)' <=> Awaits(n)) /\ (Noticed(n)' <=> Noticed(n))
        BY <1>1, <1>4, <1>17, KernelFrame
    <2>3. Sent(n)' <=> Sent(n)
        BY <1>1 DEF Sent
    <2>4. Answers(n)'
        BY <1>1, <1>6, <1>7, <1>9, <2>1, <2>2, <2>3 DEF Orderly, Answers, Received
    <2>5. /\ Issued(n)' => Issued(n)
          /\ CancelSent(n)' => CancelSent(n)
          /\ ~Dead' => (Issued(n)' <=> Issued(n))
        BY <1>3, <1>8 DEF Issued, CancelSent
    <2>6. Invocations(n)'
        <3>1. /\ One(published', Invoke(n)) /\ One(runtime'.work, Invoke(n))
              /\ ~(Has(published', Invoke(n)) /\ Has(runtime'.work, Invoke(n)))
              /\ Has(published', Invoke(n)) => Has(published, Invoke(n))
            BY <1>3, <1>8, <2>1 DEF Orderly, Invocations
        <3>. QED  BY <1>1, <1>9, <2>1, <2>3, <2>5, <3>1 DEF Orderly, Invocations, Fresh
    <2>7. Cancellations(n)'
        <3>1. /\ One(published', Cancel(n)) /\ One(runtime'.work, Cancel(n))
              /\ ~(Has(published', Cancel(n)) /\ Has(runtime'.work, Cancel(n)))
            BY <1>3, <1>8, <2>1 DEF Orderly, Cancellations
        <3>2. e = Effect("Invoke", n) => ~Has(runtime.work, {Effect("Cancel", n)})
            BY <1>3, <1>4, <1>17, <1>5, <2>1 DEF Orderly, Invocations, Cancellations, CancelSent
        <3>3. Before(runtime'.work, Effect("Invoke", n), Effect("Cancel", n))
            BY <1>4, <1>17, <1>5, <1>8, <2>1, <3>2 DEF Orderly, Cancellations
        <3>4. Has(runtime'.work, Cancel(n)) => IsCancelled(n)'
            BY <1>4, <1>17, <1>7, <1>8, <2>1 DEF Orderly, Cancellations
        <3>. QED  BY <1>1, <2>1, <2>2, <2>5, <3>1, <3>3, <3>4 DEF Orderly, Cancellations
    <2>8. Recognised(n)'
        BY <1>1, <1>7, <1>9, <2>1, <2>5 DEF Recognised, Exceeded, Due
    <2>. QED  BY <2>2, <2>4, <2>6, <2>7, <2>8 DEF Orderly
<1>. QED  BY <1>10, <1>11, <1>12, <1>13, <1>14, <1>15, <1>16, <1>17 DEF Inv

\* The step is finished, and a binding that the kernel does not hold retired.
LEMMA FinishStepKeeps ==
    ASSUME Inv, FinishStep  PROVE Inv'
<1>1. /\ NotSupervisor /\ pc = "publish" /\ runtime' = Reconciled(runtime)
      /\ published = <<>> /\ outcomes = <<>>
      /\ pc' = IF closed THEN "collect" ELSE "outcomes"
      /\ UNCHANGED <<published, outcomes, batch, ingress, engine, bound, lane, sequence, errors>>
    BY DEF FinishStep, Publishing, kernel_vars
<1>2. runtime \in RuntimeState
    BY DEF Inv, Types
<1>3. Tame(runtime', runtime)
    <2>. DEFINE kept == [runtime EXCEPT !.operations = @ \ runtime.settled, !.settled = {}]
    <2>1. runtime' = Retired(runtime) \/ runtime' = kept
        BY <1>1 DEF Reconciled
    <2>2. /\ kept \in RuntimeState /\ kept.work = runtime.work /\ kept.receipts = runtime.receipts
          /\ kept.life = runtime.life /\ kept.cancelled = runtime.cancelled /\ kept.tokens = runtime.tokens
        <3>1. runtime.operations \ runtime.settled \subseteq Operations
            BY <1>2 DEF RuntimeState
        <3>. QED  BY <1>2, <3>1 DEF RuntimeState
    <2>. HIDE DEF kept
    <2>. QED  BY <1>2, <2>1, <2>2, HandleIsTame DEF Tame
<1>4. UNCHANGED <<todo, taken, owned, outstanding, retirement, blocked, closed,
                  tombstones, exit_acks, provider_exit_acks, told, process, accused, overflowed, unread>>
      /\ Waiting' = Waiting /\ Owned' = Owned
    BY <1>1, KernelFrame
<1>5. \A n \in Operations : Undisturbed(n)
    BY <1>1, <1>3, QuietKernel DEF SameItems
<1>6. Dead => Dead'
    BY <1>3 DEF Dead, Tame, DeadLives
<1>7. Types'
    BY <1>1, <1>3, <1>4 DEF Inv, Types, Tame
<1>8. Phases'
    BY <1>1, <1>4 DEF Inv, Phases
<1>9. Accounts'
    <2>1. SUFFICES ASSUME closed  PROVE outstanding = 0 /\ (unread \/ runtime.receipts = <<>>)
        BY <1>1, <1>3, <1>4 DEF Inv, Accounts, Cleared, RuntimeClosed, Tame
    <2>2. \A n \in Operations : ~Awaits(n)
        BY <2>1 DEF Inv, Phases, Awaits, Absent
    <2>3. Waiting = {}
        BY <2>2 DEF Waiting
    <2>4. outstanding = 0
        BY <2>3, FS_EmptySet DEF Inv, Accounts, Cleared
    <2>5. ASSUME runtime.receipts # <<>>, ~unread  PROVE FALSE
        <3>1. runtime.receipts \in Seq(Receipts)
            BY <1>2 DEF RuntimeState
        <3>. DEFINE x == Head(runtime.receipts)
        <3>2. x \in Receipts /\ \A M : x \in M => Has(runtime.receipts, M)
            BY <2>5, <3>1, TailQueue
        <3>3. x.operation \in Operations /\ x \in ReceiptOf(x.operation)
            BY <3>2, ItemTypes, ResultItems
        <3>. HIDE DEF x
        <3>4. Received(x.operation)
            BY <3>2, <3>3 DEF Received
        <3>. QED  BY <2>2, <2>5, <3>3, <3>4 DEF Inv, Orderly, Answers
    <2>. QED  BY <2>4, <2>5
<1>10. Attachment'
    BY <1>1, <1>3 DEF Inv, Attachment, Tame
<1>11. Limits'
    BY <1>3, <1>4 DEF Inv, Limits, Tame
<1>12. Reported'
    BY <1>3, <1>4, <1>6 DEF Inv, Reported, NoFalseAccusation, Tame, Exceeded
<1>13. \A n \in Operations : Orderly(n)' /\ Recognised(n)'
    BY <1>1, <1>4, <1>5, <1>6, Elsewhere, RecognisedElsewhere DEF Inv, Exceeded
<1>. QED  BY <1>7, <1>8, <1>9, <1>10, <1>11, <1>12, <1>13 DEF Inv

-----------------------------------------------------------------------------
(* The steps of the supervisor.                                            *)

\* `rt` is the runtime with items taken from its queues, or faulted.
Follows(rt) ==
    /\ rt \in RuntimeState
    /\ runtime.cancelled => rt.cancelled
    /\ rt.cancelled \/ runtime.tokens \subseteq rt.tokens
    /\ runtime.life \in DeadLives => rt.life \in DeadLives
    /\ rt.life = "AttachSent" => runtime.life = "AttachSent"
    /\ rt.life = "Closed" <=> runtime.life = "Closed"
    /\ Len(rt.work) <= Capacity
    /\ Len(rt.receipts) <= Capacity
    /\ Has(rt.receipts, Refusal) => Has(runtime.receipts, Refusal)
    /\ runtime.receipts = <<>> => rt.receipts = <<>>

\* The queues of `rt` hold of an operation what those of the runtime do.
SameWork(rt, n) ==
    /\ SameItems(rt.work, runtime.work, Invoke(n)) /\ SameItems(rt.work, runtime.work, Cancel(n))
    /\ Before(runtime.work, Effect("Invoke", n), Effect("Cancel", n)) =>
          Before(rt.work, Effect("Invoke", n), Effect("Cancel", n))

NoNewReceipts(rt, n) ==
    /\ Has(rt.receipts, ReceiptOf(n)) => Has(runtime.receipts, ReceiptOf(n))
    /\ One(runtime.receipts, ReceiptOf(n)) => One(rt.receipts, ReceiptOf(n))
    /\ Has(rt.receipts, OkReceiptOf(n)) => Has(runtime.receipts, OkReceiptOf(n))

\* A step is not about the operation n.
Apart(n, rest, rt, bury) ==
    /\ rest[n] = owned[n] /\ n \notin bury /\ process'[n] = process[n]
    /\ SameWork(rt, n) /\ NoNewReceipts(rt, n)
    /\ SameItems(ingress', ingress, ObserveOf(n)) /\ SameItems(exit_acks', exit_acks, AckOf(n))

\* What every step of the supervisor keeps to.
SupervisorFrame ==
    /\ UNCHANGED <<batch, outcomes, published, engine, bound, lane, retirement, closed,
                   provider_exit_acks, told>>
    /\ pc \in {"outcomes", "owned", "work"} /\ pc' \in {"outcomes", "owned", "work"}
    /\ pc' = "work" => pc = "work"
    /\ ingress' \in Seq(Commands) /\ sequence' \in {"open", "spent", "exhausted"}
    /\ errors' \in Nat /\ todo' \subseteq Operations /\ taken' \in Nat
    /\ process' \in [Operations -> {"none", "running", "exited"}]
    /\ exit_acks' \in Seq(Acks) /\ Len(exit_acks') <= MaxAcks /\ ~Has(exit_acks', Unexplained)
    /\ outstanding' \in Nat /\ outstanding' <= Capacity
    /\ overflowed' \in BOOLEAN /\ (overflowed => overflowed')
    /\ unread' \in BOOLEAN /\ (unread => unread') /\ (pc' = pc => unread' = unread)

\* The kinds of fault that may be recorded.
Allowed(kinds) ==
    /\ "ObservationOutcomeMismatch" \in kinds => unread
    /\ "UnknownCancellation" \in kinds => Exceeded
    /\ "ConflictingInvocation" \notin kinds

\* What is recorded next to them is a tombstone without room.
Recorded(kinds) == accused' \subseteq accused \cup kinds \cup {"TombstoneCapacityExceeded"}

\* No fault is always allowed.
LEMMA NothingRecorded == Allowed({})
BY DEF Allowed

\* What is known after Conclude.
LEMMA After ==
    ASSUME Inv, SupervisorFrame, NEW rest \in [Operations -> OwnedState],
           NEW rt, Follows(rt), NEW bury \in SUBSET Operations, NEW fault, NEW kinds,
           Conclude(rest, rt, bury, fault, kinds)
    PROVE  /\ \A n \in Operations :
                 /\ Alike(owned'[n], rest[n])
                 /\ Physical(n)' <=> rest[n].state = "Physical"
                 /\ Awaits(n)' <=> rest[n].state = "AwaitingOutcome"
                 /\ owned'[n] = Absent <=> rest[n] = Absent
                 /\ rest[n].state = "Physical" => /\ owned'[n].exited = rest[n].exited
                                                  /\ owned'[n].acked = rest[n].acked
                                                  /\ owned'[n].noticed = rest[n].noticed
                 /\ rest[n].state = "AwaitingOutcome" => owned'[n].noticed = rest[n].noticed
                 /\ IsCancelled(n) => IsCancelled(n)'
                 /\ n \notin bury => (n \in tombstones' <=> n \in tombstones)
                 /\ n \in bury => n \in tombstones' \/ Exceeded'
           /\ runtime' \in RuntimeState
           /\ runtime'.work = rt.work /\ runtime'.receipts = rt.receipts
           /\ RuntimeClosed' <=> RuntimeClosed
           /\ Dead => Dead'
           /\ runtime'.life = "AttachSent" => runtime.life = "AttachSent"
           /\ Exceeded => Exceeded'
           /\ Recorded(kinds)
           /\ owned' \in [Operations -> OwnedState] /\ blocked' \in BOOLEAN
           /\ tombstones' \subseteq Operations
<1>1. Types /\ rt \in RuntimeState
    BY DEF Inv, Follows
<1>2. /\ owned' \in [Operations -> OwnedState]
      /\ \A n \in Operations : Alike(owned'[n], rest[n])
      /\ Tame(runtime', rt) /\ (runtime'.life = "Closed" <=> rt.life = "Closed")
      /\ \/ tombstones' = tombstones \cup bury
         \/ /\ tombstones' = tombstones /\ bury # {} /\ NoTombstone
            /\ "TombstoneCapacityExceeded" \in accused'
      /\ tombstones' \subseteq Operations
      /\ accused \subseteq accused'
      /\ accused' \subseteq accused \cup kinds \cup {"TombstoneCapacityExceeded"}
      /\ blocked' \in BOOLEAN
    BY <1>1, Concluding
<1>3. /\ Exceeded => Exceeded'
      /\ tombstones' = tombstones \cup bury \/ (tombstones' = tombstones /\ Exceeded')
    BY <1>2 DEF Exceeded, SupervisorFrame
<1>4. \A n \in Operations : /\ n \notin bury => (n \in tombstones' <=> n \in tombstones)
                            /\ n \in bury => n \in tombstones' \/ Exceeded'
    BY <1>3
<1>5. \A n \in Operations :
         /\ Physical(n)' <=> rest[n].state = "Physical"
         /\ Awaits(n)' <=> rest[n].state = "AwaitingOutcome"
         /\ owned'[n] = Absent <=> rest[n] = Absent
         /\ rest[n].state = "Physical" => /\ owned'[n].exited = rest[n].exited
                                          /\ owned'[n].acked = rest[n].acked
                                          /\ owned'[n].noticed = rest[n].noticed
         /\ rest[n].state = "AwaitingOutcome" => owned'[n].noticed = rest[n].noticed
    BY <1>2 DEF Alike, Physical, Awaits
<1>6. \A n \in Operations : IsCancelled(n) => IsCancelled(n)'
    BY <1>2 DEF IsCancelled, Tame, Follows
<1>7. /\ runtime' \in RuntimeState
      /\ runtime'.work = rt.work /\ runtime'.receipts = rt.receipts
      /\ RuntimeClosed' <=> RuntimeClosed
      /\ Dead => Dead'
      /\ runtime'.life = "AttachSent" => runtime.life = "AttachSent"
    BY <1>2 DEF Tame, Follows, RuntimeClosed, Dead, DeadLives
<1>8. Recorded(kinds)
    BY <1>2 DEF Recorded
<1>. QED  BY <1>2, <1>3, <1>4, <1>5, <1>6, <1>7, <1>8

\* The sets of operations are finite.
LEMMA FiniteOperations ==
    ASSUME NEW S \in SUBSET Operations
    PROVE  IsFiniteSet(S) /\ Cardinality(S) \in Nat
<1>1. IsFiniteSet(Operations)
    BY PositiveConstants, FS_Interval DEF Operations
<1>. QED  BY <1>1, FS_Subset, FS_CardinalityType

\* A step of the supervisor, but for the accounts and the operation it is about.
LEMMA StepKeeps ==
    ASSUME Inv, SupervisorFrame, NEW o \in Operations, NEW rest \in [Operations -> OwnedState],
           NEW rt, Follows(rt), NEW bury \in SUBSET {o}, NEW fault, NEW kinds,
           Conclude(rest, rt, bury, fault, kinds),
           \A n \in Operations : n # o => Apart(n, rest, rt, bury),
           rest[o] # Absent => o \notin tombstones /\ bury = {},
           rest[o] = Absent \/ owned[o] # Absent \/ Cardinality(Owned) < MaxOwned,
           Allowed(kinds)
    PROVE  /\ Apart(o, rest, rt, bury) => Orderly(o)' /\ Recognised(o)'
           /\ (pc' = pc /\ outstanding' = outstanding /\ (rest[o].state = "AwaitingOutcome" <=> Awaits(o)))
                 => Accounts'
           /\ Accounts' /\ Orderly(o)' /\ Recognised(o)' => Inv'
<1>0. bury \in SUBSET Operations
    OBVIOUS
<1>1. /\ \A n \in Operations :
            /\ Alike(owned'[n], rest[n])
            /\ Awaits(n)' <=> rest[n].state = "AwaitingOutcome"
            /\ owned'[n] = Absent <=> rest[n] = Absent
            /\ IsCancelled(n) => IsCancelled(n)'
            /\ n \notin bury => (n \in tombstones' <=> n \in tombstones)
      /\ runtime' \in RuntimeState
      /\ runtime'.work = rt.work /\ runtime'.receipts = rt.receipts
      /\ RuntimeClosed' <=> RuntimeClosed
      /\ Dead => Dead'
      /\ runtime'.life = "AttachSent" => runtime.life = "AttachSent"
      /\ Exceeded => Exceeded'
      /\ Recorded(kinds)
      /\ owned' \in [Operations -> OwnedState] /\ blocked' \in BOOLEAN
      /\ tombstones' \subseteq Operations
    BY <1>0, After
<1>2. ASSUME NEW n \in Operations, Apart(n, rest, rt, bury)  PROVE Orderly(n)' /\ Recognised(n)'
    <2>1. Undisturbed(n)
        BY <1>1, <1>2 DEF Undisturbed, Apart, SameWork, NoNewReceipts, SameItems, SupervisorFrame
    <2>. QED  BY <1>1, <2>1, Elsewhere, RecognisedElsewhere DEF Inv, SupervisorFrame
<1>3. ASSUME pc' = pc, outstanding' = outstanding, rest[o].state = "AwaitingOutcome" <=> Awaits(o)
      PROVE  Accounts'
    <2>1. \A n \in Operations : Awaits(n)' <=> Awaits(n)
        BY <1>1, <1>3 DEF Apart, Awaits
    <2>2. Waiting' = Waiting
        BY <2>1 DEF Waiting
    <2>3. unread' = unread
        BY <1>3 DEF SupervisorFrame
    <2>. QED  BY <1>1, <1>3, <2>2, <2>3 DEF Inv, Accounts, Cleared, Follows
<1>4. ASSUME Accounts', Orderly(o)', Recognised(o)'  PROVE Inv'
    <2>1. Types'
        BY <1>1 DEF Inv, Types, SupervisorFrame
    <2>2. Phases'
        BY <1>1 DEF Inv, Phases, SupervisorFrame
    <2>3. Attachment'
        BY <1>1 DEF Inv, Attachment, SupervisorFrame
    <2>4. Cardinality(Owned') <= MaxOwned
        <3>1. Owned \subseteq Operations /\ Owned' \subseteq Operations /\ Owned' \subseteq Owned \cup {o}
              /\ (rest[o] = Absent \/ owned[o] # Absent => Owned' \subseteq Owned)
            BY <1>1 DEF Owned, Apart
        <3>2. IsFiniteSet(Owned) /\ Cardinality(Owned) \in Nat /\ Cardinality(Owned') \in Nat
            BY <3>1, FiniteOperations
        <3>3. CASE Owned' \subseteq Owned
            BY <3>2, <3>3, FS_Subset, PositiveConstants DEF Inv, Limits
        <3>4. CASE Cardinality(Owned) < MaxOwned
            <4>1. IsFiniteSet(Owned \cup {o}) /\ Cardinality(Owned \cup {o}) <= Cardinality(Owned) + 1
                  /\ Cardinality(Owned \cup {o}) \in Nat
                <5>1. IsFiniteSet(Owned \cup {o})
                      /\ (Cardinality(Owned \cup {o}) = Cardinality(Owned)
                          \/ Cardinality(Owned \cup {o}) = Cardinality(Owned) + 1)
                    BY <3>2, FS_AddElement
                <5>. QED  BY <3>2, <5>1
            <4>2. Cardinality(Owned') <= Cardinality(Owned \cup {o})
                BY <3>1, <4>1, FS_Subset
            <4>. QED  BY <3>2, <3>4, <4>1, <4>2, PositiveConstants
        <3>. QED  BY <3>1, <3>3, <3>4
    <2>5. \A n \in tombstones' : owned'[n] = Absent
        <3>1. ASSUME NEW n \in tombstones'  PROVE owned'[n] = Absent
            <4>1. n \in Operations
                BY <1>1
            <4>2. CASE n # o
                BY <1>1, <4>1, <4>2 DEF Apart, Inv, Limits
            <4>3. CASE n = o
                BY <1>1, <4>1, <4>3
            <4>. QED  BY <4>2, <4>3
        <3>. QED  BY <3>1
    <2>6. Limits'
        BY <1>1, <2>4, <2>5 DEF Inv, Limits, SupervisorFrame, Follows
    <2>7. Reported'
        <3>1. NoFalseAccusation'
            <4>1. \A k \in accused' :
                     k \in accused \/ k \in kinds \/ k = "TombstoneCapacityExceeded"
                BY <1>1 DEF Recorded
            <4>2. NoFalseAccusation /\ (unread => unread') /\ Allowed(kinds)
                BY DEF Inv, Reported, SupervisorFrame
            <4>. QED  BY <1>1, <4>1, <4>2 DEF NoFalseAccusation, Allowed, Exceeded
        <3>. QED  BY <1>1, <3>1 DEF Inv, Reported, NoFalseAccusation, SupervisorFrame, Follows
    <2>8. \A n \in Operations : Orderly(n)' /\ Recognised(n)'
        BY <1>2, <1>4
    <2>. QED  BY <1>4, <2>1, <2>2, <2>3, <2>6, <2>7, <2>8 DEF Inv
<1>. QED  BY <1>2, <1>3, <1>4

\* The state of the types, for the steps of the supervisor.
LEMMA SupervisorTypes ==
    ASSUME Inv
    PROVE  /\ runtime \in RuntimeState /\ runtime.work \in Seq(Effects)
           /\ runtime.receipts \in Seq(Receipts)
           /\ owned \in [Operations -> OwnedState]
           /\ \A n \in Operations : owned[n] \in OwnedState
           /\ ingress \in Seq(Commands) /\ exit_acks \in Seq(Acks)
           /\ process \in [Operations -> {"none", "running", "exited"}]
           /\ outstanding \in Nat /\ errors \in Nat /\ taken \in Nat /\ todo \subseteq Operations
           /\ Follows(runtime)
           /\ \A n \in Operations : SameWork(runtime, n) /\ NoNewReceipts(runtime, n)
                                    /\ SameItems(ingress, ingress, ObserveOf(n))
                                    /\ SameItems(exit_acks, exit_acks, AckOf(n))
<1>1. Follows(runtime)
    BY DEF Inv, Types, Limits, Follows
<1>. QED  BY <1>1 DEF Inv, Types, RuntimeState, SameWork, NoNewReceipts, SameItems

\* The operations with another state of one.
LEMMA Replacing ==
    ASSUME NEW o \in Operations, NEW r \in OwnedState, owned \in [Operations -> OwnedState]
    PROVE  /\ [owned EXCEPT ![o] = r] \in [Operations -> OwnedState]
           /\ [owned EXCEPT ![o] = r][o] = r
           /\ \A n \in Operations : n # o => [owned EXCEPT ![o] = r][n] = owned[n]
OBVIOUS

\* A receipt is taken.
LEMMA TakeOutcomeKeeps ==
    ASSUME Inv, TakeOutcome  PROVE Inv'
<1>. DEFINE x == Head(runtime.receipts)
            rt == [runtime EXCEPT !.receipts = Tail(@)]
            known(o) == owned[o].state = "AwaitingOutcome"
            mismatch(o) == ~known(o) \/ outstanding = 0
<1>1. /\ pc = "outcomes" /\ pc' = "outcomes" /\ runtime.receipts # <<>> /\ taken' = taken + 1
      /\ outstanding' = IF outstanding = 0 THEN 0 ELSE outstanding - 1
      /\ UNCHANGED <<batch, outcomes, published, todo, ingress, engine, bound, lane, sequence,
                     retirement, closed, exit_acks, provider_exit_acks, told, process, errors, overflowed, unread>>
    BY DEF TakeOutcome, MoreOutcomes, kernel_vars, ack_vars
<1>2. /\ x \in Receipts /\ Tail(runtime.receipts) \in Seq(Receipts)
      /\ \A M : Has(runtime.receipts, M) <=> x \in M \/ Has(Tail(runtime.receipts), M)
      /\ \A M : One(runtime.receipts, M) =>
                   One(Tail(runtime.receipts), M) /\ ~(x \in M /\ Has(Tail(runtime.receipts), M))
    BY <1>1, SupervisorTypes, TailQueue
<1>3. PICK o \in Operations : o = x.operation
    BY <1>2, ItemTypes
<1>4. /\ \A n \in Operations : x \in ReceiptOf(n) <=> n = o
      /\ x \in OkReceiptOf(o) <=> x.ok
      /\ x \in Refusal <=> ~x.ok
    BY <1>2, <1>3, ResultItems
<1>5. Conclude(IF known(o) THEN Without(o) ELSE owned, rt,
               IF known(o) /\ Expected(o) THEN {o} ELSE {},
               ~x.ok \/ mismatch(o), {k \in {"ObservationOutcomeMismatch"} : mismatch(o)})
    BY <1>3 DEF TakeOutcome
<1>6. /\ Orderly(o) /\ Recognised(o) /\ Received(o)
      /\ known(o) <=> Awaits(o)
      /\ ~unread => Awaits(o) /\ outstanding = Cardinality(Waiting)
      /\ unread => RuntimeClosed /\ outstanding = 0
    <2>1. Orderly(o) /\ Recognised(o) /\ Received(o)
        BY <1>2, <1>4 DEF Inv, Received
    <2>2. ~unread => outstanding = Cardinality(Waiting)
        BY <1>1 DEF Inv, Accounts, Cleared
    <2>3. unread => RuntimeClosed /\ outstanding = 0
        BY DEF Inv, Accounts
    <2>. QED  BY <2>1, <2>2, <2>3 DEF Orderly, Answers, Awaits
<1>7. ~unread => outstanding # 0 /\ ~mismatch(o)
    <2>1. SUFFICES ASSUME ~unread  PROVE outstanding # 0 /\ known(o)
        OBVIOUS
    <2>2. o \in Waiting /\ Waiting \subseteq Operations /\ known(o)
        BY <1>6, <2>1 DEF Waiting
    <2>3. Cardinality(Waiting) # 0
        BY <2>2, FiniteOperations, FS_EmptySet
    <2>. QED  BY <1>6, <2>1, <2>2, <2>3
<1>. DEFINE kinds == {k \in {"ObservationOutcomeMismatch"} : mismatch(o)}
<1>21. Allowed(kinds)
    BY <1>7 DEF Allowed
<1>10. /\ rt \in RuntimeState /\ rt.receipts = Tail(runtime.receipts) /\ rt.work = runtime.work
       /\ rt.life = runtime.life /\ rt.cancelled = runtime.cancelled /\ rt.tokens = runtime.tokens
    BY <1>2, SupervisorTypes DEF RuntimeState
<1>22. Len(rt.receipts) <= Capacity
    <2>1. Len(Tail(runtime.receipts)) = Len(runtime.receipts) - 1 /\ Len(runtime.receipts) \in Nat
        BY <1>1, SupervisorTypes
    <2>. QED  BY <1>10, <2>1, PositiveConstants DEF Inv, Limits
<1>. HIDE DEF x, rt, mismatch, kinds
<1>12. Follows(rt)
    BY <1>1, <1>2, <1>10, <1>22 DEF Follows, Inv, Limits
<1>13. SupervisorFrame
    <2>1. outstanding' \in Nat /\ outstanding' <= Capacity /\ taken' \in Nat
        BY <1>1, SupervisorTypes, PositiveConstants DEF Inv, Limits
    <2>. QED  BY <1>1, <2>1 DEF SupervisorFrame, Inv, Types, Limits, Reported
<1>23. unread /\ RuntimeClosed' => Accounts'
    BY <1>1, <1>6 DEF Accounts, Cleared
<1>24. ASSUME ~known(o)  PROVE Inv'
    <2>1. unread /\ Conclude(owned, rt, {}, ~x.ok \/ mismatch(o), kinds)
        BY <1>5, <1>6, <1>24 DEF kinds
    <2>2. \A n \in Operations : Apart(n, owned, rt, {})
        <3>1. \A n \in Operations : OkReceiptOf(n) \subseteq ReceiptOf(n)
            BY DEF OkReceiptOf, ReceiptOf
        <3>. QED  BY <1>1, <1>2, <1>10, <3>1, SupervisorTypes
                  DEF Apart, SameWork, NoNewReceipts, SameItems
    <2>3. owned[o] # Absent => o \notin tombstones /\ {} = {}
        BY DEF Inv, Limits
    <2>4. {} \in SUBSET {o} /\ {} \in SUBSET Operations
          /\ (owned[o] = Absent \/ owned[o] # Absent \/ Cardinality(Owned) < MaxOwned)
        OBVIOUS
    <2>5. /\ Orderly(o)' /\ Recognised(o)'
          /\ Accounts' /\ Orderly(o)' /\ Recognised(o)' => Inv'
        BY <1>12, <1>13, <1>21, <2>1, <2>2, <2>3, <2>4, SupervisorTypes, StepKeeps
    <2>6. RuntimeClosed'
        BY <1>6, <1>12, <1>13, <2>1, <2>4, SupervisorTypes, After
    <2>. QED  BY <1>23, <2>1, <2>5, <2>6
<1>25. ASSUME known(o)  PROVE Inv'
    <2>. DEFINE bury == IF Expected(o) THEN {o} ELSE {}
                rest == [owned EXCEPT ![o] = Absent]
    <2>8. Conclude(rest, rt, bury, ~x.ok \/ mismatch(o), kinds) /\ bury \in SUBSET {o}
          /\ bury \in SUBSET Operations /\ Awaits(o)
        BY <1>5, <1>6, <1>25 DEF Without, kinds
    <2>9. /\ rest \in [Operations -> OwnedState] /\ rest[o] = Absent /\ rest[o].state = "Absent"
          /\ \A n \in Operations : n # o => rest[n] = owned[n]
        BY Replacing, SupervisorTypes, OwnedStates
    <2>11. (Expected(o) => bury = {o}) /\ (~Expected(o) => bury = {})
        OBVIOUS
    <2>. HIDE DEF known, bury, rest
    <2>14. \A n \in Operations : n # o => Apart(n, rest, rt, bury)
        <3>1. \A n \in Operations : n # o => x \notin ReceiptOf(n) /\ x \notin OkReceiptOf(n)
            BY <1>2, <1>3, ResultItems
        <3>. QED  BY <1>1, <1>2, <2>8, <2>9, <1>10, <3>1, SupervisorTypes DEF Apart, SameWork, NoNewReceipts, SameItems
    <2>15. Accounts' /\ Orderly(o)' /\ Recognised(o)' => Inv'
        BY <2>8, <2>9, <1>12, <1>13, <2>14, <1>21, StepKeeps
    <2>16. /\ \A n \in Operations :
                /\ Physical(n)' <=> rest[n].state = "Physical"
                /\ Awaits(n)' <=> rest[n].state = "AwaitingOutcome"
                /\ owned'[n] = Absent <=> rest[n] = Absent
                /\ IsCancelled(n) => IsCancelled(n)'
                /\ n \in bury => n \in tombstones' \/ Exceeded'
           /\ runtime'.work = runtime.work /\ runtime'.receipts = Tail(runtime.receipts)
           /\ RuntimeClosed' <=> RuntimeClosed
           /\ Dead => Dead'
           /\ Exceeded => Exceeded'
        <3>1. <2>16!1 /\ runtime'.work = rt.work /\ runtime'.receipts = rt.receipts
              /\ (RuntimeClosed' <=> RuntimeClosed) /\ (Dead => Dead') /\ (Exceeded => Exceeded')
            BY <2>8, <2>9, <1>12, <1>13, After
        <3>. QED  BY <1>10, <3>1
    <2>17. Accounts'
        <3>1. Waiting' = Waiting \ {o} /\ o \in Waiting
            BY <2>8, <2>9, <2>16 DEF Waiting, Awaits
        <3>2. IsFiniteSet(Waiting) /\ Cardinality(Waiting) \in Nat
            <4>1. Waiting \subseteq Operations
                BY DEF Waiting
            <4>. QED  BY <4>1, FiniteOperations
        <3>3. Cardinality(Waiting \ {o}) = Cardinality(Waiting) - 1
            BY <3>1, <3>2, FS_RemoveElement
        <3>4. ASSUME ~unread  PROVE Accounts'
            <4>1. outstanding' = Cardinality(Waiting')
                BY <1>1, <1>6, <1>7, <3>1, <3>3, <3>4
            <4>. QED  BY <1>1, <3>4, <4>1 DEF Accounts
        <3>5. ASSUME unread  PROVE Accounts'
            BY <1>6, <2>16, <1>23, <3>5
        <3>. QED  BY <3>4, <3>5
    <2>18. ~Physical(o) /\ ~Physical(o)' /\ ~Awaits(o)' /\ owned[o] # Absent /\ ~Sent(o) /\ ~Received(o)'
           /\ ~Noticed(o)'
        <3>1. ~Received(o)'
            BY <1>2, <1>4, <1>6, <2>8, <2>16 DEF Received, Orderly, Answers
        <3>2. ~Physical(o) /\ owned[o] # Absent
            BY <1>6, <2>8, OwnedStates DEF Physical, Awaits
        <3>3. ~Sent(o)
            BY <1>6 DEF Orderly, Answers
        <3>. QED  BY <2>9, <2>16, <3>1, <3>2, <3>3 DEF Noticed
    <2>19. Orderly(o)'
        <3>1. Held(o)'
            BY <1>1, <1>6, <2>18 DEF Orderly, Held
        <3>2. engine[o] # "New" /\ ~Issued(o)
            BY <1>6, <2>18 DEF Orderly, Invocations, Fresh
        <3>3. Invocations(o)'
            BY <1>1, <1>6, <2>16, <3>2 DEF Orderly, Invocations, Issued
        <3>4. Cancellations(o)'
            BY <1>1, <1>6, <2>16, <2>18 DEF Orderly, Cancellations, CancelSent
        <3>5. Answers(o)'
            <4>1. ~Sent(o)' /\ ~Has(runtime'.receipts, OkReceiptOf(o))
                  /\ One(runtime'.receipts, ReceiptOf(o))
                <5>1. \A y \in OkReceiptOf(o) : y \in ReceiptOf(o)
                    BY DEF OkReceiptOf, ReceiptOf
                <5>. QED  BY <1>1, <1>2, <1>6, <2>16, <2>18, <5>1 DEF Sent, Received, Orderly, Answers, Has
            <4>. QED  BY <1>1, <1>6, <2>18, <4>1 DEF Orderly, Answers
        <3>6. Acknowledged(o)'
            BY <1>1, <1>6, <2>18 DEF Orderly, Acknowledged, Acked, Told
        <3>. QED  BY <3>1, <3>3, <3>4, <3>5, <3>6 DEF Orderly
    <2>20. Recognised(o)'
        <3>1. SUFFICES ASSUME ~Exceeded', ~Dead', Due(o)'  PROVE o \in tombstones'
            BY DEF Recognised
        <3>2. x.ok
            BY <1>2, <1>4, <2>16, <3>1 DEF Inv, Reported, NoFalseAccusation
        <3>3. engine[o] = "Done"
            BY <1>2, <1>4, <1>6, <3>2 DEF Orderly, Answers
        <3>4. Has(runtime.work, Cancel(o))
            BY <1>1, <2>16, <3>1, <3>3, EmptyQueue DEF Due, CancelSent, Inv, Phases
        <3>5. IsCancelled(o) /\ ~Noticed(o)
            BY <1>6, <2>8, <3>4 DEF Orderly, Cancellations, CancelSent
        <3>6. Expected(o)
            BY <1>6, <2>8, <3>5 DEF Expected, Noticed
        <3>. QED  BY <2>11, <2>16, <3>1, <3>6
    <2>. QED  BY <2>15, <2>17, <2>19, <2>20
<1>. QED  BY <1>24, <1>25

\* The receipts are taken, and what the runtime will not answer is forgotten.
LEMMA EndOutcomesKeeps ==
    ASSUME Inv, EndOutcomes  PROVE Inv'
<1>. DEFINE fault == RuntimeClosed /\ Owned # {} /\ ~blocked
<1>1. /\ pc = "outcomes" /\ pc' = "owned" /\ todo' = Owned /\ taken' = 0
      /\ unread' = (unread \/ (RuntimeClosed /\ runtime.receipts # <<>>))
      /\ outstanding' = IF RuntimeClosed THEN 0 ELSE outstanding
      /\ Conclude(owned, runtime, {}, fault, {})
      /\ UNCHANGED <<batch, outcomes, published, ingress, engine, bound, lane, sequence,
                     retirement, closed, exit_acks, provider_exit_acks, told, process, errors, overflowed>>
    BY DEF EndOutcomes, kernel_vars, ack_vars
<1>. HIDE DEF fault
<1>2. PICK o \in Operations : TRUE
    BY PositiveConstants DEF Operations
<1>3. SupervisorFrame
    <2>1. Owned \subseteq Operations
        BY DEF Owned
    <2>2. outstanding' \in Nat /\ outstanding' <= Capacity
        BY <1>1, PositiveConstants DEF Inv, Types, Limits
    <2>. QED  BY <1>1, <2>1, <2>2 DEF SupervisorFrame, Inv, Types, Limits, Reported, NoFalseAccusation
<1>4. \A n \in Operations : Apart(n, owned, runtime, {})
    BY <1>1, SupervisorTypes DEF Apart
<1>5. /\ Orderly(o)' /\ Recognised(o)'
      /\ Accounts' /\ Orderly(o)' /\ Recognised(o)' => Inv'
    <2>1. owned[o] # Absent => o \notin tombstones /\ {} = {}
        BY DEF Inv, Limits
    <2>2. {} \in SUBSET {o} /\ Allowed({}) /\ (owned[o] = Absent \/ owned[o] # Absent \/ Cardinality(Owned) < MaxOwned)
        BY NothingRecorded
    <2>. QED  BY <1>1, <1>2, <1>3, <1>4, <2>1, <2>2, SupervisorTypes, StepKeeps
<1>6. /\ \A n \in Operations : Awaits(n)' <=> owned[n].state = "AwaitingOutcome"
      /\ runtime'.receipts = runtime.receipts
      /\ RuntimeClosed' <=> RuntimeClosed
    <2>1. {} \in SUBSET Operations
        OBVIOUS
    <2>. QED  BY <1>1, <1>3, <2>1, SupervisorTypes, After
<1>7. Accounts'
    <2>1. Waiting' = Waiting
        BY <1>6 DEF Waiting, Awaits
    <2>. QED  BY <1>1, <1>6, <2>1 DEF Inv, Accounts, Cleared
<1>. QED  BY <1>5, <1>7

\* The work of `rt` on an operation is some of that of the runtime.
LessWork(rt, n) ==
    /\ Has(rt.work, Invoke(n)) => Has(runtime.work, Invoke(n))
    /\ Has(rt.work, Cancel(n)) => Has(runtime.work, Cancel(n))
    /\ One(runtime.work, Invoke(n)) => One(rt.work, Invoke(n))
    /\ One(runtime.work, Cancel(n)) => One(rt.work, Cancel(n))
    /\ Before(runtime.work, Effect("Invoke", n), Effect("Cancel", n)) =>
          Before(rt.work, Effect("Invoke", n), Effect("Cancel", n))

\* What remains of the order of an operation when its work is taken and its
\* record changes: nothing is issued, its results are where they were.
LEMMA WorkLeft ==
    ASSUME Inv, SupervisorFrame, NEW o \in Operations,
           ~Has(runtime'.work, Invoke(o)), engine[o] # "New",
           LessWork(runtime', o), NoNewReceipts(runtime', o), pc \in {"owned", "work"},
           SameItems(ingress', ingress, ObserveOf(o)),
           IsCancelled(o) => IsCancelled(o)', RuntimeClosed' <=> RuntimeClosed,
           Noticed(o)' => engine[o] = "Done" /\ ~Has(runtime'.work, Cancel(o)),
           Awaits(o) => Awaits(o)' \/ RuntimeClosed,
           Physical(o)' => Physical(o) \/ ~Sent(o)
    PROVE  Invocations(o)' /\ Cancellations(o)' /\ Answers(o)'
<1>1. Orderly(o) /\ published = <<>> /\ published' = <<>> /\ engine' = engine /\ batch' = batch
      /\ outcomes' = outcomes
    BY DEF Inv, Phases, SupervisorFrame
<1>2. ~Has(published', Invoke(o)) /\ ~Has(published', Cancel(o))
      /\ One(published', Invoke(o)) /\ One(published', Cancel(o))
    BY <1>1, EmptyQueue
<1>3. Invocations(o)'
    BY <1>1, <1>2 DEF Orderly, Invocations, Issued, LessWork
<1>4. Cancellations(o)'
    BY <1>1, <1>2 DEF Orderly, Cancellations, CancelSent, LessWork
<1>5. Sent(o)' <=> Sent(o)
    BY <1>1 DEF Sent, SameItems
<1>6. Received(o)' => Received(o)
    BY DEF Received, NoNewReceipts, SameItems
<1>7. (RuntimeClosed => unread \/ ~Received(o)) /\ (unread => unread')
    BY EmptyQueue DEF SupervisorFrame, Inv, Accounts, Cleared, Received
<1>8. Answers(o)'
    BY <1>1, <1>5, <1>6, <1>7 DEF Orderly, Answers, NoNewReceipts, SameItems
<1>. QED  BY <1>3, <1>4, <1>8

\* A physical operation is looked at.
LEMMA TickPhysicalKeeps ==
    ASSUME Inv, NEW o \in Operations, Physical(o), NEW r \in PhysicalState,
           r.exited = owned[o].exited, r.acked = owned[o].acked,
           NEW rt, Follows(rt), rt.receipts = runtime.receipts,
           \A n \in Operations : n # o => SameWork(rt, n), LessWork(rt, o),
           r.noticed => engine[o] = "Done" /\ ~Has(rt.work, Cancel(o)),
           TickPhysical(o, r, rt), pc \in {"owned", "work"}, pc' = pc,
           UNCHANGED <<batch, outcomes, published, engine, bound, lane, retirement, closed,
                       provider_exit_acks, told, ingress, sequence, outstanding, process, unread>>,
           todo' \subseteq Operations, taken' \in Nat
    PROVE  Inv'
<1>1. Orderly(o) /\ Types /\ rt \in RuntimeState /\ owned[o] # Absent
    BY OwnedStates DEF Inv, Follows, Physical
<1>2. /\ r.exited => process[o] = "exited"
      /\ r.acked => r.exited
    BY <1>1 DEF Orderly, Held
<1>3. errors' \in Nat /\ overflowed' = overflowed
    BY <1>1, <1>2, Ticking
<1>4. PICK kept, bury, fault : /\ TickResult(o, r, kept, bury)
                               /\ Conclude([owned EXCEPT ![o] = kept], rt, bury, fault, {})
    BY <1>1, <1>2, Ticking
<1>. DEFINE rest == [owned EXCEPT ![o] = kept]
<1>5. /\ kept \in OwnedState /\ bury \in SUBSET {o} /\ bury \in SUBSET Operations
      /\ kept.state \in {"Physical", "Absent", "PendingCompletion"}
      /\ kept.state # "AwaitingOutcome" /\ (kept.state = "Absent" <=> kept = Absent)
    BY <1>4, OwnedStates DEF TickResult
<1>6. /\ rest \in [Operations -> OwnedState] /\ rest[o] = kept
      /\ \A n \in Operations : n # o => rest[n] = owned[n]
    BY <1>5, Replacing, SupervisorTypes
<1>. HIDE DEF rest
<1>7. /\ exit_acks' \in Seq(Acks) /\ Len(exit_acks') <= MaxAcks /\ ~Has(exit_acks', Unexplained)
      /\ \A n \in Operations : n # o => SameItems(exit_acks', exit_acks, AckOf(n))
      /\ \/ exit_acks' = exit_acks
         \/ /\ ~r.acked
            /\ Has(exit_acks', AckOf(o))
            /\ One(exit_acks, AckOf(o)) /\ ~Has(exit_acks, AckOf(o)) => One(exit_acks', AckOf(o))
    <2>1. CASE exit_acks' = exit_acks
        BY <2>1, SupervisorTypes DEF Inv, Limits, Reported, NoFalseAccusation
    <2>2. ASSUME NEW a \in AckOf(o), a \notin Unexplained, exit_acks' = Append(exit_acks, a),
                 ~r.acked, Len(exit_acks) < MaxAcks
          PROVE  <1>7
        <3>1. a \in Acks /\ \A n \in Operations : a \in AckOf(n) => n = o
            BY DEF AckOf
        <3>2. /\ exit_acks' \in Seq(Acks) /\ Len(exit_acks') = Len(exit_acks) + 1
              /\ \A M : Has(exit_acks', M) <=> Has(exit_acks, M) \/ a \in M
              /\ \A M : One(exit_acks, M) /\ ~(Has(exit_acks, M) /\ a \in M) => One(exit_acks', M)
            BY <2>2, <3>1, SupervisorTypes, AppendQueue
        <3>3. Len(exit_acks') <= MaxAcks
            BY <2>2, <3>2, SupervisorTypes, LenProperties, PositiveConstants
        <3>. QED  BY <2>2, <3>1, <3>2, <3>3 DEF SameItems, Inv, Reported, NoFalseAccusation
    <2>. QED  BY <1>4, <2>1, <2>2 DEF TickResult
<1>8. SupervisorFrame
    BY <1>3, <1>7 DEF SupervisorFrame, Inv, Types, Limits
<1>9. \A n \in Operations : n # o => Apart(n, rest, rt, bury)
    BY <1>5, <1>6, <1>7, SupervisorTypes DEF Apart, NoNewReceipts, SameItems
<1>10. rest[o] # Absent => o \notin tombstones /\ bury = {}
    BY <1>1, <1>4, <1>6 DEF TickResult, Inv, Limits
<1>11. /\ Accounts'
       /\ Accounts' /\ Orderly(o)' /\ Recognised(o)' => Inv'
    <2>1. ~Awaits(o)
        BY DEF Awaits, Physical
    <2>2. Conclude(rest, rt, bury, fault, {})
        BY <1>4 DEF rest
    <2>3. /\ rest[o].state = "AwaitingOutcome" <=> Awaits(o)
          /\ rest[o] = Absent \/ owned[o] # Absent \/ Cardinality(Owned) < MaxOwned
          /\ Allowed({})
        BY NothingRecorded, <1>1, <1>5, <1>6, <2>1
    <2>. QED  BY <1>5, <1>6, <1>8, <1>9, <1>10, <2>2, <2>3, StepKeeps
<1>12. /\ Physical(o)' <=> kept.state = "Physical"
       /\ ~Awaits(o)'
       /\ owned'[o] = Absent <=> kept = Absent
       /\ kept.state = "Physical" => /\ owned'[o].exited = kept.exited
                                     /\ owned'[o].acked = kept.acked
                                     /\ owned'[o].noticed = kept.noticed
       /\ IsCancelled(o) => IsCancelled(o)'
       /\ o \in bury => o \in tombstones' \/ Exceeded'
       /\ runtime'.work = rt.work /\ runtime'.receipts = rt.receipts
       /\ RuntimeClosed' <=> RuntimeClosed
       /\ Dead => Dead'
       /\ Exceeded => Exceeded'
    <2>1. Conclude(rest, rt, bury, fault, {})
        BY <1>4 DEF rest
    <2>. QED  BY <1>5, <1>6, <1>8, <2>1, After
<1>13. Held(o)'
    BY <1>1, <1>4, <1>12 DEF TickResult, Orderly, Held
<1>14. Invocations(o)' /\ Cancellations(o)' /\ Answers(o)'
    <2>1. engine[o] # "New" /\ ~Issued(o)
        BY <1>1 DEF Orderly, Invocations, Fresh
    <2>2. LessWork(runtime', o) /\ NoNewReceipts(runtime', o)
        BY <1>12 DEF LessWork, NoNewReceipts, SameItems
    <2>3. ~Has(runtime'.work, Invoke(o))
        BY <2>1, <2>2 DEF Issued, LessWork
    <2>4. Noticed(o)' => engine[o] = "Done" /\ ~Has(runtime'.work, Cancel(o))
        BY <1>4, <1>12 DEF Noticed, TickResult
    <2>5. ~Awaits(o) /\ SameItems(ingress', ingress, ObserveOf(o))
        BY DEF Awaits, Physical, SameItems
    <2>. QED  BY <1>8, <1>12, <2>1, <2>2, <2>3, <2>4, <2>5, WorkLeft
<1>15. Acknowledged(o)'
    <2>1. Acknowledged(o) /\ (Acked(o) <=> r.acked)
        BY <1>1 DEF Orderly, Acknowledged
    <2>2. ASSUME exit_acks' = exit_acks, IF kept.state = "Physical" THEN kept.acked = r.acked ELSE r.acked
          PROVE  Acknowledged(o)'
        <3>1. Acked(o)' <=> Acked(o)
            BY <2>2 DEF Acked, Told
        <3>2. /\ Physical(o)' => (r.acked <=> owned'[o].acked)
              /\ ~Physical(o)' => r.acked
            BY <1>12, <2>2
        <3>. QED  BY <2>1, <2>2, <3>1, <3>2 DEF Acknowledged, Told
    <2>3. ASSUME ~r.acked, process[o] = "exited", kept.state = "Physical" => kept.acked,
                 NEW a \in AckOf(o), exit_acks' = Append(exit_acks, a)
          PROVE  Acknowledged(o)'
        <3>1. Len(exit_acks') = Len(exit_acks) + 1 /\ Len(exit_acks) \in Nat
            <4>1. a \in Acks
                BY DEF AckOf
            <4>. QED  BY <2>3, <4>1, SupervisorTypes, AppendQueue, LenProperties
        <3>2. exit_acks' # exit_acks
            BY <3>1
        <3>. QED  BY <1>7, <1>12, <2>1, <2>3, <3>2 DEF Acknowledged, Acked, Told
    <2>. QED  BY <1>4, <2>2, <2>3 DEF TickResult
<1>16. Orderly(o)'
    BY <1>13, <1>14, <1>15 DEF Orderly
<1>17. Recognised(o)'
    <2>1. SUFFICES ASSUME ~Exceeded', Due(o)', kept = Absent  PROVE o \in tombstones'
        BY <1>12 DEF Recognised
    <2>2. Has(rt.work, Cancel(o)) \/ engine[o] = "Dispatched"
        BY <1>12, <2>1, EmptyQueue DEF Due, CancelSent, Inv, Phases
    <2>3. ~r.noticed
        BY <2>2
    <2>. QED  BY <1>4, <1>12, <2>1, <2>3 DEF TickResult
<1>. QED  BY <1>11, <1>16, <1>17

\* An operation is looked at and left as it is.
LEMMA LeftAsItIs ==
    ASSUME Inv, Stays(owned), pc \in {"owned", "work"}, pc' = pc,
           UNCHANGED <<batch, outcomes, published, engine, bound, lane, retirement, closed,
                       provider_exit_acks, told, ingress, sequence, outstanding, process,
                       exit_acks, overflowed, unread>>,
           errors' \in Nat, todo' \subseteq Operations, taken' \in Nat
    PROVE  Inv'
<1>1. PICK o \in Operations : TRUE
    BY PositiveConstants DEF Operations
<1>2. Conclude(owned, runtime, {}, FALSE, {})
    BY DEF Stays
<1>3. SupervisorFrame
    BY DEF SupervisorFrame, Inv, Types, Limits, Reported, NoFalseAccusation
<1>4. \A n \in Operations : Apart(n, owned, runtime, {})
    BY SupervisorTypes DEF Apart
<1>5. /\ owned[o] # Absent => o \notin tombstones /\ {} = {}
      /\ owned[o] = Absent \/ owned[o] # Absent \/ Cardinality(Owned) < MaxOwned
      /\ owned[o].state = "AwaitingOutcome" <=> Awaits(o)
      /\ {} \in SUBSET {o} /\ Allowed({})
    BY NothingRecorded DEF Inv, Limits, Awaits
<1>. QED  BY <1>2, <1>3, <1>4, <1>5, SupervisorTypes, StepKeeps

\* An operation without a process changes its state, or is let go with a
\* tombstone, unless nothing is expected of it any more.
LEMMA RecordKeeps ==
    ASSUME Inv, NEW o \in Operations, ~Physical(o), NEW kept \in OwnedState,
           kept.state # "Physical",
           NEW rt, Follows(rt), rt.receipts = runtime.receipts,
           \A n \in Operations : n # o => SameWork(rt, n), LessWork(rt, o),
           ~Has(rt.work, Invoke(o)), engine[o] # "New",
           NEW bury \in SUBSET {o}, NEW fault, NEW kinds, Allowed(kinds),
           Conclude([owned EXCEPT ![o] = kept], rt, bury, fault, kinds),
           pc \in {"owned", "work"}, pc' = pc,
           UNCHANGED <<batch, outcomes, published, engine, bound, lane, retirement, closed,
                       provider_exit_acks, told, ingress, sequence, outstanding, process,
                       exit_acks, errors, unread>>,
           overflowed' \in BOOLEAN, overflowed => overflowed',
           todo' \subseteq Operations, taken' \in Nat,
           kept # Absent => o \notin tombstones /\ bury = {},
           kept = Absent \/ owned[o] # Absent \/ Cardinality(Owned) < MaxOwned,
           RuntimeClosed \/ (kept.state = "AwaitingOutcome" <=> Awaits(o)),
           kept.state = "AwaitingOutcome" /\ kept.noticed =>
              engine[o] = "Done" /\ ~Has(rt.work, Cancel(o)),
           \/ kept # Absent \/ bury = {o} \/ RuntimeClosed \/ overflowed'
           \/ engine[o] = "Done" /\ ~Has(rt.work, Cancel(o))
    PROVE  Inv'
<1>. DEFINE rest == [owned EXCEPT ![o] = kept]
<1>1. /\ rest \in [Operations -> OwnedState] /\ rest[o] = kept
      /\ \A n \in Operations : n # o => rest[n] = owned[n]
    BY Replacing, SupervisorTypes
<1>2. Conclude(rest, rt, bury, fault, kinds)
    OBVIOUS
<1>. HIDE DEF rest
<1>3. SupervisorFrame
    BY DEF SupervisorFrame, Inv, Types, Limits, Reported, NoFalseAccusation
<1>4. \A n \in Operations : n # o => Apart(n, rest, rt, bury)
    BY <1>1, SupervisorTypes DEF Apart, NoNewReceipts, SameItems
<1>5. /\ (rest[o].state = "AwaitingOutcome" <=> Awaits(o)) => Accounts'
      /\ Accounts' /\ Orderly(o)' /\ Recognised(o)' => Inv'
    BY <1>1, <1>2, <1>3, <1>4, StepKeeps
<1>6. /\ ~Physical(o)'
      /\ Awaits(o)' <=> kept.state = "AwaitingOutcome"
      /\ owned'[o] = Absent <=> kept = Absent
      /\ kept.state = "AwaitingOutcome" => owned'[o].noticed = kept.noticed
      /\ IsCancelled(o) => IsCancelled(o)'
      /\ o \in bury => o \in tombstones' \/ Exceeded'
      /\ runtime'.work = rt.work /\ runtime'.receipts = rt.receipts
      /\ RuntimeClosed' <=> RuntimeClosed
      /\ Dead => Dead'
      /\ Exceeded => Exceeded'
    <2>1. bury \in SUBSET Operations
        OBVIOUS
    <2>. QED  BY <1>1, <1>2, <1>3, <2>1, After
<1>7. Accounts'
    <2>1. CASE RuntimeClosed
        BY <1>6, <2>1 DEF Inv, Accounts, Cleared
    <2>. QED  BY <1>1, <1>5, <2>1
<1>8. Orderly(o)
    BY DEF Inv
<1>9. Held(o)'
    BY <1>6, <1>8 DEF Orderly, Held
<1>10. Invocations(o)' /\ Cancellations(o)' /\ Answers(o)'
    <2>1. LessWork(runtime', o) /\ NoNewReceipts(runtime', o) /\ SameItems(ingress', ingress, ObserveOf(o))
        BY <1>6 DEF LessWork, NoNewReceipts, SameItems
    <2>2. Noticed(o)' => engine[o] = "Done" /\ ~Has(runtime'.work, Cancel(o))
        BY <1>6 DEF Noticed
    <2>3. Awaits(o) => Awaits(o)' \/ RuntimeClosed
        BY <1>6
    <2>. QED  BY <1>3, <1>6, <2>1, <2>2, <2>3, WorkLeft
<1>11. Acknowledged(o)'
    BY <1>6, <1>8 DEF Orderly, Acknowledged, Acked, Told
<1>12. Recognised(o)'
    <2>1. CASE engine[o] = "Done" /\ ~Has(rt.work, Cancel(o))
        BY <1>6, <2>1, EmptyQueue DEF Recognised, Due, CancelSent, Inv, Phases
    <2>. QED  BY <1>6, <2>1 DEF Recognised, RuntimeClosed, Dead, Exceeded
<1>. QED  BY <1>5, <1>7, <1>9, <1>10, <1>11, <1>12 DEF Orderly

\* A faulted runtime follows the runtime.
LEMMA FaultFollows ==
    ASSUME Inv
    PROVE  /\ Follows(Faulted(runtime))
           /\ Faulted(runtime).work = runtime.work /\ Faulted(runtime).receipts = runtime.receipts
           /\ \A n \in Operations : SameWork(Faulted(runtime), n) /\ NoNewReceipts(Faulted(runtime), n)
<1>1. Tame(Faulted(runtime), runtime) /\ (Faulted(runtime).life = "Closed" => runtime.life = "Closed")
    BY SupervisorTypes, HandleIsTame
<1>2. Follows(Faulted(runtime))
    BY <1>1 DEF Tame, Follows, Inv, Limits
<1>. QED  BY <1>1, <1>2 DEF Tame, SameWork, NoNewReceipts, SameItems

\* The same when nothing is buried and no fault recorded.
LEMMA AfterNothing ==
    ASSUME Inv, SupervisorFrame, NEW rest \in [Operations -> OwnedState],
           NEW rt, Follows(rt), Conclude(rest, rt, {}, FALSE, {})
    PROVE  /\ \A n \in Operations : /\ Awaits(n)' <=> rest[n].state = "AwaitingOutcome"
                                    /\ Physical(n)' <=> rest[n].state = "Physical"
                                    /\ owned'[n] = Absent <=> rest[n] = Absent
                                    /\ rest[n].state = "AwaitingOutcome" => owned'[n].noticed = rest[n].noticed
                                    /\ IsCancelled(n) => IsCancelled(n)'
           /\ runtime'.work = rt.work /\ runtime'.receipts = rt.receipts
           /\ RuntimeClosed' <=> RuntimeClosed
<1>1. {} \in SUBSET Operations
    OBVIOUS
<1>. QED  BY <1>1, After

\* A result is sent.
LEMMA SubmitKeeps ==
    ASSUME Inv, NEW o \in Operations, owned[o].state = "PendingCompletion", ~RuntimeClosed,
           MaySubmit, ingress' = Append(ingress, [kind |-> "Observe", operation |-> o]),
           outstanding' = outstanding + 1,
           NEW rt \in {runtime, Faulted(runtime)},
           Conclude(With(o, [state |-> "AwaitingOutcome", noticed |-> FALSE]), rt, {}, FALSE, {}),
           pc = "owned", pc' = pc,
           UNCHANGED <<batch, outcomes, published, engine, bound, lane, retirement, closed,
                       provider_exit_acks, told, process, exit_acks, overflowed, unread, taken>>,
           sequence' \in {"open", "spent", "exhausted"}, errors' \in Nat, todo' \subseteq Operations
    PROVE  Inv'
<1>. DEFINE c == [kind |-> "Observe", operation |-> o]
            kept == [state |-> "AwaitingOutcome", noticed |-> FALSE]
            rest == [owned EXCEPT ![o] = kept]
<1>1. c \in Commands /\ (\A n \in Operations : c \in ObserveOf(n) <=> n = o)
    <2>1. c \in Commands /\ c.kind = "Observe" /\ c.operation = o
        BY NewItems DEF ObserveOf
    <2>. HIDE DEF c
    <2>. QED  BY <2>1, ResultItems
<1>2. kept \in OwnedState /\ kept.state = "AwaitingOutcome" /\ kept.noticed = FALSE /\ kept # Absent
    BY OwnedStates
<1>3. /\ rest \in [Operations -> OwnedState] /\ rest[o] = kept
      /\ \A n \in Operations : n # o => rest[n] = owned[n]
    BY <1>2, Replacing, SupervisorTypes
<1>4. Conclude(rest, rt, {}, FALSE, {}) /\ ingress' = Append(ingress, c)
    BY DEF With
<1>. HIDE DEF c, kept, rest
<1>5. /\ ingress' \in Seq(Commands)
      /\ \A M : Has(ingress', M) <=> Has(ingress, M) \/ c \in M
      /\ \A M : One(ingress, M) /\ ~(Has(ingress, M) /\ c \in M) => One(ingress', M)
    BY <1>1, <1>4, SupervisorTypes, AppendQueue
<1>6. /\ Follows(rt) /\ rt.work = runtime.work /\ rt.receipts = runtime.receipts
      /\ \A n \in Operations : SameWork(rt, n) /\ NoNewReceipts(rt, n)
    BY SupervisorTypes, FaultFollows
<1>7. SupervisorFrame
    <2>1. outstanding' \in Nat /\ outstanding' <= Capacity
        BY SupervisorTypes, PositiveConstants DEF MaySubmit
    <2>. QED  BY <1>5, <2>1 DEF SupervisorFrame, Inv, Types, Limits, Reported, NoFalseAccusation
<1>8. \A n \in Operations : n # o => Apart(n, rest, rt, {})
    BY <1>1, <1>3, <1>5, <1>6, SupervisorTypes DEF Apart, SameItems
<1>9. Orderly(o) /\ ~Physical(o) /\ ~Awaits(o) /\ owned[o] # Absent /\ o \notin tombstones
    BY OwnedStates, SupervisorTypes DEF Inv, Limits, Physical, Awaits
<1>10. Accounts' /\ Orderly(o)' /\ Recognised(o)' => Inv'
    <2>1. rest[o] # Absent => o \notin tombstones /\ {} = {}
        BY <1>9
    <2>2. {} \in SUBSET {o} /\ Allowed({}) /\ (rest[o] = Absent \/ owned[o] # Absent \/ Cardinality(Owned) < MaxOwned)
        BY NothingRecorded, <1>9
    <2>. QED  BY <1>3, <1>4, <1>6, <1>7, <1>8, <2>1, <2>2, StepKeeps
<1>11. /\ \A n \in Operations : /\ Awaits(n)' <=> rest[n].state = "AwaitingOutcome"
                                /\ Physical(n)' <=> rest[n].state = "Physical"
       /\ owned'[o] # Absent /\ owned'[o].noticed = FALSE
       /\ IsCancelled(o) => IsCancelled(o)'
       /\ runtime'.work = rt.work /\ runtime'.receipts = rt.receipts
       /\ RuntimeClosed' <=> RuntimeClosed
    <2>1. Follows(rt) /\ rest \in [Operations -> OwnedState] /\ Conclude(rest, rt, {}, FALSE, {})
        BY <1>3, <1>4, <1>6
    <2>2. /\ \A n \in Operations : /\ Awaits(n)' <=> rest[n].state = "AwaitingOutcome"
                                   /\ Physical(n)' <=> rest[n].state = "Physical"
                                   /\ owned'[n] = Absent <=> rest[n] = Absent
                                   /\ rest[n].state = "AwaitingOutcome" => owned'[n].noticed = rest[n].noticed
                                   /\ IsCancelled(n) => IsCancelled(n)'
          /\ runtime'.work = rt.work /\ runtime'.receipts = rt.receipts
          /\ RuntimeClosed' <=> RuntimeClosed
        BY <1>7, <2>1, AfterNothing
    <2>. QED  BY <1>2, <1>3, <2>2
<1>12. Accounts'
    <2>1. Waiting' = Waiting \cup {o} /\ o \notin Waiting /\ Waiting \subseteq Operations
        BY <1>2, <1>3, <1>9, <1>11 DEF Waiting, Awaits
    <2>2. IsFiniteSet(Waiting) /\ Cardinality(Waiting) \in Nat
        BY <2>1, FiniteOperations
    <2>3. Cardinality(Waiting \cup {o}) = Cardinality(Waiting) + 1
        BY <2>1, <2>2, FS_AddElement
    <2>4. ~unread /\ unread' = unread
        BY DEF Inv, Accounts
    <2>. QED  BY <1>11, <2>1, <2>3, <2>4 DEF Inv, Accounts, Cleared
<1>13. ~Sent(o) /\ ~Received(o) /\ engine[o] # "New" /\ ~Issued(o)
    <2>1. ~unread
        BY DEF Inv, Accounts
    <2>. QED  BY <1>9, <2>1 DEF Orderly, Answers, Invocations, Fresh
<1>14. Held(o)' /\ Acknowledged(o)'
    BY <1>2, <1>3, <1>9, <1>11 DEF Orderly, Held, Acknowledged, Acked, Told
<1>15. Invocations(o)'
    BY <1>6, <1>9, <1>11, <1>13 DEF Orderly, Invocations, Issued
<1>16. Cancellations(o)'
    BY <1>6, <1>9, <1>11 DEF Orderly, Cancellations, CancelSent, Noticed
<1>17. Answers(o)'
    <2>1. Awaits(o)' /\ ~Received(o)'
        BY <1>2, <1>3, <1>6, <1>11, <1>13 DEF Received
    <2>. QED  BY <1>1, <1>5, <1>6, <1>9, <1>11, <1>13, <2>1 DEF Orderly, Answers, Sent
<1>18. Recognised(o)'
    BY <1>11 DEF Recognised
<1>. QED  BY <1>10, <1>12, <1>14, <1>15, <1>16, <1>17, <1>18 DEF Orderly

\* An operation of the tick is looked at.
LEMMA TickOwnedKeeps ==
    ASSUME Inv, TickOwned  PROVE Inv'
<1>1. PICK o \in todo :
        /\ pc = "owned" /\ pc' = pc /\ todo' = todo \ {o}
        /\ \/ /\ RuntimeClosed /\ ~Survives(owned[o]) /\ Stays(Without(o))
              /\ UNCHANGED <<exit_acks, ingress, sequence, outstanding, errors, overflowed>>
           \/ /\ owned[o].state = "Physical"
              /\ TickPhysical(o, IF RuntimeClosed THEN FencedAtClose(owned[o]) ELSE owned[o], runtime)
              /\ UNCHANGED <<ingress, sequence, outstanding>>
           \/ /\ ~(RuntimeClosed /\ ~Survives(owned[o])) /\ (TickPending(o) \/ TickAwaiting(o))
              /\ UNCHANGED <<exit_acks, overflowed>>
        /\ UNCHANGED <<batch, outcomes, published, taken, engine, bound, lane, retirement,
                       closed, provider_exit_acks, told, process, unread>>
    BY DEF TickOwned
<1>2. o \in Operations /\ todo' \subseteq Operations /\ taken' \in Nat
    BY <1>1, SupervisorTypes
<1>3. owned[o] \in OwnedState /\ Orderly(o) /\ LessWork(runtime, o)
      /\ retirement \in BOOLEAN /\ overflowed \in BOOLEAN /\ sequence \in {"open", "spent", "exhausted"}
    BY <1>2, SupervisorTypes DEF Inv, LessWork, Types
<1>4. owned[o] # Absent => engine[o] # "New" /\ ~Has(runtime.work, Invoke(o)) /\ o \notin tombstones
    BY <1>2, <1>3 DEF Orderly, Invocations, Fresh, Issued, Inv, Limits
<1>5. \A n \in Operations : n # o => SameWork(runtime, n)
    BY SupervisorTypes
<1>6. ASSUME RuntimeClosed, ~Survives(owned[o]), Stays(Without(o)),
             UNCHANGED <<exit_acks, ingress, sequence, outstanding, errors, overflowed>>
      PROVE  Inv'
    <2>1. CASE owned[o] = Absent
        <3>1. Without(o) = owned
            BY <1>2, <2>1, SupervisorTypes DEF Without
        <3>2. errors' \in Nat
            BY <1>6, SupervisorTypes
        <3>. QED  BY <1>1, <1>2, <1>6, <3>1, <3>2, LeftAsItIs
    <2>2. CASE owned[o] # Absent
        <3>. DEFINE kept == Absent
        <3>1. kept \in OwnedState /\ kept.state = "Absent"
            BY OwnedStates
        <3>2. Conclude([owned EXCEPT ![o] = kept], runtime, {}, FALSE, {})
            BY <1>6 DEF Stays, Without
        <3>3. ~Physical(o)
            BY <1>6 DEF Survives, Physical
        <3>. HIDE DEF kept
        <3>4. kept = Absent /\ {} \in SUBSET {o} /\ Allowed({})
            BY NothingRecorded DEF kept
        <3>. QED  BY <1>1, <1>2, <1>3, <1>4, <1>5, <1>6, <2>2, <3>1, <3>2, <3>3, <3>4, SupervisorTypes, RecordKeeps
    <2>. QED  BY <2>1, <2>2
<1>7. ASSUME owned[o].state = "Physical",
             TickPhysical(o, IF RuntimeClosed THEN FencedAtClose(owned[o]) ELSE owned[o], runtime),
             UNCHANGED <<ingress, sequence, outstanding>>
      PROVE  Inv'
    <2>. DEFINE r == IF RuntimeClosed THEN FencedAtClose(owned[o]) ELSE owned[o]
    <2>1. Alike(r, owned[o])
        BY <1>3, <1>7, FencesAreAlike
    <2>2. r \in OwnedState /\ r.state = "Physical" /\ r.exited = owned[o].exited
          /\ r.acked = owned[o].acked /\ r.noticed = owned[o].noticed
        BY <1>7, <2>1 DEF Alike
    <2>3. r \in PhysicalState
        BY <2>2, OwnedStates
    <2>4. TickPhysical(o, r, runtime)
        BY <1>7
    <2>. HIDE DEF r
    <2>5. Physical(o) /\ (r.noticed => engine[o] = "Done" /\ ~Has(runtime.work, Cancel(o)))
        BY <1>3, <1>7, <2>2 DEF Physical, Noticed, Orderly, Cancellations, CancelSent
    <2>. QED  BY <1>1, <1>2, <1>3, <1>5, <1>7, <2>2, <2>3, <2>4, <2>5, SupervisorTypes, TickPhysicalKeeps
<1>8. ASSUME ~(RuntimeClosed /\ ~Survives(owned[o])), TickPending(o), UNCHANGED <<exit_acks, overflowed>>
      PROVE  Inv'
    <2>1. owned[o].state = "PendingCompletion" /\ owned[o] # Absent /\ ~Physical(o) /\ ~Awaits(o)
          /\ ~RuntimeClosed
        BY <1>3, <1>8, OwnedStates DEF TickPending, Survives, Physical, Awaits
    <2>. DEFINE idle == UNCHANGED <<ingress, sequence, outstanding, errors>>
    <2>2. ASSUME NEW fault, Conclude(Without(o), runtime, {o}, fault, {}), idle  PROVE Inv'
        <3>. DEFINE kept == Absent
                    bury == {o}
        <3>1. kept \in OwnedState /\ kept.state = "Absent"
            BY OwnedStates
        <3>2. Conclude([owned EXCEPT ![o] = kept], runtime, bury, fault, {})
            BY <2>2 DEF Without
        <3>. HIDE DEF kept, bury
        <3>3. kept = Absent /\ bury = {o} /\ bury \in SUBSET {o} /\ Allowed({})
            BY NothingRecorded DEF kept, bury
        <3>. QED  BY <1>1, <1>2, <1>3, <1>4, <1>5, <1>8, <2>1, <2>2, <3>1, <3>2, <3>3, SupervisorTypes, RecordKeeps
    <2>3. ASSUME Stays(With(o, [state |-> "AwaitingCancellation"])), idle  PROVE Inv'
        <3>. DEFINE kept == [state |-> "AwaitingCancellation"]
        <3>1. kept \in OwnedState /\ kept.state = "AwaitingCancellation" /\ kept # Absent
            BY OwnedStates
        <3>2. Conclude([owned EXCEPT ![o] = kept], runtime, {}, FALSE, {})
            BY <2>3 DEF Stays, With
        <3>. HIDE DEF kept
        <3>3. {} \in SUBSET {o} /\ Allowed({})
            BY NothingRecorded
        <3>. QED  BY <1>1, <1>2, <1>3, <1>4, <1>5, <1>8, <2>1, <2>3, <3>1, <3>2, <3>3, SupervisorTypes, RecordKeeps
    <2>4. ASSUME Stays(owned), UNCHANGED <<ingress, sequence, outstanding>>, errors' \in Nat  PROVE Inv'
        BY <1>1, <1>2, <1>8, <2>4, LeftAsItIs
    <2>5. ASSUME MaySubmit, Submit(o)  PROVE Inv'
        <3>1. errors \in Nat
            BY SupervisorTypes
        <3>2. ASSUME ingress' = Append(ingress, [kind |-> "Observe", operation |-> o]),
                     outstanding' = outstanding + 1,
                     \/ Committed /\ Stays(With(o, [state |-> "AwaitingOutcome", noticed |-> FALSE]))
                     \/ LastCommitted /\ Conclude(With(o, [state |-> "AwaitingOutcome", noticed |-> FALSE]),
                                                  Faulted(runtime), {}, FALSE, {})
              PROVE  Inv'
            <4>0. Committed \/ LastCommitted
                BY <3>2
            <4>1. sequence' \in {"open", "spent", "exhausted"} /\ errors' \in Nat
                BY <1>3, <3>1, <4>0 DEF Committed, LastCommitted, Works, Fails
            <4>2. PICK rt \in {runtime, Faulted(runtime)} :
                     Conclude(With(o, [state |-> "AwaitingOutcome", noticed |-> FALSE]), rt, {}, FALSE, {})
                BY <3>2 DEF Stays
            <4>. QED  BY <1>1, <1>2, <1>8, <2>1, <2>5, <3>2, <4>1, <4>2, SubmitKeeps
        <3>3. ASSUME Fails, Stays(owned), UNCHANGED <<ingress, sequence, outstanding>>  PROVE Inv'
            BY <2>4, <3>1, <3>3 DEF Fails
        <3>4. ASSUME Works, Conclude(Without(o), runtime, {o}, TRUE, {}),
                     UNCHANGED <<ingress, sequence, outstanding>>  PROVE Inv'
            BY <2>2, <3>4 DEF Works
        <3>. QED  BY <2>5, <3>2, <3>3, <3>4 DEF Submit
    <2>6. idle /\ Stays(owned) => Inv'
        BY <2>4, SupervisorTypes
    <2>. QED  BY <1>8, <2>2, <2>3, <2>5, <2>6 DEF TickPending
<1>9. ASSUME ~(RuntimeClosed /\ ~Survives(owned[o])), TickAwaiting(o), UNCHANGED <<exit_acks, overflowed>>
      PROVE  Inv'
    <2>1. /\ UNCHANGED <<ingress, sequence, outstanding, errors>> /\ errors' \in Nat
          /\ \/ Stays(owned)
             \/ owned[o].state = "AwaitingCancellation" /\ Conclude(Without(o), runtime, {o}, FALSE, {})
        BY <1>9, SupervisorTypes DEF TickAwaiting
    <2>2. CASE Stays(owned)
        BY <1>1, <1>2, <1>9, <2>1, <2>2, LeftAsItIs
    <2>3. ASSUME owned[o].state = "AwaitingCancellation", Conclude(Without(o), runtime, {o}, FALSE, {})
          PROVE  Inv'
        <3>. DEFINE kept == Absent
                    bury == {o}
        <3>1. kept \in OwnedState /\ kept.state = "Absent"
            BY OwnedStates
        <3>2. Conclude([owned EXCEPT ![o] = kept], runtime, bury, FALSE, {})
            BY <2>3 DEF Without
        <3>3. owned[o] # Absent /\ ~Physical(o) /\ ~Awaits(o)
            BY <2>3, OwnedStates DEF Physical, Awaits
        <3>. HIDE DEF kept, bury
        <3>4. kept = Absent /\ bury = {o} /\ bury \in SUBSET {o} /\ Allowed({})
            BY NothingRecorded DEF kept, bury
        <3>. QED  BY <1>1, <1>2, <1>3, <1>4, <1>5, <1>9, <2>1, <3>1, <3>2, <3>3, <3>4, SupervisorTypes, RecordKeeps
    <2>. QED  BY <2>1, <2>2, <2>3
<1>. QED  BY <1>1, <1>6, <1>7, <1>8, <1>9

\* A cancellation meets the tombstone of its operation.
LEMMA TombstoneKeeps ==
    ASSUME Inv, NEW o \in Operations, NEW rt, Follows(rt), rt.receipts = runtime.receipts,
           \A n \in Operations : n # o => SameWork(rt, n), LessWork(rt, o),
           ~Has(rt.work, Invoke(o)), engine[o] = "Done", ~Has(rt.work, Cancel(o)),
           tombstones' = tombstones \ {o}, runtime' = rt, pc = "work", pc' = pc,
           UNCHANGED <<owned, blocked, accused, exit_acks, errors, overflowed, batch, outcomes,
                       published, todo, engine, bound, lane, ingress, sequence, outstanding,
                       retirement, closed, provider_exit_acks, told, process, unread>>,
           taken' \in Nat
    PROVE  Inv'
<1>1. SupervisorFrame
    BY DEF SupervisorFrame, Inv, Types, Limits, Reported, NoFalseAccusation
<1>2. /\ runtime' \in RuntimeState
      /\ RuntimeClosed' <=> RuntimeClosed
      /\ Dead => Dead'
      /\ \A n \in Operations : IsCancelled(n) => IsCancelled(n)'
    BY DEF Follows, RuntimeClosed, Dead, DeadLives, IsCancelled
<1>3. Waiting' = Waiting /\ Owned' = Owned /\ (Exceeded' <=> Exceeded)
    BY DEF Waiting, Awaits, Owned, Exceeded
<1>4. Types'
    BY <1>1, <1>2 DEF Inv, Types, SupervisorFrame
<1>5. Phases'
    BY <1>2 DEF Inv, Phases
<1>6. Accounts'
    BY <1>2, <1>3 DEF Inv, Accounts, Cleared
<1>7. Attachment'
    BY DEF Inv, Attachment, Follows
<1>8. Limits'
    BY <1>3 DEF Inv, Limits, Follows
<1>9. Reported'
    BY <1>2, <1>3 DEF Inv, Reported, NoFalseAccusation
<1>10. ASSUME NEW n \in Operations, n # o  PROVE Orderly(n)' /\ Recognised(n)'
    <2>1. Alike(owned'[n], owned[n])
        BY SupervisorTypes DEF Alike
    <2>2. Undisturbed(n)
        BY <1>2, <1>10, <2>1 DEF Undisturbed, SameWork, SameItems
    <2>. QED  BY <1>2, <1>3, <2>2, Elsewhere, RecognisedElsewhere DEF Inv
<1>11. Orderly(o)'
    <2>1. Orderly(o)
        BY DEF Inv
    <2>2. (Physical(o)' <=> Physical(o)) /\ (Awaits(o)' <=> Awaits(o)) /\ (Noticed(o)' <=> Noticed(o))
        BY DEF Physical, Awaits, Noticed
    <2>3. Held(o)' /\ Acknowledged(o)'
        BY <2>1, <2>2 DEF Orderly, Held, Acknowledged, Acked, Told
    <2>4. LessWork(runtime', o) /\ NoNewReceipts(runtime', o) /\ SameItems(ingress', ingress, ObserveOf(o))
        BY DEF LessWork, NoNewReceipts, SameItems
    <2>5. Invocations(o)' /\ Cancellations(o)' /\ Answers(o)'
        BY <1>1, <1>2, <2>2, <2>4, WorkLeft
    <2>. QED  BY <2>3, <2>5 DEF Orderly
<1>12. Recognised(o)'
    BY EmptyQueue DEF Recognised, Due, CancelSent, Inv, Phases
<1>. QED  BY <1>4, <1>5, <1>6, <1>7, <1>8, <1>9, <1>10, <1>11, <1>12 DEF Inv

\* A process is started.
LEMMA StartKeeps ==
    ASSUME Inv, NEW o \in Operations, Fresh(o), NEW rt, Follows(rt), rt.receipts = runtime.receipts,
           \A n \in Operations : n # o => SameWork(rt, n), LessWork(rt, o),
           ~Has(rt.work, Invoke(o)), engine[o] # "New", Cardinality(Owned) < MaxOwned,
           Conclude(With(o, Started), rt, {}, FALSE, {}),
           process' = [process EXCEPT ![o] = "running"],
           pc = "work", pc' = pc,
           UNCHANGED <<batch, outcomes, published, engine, bound, lane, retirement, closed,
                       provider_exit_acks, told, ingress, sequence, outstanding, exit_acks, errors,
                       todo, overflowed, unread>>,
           taken' \in Nat
    PROVE  Inv'
<1>. DEFINE kept == Started
            rest == [owned EXCEPT ![o] = kept]
<1>1. /\ kept \in PhysicalState /\ kept.state = "Physical" /\ kept.exited = FALSE
      /\ kept.acked = FALSE /\ kept.noticed = FALSE
    BY PositiveConstants DEF Started, PhysicalState
<1>2. kept \in OwnedState /\ kept # Absent
    BY <1>1, OwnedStates
<1>. HIDE DEF kept
<1>3. /\ rest \in [Operations -> OwnedState] /\ rest[o] = kept
      /\ \A n \in Operations : n # o => rest[n] = owned[n]
    BY <1>2, Replacing, SupervisorTypes
<1>4. Conclude(rest, rt, {}, FALSE, {})
    BY DEF With, kept
<1>. HIDE DEF rest
<1>5. process' \in [Operations -> {"none", "running", "exited"}] /\ process'[o] = "running"
      /\ \A n \in Operations : n # o => process'[n] = process[n]
    BY SupervisorTypes
<1>6. SupervisorFrame
    BY <1>5 DEF SupervisorFrame, Inv, Types, Limits, Reported, NoFalseAccusation
<1>7. \A n \in Operations : n # o => Apart(n, rest, rt, {})
    BY <1>3, <1>5, SupervisorTypes DEF Apart, NoNewReceipts, SameItems
<1>8. Orderly(o) /\ ~Physical(o) /\ ~Awaits(o) /\ process[o] = "none" /\ o \notin tombstones /\ ~Sent(o)
    BY OwnedStates DEF Inv, Fresh, Physical, Awaits
<1>9. /\ Accounts'
      /\ Accounts' /\ Orderly(o)' /\ Recognised(o)' => Inv'
    <2>1. rest[o] # Absent => o \notin tombstones /\ {} = {}
        BY <1>8
    <2>2. {} \in SUBSET {o} /\ Allowed({}) /\ (rest[o] = Absent \/ owned[o] # Absent \/ Cardinality(Owned) < MaxOwned)
          /\ (rest[o].state = "AwaitingOutcome" <=> Awaits(o))
        BY NothingRecorded, <1>1, <1>3, <1>8
    <2>. QED  BY <1>3, <1>4, <1>6, <1>7, <2>1, <2>2, StepKeeps
<1>10. /\ Physical(o)' /\ ~Awaits(o)' /\ owned'[o] # Absent
       /\ owned'[o].exited = FALSE /\ owned'[o].acked = FALSE /\ owned'[o].noticed = FALSE
       /\ IsCancelled(o) => IsCancelled(o)'
       /\ runtime'.work = rt.work /\ runtime'.receipts = rt.receipts
       /\ RuntimeClosed' <=> RuntimeClosed
    <2>1. {} \in SUBSET Operations
        OBVIOUS
    <2>2. /\ \A n \in Operations : /\ Awaits(n)' <=> rest[n].state = "AwaitingOutcome"
                                   /\ Physical(n)' <=> rest[n].state = "Physical"
                                   /\ owned'[n] = Absent <=> rest[n] = Absent
                                   /\ rest[n].state = "Physical" => /\ owned'[n].exited = rest[n].exited
                                                                    /\ owned'[n].acked = rest[n].acked
                                                                    /\ owned'[n].noticed = rest[n].noticed
                                   /\ IsCancelled(n) => IsCancelled(n)'
          /\ runtime'.work = rt.work /\ runtime'.receipts = rt.receipts
          /\ RuntimeClosed' <=> RuntimeClosed
        BY <1>3, <1>4, <1>6, <2>1, After
    <2>. QED  BY <1>1, <1>2, <1>3, <2>2
<1>11. Held(o)'
    BY <1>5, <1>10 DEF Held
<1>12. Acknowledged(o)'
    <2>1. ~Acked(o)
        BY <1>8 DEF Orderly, Acknowledged
    <2>. QED  BY <1>5, <1>8, <1>10, <2>1 DEF Orderly, Acknowledged, Acked, Told
<1>13. Invocations(o)' /\ Cancellations(o)' /\ Answers(o)'
    <2>1. LessWork(runtime', o) /\ NoNewReceipts(runtime', o) /\ SameItems(ingress', ingress, ObserveOf(o))
        BY <1>10 DEF LessWork, NoNewReceipts, SameItems
    <2>2. ~Noticed(o)'
        BY <1>10 DEF Noticed
    <2>3. ~Has(runtime'.work, Invoke(o))
        BY <1>10
    <2>. QED  BY <1>6, <1>8, <1>10, <2>1, <2>2, <2>3, WorkLeft
<1>14. Recognised(o)'
    BY <1>10 DEF Recognised
<1>. QED  BY <1>9, <1>11, <1>12, <1>13, <1>14 DEF Orderly

\* An item of the work is handled.
LEMMA TakeWorkKeeps ==
    ASSUME Inv, TakeWork  PROVE Inv'
<1>. DEFINE e == Head(runtime.work)
            rt == [runtime EXCEPT !.work = Tail(@)]
<1>1. /\ pc = "work" /\ pc' = pc /\ Serves(runtime) /\ runtime.work # <<>>
      /\ taken' = taken + 1
      /\ \/ e.kind = "Cancel" /\ Cancelled(e.operation, rt) /\ UNCHANGED process
         \/ e.kind = "Invoke" /\ Invoked(e.operation, rt)
      /\ UNCHANGED <<batch, outcomes, published, todo, ingress, engine, bound, lane, sequence,
                     outstanding, retirement, closed, provider_exit_acks, told, unread>>
    BY DEF TakeWork, MoreWork, kernel_vars
<1>2. /\ e \in Effects /\ Tail(runtime.work) \in Seq(Effects)
      /\ Len(Tail(runtime.work)) = Len(runtime.work) - 1 /\ Len(runtime.work) \in Nat
      /\ \A M : Has(runtime.work, M) <=> e \in M \/ Has(Tail(runtime.work), M)
      /\ \A M : One(runtime.work, M) =>
                   One(Tail(runtime.work), M) /\ ~(e \in M /\ Has(Tail(runtime.work), M))
      /\ \A a, b : Before(runtime.work, a, b) => Before(Tail(runtime.work), a, b)
      /\ \A a, b : Before(runtime.work, a, b) /\ e = b => ~Has(runtime.work, {a})
    <2>1. runtime.work \in Seq(Effects) /\ Len(runtime.work) \in Nat
        BY SupervisorTypes, LenProperties
    <2>. QED  BY <1>1, <2>1, TailQueue
<1>3. PICK o \in Operations : o = e.operation
    BY <1>2, ItemTypes
<1>4. /\ e.kind \in {"Invoke", "Cancel"}
      /\ \A n \in Operations : /\ e \in Invoke(n) <=> e.kind = "Invoke" /\ n = o
                               /\ e \in Cancel(n) <=> e.kind = "Cancel" /\ n = o
      /\ e.kind = "Cancel" => e = Effect("Cancel", o)
      /\ Invoke(o) = {Effect("Invoke", o)}
    BY <1>2, <1>3, ItemTypes, EffectItems DEF Invoke, Cancel
<1>5. /\ rt \in RuntimeState /\ rt.work = Tail(runtime.work) /\ rt.receipts = runtime.receipts
      /\ rt.life = runtime.life /\ rt.cancelled = runtime.cancelled /\ rt.tokens = runtime.tokens
    BY <1>2, SupervisorTypes DEF RuntimeState
<1>6. taken' \in Nat /\ todo' \subseteq Operations /\ errors \in Nat /\ overflowed \in BOOLEAN
      /\ owned[o] \in OwnedState /\ retirement \in BOOLEAN /\ blocked \in BOOLEAN
    BY <1>1, SupervisorTypes DEF Inv, Types
<1>7. \/ e.kind = "Cancel" /\ Cancelled(o, rt) /\ UNCHANGED process
      \/ e.kind = "Invoke" /\ Invoked(o, rt)
    BY <1>1, <1>3
<1>. HIDE DEF e, rt
<1>8. Follows(rt)
    BY <1>2, <1>5, PositiveConstants DEF Follows, Inv, Limits
<1>9. \A n \in Operations : n # o => SameWork(rt, n)
    BY <1>2, <1>4, <1>5 DEF SameWork, SameItems
<1>10. LessWork(rt, o)
    BY <1>2, <1>5 DEF LessWork
<1>11. Orderly(o) /\ Recognised(o) /\ ~Dead /\ ~RuntimeClosed /\ published = <<>>
    BY <1>1 DEF Inv, Serves, Dead, RuntimeClosed, Phases
<1>12. ASSUME e.kind = "Cancel", Cancelled(o, rt), UNCHANGED process  PROVE Inv'
    <2>1. /\ e \in Cancel(o) /\ Has(runtime.work, Cancel(o)) /\ CancelSent(o) /\ engine[o] = "Done"
          /\ ~Has(rt.work, Cancel(o))
        BY <1>2, <1>4, <1>5, <1>11, <1>12 DEF CancelSent, Orderly, Cancellations
    <2>2. ~Has(runtime.work, Invoke(o)) /\ ~Has(rt.work, Invoke(o)) /\ ~Issued(o) /\ engine[o] # "New"
        <3>1. ~Has(runtime.work, Invoke(o))
            BY <1>2, <1>4, <1>11, <1>12 DEF Orderly, Cancellations
        <3>. QED  BY <1>2, <1>5, <1>11, <2>1, <3>1, EmptyQueue DEF Issued
    <2>. DEFINE r == owned[o]
                learns == ~r.exited \/ r.stops > 0
                caused == [r EXCEPT !.noticed = TRUE,
                                    !.cause = IF @ = "None" /\ learns THEN "Cancellation" ELSE @]
                unknown == r = Absent /\ ~(o \in tombstones)
                kinds == {k \in {"UnknownCancellation"} : unknown}
                noted == [r EXCEPT !.noticed = TRUE]
    <2>3. \/ r.state = "Physical" /\ TickPhysical(o, caused, rt)
          \/ /\ r = Absent /\ o \in tombstones
             /\ tombstones' = tombstones \ {o} /\ runtime' = rt
             /\ UNCHANGED <<owned, blocked, accused, exit_acks, errors, overflowed>>
          \/ /\ r.state # "Physical" /\ (r = Absent => unknown)
             /\ Conclude(IF r.state = "AwaitingOutcome" THEN With(o, noted) ELSE Without(o),
                         rt, {}, unknown, kinds)
             /\ UNCHANGED <<exit_acks, errors, overflowed>>
        BY <1>12 DEF Cancelled
    <2>4. ASSUME r.state = "Physical", TickPhysical(o, caused, rt)  PROVE Inv'
        <3>1. r \in PhysicalState
            BY <1>6, <2>4, OwnedStates
        <3>2. caused \in PhysicalState /\ caused.exited = r.exited /\ caused.acked = r.acked
              /\ caused.noticed = TRUE
            <4>. DEFINE cause == IF r.cause = "None" /\ learns THEN "Cancellation" ELSE r.cause
            <4>1. cause \in Causes
                BY <3>1 DEF PhysicalState, Causes
            <4>2. caused = [r EXCEPT !.noticed = TRUE, !.cause = cause]
                BY <3>1 DEF PhysicalState
            <4>. HIDE DEF cause
            <4>. QED  BY <3>1, <4>1, <4>2 DEF PhysicalState, Causes
        <3>3. Physical(o)
            BY <2>4 DEF Physical
        <3>4. TickPhysical(o, caused, rt)
            BY <2>4
        <3>. HIDE DEF caused
        <3>. QED  BY <1>1, <1>5, <1>6, <1>8, <1>9, <1>10, <1>12, <2>1, <3>2, <3>3, <3>4, TickPhysicalKeeps
    <2>5. ASSUME tombstones' = tombstones \ {o}, runtime' = rt,
                 UNCHANGED <<owned, blocked, accused, exit_acks, errors, overflowed>>
          PROVE  Inv'
        BY <1>1, <1>5, <1>6, <1>8, <1>9, <1>10, <1>12, <2>1, <2>2, <2>5, TombstoneKeeps
    <2>6. ASSUME r.state # "Physical", r = Absent => unknown,
                 Conclude(IF r.state = "AwaitingOutcome" THEN With(o, noted) ELSE Without(o),
                          rt, {}, unknown, kinds),
                 UNCHANGED <<exit_acks, errors, overflowed>>
          PROVE  Inv'
        <3>. DEFINE kept == IF r.state = "AwaitingOutcome" THEN noted ELSE Absent
        <3>1. /\ kept \in OwnedState /\ kept.state # "Physical"
              /\ kept.state = "AwaitingOutcome" <=> r.state = "AwaitingOutcome"
              /\ kept # Absent => r # Absent
            <4>1. CASE r.state = "AwaitingOutcome"
                <5>1. r \in [state : {"AwaitingOutcome"}, noticed : BOOLEAN]
                    BY <1>6, <4>1 DEF OwnedState, PhysicalState
                <5>2. noted \in [state : {"AwaitingOutcome"}, noticed : BOOLEAN] /\ noted.state = "AwaitingOutcome"
                    BY <5>1
                <5>3. r # Absent
                    BY <4>1, OwnedStates
                <5>. QED  BY <4>1, <5>2, <5>3 DEF OwnedState
            <4>2. CASE r.state # "AwaitingOutcome"
                BY <4>2, OwnedStates
            <4>. QED  BY <4>1, <4>2
        <3>2. Conclude([owned EXCEPT ![o] = kept], rt, {}, unknown, kinds)
            BY <2>6 DEF With, Without
        <3>3. ~Physical(o) /\ (Awaits(o) <=> r.state = "AwaitingOutcome")
            BY <2>6 DEF Physical, Awaits
        <3>4. Allowed(kinds)
            <4>1. unknown => Exceeded
                BY <1>11, <2>1, <2>2 DEF Recognised, Due
            <4>. QED  BY <4>1 DEF Allowed
        <3>5. r # Absent => o \notin tombstones
            BY DEF Inv, Limits
        <3>. HIDE DEF kept, kinds, unknown
        <3>6. {} \in SUBSET {o} /\ (kept # Absent => o \notin tombstones /\ {} = {})
              /\ (kept = Absent \/ owned[o] # Absent \/ Cardinality(Owned) < MaxOwned)
              /\ (RuntimeClosed \/ (kept.state = "AwaitingOutcome" <=> Awaits(o)))
            BY <3>1, <3>3, <3>5
        <3>. QED  BY <1>1, <1>5, <1>6, <1>8, <1>9, <1>10, <1>12, <2>1, <2>2, <2>6, <3>1, <3>2, <3>3,
                     <3>4, <3>6, RecordKeeps
    <2>. QED  BY <2>3, <2>4, <2>5, <2>6
<1>13. ASSUME e.kind = "Invoke", Invoked(o, rt)  PROVE Inv'
    <2>1. Fresh(o) /\ engine[o] # "New" /\ ~Has(rt.work, Invoke(o))
        <3>1. e \in Invoke(o) /\ Has(runtime.work, Invoke(o))
            BY <1>2, <1>4, <1>13
        <3>. QED  BY <1>2, <1>5, <1>11, <3>1 DEF Orderly, Invocations, Issued
    <2>2. owned[o] = Absent /\ o \notin tombstones /\ ~Physical(o) /\ ~Awaits(o)
          /\ [owned EXCEPT ![o] = Absent] = owned
        BY <2>1, OwnedStates, SupervisorTypes DEF Fresh, Physical, Awaits
    <2>. DEFINE fenced == retirement \/ blocked
                conflict == ~fenced /\ (owned[o] # Absent \/ o \in tombstones)
                full == ~fenced /\ ~conflict /\ Cardinality(Owned) >= MaxOwned
                pending == [state |-> "PendingCompletion"]
                waiting == [state |-> "AwaitingCancellation"]
    <2>3. /\ UNCHANGED <<exit_acks, errors>> /\ overflowed' = (overflowed \/ full)
          /\ \/ fenced /\ UNCHANGED process /\ Conclude(owned, rt, {o}, FALSE, {})
             \/ conflict
             \/ full /\ UNCHANGED process /\ Conclude(owned, rt, {}, TRUE, {})
             \/ /\ ~fenced /\ ~conflict /\ ~full
                /\ \/ UNCHANGED process /\ Conclude(With(o, pending), rt, {}, FALSE, {})
                   \/ UNCHANGED process /\ Conclude(With(o, waiting), rt, {}, FALSE, {})
                   \/ /\ Conclude(With(o, Started), rt, {}, FALSE, {})
                      /\ process' = [process EXCEPT ![o] = "running"]
        BY <1>13 DEF Invoked
    <2>4. ~conflict
        BY <2>2
    <2>5. ~fenced /\ ~conflict /\ ~full => Cardinality(Owned) < MaxOwned /\ overflowed' = overflowed
        <3>1. Cardinality(Owned) \in Nat
            <4>1. Owned \subseteq Operations
                BY DEF Owned
            <4>. QED  BY <4>1, FiniteOperations
        <3>. QED  BY <1>6, <2>3, <3>1, PositiveConstants
    <2>6. full \in BOOLEAN /\ overflowed' \in BOOLEAN /\ (overflowed => overflowed') /\ (full => overflowed')
        BY <1>6, <2>3
    <2>. HIDE DEF fenced, conflict, full, pending, waiting
    <2>7. ASSUME NEW next \in OwnedState, next.state \notin {"Physical", "AwaitingOutcome"}, UNCHANGED process,
                 NEW bury \in SUBSET {o}, NEW fault,
                 Conclude([owned EXCEPT ![o] = next], rt, bury, fault, {}),
                 next # Absent => bury = {}, next = Absent \/ Cardinality(Owned) < MaxOwned,
                 next # Absent \/ bury = {o} \/ overflowed'
          PROVE  Inv'
        <3>1. Allowed({})
            BY NothingRecorded
        <3>2. next # Absent => o \notin tombstones /\ bury = {}
            BY <2>2, <2>7
        <3>3. next = Absent \/ owned[o] # Absent \/ Cardinality(Owned) < MaxOwned
            BY <2>7
        <3>4. RuntimeClosed \/ (next.state = "AwaitingOutcome" <=> Awaits(o))
            BY <2>2, <2>7
        <3>5. /\ next.state = "AwaitingOutcome" /\ next.noticed =>
                    engine[o] = "Done" /\ ~Has(rt.work, Cancel(o))
              /\ \/ next # Absent \/ bury = {o} \/ RuntimeClosed \/ overflowed'
                 \/ engine[o] = "Done" /\ ~Has(rt.work, Cancel(o))
            BY <2>7
        <3>. QED  BY <1>1, <1>5, <1>6, <1>8, <1>9, <1>10, <2>1, <2>2, <2>3, <2>6, <2>7, <3>1, <3>2, <3>3,
                     <3>4, <3>5, RecordKeeps
    <2>. DEFINE kept == Absent
    <2>0. kept \in OwnedState /\ kept.state = "Absent" /\ kept = Absent /\ [owned EXCEPT ![o] = kept] = owned
        BY <2>2, OwnedStates
    <2>. HIDE DEF kept
    <2>8. ASSUME fenced, UNCHANGED process, Conclude(owned, rt, {o}, FALSE, {})  PROVE Inv'
        <3>. DEFINE bury == {o}
        <3>1. Conclude([owned EXCEPT ![o] = kept], rt, bury, FALSE, {}) /\ bury \in SUBSET {o}
            BY <2>0, <2>8
        <3>2. bury = {o}
            OBVIOUS
        <3>. HIDE DEF bury
        <3>. QED  BY <2>0, <2>7, <2>8, <3>1, <3>2
    <2>9. ASSUME full, UNCHANGED process, Conclude(owned, rt, {}, TRUE, {})  PROVE Inv'
        <3>1. Conclude([owned EXCEPT ![o] = kept], rt, {}, TRUE, {}) /\ {} \in SUBSET {o}
            BY <2>0, <2>9
        <3>. QED  BY <2>0, <2>6, <2>7, <2>9, <3>1
    <2>10. ASSUME ~fenced, ~full, UNCHANGED process, NEW begun \in {pending, waiting},
                  Conclude(With(o, begun), rt, {}, FALSE, {})
           PROVE  Inv'
        <3>1. begun \in OwnedState /\ begun.state \notin {"Physical", "AwaitingOutcome", "Absent"}
            BY <2>10, OwnedStates DEF pending, waiting
        <3>2. begun # Absent
            BY <3>1, OwnedStates
        <3>3. Conclude([owned EXCEPT ![o] = begun], rt, {}, FALSE, {})
            BY <2>10 DEF With
        <3>. QED  BY <2>4, <2>5, <2>7, <2>10, <3>1, <3>2, <3>3
    <2>11. ASSUME ~fenced, ~full, Conclude(With(o, Started), rt, {}, FALSE, {}),
                  process' = [process EXCEPT ![o] = "running"]
           PROVE  Inv'
        <3>1. UNCHANGED <<exit_acks, errors, overflowed>> /\ Cardinality(Owned) < MaxOwned
            BY <2>3, <2>4, <2>5, <2>11
        <3>. QED  BY <1>1, <1>5, <1>6, <1>8, <1>9, <1>10, <2>1, <2>11, <3>1, StartKeeps
    <2>. QED  BY <2>3, <2>4, <2>8, <2>9, <2>10, <2>11
<1>. QED  BY <1>7, <1>12, <1>13

-----------------------------------------------------------------------------
(* The rest of the tick, the owner of the runtime and the world.           *)

\* A step that at most fences operations, asks for the detach and quiesces.
LEMMA OutsideKeeps ==
    ASSUME Inv, \A n \in Operations : Alike(owned'[n], owned[n]),
           owned' \in [Operations -> OwnedState],
           Tame(runtime', runtime), RuntimeClosed' <=> RuntimeClosed,
           ingress' \in Seq(Commands),
           \A n \in Operations : SameItems(ingress', ingress, ObserveOf(n)),
           UNCHANGED <<batch, outcomes, published, engine, bound, lane, outstanding, tombstones,
                       exit_acks, provider_exit_acks, told, process, accused, overflowed, unread>>,
           sequence' \in {"open", "spent", "exhausted"}, errors' \in Nat, taken' \in Nat,
           todo' \subseteq Operations, retirement' \in BOOLEAN, blocked' \in BOOLEAN,
           closed' \in BOOLEAN,
           pc' \in {"idle", "drain", "reduce", "publish", "outcomes", "owned", "work", "collect"},
           pc' \notin {"publish", "outcomes"} => pc \notin {"publish", "outcomes"},
           Phases'
    PROVE  Inv'
<1>1. \A n \in Operations : /\ Awaits(n)' <=> Awaits(n)
                            /\ owned'[n] = Absent <=> owned[n] = Absent
    BY DEF Alike, Awaits
<1>2. Waiting' = Waiting /\ Owned' = Owned /\ (Exceeded' <=> Exceeded) /\ (Dead => Dead')
    BY <1>1 DEF Waiting, Owned, Exceeded, Dead, Tame, DeadLives
<1>3. Types'
    BY DEF Inv, Types, Tame
<1>4. Accounts'
    BY <1>2 DEF Inv, Accounts, Cleared, Tame
<1>5. Attachment'
    BY DEF Inv, Attachment, Tame
<1>6. Limits'
    <2>1. \A n \in tombstones : owned'[n] = Absent
        BY <1>1 DEF Inv, Limits, Types
    <2>. QED  BY <1>2, <2>1 DEF Inv, Limits, Tame
<1>7. Reported'
    BY <1>2 DEF Inv, Reported, NoFalseAccusation, Tame
<1>8. ASSUME NEW n \in Operations  PROVE Orderly(n)' /\ Recognised(n)'
    <2>1. IsCancelled(n) => IsCancelled(n)'
        BY DEF IsCancelled, Tame
    <2>2. Undisturbed(n)
        BY <2>1 DEF Undisturbed, SameItems, Tame
    <2>. QED  BY <1>2, <2>2, Elsewhere, RecognisedElsewhere DEF Inv
<1>. QED  BY <1>3, <1>4, <1>5, <1>6, <1>7, <1>8 DEF Inv

\* What does not change is alike.
LEMMA Unchanged ==
    ASSUME Inv
    PROVE  /\ Tame(runtime, runtime)
           /\ owned \in [Operations -> OwnedState] /\ \A n \in Operations : Alike(owned[n], owned[n])
           /\ ingress \in Seq(Commands)
           /\ \A n \in Operations : SameItems(ingress, ingress, ObserveOf(n))
           /\ sequence \in {"open", "spent", "exhausted"} /\ errors \in Nat /\ taken \in Nat
           /\ todo \subseteq Operations /\ retirement \in BOOLEAN /\ blocked \in BOOLEAN
           /\ closed \in BOOLEAN
<1>1. Tame(runtime, runtime)
    BY SupervisorTypes, HandleIsTame
<1>. QED  BY <1>1, SupervisorTypes DEF Inv, Types, Alike

\* The operations are looked at.
LEMMA EndOwnedKeeps ==
    ASSUME Inv, EndOwned  PROVE Inv'
<1>1. /\ pc = "owned" /\ closed' = (RuntimeClosed /\ Owned = {})
      /\ blocked' = (blocked /\ ~(closed' /\ retirement))
      /\ pc' = IF RuntimeClosed THEN "collect" ELSE "work"
      /\ taken' = taken
      /\ UNCHANGED <<batch, outcomes, published, todo, ingress, engine, bound, lane, sequence,
                     runtime, owned, outstanding, retirement, tombstones, exit_acks,
                     provider_exit_acks, told, process, errors, accused, overflowed, unread>>
    BY DEF EndOwned, thread_vars, kernel_vars, ack_vars, world_vars
<1>2. closed' \in BOOLEAN /\ blocked' \in BOOLEAN /\ taken' \in Nat
    BY <1>1, Unchanged, PositiveConstants
<1>3. RuntimeClosed' <=> RuntimeClosed
    BY <1>1 DEF RuntimeClosed
<1>4. Phases'
    <2>1. closed' => \A n \in Operations : owned'[n] = Absent
        BY <1>1 DEF Owned
    <2>. QED  BY <1>1, <1>3, <2>1 DEF Inv, Phases
<1>5. pc' \in {"idle", "drain", "reduce", "publish", "outcomes", "owned", "work", "collect"}
      /\ (pc' \notin {"publish", "outcomes"} => pc \notin {"publish", "outcomes"})
    BY <1>1
<1>. QED  BY <1>1, <1>2, <1>3, <1>4, <1>5, Unchanged, OutsideKeeps

\* The tick ends, and may ask for the detach.
LEMMA FinishKeeps ==
    ASSUME Inv, Finish  PROVE Inv'
<1>1. /\ pc = "work" /\ pc' = "collect" /\ taken' = 0
      /\ \/ RequestRuntimeClose(FALSE)
         \/ UNCHANGED <<ingress, sequence, runtime, blocked, errors>>
      /\ UNCHANGED <<batch, outcomes, published, todo, engine, bound, lane, owned, outstanding,
                     retirement, closed, tombstones, exit_acks, provider_exit_acks, told,
                     process, accused, overflowed, unread>>
    BY DEF Finish, ack_vars
<1>2. /\ pc' \in {"idle", "drain", "reduce", "publish", "outcomes", "owned", "work", "collect"}
      /\ (pc' \notin {"publish", "outcomes"} => pc \notin {"publish", "outcomes"})
      /\ taken' \in Nat /\ Phases'
    BY <1>1 DEF Inv, Phases
<1>3. CASE UNCHANGED <<ingress, sequence, runtime, blocked, errors>>
    <2>1. RuntimeClosed' <=> RuntimeClosed
        BY <1>3 DEF RuntimeClosed
    <2>. QED  BY <1>1, <1>2, <1>3, <2>1, Unchanged, OutsideKeeps
<1>4. CASE RequestRuntimeClose(FALSE)
    <2>1. /\ CloseSent(runtime) \/ CloseFull(runtime) \/ CloseExhausted(runtime)
          /\ blocked' \in BOOLEAN
        BY <1>4 DEF RequestRuntimeClose
    <2>2. ~RuntimeClosed /\ runtime.life # "Closed" /\ Types
        BY <1>1 DEF Inv, Phases, RuntimeClosed
    <2>3. /\ Tame(runtime', runtime) /\ runtime'.life \in {"DetachSent", "ClosingRetry"}
          /\ ingress' \in Seq(Commands)
          /\ \A n \in Operations : SameItems(ingress', ingress, ObserveOf(n))
          /\ sequence' \in {"open", "spent", "exhausted"} /\ errors' \in Nat
        BY <2>1, <2>2, Closing
    <2>4. RuntimeClosed' <=> RuntimeClosed
        BY <2>2, <2>3 DEF RuntimeClosed
    <2>. QED  BY <1>1, <1>2, <2>1, <2>3, <2>4, Unchanged, OutsideKeeps
<1>. QED  BY <1>1, <1>3, <1>4

\* The retirement begins.
LEMMA BeginRetirementKeeps ==
    ASSUME Inv, BeginRetirement  PROVE Inv'
<1>. DEFINE fence(r) == IF r.state = "Physical" /\ Untouched(r)
                        THEN [r EXCEPT !.cause = "Retirement"] ELSE r
<1>1. /\ pc = "idle" /\ pc' = "idle" /\ retirement' = TRUE
      /\ owned' = [o \in Operations |-> fence(owned[o])]
      /\ closed' = (RuntimeClosed /\ Owned = {})
      /\ \/ /\ RuntimeClosed
            /\ blocked' = (blocked /\ ~closed')
            /\ UNCHANGED <<runtime, ingress, sequence, errors>>
         \/ runtime.life = "AttachSent" /\ RequestRuntimeClose(blocked)
         \/ /\ ~(runtime.life \in {"AttachSent", "Closed"})
            /\ runtime' = Quiesced(runtime)
            /\ UNCHANGED <<blocked, ingress, sequence, errors>>
      /\ UNCHANGED <<batch, outcomes, published, todo, taken, engine, bound, lane, outstanding,
                     tombstones, exit_acks, provider_exit_acks, told, process, accused,
                     overflowed, unread>>
    BY DEF BeginRetirement, thread_vars, ack_vars
<1>2. \A n \in Operations : owned[n] \in OwnedState /\ retirement \in BOOLEAN
    BY Unchanged
<1>3. \A n \in Operations : Alike(fence(owned[n]), owned[n])
    BY <1>2, FencesAreAlike
<1>. HIDE DEF fence
<1>4. /\ owned' \in [Operations -> OwnedState]
      /\ \A n \in Operations : Alike(owned'[n], owned[n])
    BY <1>1, <1>3 DEF Alike
<1>5. /\ Tame(runtime', runtime) /\ (RuntimeClosed' <=> RuntimeClosed)
      /\ ingress' \in Seq(Commands)
      /\ \A n \in Operations : SameItems(ingress', ingress, ObserveOf(n))
      /\ sequence' \in {"open", "spent", "exhausted"} /\ errors' \in Nat /\ blocked' \in BOOLEAN
    <2>1. CASE RuntimeClosed /\ blocked' = (blocked /\ ~closed')
               /\ UNCHANGED <<runtime, ingress, sequence, errors>>
        BY <1>1, <2>1, Unchanged DEF RuntimeClosed
    <2>2. CASE runtime.life = "AttachSent" /\ RequestRuntimeClose(blocked)
        <3>1. /\ CloseSent(runtime) \/ CloseFull(runtime) \/ CloseExhausted(runtime)
              /\ blocked' \in BOOLEAN
            BY <2>2, Unchanged DEF RequestRuntimeClose
        <3>2. runtime.life # "Closed" /\ Types
            BY <2>2 DEF Inv
        <3>3. /\ Tame(runtime', runtime) /\ runtime'.life \in {"DetachSent", "ClosingRetry"}
              /\ ingress' \in Seq(Commands)
              /\ \A n \in Operations : SameItems(ingress', ingress, ObserveOf(n))
              /\ sequence' \in {"open", "spent", "exhausted"} /\ errors' \in Nat
            BY <3>1, <3>2, Closing
        <3>. QED  BY <3>1, <3>2, <3>3 DEF RuntimeClosed
    <2>3. CASE ~(runtime.life \in {"AttachSent", "Closed"}) /\ runtime' = Quiesced(runtime)
               /\ UNCHANGED <<blocked, ingress, sequence, errors>>
        <3>1. Tame(Quiesced(runtime), runtime) /\ (Quiesced(runtime).life = "Closed" => runtime.life = "Closed")
            BY SupervisorTypes, HandleIsTame
        <3>. QED  BY <2>3, <3>1, Unchanged DEF RuntimeClosed
    <2>. QED  BY <1>1, <2>1, <2>2, <2>3
<1>6. Phases'
    <2>1. closed' => \A n \in Operations : owned'[n] = Absent
        BY <1>1, <1>4 DEF Owned, Alike
    <2>. QED  BY <1>1, <2>1 DEF Inv, Phases
<1>7. /\ pc' \in {"idle", "drain", "reduce", "publish", "outcomes", "owned", "work", "collect"}
      /\ pc' \notin {"publish", "outcomes"} => pc \notin {"publish", "outcomes"}
      /\ retirement' \in BOOLEAN /\ closed' \in BOOLEAN /\ taken' \in Nat /\ todo' \subseteq Operations
    BY <1>1, Unchanged DEF RuntimeClosed
<1>. QED  BY <1>1, <1>4, <1>5, <1>6, <1>7, OutsideKeeps

\* A grace period ends.
LEMMA GraceEndsKeeps ==
    ASSUME Inv, NEW o \in Operations, GraceEnds(o)  PROVE Inv'
<1>1. /\ owned[o].state = "Physical"
      /\ owned' = [owned EXCEPT ![o].late = TRUE]
      /\ UNCHANGED <<pc, batch, outcomes, published, todo, taken, ingress, engine, bound, lane,
                     sequence, runtime, outstanding, retirement, blocked, closed, tombstones,
                     exit_acks, provider_exit_acks, told, process, errors, accused, overflowed, unread>>
    BY DEF GraceEnds, thread_vars, kernel_vars, ack_vars, world_vars
<1>. DEFINE kept == [owned[o] EXCEPT !.late = TRUE]
<1>2. owned[o] \in PhysicalState
    BY <1>1, SupervisorTypes, OwnedStates
<1>3. kept \in PhysicalState /\ kept.state = "Physical" /\ kept.exited = owned[o].exited
      /\ kept.acked = owned[o].acked /\ kept.noticed = owned[o].noticed
    BY <1>2 DEF PhysicalState
<1>4. owned' = [owned EXCEPT ![o] = kept]
    BY <1>1
<1>. HIDE DEF kept
<1>5. Alike(kept, owned[o]) /\ kept \in OwnedState
    BY <1>1, <1>3, OwnedStates DEF Alike
<1>6. /\ owned' \in [Operations -> OwnedState]
      /\ \A n \in Operations : Alike(owned'[n], owned[n])
    BY <1>4, <1>5, Unchanged, Replacing
<1>7. /\ RuntimeClosed' <=> RuntimeClosed
      /\ pc' \in {"idle", "drain", "reduce", "publish", "outcomes", "owned", "work", "collect"}
      /\ pc' \notin {"publish", "outcomes"} => pc \notin {"publish", "outcomes"}
    BY <1>1 DEF RuntimeClosed, Inv, Types
<1>8. Phases'
    <2>1. ~closed
        BY <1>1, OwnedStates DEF Inv, Phases
    <2>. QED  BY <1>1, <1>7, <2>1 DEF Inv, Phases
<1>. QED  BY <1>1, <1>6, <1>7, <1>8, Unchanged, OutsideKeeps

\* A process ends.
LEMMA ProcessExitsKeeps ==
    ASSUME Inv, NEW o \in Operations, ProcessExits(o)  PROVE Inv'
<1>1. /\ process[o] = "running" /\ process' = [process EXCEPT ![o] = "exited"]
      /\ UNCHANGED <<pc, batch, outcomes, published, todo, taken, ingress, engine, bound, lane,
                     sequence, runtime, owned, outstanding, retirement, blocked, closed,
                     tombstones, exit_acks, provider_exit_acks, told, errors, accused, overflowed, unread>>
    BY DEF ProcessExits, thread_vars, kernel_vars, own_vars, ack_vars
<1>2. process' \in [Operations -> {"none", "running", "exited"}] /\ process'[o] = "exited"
      /\ \A n \in Operations : n # o => process'[n] = process[n]
    BY <1>1, SupervisorTypes
<1>3. Waiting' = Waiting /\ Owned' = Owned /\ (Exceeded' <=> Exceeded) /\ (Dead' <=> Dead)
      /\ (RuntimeClosed' <=> RuntimeClosed)
    BY <1>1 DEF Waiting, Awaits, Owned, Exceeded, Dead, RuntimeClosed
<1>4. Types'
    BY <1>1, <1>2 DEF Inv, Types
<1>5. Phases' /\ Accounts' /\ Attachment' /\ Limits' /\ Reported'
    BY <1>1, <1>3 DEF Inv, Phases, Accounts, Cleared, Attachment, Limits, Reported, NoFalseAccusation
<1>6. ASSUME NEW n \in Operations, n # o  PROVE Orderly(n)'
    <2>1. Undisturbed(n)
        BY <1>1, <1>2, <1>3, <1>6, Unchanged DEF Undisturbed, SameItems, IsCancelled
    <2>. QED  BY <2>1, Elsewhere DEF Inv
<1>7. Orderly(o)'
    <2>1. Orderly(o) /\ Physical(o) /\ ~Acked(o)
        BY <1>1 DEF Inv, Orderly, Held, Acknowledged
    <2>2. engine[o] # "New" /\ ~Issued(o)
        BY <1>1, <2>1 DEF Orderly, Invocations, Fresh
    <2>3. Held(o)'
        BY <1>1, <1>2, <2>1 DEF Held, Physical, Orderly
    <2>4. Invocations(o)'
        BY <1>1, <2>1, <2>2 DEF Orderly, Invocations, Issued
    <2>5. Cancellations(o)'
        BY <1>1, <2>1 DEF Orderly, Cancellations, CancelSent, IsCancelled, Noticed, Physical, Awaits
    <2>6. Answers(o)'
        BY <1>1, <1>3, <2>1 DEF Orderly, Answers, Sent, Received, Awaits
    <2>7. Acknowledged(o)'
        BY <1>1, <1>2, <2>1 DEF Orderly, Acknowledged, Acked, Told, Physical
    <2>. QED  BY <2>3, <2>4, <2>5, <2>6, <2>7 DEF Orderly
<1>8. \A n \in Operations : Recognised(n)'
    BY <1>1, <1>3 DEF Inv, Recognised, Due, Issued, CancelSent
<1>. QED  BY <1>4, <1>5, <1>6, <1>7, <1>8 DEF Inv

-----------------------------------------------------------------------------
(* The acknowledgements.                                                   *)

\* collect_provider_exit_acks moves what there is room for, and loses nothing.
LEMMA Collecting ==
    ASSUME Inv, NEW rest, NEW acks, rest = Collected.rest, acks = Collected.acks
    PROVE  /\ rest \in Seq(Acks) /\ acks \in Seq(Acks)
           /\ Len(rest) <= MaxAcks /\ Len(acks) <= MaxAcks
           /\ \A M : Has(rest, M) \/ Has(acks, M) <=> Has(exit_acks, M) \/ Has(provider_exit_acks, M)
           /\ \A M : /\ One(exit_acks, M) /\ One(provider_exit_acks, M)
                     /\ ~(Has(exit_acks, M) /\ Has(provider_exit_acks, M))
                     => /\ One(rest, M) /\ One(acks, M)
                        /\ ~(Has(rest, M) /\ Has(acks, M))
<1>1. /\ exit_acks \in Seq(Acks) /\ provider_exit_acks \in Seq(Acks)
      /\ Len(exit_acks) \in Nat /\ Len(provider_exit_acks) \in Nat
      /\ Len(exit_acks) <= MaxAcks /\ Len(provider_exit_acks) <= MaxAcks
      /\ MaxAcks \in Nat
    BY PositiveConstants, LenProperties DEF Inv, Types, Limits
<1>. DEFINE room == MaxAcks - Len(provider_exit_acks)
            n == IF Len(exit_acks) < room THEN Len(exit_acks) ELSE room
            p == SubSeq(exit_acks, 1, n)
            q == SubSeq(exit_acks, n + 1, Len(exit_acks))
<1>2. n \in 0 .. Len(exit_acks) /\ n <= MaxAcks - Len(provider_exit_acks)
    BY <1>1
<1>3. rest = q /\ acks = provider_exit_acks \o p
    BY DEF Collected
<1>. HIDE DEF n
<1>4. /\ p \in Seq(Acks) /\ Len(p) = n
      /\ q \in Seq(Acks) /\ Len(q) = Len(exit_acks) - n
      /\ \A M : Has(exit_acks, M) <=> Has(p, M) \/ Has(q, M)
      /\ \A M : One(exit_acks, M) => One(p, M) /\ One(q, M) /\ ~(Has(p, M) /\ Has(q, M))
    BY <1>1, <1>2, SplitQueue
<1>. HIDE DEF p, q
<1>5. /\ acks \in Seq(Acks) /\ Len(acks) = Len(provider_exit_acks) + Len(p)
      /\ \A M : Has(acks, M) <=> Has(provider_exit_acks, M) \/ Has(p, M)
      /\ \A M : One(provider_exit_acks, M) /\ One(p, M) /\ ~(Has(provider_exit_acks, M) /\ Has(p, M))
                => One(acks, M)
    <2>. DEFINE u == provider_exit_acks \o p
    <2>1. /\ u \in Seq(Acks) /\ Len(u) = Len(provider_exit_acks) + Len(p)
          /\ \A M : Has(u, M) <=> Has(provider_exit_acks, M) \/ Has(p, M)
          /\ \A M : One(provider_exit_acks, M) /\ One(p, M) /\ ~(Has(provider_exit_acks, M) /\ Has(p, M))
                    => One(u, M)
        BY <1>1, <1>4, ConcatQueue
    <2>2. acks = u
        BY <1>3
    <2>. HIDE DEF u
    <2>. QED  BY <2>1, <2>2
<1>6. Len(rest) <= MaxAcks /\ Len(acks) <= MaxAcks
    BY <1>1, <1>2, <1>3, <1>4, <1>5
<1>. QED  BY <1>3, <1>4, <1>5, <1>6

\* The acknowledgements move, and nothing else.
LEMMA AcksMove ==
    ASSUME Inv, exit_acks' \in Seq(Acks), provider_exit_acks' \in Seq(Acks), told' \subseteq Acks,
           Len(exit_acks') <= MaxAcks, Len(provider_exit_acks') <= MaxAcks,
           ~Has(exit_acks', Unexplained), ~Has(provider_exit_acks', Unexplained),
           told' \cap Unexplained = {},
           \A o \in Operations : Acknowledged(o)',
           pc \in {"idle", "collect"}, pc' = "idle",
           UNCHANGED <<batch, outcomes, published, todo, taken, ingress, engine, bound, lane,
                       sequence, runtime, owned, outstanding, retirement, blocked, closed,
                       tombstones, process, errors, accused, overflowed, unread>>
    PROVE  Inv'
<1>1. Waiting' = Waiting /\ Owned' = Owned /\ (Exceeded' <=> Exceeded) /\ (Dead' <=> Dead)
      /\ (RuntimeClosed' <=> RuntimeClosed)
    BY DEF Waiting, Awaits, Owned, Exceeded, Dead, RuntimeClosed
<1>2. Types'
    BY DEF Inv, Types
<1>3. Phases' /\ Attachment' /\ Limits' /\ Reported'
    BY <1>1 DEF Inv, Phases, Attachment, Limits, Reported, NoFalseAccusation
<1>4. Accounts'
    BY <1>1 DEF Inv, Accounts, Cleared
<1>5. ASSUME NEW o \in Operations  PROVE Orderly(o)' /\ Recognised(o)'
    <2>1. Orderly(o) /\ Recognised(o)
        BY DEF Inv
    <2>2. Held(o)' /\ Invocations(o)'
        BY <2>1 DEF Orderly, Held, Physical, Invocations, Issued, Fresh, Sent
    <2>3. Cancellations(o)'
        BY <2>1 DEF Orderly, Cancellations, CancelSent, IsCancelled, Noticed, Physical, Awaits
    <2>4. Answers(o)'
        BY <1>1, <2>1 DEF Orderly, Answers, Sent, Received, Awaits, Physical
    <2>5. Recognised(o)'
        BY <1>1, <2>1 DEF Recognised, Due, Issued, CancelSent
    <2>. QED  BY <2>2, <2>3, <2>4, <2>5 DEF Orderly
<1>. QED  BY <1>2, <1>3, <1>4, <1>5 DEF Inv

\* NativeRuntime collects the acknowledgements.
LEMMA CollectKeeps ==
    ASSUME Inv, Collect  PROVE Inv'
<1>1. /\ exit_acks' = Collected.rest /\ provider_exit_acks' = Collected.acks
      /\ pc = "collect" /\ pc' = "idle"
      /\ UNCHANGED <<batch, outcomes, published, todo, taken, ingress, engine, bound, lane,
                     sequence, runtime, owned, outstanding, retirement, blocked, closed,
                     tombstones, told, process, errors, accused, overflowed, unread>>
    BY DEF Collect, thread_vars, kernel_vars, own_vars, world_vars
<1>2. /\ exit_acks' \in Seq(Acks) /\ provider_exit_acks' \in Seq(Acks)
      /\ Len(exit_acks') <= MaxAcks /\ Len(provider_exit_acks') <= MaxAcks
      /\ \A M : Has(exit_acks', M) \/ Has(provider_exit_acks', M)
                  <=> Has(exit_acks, M) \/ Has(provider_exit_acks, M)
      /\ \A M : /\ One(exit_acks, M) /\ One(provider_exit_acks, M)
                /\ ~(Has(exit_acks, M) /\ Has(provider_exit_acks, M))
                => /\ One(exit_acks', M) /\ One(provider_exit_acks', M)
                   /\ ~(Has(exit_acks', M) /\ Has(provider_exit_acks', M))
    BY <1>1, Collecting
<1>3. ASSUME NEW o \in Operations  PROVE Acknowledged(o)'
    <2>1. Acknowledged(o)
        BY DEF Inv, Orderly
    <2>2. /\ Told(o)' <=> Told(o)
          /\ Acked(o)' <=> Acked(o)
          /\ Physical(o)' <=> Physical(o)
        BY <1>1, <1>2 DEF Told, Acked, Physical
    <2>. QED  BY <1>1, <1>2, <2>1, <2>2 DEF Acknowledged, Acked
<1>4. ~Has(exit_acks', Unexplained) /\ ~Has(provider_exit_acks', Unexplained)
    BY <1>2 DEF Inv, Reported, NoFalseAccusation
<1>5. told' \subseteq Acks /\ told' \cap Unexplained = {}
    BY <1>1 DEF Inv, Types, Reported, NoFalseAccusation
<1>. QED  BY <1>1, <1>2, <1>3, <1>4, <1>5, AcksMove

\* The owner of the runtime reads the acknowledgements.
LEMMA DrainAcksKeeps ==
    ASSUME Inv, DrainAcks  PROVE Inv'
<1>. DEFINE acks == Collected.acks
<1>1. /\ exit_acks' = Collected.rest /\ provider_exit_acks' = <<>> /\ told' = told \cup Range(acks)
      /\ pc = "idle" /\ pc' = "idle"
      /\ UNCHANGED <<batch, outcomes, published, todo, taken, ingress, engine, bound, lane,
                     sequence, runtime, owned, outstanding, retirement, blocked, closed,
                     tombstones, process, errors, accused, overflowed, unread>>
    BY DEF DrainAcks, thread_vars, kernel_vars, own_vars, world_vars
<1>2. /\ exit_acks' \in Seq(Acks) /\ acks \in Seq(Acks)
      /\ Len(exit_acks') <= MaxAcks
      /\ \A M : Has(exit_acks', M) \/ Has(acks, M) <=> Has(exit_acks, M) \/ Has(provider_exit_acks, M)
      /\ \A M : /\ One(exit_acks, M) /\ One(provider_exit_acks, M)
                /\ ~(Has(exit_acks, M) /\ Has(provider_exit_acks, M))
                => /\ One(exit_acks', M) /\ One(acks, M)
                   /\ ~(Has(exit_acks', M) /\ Has(acks, M))
    BY <1>1, Collecting
<1>. HIDE DEF acks
<1>3. /\ Range(acks) \subseteq Acks
      /\ \A M : Has(acks, M) <=> Range(acks) \cap M # {}
      /\ \A M : One(acks, M) => \A a, b \in Range(acks) \cap M : a = b
    BY <1>2, RangeQueue
<1>4. /\ provider_exit_acks' \in Seq(Acks) /\ Len(provider_exit_acks') = 0
      /\ \A M : ~Has(provider_exit_acks', M) /\ One(provider_exit_acks', M)
    BY <1>1, EmptyQueue
<1>5. ASSUME NEW o \in Operations  PROVE Acknowledged(o)'
    <2>1. Acknowledged(o)
        BY DEF Inv, Orderly
    <2>2. told' \cap AckOf(o) = (told \cap AckOf(o)) \cup (Range(acks) \cap AckOf(o))
        BY <1>1
    <2>3. /\ Told(o)' <=> Told(o) \/ Has(acks, AckOf(o))
          /\ Acked(o)' <=> Acked(o)
          /\ Physical(o)' <=> Physical(o)
        BY <1>1, <1>2, <1>3, <1>4, <2>2 DEF Told, Acked, Physical
    <2>4. /\ One(exit_acks', AckOf(o)) /\ One(acks, AckOf(o))
          /\ ~(Has(exit_acks', AckOf(o)) /\ Has(acks, AckOf(o)))
          /\ Has(exit_acks', AckOf(o)) \/ Has(acks, AckOf(o)) => ~Told(o)
        BY <1>2, <2>1 DEF Acknowledged
    <2>5. \A a, b \in told' \cap AckOf(o) : a = b
        BY <1>3, <2>1, <2>2, <2>4 DEF Acknowledged, Told
    <2>. QED  BY <1>1, <1>4, <2>1, <2>3, <2>4, <2>5 DEF Acknowledged
<1>6. ~Has(exit_acks', Unexplained) /\ ~Has(provider_exit_acks', Unexplained)
    BY <1>2, <1>4 DEF Inv, Reported, NoFalseAccusation
<1>7. told' \subseteq Acks /\ told' \cap Unexplained = {}
    <2>1. ~Has(acks, Unexplained) /\ told \subseteq Acks /\ told \cap Unexplained = {}
        BY <1>2 DEF Inv, Reported, NoFalseAccusation, Types
    <2>. QED  BY <1>1, <1>3, <2>1
<1>8. Len(provider_exit_acks') <= MaxAcks
    BY <1>4, PositiveConstants
<1>. QED  BY <1>1, <1>2, <1>4, <1>5, <1>6, <1>7, <1>8, AcksMove

-----------------------------------------------------------------------------
(* The invariant.                                                          *)

\* The installed provider satisfies the invariant.
LEMMA InitHolds ==
    ASSUME Init  PROVE Inv
<1>1. /\ ingress \in Seq(Commands)
      /\ \A o \in Operations : ~Has(ingress, ObserveOf(o)) /\ One(ingress, ObserveOf(o))
    <2>. DEFINE c == [kind |-> "Attach", operation |-> 0]
                u == Append(<<>>, c)
    <2>1. ingress = u
        BY DEF Init
    <2>2. c \in Commands /\ <<>> \in Seq(Commands) /\ \A o \in Operations : c \notin ObserveOf(o)
        BY NewItems, EmptyQueue DEF ObserveOf
    <2>. HIDE DEF c
    <2>3. /\ u \in Seq(Commands)
          /\ \A M : Has(u, M) <=> Has(<<>>, M) \/ c \in M
          /\ \A M : One(<<>>, M) /\ ~(Has(<<>>, M) /\ c \in M) => One(u, M)
        BY <2>2, AppendQueue
    <2>. HIDE DEF u
    <2>. QED  BY <2>1, <2>2, <2>3, EmptyQueue
<1>2. /\ batch = <<>> /\ outcomes = <<>> /\ published = <<>> /\ exit_acks = <<>>
      /\ provider_exit_acks = <<>> /\ runtime.work = <<>> /\ runtime.receipts = <<>>
      /\ runtime.life = "AttachSent" /\ pc = "idle" /\ bound = FALSE /\ told = {}
      /\ accused = {} /\ outstanding = 0 /\ closed = FALSE /\ tombstones = {} /\ unread = FALSE
      /\ \A o \in Operations : engine[o] = "New" /\ owned[o] = Absent /\ process[o] = "none"
    BY DEF Init
<1>3. runtime \in RuntimeState
    BY EmptyQueue DEF Init, RuntimeState, Lives
<1>4. Absent \in OwnedState /\ Absent.state = "Absent"
    BY DEF Absent, OwnedState
<1>5. Types
    BY <1>1, <1>3, <1>4, EmptyQueue DEF Init, Types
<1>6. Waiting = {} /\ Owned = {}
    BY <1>2, <1>4 DEF Waiting, Awaits, Owned
<1>7. Cardinality(Waiting) = 0 /\ Cardinality(Owned) = 0
    BY <1>6, FS_EmptySet
<1>8. Phases /\ Accounts /\ Attachment
    BY <1>2, <1>7 DEF Phases, Accounts, Cleared, Attachment, RuntimeClosed
<1>9. Limits
    BY <1>2, <1>7, EmptyQueue, PositiveConstants DEF Limits
<1>10. Reported
    BY <1>2, EmptyQueue DEF Reported, NoFalseAccusation
<1>11. ASSUME NEW o \in Operations  PROVE Orderly(o) /\ Recognised(o)
    <2>1. /\ ~Physical(o) /\ ~Awaits(o) /\ ~Noticed(o)
          /\ ~Issued(o) /\ ~Sent(o) /\ ~CancelSent(o) /\ ~Received(o) /\ ~Told(o) /\ ~Acked(o)
        BY <1>1, <1>2, <1>4, EmptyQueue DEF Physical, Awaits, Noticed, Issued, Sent, CancelSent,
           Received, Told, Acked
    <2>2. Held(o) /\ Invocations(o)
        BY <1>2, <2>1, EmptyQueue DEF Held, Invocations, Fresh
    <2>3. Cancellations(o)
        BY <1>2, <2>1, EmptyQueue DEF Cancellations, CancelSent
    <2>4. Answers(o)
        BY <1>1, <1>2, <2>1, EmptyQueue DEF Answers
    <2>5. Acknowledged(o)
        BY <1>2, <2>1, EmptyQueue DEF Acknowledged, Acked
    <2>6. Recognised(o)
        BY <1>2, <2>1 DEF Recognised, Due
    <2>. QED  BY <2>2, <2>3, <2>4, <2>5, <2>6 DEF Orderly
<1>. QED  BY <1>5, <1>8, <1>9, <1>10, <1>11 DEF Inv

\* Every step preserves it.
LEMMA NextKeeps ==
    ASSUME Inv, [Next]_vars  PROVE Inv'
<1>1. CASE Kernel
    BY <1>1, FlushClosingKeeps, DrainIngressKeeps, ReduceCommandKeeps, EndReduceKeeps,
       PublishOutcomeKeeps, PublishEffectKeeps, FinishStepKeeps DEF Kernel
<1>2. CASE Tick
    BY <1>2, TakeOutcomeKeeps, EndOutcomesKeeps, TickOwnedKeeps, EndOwnedKeeps, TakeWorkKeeps,
       FinishKeeps, CollectKeeps DEF Tick
<1>3. CASE Engine
    BY <1>3, EngineInvokeKeeps, EngineCloseKeeps, LaneFailsKeeps, SequenceSpentKeeps DEF Engine
<1>4. CASE World
    BY <1>4, ProcessExitsKeeps, GraceEndsKeeps DEF World
<1>5. CASE BeginRetirement
    BY <1>5, BeginRetirementKeeps
<1>6. CASE DrainAcks
    BY <1>6, DrainAcksKeeps
<1>7. CASE UNCHANGED vars
    <2>1. UNCHANGED <<pc, batch, outcomes, published, todo, taken, ingress, engine, bound, lane,
                      sequence, runtime, owned, outstanding, retirement, blocked, closed,
                      tombstones, exit_acks, provider_exit_acks, told, process, errors, accused,
                      overflowed, unread>>
        BY <1>7 DEF vars, thread_vars, kernel_vars, own_vars, ack_vars, world_vars
    <2>2. Phases'
        BY <2>1 DEF Inv, Phases, RuntimeClosed
    <2>3. RuntimeClosed' <=> RuntimeClosed
        BY <2>1 DEF RuntimeClosed
    <2>4. pc' \in {"idle", "drain", "reduce", "publish", "outcomes", "owned", "work", "collect"}
        BY <2>1 DEF Inv, Types
    <2>. QED  BY <2>1, <2>2, <2>3, <2>4, Unchanged, OutsideKeeps
<1>. QED  BY <1>1, <1>2, <1>3, <1>4, <1>5, <1>6, <1>7 DEF Next

\* The invariant holds of every reachable state, for any number of operations
\* and any capacities: what each queue may hold, where an operation stands and
\* who is still known to the supervisor fit together at every step.
THEOREM Invariance == Spec => []Inv
<1>1. Init => Inv
    BY InitHolds
<1>2. Inv /\ [Next]_vars => Inv'
    BY NextKeeps
<1>. QED  BY <1>1, <1>2, PTL DEF Spec

-----------------------------------------------------------------------------
(* What the invariant gives.                                               *)

\* A set without two members has at most one.
LEMMA AtMostOne ==
    ASSUME NEW S, \A a, b \in S : a = b
    PROVE  Cardinality(S) = IF S = {} THEN 0 ELSE 1
<1>1. CASE S = {}
    BY <1>1, FS_EmptySet
<1>2. CASE S # {}
    <2>1. PICK a : S = {a}
        BY <1>2
    <2>. QED  BY <1>2, <2>1, FS_Singleton
<1>. QED  BY <1>1, <1>2

\* Results that are submitted are those that are on their way.
LEMMA ObservedIsSent ==
    ASSUME Inv, NEW o \in Operations, o \in Observed
    PROVE  Sent(o)
<1>1. ingress \in Seq(Commands) /\ batch \in Seq(Commands) /\ outcomes \in Seq(Outcomes)
    BY DEF Inv, Types
<1>2. /\ Range(ingress) \subseteq Commands
      /\ \A M : Has(ingress, M) <=> Range(ingress) \cap M # {}
    BY <1>1, RangeQueue
<1>3. /\ Range(batch) \subseteq Commands
      /\ \A M : Has(batch, M) <=> Range(batch) \cap M # {}
    BY <1>1, RangeQueue
<1>4. /\ Range(outcomes) \subseteq Outcomes
      /\ \A M : Has(outcomes, M) <=> Range(outcomes) \cap M # {}
    BY <1>1, RangeQueue
<1>5. PICK c \in Range(ingress) \cup Range(batch) \cup Range(outcomes) :
         c.kind = "Observe" /\ c.operation = o
    BY DEF Observed
<1>6. CASE c \in Range(ingress)
    BY <1>2, <1>5, <1>6, ResultItems DEF Sent
<1>7. CASE c \in Range(batch)
    BY <1>3, <1>5, <1>7, ResultItems DEF Sent
<1>8. CASE c \in Range(outcomes)
    BY <1>4, <1>5, <1>8, ResultItems DEF Sent
<1>. QED  BY <1>5, <1>6, <1>7, <1>8

\* provider_supervisor.rs "owns native provider operations through physical
\* exit", for any number of operations: a running process has its physical
\* operation, whose exit is not yet known, the supervisor is not closed over
\* it, and its result has not been submitted.
THEOREM ProcessesAreHeld == Spec => []ProcessesHeld
<1>1. ASSUME Inv, NEW o \in Operations, process[o] = "running"
      PROVE  owned[o].state = "Physical" /\ ~owned[o].exited /\ ~closed /\ ~(o \in Observed)
    <2>1. Orderly(o) /\ Physical(o)
        BY <1>1 DEF Inv, Orderly, Held
    <2>2. owned[o].state = "Physical" /\ ~owned[o].exited
        BY <1>1, <2>1 DEF Physical, Orderly, Held
    <2>3. ~closed
        BY <1>1, <2>2, OwnedStates DEF Inv, Phases
    <2>4. ~(o \in Observed)
        BY <1>1, <2>1, ObservedIsSent DEF Orderly, Answers
    <2>. QED  BY <2>2, <2>3, <2>4
<1>2. Inv => ProcessesHeld
    BY <1>1 DEF ProcessesHeld
<1>. QED  BY <1>2, Invariance, PTL

\* Every waiting receipt is one of a different operation that waits for it.
LEMMA ReceiptsCounted ==
    ASSUME Inv, ~unread
    PROVE  Len(runtime.receipts) <= outstanding
<1>. DEFINE s == runtime.receipts
            f == [j \in 1 .. Len(s) |-> s[j].operation]
<1>1. s \in Seq(Receipts) /\ Len(s) \in Nat /\ \A j \in 1 .. Len(s) : s[j] \in Receipts
    BY SupervisorTypes, LenProperties, ElementOfSeq DEF RuntimeState
<1>2. CASE outstanding = Cardinality(Waiting)
    <2>. HIDE DEF s
    <2>1. ASSUME NEW j \in 1 .. Len(s)
          PROVE  s[j].operation \in Waiting /\ s[j] \in ReceiptOf(s[j].operation)
        <3>. DEFINE o == s[j].operation
        <3>1. o \in Operations /\ s[j] \in Receipts
            BY <1>1, <2>1 DEF Receipts
        <3>2. s[j] \in ReceiptOf(o)
            BY <3>1, ResultItems
        <3>3. Received(o)
            BY <2>1, <3>2 DEF Received, Has, s
        <3>4. Answers(o)
            BY <3>1 DEF Inv, Orderly
        <3>. QED  BY <3>1, <3>2, <3>3, <3>4 DEF Answers, Waiting
    <2>2. ASSUME NEW j \in 1 .. Len(s), NEW k \in 1 .. Len(s), s[j].operation = s[k].operation
          PROVE  j = k
        <3>1. s[j].operation \in Operations
            BY <1>1, <2>2 DEF Receipts
        <3>2. One(s, ReceiptOf(s[j].operation))
            BY <3>1 DEF Inv, Orderly, Answers, s
        <3>3. s[j] \in ReceiptOf(s[j].operation) /\ s[k] \in ReceiptOf(s[j].operation)
            BY <2>1, <2>2
        <3>. QED  BY <2>2, <3>2, <3>3 DEF One
    <2>3. f \in Injection(1 .. Len(s), Waiting)
        <3>1. f \in [1 .. Len(s) -> Waiting]
            BY <2>1
        <3>2. \A j, k \in 1 .. Len(s) : f[j] = f[k] => j = k
            BY <2>2
        <3>. HIDE DEF f
        <3>. QED  BY <3>1, <3>2 DEF Injection, IsInjective
    <2>4. IsFiniteSet(Waiting)
        BY FiniteOperations, FS_Subset DEF Waiting
    <2>. HIDE DEF f
    <2>5. Cardinality(1 .. Len(s)) <= Cardinality(Waiting)
        BY <2>3, <2>4, FS_Injection
    <2>6. Cardinality(1 .. Len(s)) = Len(s)
        <3>1. 1 .. Len(s) = 1 .. Len(s) /\ Len(s) - 1 + 1 = Len(s)
            BY <1>1
        <3>2. Cardinality(1 .. Len(s)) = IF 1 > Len(s) THEN 0 ELSE Len(s) - 1 + 1
            BY <1>1, FS_Interval
        <3>. QED  BY <1>1, <3>1, <3>2
    <2>. QED  BY <1>2, <2>5, <2>6 DEF s
<1>3. CASE runtime.receipts = <<>>
    BY <1>3, EmptyQueue, SupervisorTypes DEF Inv, Types
<1>. QED  BY <1>2, <1>3 DEF Inv, Accounts, Cleared

\* The limits that the source names are kept whatever they are: every operation
\* is in a state of the supervisor, every submission has room for its receipt
\* and every acknowledgement waits for room.
THEOREM TypeCorrect == Spec => []SupervisorTypeOK
<1>1. ASSUME Inv  PROVE SupervisorTypeOK
    <2>1. owned \in [Operations -> OwnedState] /\ Cardinality(Owned) <= MaxOwned
        BY <1>1 DEF Inv, Types, Limits
    <2>2. outstanding \in 0 .. Capacity
          /\ Len(runtime.receipts) <= (IF unread THEN Capacity ELSE outstanding)
        BY <1>1, ReceiptsCounted, PositiveConstants DEF Inv, Types, Limits
    <2>3. Len(runtime.work) <= Capacity /\ Len(exit_acks) <= MaxAcks
          /\ Len(provider_exit_acks) <= MaxAcks
        BY <1>1 DEF Inv, Limits
    <2>4. tombstones \subseteq Operations \ Owned
        BY <1>1 DEF Inv, Types, Limits, Owned
    <2>5. runtime.life \in {"AttachSent", "Active", "Quiescing", "ClosingRetry", "DetachSent",
                            "Closed"}
        BY <1>1, SupervisorTypes DEF RuntimeState, Lives
    <2>. QED  BY <2>1, <2>2, <2>3, <2>4, <2>5 DEF SupervisorTypeOK
<1>. QED  BY <1>1, Invariance, PTL

\* Every exit is acknowledged exactly once, over two bounded buffers and the
\* owner of the runtime, and with its cause, for any number of operations.
THEOREM ExitsAreReported == Spec => []ExitsReported
<1>1. ASSUME Inv
      PROVE  /\ exit_acks \in Seq(Acks) /\ provider_exit_acks \in Seq(Acks)
             /\ Buffered \in Seq(Acks) /\ told \subseteq Acks
             /\ \A M : Has(Buffered, M) <=> Has(exit_acks, M) \/ Has(provider_exit_acks, M)
             /\ \A M : /\ One(exit_acks, M) /\ One(provider_exit_acks, M)
                       /\ ~(Has(exit_acks, M) /\ Has(provider_exit_acks, M))
                       => One(Buffered, M)
             /\ \A j \in 1 .. Len(Buffered) : Buffered[j] \in Acks
    <2>1. exit_acks \in Seq(Acks) /\ provider_exit_acks \in Seq(Acks) /\ told \subseteq Acks
        BY <1>1 DEF Inv, Types
    <2>2. /\ Buffered \in Seq(Acks)
          /\ \A M : Has(Buffered, M) <=> Has(exit_acks, M) \/ Has(provider_exit_acks, M)
          /\ \A M : /\ One(exit_acks, M) /\ One(provider_exit_acks, M)
                    /\ ~(Has(exit_acks, M) /\ Has(provider_exit_acks, M))
                    => One(Buffered, M)
        BY <2>1, ConcatQueue DEF Buffered
    <2>. QED  BY <2>1, <2>2, ElementOfSeq
<1>2. ASSUME Inv, NEW o \in Operations, NEW n,
             n = Cardinality({j \in 1 .. Len(Buffered) : Buffered[j].operation = o})
                   + Cardinality({a \in told : a.operation = o})
      PROVE  /\ n <= 1
             /\ n = 1 => process[o] = "exited"
             /\ process[o] = "exited" /\ owned[o].state # "Physical" => n = 1
    <2>. DEFINE S == {j \in 1 .. Len(Buffered) : Buffered[j].operation = o}
                T == {a \in told : a.operation = o}
    <2>1. Acknowledged(o)
        BY <1>2 DEF Inv, Orderly
    <2>2. T = told \cap AckOf(o)
        BY <1>1, <1>2 DEF AckOf
    <2>3. \A j \in 1 .. Len(Buffered) : j \in S <=> Buffered[j] \in AckOf(o)
        BY <1>1, <1>2 DEF AckOf
    <2>4. One(Buffered, AckOf(o)) /\ (Has(Buffered, AckOf(o)) <=> S # {})
        BY <1>1, <1>2, <2>1, <2>3 DEF Acknowledged, Has
    <2>5. \A j, k \in S : j = k
        BY <2>3, <2>4 DEF One
    <2>6. \A a, b \in T : a = b
        BY <2>1, <2>2 DEF Acknowledged
    <2>7. /\ S # {} <=> Has(exit_acks, AckOf(o)) \/ Has(provider_exit_acks, AckOf(o))
          /\ T # {} <=> Told(o)
        BY <1>1, <1>2, <2>2, <2>4 DEF Told
    <2>. HIDE DEF S, T
    <2>8. /\ Cardinality(S) = IF S = {} THEN 0 ELSE 1
          /\ Cardinality(T) = IF T = {} THEN 0 ELSE 1
        BY <2>5, <2>6, AtMostOne
    <2>9. ~(S # {} /\ T # {}) /\ (Acked(o) <=> S # {} \/ T # {})
        BY <2>1, <2>7 DEF Acknowledged, Acked
    <2>10. n = Cardinality(S) + Cardinality(T)
        BY <1>2 DEF S, T
    <2>11. n = IF Acked(o) THEN 1 ELSE 0
        BY <2>8, <2>9, <2>10
    <2>. QED  BY <2>1, <2>11 DEF Acknowledged, Physical
<1>3. ASSUME Inv, NEW a \in Range(Buffered) \cup told  PROVE a.stopped => a.cause # "None"
    <2>1. /\ Range(Buffered) \subseteq Acks
          /\ Has(Buffered, Unexplained) <=> Range(Buffered) \cap Unexplained # {}
        BY <1>1, <1>3, RangeQueue
    <2>2. ~Has(Buffered, Unexplained) /\ told \cap Unexplained = {}
        BY <1>1, <1>3 DEF Inv, Reported, NoFalseAccusation
    <2>. QED  BY <1>1, <1>3, <2>1, <2>2 DEF Unexplained
<1>4. Inv => ExitsReported
    BY <1>2, <1>3 DEF ExitsReported
<1>. QED  BY <1>4, Invariance, PTL

\* A cancellation or a receipt is held against the kernel only after the
\* supervisor has run out of room for operations or tombstones.
THEOREM NobodyIsAccused == Spec => []NoFalseAccusation
<1>1. Inv => NoFalseAccusation
    BY DEF Inv, Reported, NoFalseAccusation, Exceeded, NoFalseAccusation
<1>. QED  BY <1>1, Invariance, PTL

=============================================================================
