----------------------------- MODULE PoolProofs -----------------------------
(***************************************************************************)
(* Theorems about module Pool, for any number of backends: the slice is a  *)
(* heap, the index fields are exact, and the pool is a priority set.       *)
(*                                                                         *)
(* The loops of container/heap are recursive functions over the states of  *)
(* the loop.  Loops and LoopRule say what such a function is and how one   *)
(* reasons about it: a set of states that the loop stays in is an          *)
(* invariant of the loop, and the loop ends in it.                         *)
(***************************************************************************)
EXTENDS Pool, TLAPS, FiniteSetTheorems, SequenceTheorems, WellFoundedInduction

-----------------------------------------------------------------------------
(* Loops.  A loop is at a state of D, goes on to next[x] until it is in     *)
(* stop, and then has the result out[x]; m counts what is left to do.       *)

\* Some state has the least to do.
LEMMA Minimal ==
  ASSUME NEW S, S # {}, NEW m, \A x \in S : m[x] \in Nat
  PROVE  \E x \in S : \A y \in S : m[x] <= m[y]
<1> DEFINE R == {ss \in Nat \X Nat : ss[1] < ss[2]}
           T == {m[x] : x \in S}
<1>1. IsWellFoundedOn(R, Nat)
  BY NatLessThanWellFounded DEF OpToRel
<1>2. PICK k \in T : \A l \in T : ~ (<<l, k>> \in R)
  <2>1. T \subseteq Nat /\ T # {}
    OBVIOUS
  <2> HIDE DEF R, T
  <2> QED BY <1>1, <2>1, WFMin
<1>3. PICK x \in S : k = m[x]
  OBVIOUS
<1>4. ASSUME NEW y \in S PROVE m[x] <= m[y]
  <2>1. m[y] \in T /\ m[y] \in Nat /\ k \in Nat
    BY <1>3
  <2>2. ~ (m[y] < k)
    BY <1>2, <2>1
  <2> QED BY <1>3, <2>1, <2>2
<1> QED
  BY <1>4

\* The states of D that are not in stop lead to states of D with less to do.
Progress(D, stop, next, m) ==
  /\ \A x \in D : m[x] \in Nat
  /\ \A x \in D \ stop : next[x] \in D /\ m[next[x]] < m[x]

\* g is the result of the loop, by its first state.
Computes(g, D, stop, next, out) ==
  g = [x \in D |-> IF x \in stop THEN out[x] ELSE g[next[x]]]

\* The function that a loop computes exists: every state leads to one at which the
\* loop stops, and the states on the way lead there too.
LEMMA Loops ==
  ASSUME NEW D, NEW stop \in SUBSET D, NEW next, NEW out, NEW m,
         Progress(D, stop, next, m)
  PROVE  \E g : Computes(g, D, stop, next, out)
<1> DEFINE Closed == {P \in SUBSET D : \A x \in P \ stop : next[x] \in P}
           Reach(x) == {y \in D : \A P \in Closed : x \in P => y \in P}
           End(x) == CHOOSE y \in stop : y \in Reach(x)
           g == [x \in D |-> out[End(x)]]
<1>0. /\ \A x \in D : m[x] \in Nat
      /\ \A x \in D \ stop : next[x] \in D /\ m[next[x]] < m[x]
  BY DEF Progress
<1>1. ASSUME NEW x \in stop PROVE End(x) = x
  <2>1. {x} \in Closed /\ x \in Reach(x)
    OBVIOUS
  <2>2. \A y \in Reach(x) : y = x
    BY <2>1
  <2> QED BY <2>1, <2>2
<1>2. ASSUME NEW x \in D \ stop PROVE End(x) = End(next[x])
  <2>1. \A y \in Reach(next[x]) : y \in Reach(x)
    OBVIOUS
  <2>2. ASSUME NEW y \in Reach(x), y # x PROVE y \in Reach(next[x])
    <3> SUFFICES ASSUME NEW P \in Closed, next[x] \in P PROVE y \in P
      OBVIOUS
    <3>1. P \cup {x} \in Closed
      OBVIOUS
    <3>2. y \in P \cup {x}
      BY <3>1
    <3> QED BY <2>2, <3>2
  <2>3. \A y \in stop : y \in Reach(x) <=> y \in Reach(next[x])
    BY <2>1, <2>2
  <2> HIDE DEF Reach
  <2> QED BY <2>3
<1>3. \A x \in D : g[x] = IF x \in stop THEN out[x] ELSE g[next[x]]
  <2> HIDE DEF End
  <2> QED BY <1>0, <1>1, <1>2
<1>4. g = [x \in D |-> IF x \in stop THEN out[x] ELSE g[next[x]]]
  <2>1. g = [x \in D |-> g[x]]
    OBVIOUS
  <2> HIDE DEF g
  <2> QED BY <1>3, <2>1
<1> QED
  BY <1>4 DEF Computes

\* The rule for loops: one that starts in P and stays in P stops in P.
LEMMA LoopRule ==
  ASSUME NEW D, NEW stop, NEW next, NEW out, NEW m,
         NEW g, Computes(g, D, stop, next, out),
         NEW P \in SUBSET D, Progress(P, stop, next, m), NEW s \in P
  PROVE  \E y \in P : y \in stop /\ g[s] = out[y]
<1> USE DEF Progress, Computes
<1> DEFINE Bad == {x \in P : ~ \E y \in P : y \in stop /\ g[x] = out[y]}
<1> SUFFICES ASSUME Bad # {} PROVE FALSE
  OBVIOUS
<1>1. PICK x \in Bad : \A y \in Bad : m[x] <= m[y]
  <2> HIDE DEF Bad
  <2>1. Bad \subseteq P
    BY DEF Bad
  <2> QED BY <2>1, Minimal
<1>2. x \in P \ stop
  OBVIOUS
<1>3. g[x] = g[next[x]] /\ next[x] \in P /\ m[next[x]] < m[x]
  BY <1>2
<1>4. next[x] \notin Bad
  <2>1. m[next[x]] \in Nat /\ m[x] \in Nat
    BY <1>2, <1>3
  <2>2. ~ (m[x] <= m[next[x]])
    BY <1>3, <2>1
  <2> HIDE DEF Bad
  <2> QED BY <1>1, <2>2
<1> QED
  BY <1>3, <1>4

-----------------------------------------------------------------------------
(* Orders of numbers in a tree.  a[c] is the key at place c; only the first *)
(* m places are looked at.                                                  *)

\* A parent comes first, and the children of k are 2 k + 1 and 2 k + 2.
LEMMA Tree ==
  ASSUME NEW c \in Nat \ {0}
  PROVE  /\ Parent(c) \in 0 .. c - 1
         /\ \A k \in Nat : Parent(c) = k <=> c = 2 * k + 1 \/ c = 2 * k + 2
BY DEF Parent

\* The places of an element and of its parent are among the first m, and those
\* among the n of the slice.
LEMMA Places ==
  ASSUME NEW n \in Nat, NEW m \in 0 .. n
  PROVE  \A c \in 1 .. m - 1 : /\ c \in 0 .. n - 1 /\ c \in 0 .. m - 1
                               /\ Parent(c) \in 0 .. n - 1 /\ Parent(c) \in 0 .. m - 1
                               /\ Parent(c) \in 0 .. c - 1 /\ Parent(c) < c
                               /\ Parent(c) # c /\ c \in Nat /\ Parent(c) \in Nat
<1> TAKE c \in 1 .. m - 1
<1>1. c \in Nat \ {0}
  OBVIOUS
<1>2. Parent(c) \in 0 .. c - 1
  BY <1>1, Tree
<1> QED
  BY <1>1, <1>2

\* No key is smaller than that of its parent.
Sorted(a, m) == \A c \in 1 .. m - 1 : a[Parent(c)] <= a[c]

\* Only the key at j may be, and then those below j are not smaller than that of
\* the parent of j: the states of the loop of up.
Rising(a, m, j) ==
  /\ j \in 0 .. m - 1
  /\ \A c \in 1 .. m - 1 : c # j => a[Parent(c)] <= a[c]
  /\ \A c \in 1 .. m - 1 : j > 0 /\ Parent(c) = j => a[Parent(j)] <= a[c]

\* Only the keys below k may be, and the key at i if k still is i: the states of the
\* loop of down that began at i.
Sinking(a, m, i, k) ==
  /\ i \in Nat /\ k \in Nat /\ i <= k
  /\ \A c \in 1 .. m - 1 : Parent(c) # k /\ c # i => a[Parent(c)] <= a[c]
  /\ \A c \in 1 .. m - 1 : k > 0 /\ Parent(c) = k => a[Parent(k)] <= a[c]
  /\ k # i /\ i \in 1 .. m - 1 => a[Parent(i)] <= a[i]

\* The keys at i and j change places.
Swapped(a, b, n, i, j) ==
  /\ b[i] = a[j] /\ b[j] = a[i]
  /\ \A c \in 0 .. n - 1 : c # i /\ c # j => b[c] = a[c]

\* An iteration of up.
LEMMA RisingStep ==
  ASSUME NEW n \in Nat, NEW m \in 0 .. n,
         NEW a \in [0 .. n - 1 -> Int], NEW b \in [0 .. n - 1 -> Int],
         NEW j \in 1 .. m - 1, Rising(a, m, j), a[j] < a[Parent(j)],
         Swapped(a, b, n, Parent(j), j)
  PROVE  Rising(b, m, Parent(j))
<1> DEFINE i == Parent(j)
<1>0. \A c \in 1 .. m - 1 : /\ c \in 0 .. n - 1 /\ Parent(c) \in 0 .. n - 1
                            /\ Parent(c) \in 0 .. m - 1 /\ Parent(c) \in 0 .. c - 1
  BY Places
<1>1. i \in 0 .. j - 1 /\ i \in 0 .. m - 1 /\ j \in 0 .. n - 1 /\ i \in 0 .. n - 1
  BY <1>0
<1>2. \A c \in 1 .. m - 1 : /\ c \in 0 .. n - 1 /\ Parent(c) \in 0 .. n - 1
                            /\ Parent(c) \in 0 .. c - 1 /\ Parent(c) # c
                            /\ a[c] \in Int /\ a[Parent(c)] \in Int
  <2>1. \A c \in 1 .. m - 1 : /\ c \in 0 .. n - 1 /\ Parent(c) \in 0 .. n - 1
                              /\ Parent(c) \in 0 .. c - 1 /\ Parent(c) # c
    BY Places
  <2> QED BY <2>1
<1> HIDE DEF i
<1>3. ASSUME NEW c \in 1 .. m - 1, c # i PROVE b[Parent(c)] <= b[c]
  <2>1. CASE c = j
    BY <1>1, <2>1 DEF Swapped, i
  <2>2. CASE c # j
    <3>1. b[c] = a[c] /\ a[Parent(c)] <= a[c]
      BY <1>2, <1>3, <2>2 DEF Swapped, Rising, i
    <3>2. CASE Parent(c) = j
      <4>1. b[j] = a[i] /\ a[i] <= a[c]
        BY <1>1, <3>2 DEF Swapped, Rising, i
      <4> QED BY <3>1, <3>2, <4>1
    <3>3. CASE Parent(c) = i
      <4>1. b[i] = a[j] /\ a[j] < a[i] /\ a[i] \in Int /\ a[j] \in Int
        BY <1>1 DEF Swapped, i
      <4>2. a[c] \in Int
        BY <1>2
      <4> QED BY <3>1, <3>3, <4>1, <4>2
    <3>4. CASE Parent(c) # i /\ Parent(c) # j
      BY <1>2, <3>1, <3>4 DEF Swapped, i
    <3> QED BY <3>2, <3>3, <3>4
  <2> QED BY <2>1, <2>2
<1>4. ASSUME NEW c \in 1 .. m - 1, i > 0, Parent(c) = i PROVE b[Parent(i)] <= b[c]
  <2>1. i \in 1 .. m - 1 /\ i # j
    BY <1>1, <1>4
  <2>2. Parent(i) \in 0 .. n - 1 /\ Parent(i) # i /\ Parent(i) # j
    BY <1>1, <1>2, <2>1
  <2>3. b[Parent(i)] = a[Parent(i)] /\ a[Parent(i)] <= a[i]
    BY <2>1, <2>2 DEF Swapped, Rising, i
  <2>4. c # i /\ (c # j => b[c] = a[c] /\ a[i] <= a[c])
    BY <1>2, <1>4 DEF Swapped, Rising, i
  <2>5. c = j => b[c] = a[i]
    BY DEF Swapped, i
  <2>6. a[Parent(i)] \in Int /\ a[i] \in Int /\ a[c] \in Int
    BY <1>1, <1>2, <2>2
  <2> QED BY <2>3, <2>4, <2>5, <2>6
<1> QED
  BY <1>1, <1>3, <1>4 DEF Rising, i

\* The end of up.
LEMMA RisingStop ==
  ASSUME NEW n \in Nat, NEW m \in 0 .. n, NEW a \in [0 .. n - 1 -> Int],
         NEW j, Rising(a, m, j), j = 0 \/ ~ (a[j] < a[Parent(j)])
  PROVE  Sorted(a, m)
<1>1. \A c \in 1 .. m - 1 : a[c] \in Int /\ a[Parent(c)] \in Int
  <2>1. \A c \in 1 .. m - 1 : c \in 0 .. n - 1 /\ Parent(c) \in 0 .. n - 1
    BY Places
  <2> QED BY <2>1
<1> QED
  BY <1>1 DEF Rising, Sorted

\* An iteration of down, with j the smaller child of k.
LEMMA SinkingStep ==
  ASSUME NEW n \in Nat, NEW m \in 0 .. n,
         NEW a \in [0 .. n - 1 -> Int], NEW b \in [0 .. n - 1 -> Int],
         NEW i, NEW k, Sinking(a, m, i, k),
         NEW j \in 1 .. m - 1, Parent(j) = k, a[j] < a[k],
         \A c \in 1 .. m - 1 : Parent(c) = k => a[j] <= a[c],
         Swapped(a, b, n, k, j)
  PROVE  Sinking(b, m, i, j)
<1>1. /\ k \in 0 .. j - 1 /\ k \in 0 .. n - 1 /\ j \in 0 .. n - 1 /\ i \in Nat /\ i <= k
      /\ k # j /\ i # j
  <2>1. \A c \in 1 .. m - 1 : /\ c \in 0 .. n - 1 /\ Parent(c) \in 0 .. n - 1
                              /\ Parent(c) \in 0 .. c - 1
    BY Places
  <2>2. k \in 0 .. j - 1 /\ k \in 0 .. n - 1 /\ j \in 0 .. n - 1
    BY <2>1
  <2> QED BY <2>2 DEF Sinking
<1>2. \A c \in 1 .. m - 1 : /\ c \in 0 .. n - 1 /\ Parent(c) \in 0 .. n - 1
                            /\ Parent(c) \in 0 .. c - 1 /\ Parent(c) # c
                            /\ a[c] \in Int /\ a[Parent(c)] \in Int
  <2>1. \A c \in 1 .. m - 1 : /\ c \in 0 .. n - 1 /\ Parent(c) \in 0 .. n - 1
                              /\ Parent(c) \in 0 .. c - 1 /\ Parent(c) # c
    BY Places
  <2> QED BY <2>1
<1>3. /\ b[k] = a[j] /\ b[j] = a[k]
      /\ \A c \in 0 .. n - 1 : c # k /\ c # j => b[c] = a[c]
      /\ a[k] \in Int /\ a[j] \in Int /\ a[j] < a[k]
  BY <1>1 DEF Swapped
<1>4. \* the key that moves up to k is not smaller than that above k
      k > 0 => Parent(k) \in 0 .. n - 1 /\ Parent(k) < k /\ a[Parent(k)] <= a[j]
               /\ b[Parent(k)] = a[Parent(k)]
  <2> SUFFICES ASSUME k > 0
               PROVE  Parent(k) \in 0 .. n - 1 /\ Parent(k) < k /\ a[Parent(k)] <= a[j]
                      /\ b[Parent(k)] = a[Parent(k)]
    OBVIOUS
  <2>1. Parent(k) \in 0 .. n - 1 /\ Parent(k) < k /\ Parent(k) # j
    <3>1. k \in 1 .. m - 1
      BY <1>1
    <3>2. Parent(k) \in 0 .. k - 1 /\ Parent(k) < k /\ Parent(k) \in 0 .. n - 1
      BY <3>1, Places
    <3>3. Parent(k) < j
      BY <1>1, <3>2
    <3> QED BY <3>2, <3>3
  <2>2. a[Parent(k)] <= a[j]
    BY DEF Sinking
  <2> QED BY <1>3, <2>1, <2>2
<1>5. ASSUME NEW c \in 1 .. m - 1, Parent(c) # j, c # i PROVE b[Parent(c)] <= b[c]
  <2>1. CASE c = k
    BY <1>1, <1>3, <1>4, <2>1
  <2>2. CASE c # k /\ Parent(c) = k
    <3>1. b[Parent(c)] = a[j] /\ a[j] <= a[c]
      BY <1>3, <2>2
    <3>2. c = j => b[c] = a[k]
      BY <1>3
    <3>3. c # j => b[c] = a[c]
      BY <1>2, <1>3, <2>2
    <3> QED BY <1>3, <3>1, <3>2, <3>3
  <2>3. CASE c # k /\ Parent(c) # k
    <3>1. c # j /\ a[Parent(c)] <= a[c]
      BY <1>5, <2>3 DEF Sinking
    <3> QED BY <1>2, <1>3, <1>5, <2>3, <3>1
  <2> QED BY <2>1, <2>2, <2>3
<1>6. ASSUME NEW c \in 1 .. m - 1, Parent(c) = j PROVE b[Parent(j)] <= b[c]
  <2>1. c # k /\ c # j /\ c # i /\ Parent(c) # k
    <3>1. j \in 0 .. c - 1
      BY <1>2, <1>6
    <3> QED BY <1>1, <1>6, <3>1
  <2>2. b[c] = a[c] /\ a[j] <= a[c]
    BY <1>2, <1>3, <1>6, <2>1 DEF Sinking
  <2> QED BY <1>3, <2>2
<1>7. ASSUME i \in 1 .. m - 1 PROVE b[Parent(i)] <= b[i]
  <2>1. CASE i = k
    BY <1>3, <1>4, <1>7, <2>1
  <2>2. CASE i # k
    <3>1. a[Parent(i)] <= a[i]
      BY <1>7, <2>2 DEF Sinking
    <3>2. Parent(i) \in 0 .. i - 1 /\ Parent(i) \in 0 .. n - 1 /\ i \in 0 .. n - 1
      BY <1>2, <1>7
    <3>3. Parent(i) # j /\ Parent(i) # k
      <4>1. Parent(i) < i /\ i <= k /\ k < j /\ i \in Int /\ k \in Int /\ j \in Int
        BY <1>1, <3>2
      <4>2. Parent(i) \in Int
        BY <3>2
      <4> QED BY <4>1, <4>2
    <3> QED BY <1>1, <1>3, <2>2, <3>1, <3>2, <3>3
  <2> QED BY <2>1, <2>2
<1>8. j \in Nat /\ i <= j
  BY <1>1
<1> QED
  BY <1>1, <1>5, <1>6, <1>7, <1>8 DEF Sinking

\* What down leaves for up: the key at i may be too small for its place.
LEMMA SinkingStop ==
  ASSUME NEW n \in Nat, NEW m \in 0 .. n, NEW a \in [0 .. n - 1 -> Int],
         NEW i \in 0 .. m - 1, NEW k, Sinking(a, m, i, k),
         \A c \in 1 .. m - 1 : Parent(c) = k => a[k] <= a[c]
  PROVE  Rising(a, m, i)
<1>1. \A c \in 1 .. m - 1 : /\ a[c] \in Int /\ a[Parent(c)] \in Int
  <2>1. \A c \in 1 .. m - 1 : c \in 0 .. n - 1 /\ Parent(c) \in 0 .. n - 1
    BY Places
  <2> QED BY <2>1
<1>2. ASSUME NEW c \in 1 .. m - 1, c # i PROVE a[Parent(c)] <= a[c]
  BY <1>2 DEF Sinking
<1>3. ASSUME NEW c \in 1 .. m - 1, i > 0, Parent(c) = i PROVE a[Parent(i)] <= a[c]
  <2>1. CASE k = i
    BY <1>3, <2>1 DEF Sinking
  <2>2. CASE k # i
    <3>1. i \in 1 .. m - 1 /\ c # i
      BY <1>3, Places
    <3>2. a[Parent(i)] <= a[i] /\ a[i] <= a[c]
      BY <1>2, <1>3, <2>2, <3>1 DEF Sinking
    <3> QED BY <1>1, <1>3, <3>1, <3>2
  <2> QED BY <2>1, <2>2
<1> QED
  BY <1>2, <1>3 DEF Rising

\* The first key of a heap is a least one.
LEMMA FirstLeast ==
  ASSUME NEW m \in Nat, NEW a \in [0 .. m - 1 -> Int], Sorted(a, m)
  PROVE  \A c \in 0 .. m - 1 : a[0] <= a[c]
<1> DEFINE Bad == {c \in 0 .. m - 1 : ~ (a[0] <= a[c])}
           id == [c \in 0 .. m - 1 |-> c]
<1> SUFFICES ASSUME Bad # {} PROVE FALSE
  OBVIOUS
<1>1. PICK c \in Bad : \A d \in Bad : c <= d
  <2>1. \A c \in Bad : id[c] = c /\ id[c] \in Nat
    OBVIOUS
  <2>2. \E c \in Bad : \A d \in Bad : id[c] <= id[d]
    <3> HIDE DEF Bad, id
    <3> QED BY <2>1, Minimal
  <2> HIDE DEF Bad, id
  <2> QED BY <2>1, <2>2
<1>2. c \in 1 .. m - 1 /\ Parent(c) \in 0 .. c - 1
  <2>1. c # 0
    OBVIOUS
  <2>2. c \in 1 .. m - 1
    BY <2>1
  <2> QED BY <2>2, Tree
<1>3. a[Parent(c)] <= a[c] /\ a[0] <= a[Parent(c)]
  <2>1. Parent(c) \in 0 .. m - 1 /\ ~ (c <= Parent(c))
    BY <1>2
  <2> QED BY <1>1, <1>2, <2>1 DEF Sorted
<1>4. a[0] \in Int /\ a[c] \in Int /\ a[Parent(c)] \in Int
  BY <1>2
<1> QED
  BY <1>3, <1>4

-----------------------------------------------------------------------------
(* Heaps as values of the model. *)

\* What Less compares, as a number.
Key(load) == [b \in Backend |-> IF leastweight THEN weight[b] ELSE load[b]]

\* The keys by place.
Values(h, n, load) == [c \in 0 .. n - 1 |-> Key(load)[At(h, c)]]

\* The n elements are different, and their index fields are their places.
Tidy(h, n) ==
  /\ h \in Heap(n)
  /\ \A c, d \in 0 .. n - 1 : At(h, c) = At(h, d) => c = d
  /\ \A c \in 0 .. n - 1 : h.index[At(h, c)] = c

Members(h, n) == {At(h, c) : c \in 0 .. n - 1}

\* g has the elements of h in some order, those from place m on where they were,
\* and no other index field has changed.
Kept(h, g, n, m) ==
  /\ Tidy(g, n)
  /\ Members(g, n) = Members(h, n)
  /\ \A b \in Backend \ Members(h, n) : g.index[b] = h.index[b]
  /\ \A c \in m .. n - 1 : At(g, c) = At(h, c)

\* The types of the fields that Less reads.
Numbers(load) == weight \in [Backend -> Int] /\ load \in [Backend -> Int]

\* Less compares keys, and keys are numbers.
LEMMA Keys ==
  ASSUME NEW n \in Nat, NEW h \in Heap(n), NEW load, Numbers(load)
  PROVE  /\ \A c \in 0 .. n - 1 : At(h, c) \in Backend
         /\ Key(load) \in [Backend -> Int]
         /\ Values(h, n, load) \in [0 .. n - 1 -> Int]
         /\ \A c \in 0 .. n - 1 : Values(h, n, load)[c] = Key(load)[At(h, c)]
         /\ \A c, d \in 0 .. n - 1 :
              Less(h, c, d, load) <=> Values(h, n, load)[c] < Values(h, n, load)[d]
<1>1. \A c \in 0 .. n - 1 : At(h, c) \in Backend
  <2>1. h.arr \in [1 .. n -> Backend]
    BY DEF Heap
  <2>2. \A c \in 0 .. n - 1 : c + 1 \in 1 .. n
    OBVIOUS
  <2> QED BY <2>1, <2>2 DEF At
<1>2. Key(load) \in [Backend -> Int]
  BY DEF Key, Numbers
<1>3. \A c \in 0 .. n - 1 : Values(h, n, load)[c] = Key(load)[At(h, c)]
  BY DEF Values
<1>4. Values(h, n, load) \in [0 .. n - 1 -> Int]
  BY <1>1, <1>2 DEF Values
<1>5. \A c, d \in 0 .. n - 1 :
        Less(h, c, d, load) <=> Key(load)[At(h, c)] < Key(load)[At(h, d)]
  BY <1>1 DEF Less, Key
<1> QED
  BY <1>1, <1>2, <1>3, <1>4, <1>5

\* What Swap does to a slice of n elements.
LEMMA SwapType ==
  ASSUME NEW n \in Nat, NEW h \in Heap(n), NEW i \in 0 .. n - 1, NEW j \in 0 .. n - 1
  PROVE  /\ Swap(h, i, j) \in Heap(n)
         /\ At(Swap(h, i, j), i) = At(h, j) /\ At(Swap(h, i, j), j) = At(h, i)
         /\ \A c \in 0 .. n - 1 : c # i /\ c # j => At(Swap(h, i, j), c) = At(h, c)
         /\ i # j => /\ Swap(h, i, j).index[At(h, j)] = i \/ At(h, i) = At(h, j)
                     /\ Swap(h, i, j).index[At(h, i)] = j
         /\ i = j => Swap(h, i, j).index[At(h, i)] = i
         /\ \A b \in Backend : b # At(h, i) /\ b # At(h, j) =>
              Swap(h, i, j).index[b] = h.index[b]
<1> DEFINE arr == [h.arr EXCEPT ![i + 1] = At(h, j), ![j + 1] = At(h, i)]
           index == [h.index EXCEPT ![arr[i + 1]] = i, ![arr[j + 1]] = j]
<1>1. h.arr \in [1 .. n -> Backend] /\ h.index \in [Backend -> Int]
  BY DEF Heap
<1>2. i + 1 \in 1 .. n /\ j + 1 \in 1 .. n
  OBVIOUS
<1>3. At(h, i) \in Backend /\ At(h, j) \in Backend
  BY <1>1, <1>2 DEF At
<1>4. /\ arr \in [1 .. n -> Backend]
      /\ arr[i + 1] = At(h, j) /\ arr[j + 1] = At(h, i)
      /\ \A c \in 0 .. n - 1 : c # i /\ c # j => arr[c + 1] = h.arr[c + 1]
  <2>1. arr \in [1 .. n -> Backend]
    BY <1>1, <1>2, <1>3
  <2>2. arr[i + 1] = At(h, j) /\ arr[j + 1] = At(h, i)
    BY <1>1, <1>2
  <2>3. \A d \in 1 .. n : d # i + 1 /\ d # j + 1 => arr[d] = h.arr[d]
    BY <1>1
  <2>4. \A c \in 0 .. n - 1 : c # i /\ c # j =>
          c + 1 \in 1 .. n /\ c + 1 # i + 1 /\ c + 1 # j + 1
    OBVIOUS
  <2> HIDE DEF arr
  <2> QED BY <2>1, <2>2, <2>3, <2>4
<1> HIDE DEF arr
<1>5. /\ index \in [Backend -> Int]
      /\ index[At(h, i)] = j
      /\ index[At(h, j)] = i \/ At(h, i) = At(h, j)
      /\ \A b \in Backend : b # At(h, i) /\ b # At(h, j) => index[b] = h.index[b]
  BY <1>1, <1>3, <1>4
<1> HIDE DEF index
<1>6. Swap(h, i, j) = [arr |-> arr, index |-> index]
  BY DEF Swap, arr, index
<1>7. Swap(h, i, j).arr = arr /\ Swap(h, i, j).index = index
  BY <1>6
<1>8. Swap(h, i, j) \in Heap(n)
  <2>1. arr \in [1 .. n -> Backend] /\ index \in [Backend -> Int]
    BY <1>4, <1>5
  <2> QED BY <1>6, <2>1 DEF Heap
<1> QED
  BY <1>4, <1>5, <1>7, <1>8 DEF At

\* Swap exchanges two keys, and the index fields follow.
LEMMA SwapKeeps ==
  ASSUME NEW n \in Nat, NEW m \in 0 .. n, NEW h, NEW g, Kept(h, g, n, m),
         NEW i \in 0 .. m - 1, NEW j \in 0 .. m - 1, NEW load, Numbers(load)
  PROVE  /\ Kept(h, Swap(g, i, j), n, m)
         /\ Swapped(Values(g, n, load), Values(Swap(g, i, j), n, load), n, i, j)
<1> DEFINE s == Swap(g, i, j)
<1>1. g \in Heap(n) /\ i \in 0 .. n - 1 /\ j \in 0 .. n - 1
  BY DEF Kept, Tidy
<1>2. /\ s \in Heap(n)
      /\ At(s, i) = At(g, j) /\ At(s, j) = At(g, i)
      /\ \A c \in 0 .. n - 1 : c # i /\ c # j => At(s, c) = At(g, c)
      /\ i # j => /\ s.index[At(g, j)] = i \/ At(g, i) = At(g, j)
                  /\ s.index[At(g, i)] = j
      /\ i = j => s.index[At(g, i)] = i
      /\ \A b \in Backend : b # At(g, i) /\ b # At(g, j) => s.index[b] = g.index[b]
  BY <1>1, SwapType
<1>3. \A c \in 0 .. n - 1 : At(g, c) \in Backend
  BY <1>1 DEF Heap, At
<1> HIDE DEF s
<1>4. /\ \A c, d \in 0 .. n - 1 : At(g, c) = At(g, d) => c = d
      /\ \A c \in 0 .. n - 1 : g.index[At(g, c)] = c
  BY DEF Kept, Tidy
<1>5. \A c, d \in 0 .. n - 1 : At(s, c) = At(s, d) => c = d
  BY <1>1, <1>2, <1>4
<1>6. ASSUME NEW c \in 0 .. n - 1 PROVE s.index[At(s, c)] = c
  <2>1. CASE c # i /\ c # j
    BY <1>1, <1>2, <1>3, <1>4, <2>1
  <2>2. CASE c = i \/ c = j
    BY <1>1, <1>2, <1>4, <2>2
  <2> QED BY <2>1, <2>2
<1>7. Members(s, n) = Members(g, n)
  <2>1. \A c \in 0 .. n - 1 : \E d \in 0 .. n - 1 : At(s, c) = At(g, d)
    BY <1>1, <1>2
  <2>2. \A c \in 0 .. n - 1 : \E d \in 0 .. n - 1 : At(g, c) = At(s, d)
    BY <1>1, <1>2
  <2> QED BY <2>1, <2>2 DEF Members
<1>8. \A b \in Backend \ Members(g, n) : s.index[b] = g.index[b]
  BY <1>1, <1>2 DEF Members
<1>9. Kept(h, s, n, m)
  <2>1. \A c \in m .. n - 1 : At(s, c) = At(g, c)
    BY <1>2
  <2> QED BY <1>2, <1>5, <1>6, <1>7, <1>8, <2>1 DEF Kept, Tidy
<1>10. Swapped(Values(g, n, load), Values(s, n, load), n, i, j)
  BY <1>1, <1>2 DEF Swapped, Values
<1> QED
  BY <1>9, <1>10 DEF s

-----------------------------------------------------------------------------
(* up. *)

\* Where up stops, where it goes on to, and what it has then.
UpStop(n, load) ==
  {s \in Sift(n) : Parent(s.at) = s.at \/ ~ Less(s.heap, s.at, Parent(s.at), load)}
UpNext(n) ==
  [s \in Sift(n) |-> [heap |-> Swap(s.heap, Parent(s.at), s.at), at |-> Parent(s.at)]]
Result(n) == [s \in Sift(n) |-> s.heap]

\* The loop of up, as a loop of Loops.
LEMMA UpLoop ==
  ASSUME NEW n \in Nat, NEW h, Len(h.arr) = n, NEW load, NEW j
  PROVE  \E g : /\ Computes(g, Sift(n), UpStop(n, load), UpNext(n), Result(n))
                /\ Up(h, j, load) = g[[heap |-> h, at |-> j]]
<1> DEFINE N == Len(h.arr)
           D == Sift(n)
           stop == UpStop(n, load)
           next == UpNext(n)
           m == [s \in D |-> s.at]
           F(f) == [s \in Sift(N) |->
                      LET k == s.at
                          i == Parent(k)
                      IN IF i = k \/ ~ Less(s.heap, k, i, load)
                         THEN s.heap
                         ELSE f[[heap |-> Swap(s.heap, i, k), at |-> i]]]
           G(f) == [s \in D |-> IF s \in stop THEN Result(n)[s] ELSE f[next[s]]]
<1>1. \A s \in D : m[s] \in Nat
  BY DEF Sift
<1>2. ASSUME NEW s \in D \ stop PROVE next[s] \in D /\ m[next[s]] < m[s]
  <2>1. s.heap \in Heap(n) /\ s.at \in 0 .. n - 1 /\ Parent(s.at) # s.at
    BY DEF Sift, UpStop
  <2>2. s.at # 0
    BY <2>1 DEF Parent
  <2>3. Parent(s.at) \in 0 .. s.at - 1
    BY <2>1, <2>2, Tree
  <2>4. Parent(s.at) \in 0 .. n - 1 /\ Parent(s.at) < s.at
    BY <2>1, <2>3
  <2>5. Swap(s.heap, Parent(s.at), s.at) \in Heap(n)
    BY <2>1, <2>4, SwapType
  <2>6. next[s] = [heap |-> Swap(s.heap, Parent(s.at), s.at), at |-> Parent(s.at)]
    BY DEF UpNext
  <2>7. next[s] \in D /\ next[s].at = Parent(s.at)
    BY <2>4, <2>5, <2>6 DEF Sift
  <2> HIDE DEF next
  <2> QED BY <2>4, <2>7
<1>3. \E g : g = G(g)
  <2>1. stop \in SUBSET D
    BY DEF UpStop
  <2>2. Progress(D, stop, next, m)
    <3> HIDE DEF D, stop, next, m
    <3> QED BY <1>1, <1>2 DEF Progress
  <2>3. \E g : Computes(g, D, stop, next, Result(n))
    <3> HIDE DEF D, stop, next, m
    <3> QED BY <2>1, <2>2, Loops
  <2> QED BY <2>3 DEF Computes
<1>4. ASSUME NEW f PROVE F(f) = G(f)
  BY DEF UpStop, UpNext, Result
<1>5. PICK g : g = G(g)
  BY <1>3
<1>6. g = F(g)
  <2> HIDE DEF F, G
  <2> QED BY <1>4, <1>5
<1> DEFINE u == CHOOSE f : f = F(f)
<1>7. u = F(u)
  <2> HIDE DEF F
  <2> QED BY <1>6
<1>8. Up(h, j, load) = u[[heap |-> h, at |-> j]]
  BY DEF Up
<1>9. u = G(u)
  <2> HIDE DEF F, G, u
  <2> QED BY <1>4, <1>7
<1> HIDE DEF u
<1> QED BY <1>8, <1>9 DEF Computes

\* up restores the order of a heap in which one element may be too small for its
\* place, and touches nothing else.
LEMMA UpSound ==
  ASSUME NEW n \in Nat, NEW m \in 0 .. n, NEW h, Tidy(h, n), Len(h.arr) = n,
         NEW load, Numbers(load), NEW j, Rising(Values(h, n, load), m, j)
  PROVE  /\ Kept(h, Up(h, j, load), n, m)
         /\ Sorted(Values(Up(h, j, load), n, load), m)
<1> DEFINE P == {s \in Sift(n) : /\ Kept(h, s.heap, n, m)
                                 /\ Rising(Values(s.heap, n, load), m, s.at)}
           stop == UpStop(n, load)
           next == UpNext(n)
           out == Result(n)
           w == [s \in Sift(n) |-> s.at]
           start == [heap |-> h, at |-> j]
<1>1. PICK g : /\ Computes(g, Sift(n), stop, next, out)
               /\ Up(h, j, load) = g[start]
  BY UpLoop
<1>2. start \in P
  BY DEF Sift, Kept, Tidy, Rising
<1>3. \A s \in P : w[s] \in Nat
  BY DEF Sift
<1>4. ASSUME NEW s \in P \ stop PROVE next[s] \in P /\ w[next[s]] < w[s]
  <2> DEFINE k == s.at
             i == Parent(s.at)
             a == Values(s.heap, n, load)
             t == Swap(s.heap, i, k)
             b == Values(t, n, load)
  <2>1. /\ s \in Sift(n) /\ s.heap \in Heap(n) /\ k \in 0 .. n - 1
        /\ i # k /\ Less(s.heap, k, i, load)
        /\ Kept(h, s.heap, n, m) /\ Rising(a, m, k)
    BY DEF Sift, UpStop
  <2>2. k \in 1 .. m - 1
    BY <2>1 DEF Rising, Parent
  <2>3. i \in 0 .. k - 1 /\ i \in 0 .. m - 1 /\ k \in 0 .. m - 1 /\ i \in 0 .. n - 1
    BY <2>2, Places
  <2>4. a \in [0 .. n - 1 -> Int] /\ a[k] < a[i]
    BY <2>1, <2>3, Keys
  <2>5. Kept(h, t, n, m) /\ Swapped(a, b, n, i, k)
    BY <2>1, <2>3, SwapKeeps
  <2>6. t \in Heap(n)
    BY <2>5 DEF Kept, Tidy
  <2>7. b \in [0 .. n - 1 -> Int]
    BY <2>6, Keys
  <2>8. Rising(b, m, i)
    BY <2>1, <2>2, <2>4, <2>5, <2>7, RisingStep
  <2>9. next[s] = [heap |-> t, at |-> i]
    BY <2>1 DEF UpNext
  <2>10. next[s] \in Sift(n) /\ next[s].heap = t /\ next[s].at = i
    BY <2>3, <2>6, <2>9 DEF Sift
  <2> HIDE DEF next, t, i, k
  <2>11. next[s] \in P
    BY <2>5, <2>8, <2>10
  <2> QED BY <2>1, <2>3, <2>10, <2>11 DEF k
<1>5. PICK y \in P : y \in stop /\ g[start] = out[y]
  <2> HIDE DEF P, stop, next, out, w, start
  <2>1. P \in SUBSET Sift(n)
    BY DEF P
  <2>2. Progress(P, stop, next, w)
    BY <1>3, <1>4 DEF Progress
  <2> QED BY <1>1, <1>2, <2>1, <2>2, LoopRule
<1>6. Up(h, j, load) = y.heap /\ Kept(h, y.heap, n, m)
  BY <1>1, <1>5 DEF Result
<1>7. Sorted(Values(y.heap, n, load), m)
  <2> DEFINE a == Values(y.heap, n, load)
             k == y.at
  <2>1. /\ y.heap \in Heap(n) /\ Rising(a, m, k)
        /\ Parent(k) = k \/ ~ Less(y.heap, k, Parent(k), load)
    BY <1>5 DEF Sift, UpStop
  <2>2. a \in [0 .. n - 1 -> Int]
    BY <2>1, Keys
  <2>3. k = 0 \/ ~ (a[k] < a[Parent(k)])
    <3> SUFFICES ASSUME k # 0 PROVE ~ (a[k] < a[Parent(k)])
      OBVIOUS
    <3>1. k \in 1 .. m - 1
      BY <2>1 DEF Rising
    <3>2. Parent(k) # k /\ Parent(k) \in 0 .. n - 1 /\ k \in 0 .. n - 1
      BY <3>1, Places
    <3> QED BY <2>1, <3>2, Keys
  <2> HIDE DEF a, k
  <2>4. Sorted(a, m)
    BY <2>1, <2>2, <2>3, RisingStop
  <2> QED BY <2>4 DEF a
<1> QED
  BY <1>6, <1>7

-----------------------------------------------------------------------------
(* down. *)

\* Where down stops, and where it goes on to.
DownStop(N, n, load) ==
  {s \in Sift(N) : \/ 2 * s.at + 1 >= n
                   \/ ~ Less(s.heap, Child(s.heap, s.at, n, load), s.at, load)}
DownNext(N, n, load) ==
  [s \in Sift(N) |->
     LET j == Child(s.heap, s.at, n, load)
     IN [heap |-> Swap(s.heap, s.at, j), at |-> j]]

\* A smaller child, if there is one.
LEMMA LeastChild ==
  ASSUME NEW N \in Nat, NEW n \in 0 .. N, NEW h \in Heap(N), NEW load, Numbers(load),
         NEW i \in Nat, 2 * i + 1 < n
  PROVE  /\ Child(h, i, n, load) \in 1 .. n - 1
         /\ i < Child(h, i, n, load)
         /\ Parent(Child(h, i, n, load)) = i
         /\ \A c \in 1 .. n - 1 : Parent(c) = i =>
              Values(h, N, load)[Child(h, i, n, load)] <= Values(h, N, load)[c]
<1> DEFINE a == Values(h, N, load)
           l == 2 * i + 1
           r == l + 1
           j == Child(h, i, n, load)
<1>1. a \in [0 .. N - 1 -> Int]
  BY Keys
<1>2. \A c \in 1 .. n - 1 : Parent(c) = i <=> c = l \/ c = r
  BY Tree
<1>3. l \in 1 .. n - 1 /\ l \in 0 .. N - 1 /\ (r < n => r \in 1 .. n - 1 /\ r \in 0 .. N - 1)
  OBVIOUS
<1>4. r < n => (Less(h, l, r, load) <=> a[l] < a[r])
  BY <1>3, Keys
<1>5. j = IF r < n /\ ~ Less(h, l, r, load) THEN r ELSE l
  BY DEF Child
<1> HIDE DEF a, j
<1>6. /\ j \in 1 .. n - 1 /\ i < j /\ (j = l \/ j = r)
      /\ a[j] <= a[l]
      /\ r < n => a[j] <= a[r]
  BY <1>1, <1>3, <1>4, <1>5
<1>7. \A c \in 1 .. n - 1 : Parent(c) = i => a[j] <= a[c]
  BY <1>2, <1>3, <1>6
<1> QED
  BY <1>2, <1>6, <1>7 DEF a, j

\* The loop of down, as a loop of Loops.
LEMMA DownLoop ==
  ASSUME NEW N \in Nat, NEW n \in 0 .. N, NEW h, Len(h.arr) = N,
         NEW load, NEW i
  PROVE  \E g : /\ Computes(g, Sift(N), DownStop(N, n, load), DownNext(N, n, load), Result(N))
                /\ Down(h, i, n, load) = g[[heap |-> h, at |-> i]]
<1> DEFINE M == Len(h.arr)
           D == Sift(N)
           stop == DownStop(N, n, load)
           next == DownNext(N, n, load)
           m == [s \in D |-> N - s.at]
           F(f) == [s \in Sift(M) |->
                      LET k == s.at
                          j == Child(s.heap, k, n, load)
                      IN IF 2 * k + 1 >= n \/ ~ Less(s.heap, j, k, load)
                         THEN s.heap
                         ELSE f[[heap |-> Swap(s.heap, k, j), at |-> j]]]
           G(f) == [s \in D |-> IF s \in stop THEN Result(N)[s] ELSE f[next[s]]]
<1>1. \A s \in D : m[s] \in Nat
  BY DEF Sift
<1>2. ASSUME NEW s \in D \ stop PROVE next[s] \in D /\ m[next[s]] < m[s]
  <2> DEFINE j == Child(s.heap, s.at, n, load)
  <2>1. s.heap \in Heap(N) /\ s.at \in 0 .. N - 1 /\ 2 * s.at + 1 < n
    BY DEF Sift, DownStop
  <2>2. j \in 0 .. N - 1 /\ s.at < j
    BY <2>1 DEF Child
  <2>3. Swap(s.heap, s.at, j) \in Heap(N)
    BY <2>1, <2>2, SwapType
  <2>4. next[s] = [heap |-> Swap(s.heap, s.at, j), at |-> j]
    BY DEF DownNext
  <2> HIDE DEF j, next
  <2>5. next[s] \in D /\ next[s].at = j
    BY <2>2, <2>3, <2>4 DEF Sift
  <2> QED BY <2>1, <2>2, <2>5
<1>3. \E g : g = G(g)
  <2>1. stop \in SUBSET D
    BY DEF DownStop
  <2>2. Progress(D, stop, next, m)
    <3> HIDE DEF D, stop, next, m
    <3> QED BY <1>1, <1>2 DEF Progress
  <2>3. \E g : Computes(g, D, stop, next, Result(N))
    <3> HIDE DEF D, stop, next, m
    <3> QED BY <2>1, <2>2, Loops
  <2> QED BY <2>3 DEF Computes
<1>4. ASSUME NEW f PROVE F(f) = G(f)
  BY DEF DownStop, DownNext, Result
<1>5. PICK g : g = G(g)
  BY <1>3
<1>6. g = F(g)
  <2> HIDE DEF F, G
  <2> QED BY <1>4, <1>5
<1> DEFINE u == CHOOSE f : f = F(f)
<1>7. u = F(u)
  <2> HIDE DEF F
  <2> QED BY <1>6
<1>8. Down(h, i, n, load) = u[[heap |-> h, at |-> i]]
  BY DEF Down
<1>9. u = G(u)
  <2> HIDE DEF F, G, u
  <2> QED BY <1>4, <1>7
<1> HIDE DEF u
<1> QED BY <1>8, <1>9 DEF Computes

\* down, on the first n of N elements, restores the order below the element that it
\* begins with; that one may be too small for its place, which up is called for.
LEMMA DownSound ==
  ASSUME NEW N \in Nat, NEW n \in 0 .. N, NEW h, Tidy(h, N), Len(h.arr) = N,
         NEW load, Numbers(load), NEW i \in 0 .. N - 1,
         Sinking(Values(h, N, load), n, i, i)
  PROVE  /\ Kept(h, Down(h, i, n, load), N, n)
         /\ i < n => Rising(Values(Down(h, i, n, load), N, load), n, i)
<1> DEFINE P == {s \in Sift(N) : /\ Kept(h, s.heap, N, n)
                                 /\ Sinking(Values(s.heap, N, load), n, i, s.at)}
           stop == DownStop(N, n, load)
           next == DownNext(N, n, load)
           out == Result(N)
           w == [s \in Sift(N) |-> N - s.at]
           start == [heap |-> h, at |-> i]
<1>1. PICK g : /\ Computes(g, Sift(N), stop, next, out)
               /\ Down(h, i, n, load) = g[start]
  BY DownLoop
<1>2. start \in P
  BY DEF Sift, Kept, Tidy
<1>3. \A s \in P : w[s] \in Nat
  BY DEF Sift
<1>4. ASSUME NEW s \in P \ stop PROVE next[s] \in P /\ w[next[s]] < w[s]
  <2> DEFINE k == s.at
             a == Values(s.heap, N, load)
             j == Child(s.heap, k, n, load)
             t == Swap(s.heap, k, j)
             b == Values(t, N, load)
  <2>1. /\ s \in Sift(N) /\ s.heap \in Heap(N) /\ k \in 0 .. N - 1
        /\ 2 * k + 1 < n /\ Less(s.heap, j, k, load)
        /\ Kept(h, s.heap, N, n) /\ Sinking(a, n, i, k)
    BY DEF Sift, DownStop
  <2>2. /\ j \in 1 .. n - 1 /\ k < j /\ Parent(j) = k
        /\ \A c \in 1 .. n - 1 : Parent(c) = k => a[j] <= a[c]
    BY <2>1, LeastChild
  <2>3. /\ k \in 0 .. n - 1 /\ j \in 0 .. n - 1 /\ j \in 0 .. N - 1
        /\ a \in [0 .. N - 1 -> Int] /\ a[j] < a[k]
    <3>1. k \in 0 .. n - 1 /\ j \in 0 .. n - 1 /\ j \in 0 .. N - 1
      BY <2>1, <2>2
    <3> HIDE DEF j, k
    <3> QED BY <2>1, <3>1, Keys
  <2>4. Kept(h, t, N, n) /\ Swapped(a, b, N, k, j)
    BY <2>1, <2>3, SwapKeeps
  <2>5. t \in Heap(N)
    BY <2>4 DEF Kept, Tidy
  <2>6. b \in [0 .. N - 1 -> Int]
    BY <2>5, Keys
  <2>7. Sinking(b, n, i, j)
    BY <2>1, <2>2, <2>3, <2>4, <2>6, SinkingStep
  <2>8. next[s] = [heap |-> t, at |-> j]
    BY <2>1 DEF DownNext
  <2>9. next[s] \in Sift(N) /\ next[s].heap = t /\ next[s].at = j
    BY <2>3, <2>5, <2>8 DEF Sift
  <2> HIDE DEF next, t, j, k
  <2>10. next[s] \in P
    BY <2>4, <2>7, <2>9
  <2>11. w[next[s]] < w[s]
    <3>1. s.at \in 0 .. N - 1 /\ j \in 0 .. N - 1 /\ s.at < j
      BY <2>1, <2>2, <2>3 DEF k
    <3> QED BY <2>1, <2>9, <3>1
  <2> QED BY <2>10, <2>11
<1>5. PICK y \in P : y \in stop /\ g[start] = out[y]
  <2> HIDE DEF P, stop, next, out, w, start
  <2>1. P \in SUBSET Sift(N)
    BY DEF P
  <2>2. Progress(P, stop, next, w)
    BY <1>3, <1>4 DEF Progress
  <2> QED BY <1>1, <1>2, <2>1, <2>2, LoopRule
<1>6. Down(h, i, n, load) = y.heap /\ Kept(h, y.heap, N, n)
  BY <1>1, <1>5 DEF Result
<1>7. ASSUME i < n PROVE Rising(Values(y.heap, N, load), n, i)
  <2> DEFINE a == Values(y.heap, N, load)
             k == y.at
             j == Child(y.heap, k, n, load)
  <2>1. /\ y.heap \in Heap(N) /\ Sinking(a, n, i, k) /\ k \in 0 .. N - 1
        /\ 2 * k + 1 >= n \/ ~ Less(y.heap, j, k, load)
    BY <1>5 DEF Sift, DownStop
  <2>2. a \in [0 .. N - 1 -> Int]
    BY <2>1, Keys
  <2>3. \A c \in 1 .. n - 1 : Parent(c) = k => a[k] <= a[c]
    <3>1. CASE 2 * k + 1 >= n
      BY <2>1, <3>1, Tree
    <3>2. CASE 2 * k + 1 < n
      <4>1. /\ j \in 1 .. n - 1
            /\ \A c \in 1 .. n - 1 : Parent(c) = k => a[j] <= a[c]
        BY <2>1, <3>2, LeastChild
      <4>2. k \in 0 .. N - 1 /\ j \in 0 .. N - 1 /\ ~ Less(y.heap, j, k, load)
        BY <2>1, <3>2, <4>1
      <4> HIDE DEF j, k
      <4>3. ~ (a[j] < a[k])
        BY <2>1, <4>2, Keys
      <4>4. a[j] \in Int /\ a[k] \in Int /\ \A c \in 1 .. n - 1 : a[c] \in Int
        <5> HIDE DEF a
        <5> QED BY <2>2, <4>2
      <4> HIDE DEF a
      <4> QED BY <4>1, <4>3, <4>4
    <3> QED BY <2>1, <3>1, <3>2
  <2> HIDE DEF a, k
  <2>4. i \in 0 .. n - 1
    BY <1>7
  <2>5. Rising(a, n, i)
    BY <2>1, <2>2, <2>3, <2>4, SinkingStop
  <2> QED BY <2>5 DEF a
<1> QED
  BY <1>6, <1>7

-----------------------------------------------------------------------------
(* heap.Push, heap.Pop and heap.Remove. *)

\* A slice of n elements is a sequence of length n.
LEMMA Slices ==
  ASSUME NEW n \in Nat, NEW s \in [1 .. n -> Backend]
  PROVE  s \in Seq(Backend) /\ Len(s) = n
<1>1. s \in Seq(Backend)
  BY SeqDef
<1>2. Len(s) \in Nat /\ DOMAIN s = 1 .. Len(s)
  BY <1>1, LenProperties
<1>3. DOMAIN s = 1 .. n
  OBVIOUS
<1> QED
  BY <1>1, <1>2, <1>3

\* g is h with the element b, n elements before.
With(h, g, n, b) ==
  /\ Tidy(g, n + 1)
  /\ Members(g, n + 1) = Members(h, n) \cup {b}
  /\ \A c \in Backend \ Members(g, n + 1) : g.index[c] = h.index[c]

\* g is h without its element b, n elements after.
Without(h, g, n, b) ==
  /\ Tidy(g, n)
  /\ Members(g, n) = Members(h, n + 1) \ {b}
  /\ g.index[b] = -1
  /\ \A c \in Backend \ Members(h, n + 1) : g.index[c] = h.index[c]

\* One rearrangement after another.
LEMMA KeptTwice ==
  ASSUME NEW N \in Nat, NEW m \in 0 .. N, NEW h, NEW g, NEW k,
         Kept(h, g, N, N), Kept(g, k, N, m)
  PROVE  Kept(h, k, N, N)
BY DEF Kept

\* Push, before up.
LEMMA Pushing ==
  ASSUME NEW n \in Nat, NEW h, Tidy(h, n), NEW b \in Backend \ Members(h, n),
         NEW load, Numbers(load), Sorted(Values(h, n, load), n)
  PROVE  /\ With(h, PushLast(h, b), n, b)
         /\ Rising(Values(PushLast(h, b), n + 1, load), n + 1, n)
<1> DEFINE p == PushLast(h, b)
<1>1. /\ h \in Heap(n) /\ h.arr \in [1 .. n -> Backend] /\ h.index \in [Backend -> Int]
      /\ h.arr \in Seq(Backend) /\ Len(h.arr) = n
  BY Slices DEF Tidy, Heap
<1>2. /\ Append(h.arr, b) \in Seq(Backend) /\ Len(Append(h.arr, b)) = n + 1
      /\ \A c \in 1 .. n : Append(h.arr, b)[c] = h.arr[c]
      /\ Append(h.arr, b)[n + 1] = b
  BY <1>1
<1>3. Append(h.arr, b) \in [1 .. n + 1 -> Backend]
  BY <1>2, LenProperties
<1>4. p.arr = Append(h.arr, b) /\ p.index = [h.index EXCEPT ![b] = n]
  BY <1>1 DEF PushLast
<1>5. p \in Heap(n + 1)
  BY <1>1, <1>3 DEF PushLast, Heap
<1>6. At(p, n) = b /\ \A c \in 0 .. n - 1 : At(p, c) = At(h, c) /\ At(h, c) \in Backend
  <2>1. \A c \in 0 .. n - 1 : c + 1 \in 1 .. n
    OBVIOUS
  <2> QED BY <1>1, <1>2, <1>4, <2>1 DEF At
<1>7. p.index[b] = n /\ \A c \in Backend : c # b => p.index[c] = h.index[c]
  BY <1>1, <1>4
<1> HIDE DEF p
<1>8. \A c \in 0 .. n : c # n => c \in 0 .. n - 1
  OBVIOUS
<1>9. Tidy(p, n + 1)
  <2>1. /\ \A c, d \in 0 .. n - 1 : At(h, c) = At(h, d) => c = d
        /\ \A c \in 0 .. n - 1 : h.index[At(h, c)] = c /\ At(h, c) # b
    BY DEF Tidy, Members
  <2>2. \A c, d \in 0 .. n : At(p, c) = At(p, d) => c = d
    BY <1>6, <1>8, <2>1
  <2>3. \A c \in 0 .. n : p.index[At(p, c)] = c
    BY <1>6, <1>7, <1>8, <2>1
  <2>4. (n + 1) - 1 = n
    OBVIOUS
  <2> QED BY <1>5, <2>2, <2>3, <2>4 DEF Tidy
<1>10. Members(p, n + 1) = Members(h, n) \cup {b}
  <2>1. Members(p, n + 1) = {At(p, c) : c \in 0 .. n}
    BY DEF Members
  <2>2. \A c \in 0 .. n - 1 : c \in 0 .. n
    OBVIOUS
  <2>3. n \in 0 .. n
    OBVIOUS
  <2>4. \A c \in 0 .. n : At(p, c) = b \/ \E d \in 0 .. n - 1 : At(p, c) = At(h, d)
    BY <1>6, <1>8
  <2>5. \A c \in 0 .. n - 1 : \E d \in 0 .. n : At(h, c) = At(p, d)
    BY <1>6, <2>2
  <2> QED BY <1>6, <2>1, <2>3, <2>4, <2>5 DEF Members
<1>11. With(h, p, n, b)
  BY <1>7, <1>9, <1>10 DEF With
<1>12. Rising(Values(p, n + 1, load), n + 1, n)
  <2> DEFINE a == Values(h, n, load)
             v == Values(p, n + 1, load)
  <2>1. \A c \in 0 .. n - 1 : c \in 0 .. n /\ v[c] = a[c]
    BY <1>6 DEF Values
  <2>2. \A c \in 1 .. n : /\ Parent(c) \in 0 .. n - 1
                          /\ c # n => c \in 0 .. n - 1 /\ c \in 1 .. n - 1
    BY Tree
  <2>3. \A c \in 1 .. n - 1 : a[Parent(c)] <= a[c]
    BY DEF Sorted
  <2> HIDE DEF a, v
  <2>4. \A c \in 1 .. n : c # n => v[Parent(c)] <= v[c]
    BY <2>1, <2>2, <2>3
  <2>5. \A c \in 1 .. n : Parent(c) # n
    BY <2>2
  <2>6. Rising(v, n + 1, n)
    BY <2>4, <2>5 DEF Rising
  <2> QED BY <2>6 DEF v
<1> QED
  BY <1>11, <1>12 DEF p

\* heap.Push adds one backend and restores the order.
LEMMA PushSound ==
  ASSUME NEW n \in Nat, NEW h, Tidy(h, n), NEW b \in Backend \ Members(h, n),
         NEW load, Numbers(load), Sorted(Values(h, n, load), n)
  PROVE  /\ With(h, HeapPush(h, b, load), n, b)
         /\ Sorted(Values(HeapPush(h, b, load), n + 1, load), n + 1)
<1> DEFINE p == PushLast(h, b)
           u == Up(p, n, load)
<1>1. With(h, p, n, b) /\ Rising(Values(p, n + 1, load), n + 1, n)
  BY Pushing
<1>2. n + 1 \in Nat /\ n + 1 \in 0 .. n + 1 /\ Tidy(p, n + 1) /\ Len(p.arr) = n + 1
  BY <1>1, Slices DEF With, Tidy, Heap
<1> HIDE DEF p
<1>3. Kept(p, u, n + 1, n + 1) /\ Sorted(Values(u, n + 1, load), n + 1)
  BY <1>1, <1>2, UpSound
<1>4. Len(h.arr) = n
  BY Slices DEF Tidy, Heap
<1>5. HeapPush(h, b, load) = u
  BY <1>4 DEF HeapPush, p
<1>6. With(h, u, n, b)
  BY <1>1, <1>3 DEF Kept, With
<1> QED
  BY <1>3, <1>5, <1>6

\* Pop, after the element to go was moved to the end.
LEMMA Cut ==
  ASSUME NEW n \in Nat, NEW h, NEW d, Kept(h, d, n + 1, n + 1),
         NEW load, Numbers(load), Sorted(Values(d, n + 1, load), n)
  PROVE  /\ Without(h, PopLast(d), n, At(d, n))
         /\ Sorted(Values(PopLast(d), n, load), n)
<1> DEFINE p == PopLast(d)
           b == At(d, n)
<1>1. /\ d.arr \in [1 .. n + 1 -> Backend] /\ d.index \in [Backend -> Int]
      /\ d.arr \in Seq(Backend) /\ Len(d.arr) = n + 1
  BY Slices DEF Kept, Tidy, Heap
<1>2. /\ \A c, e \in 0 .. n : At(d, c) = At(d, e) => c = e
      /\ \A c \in 0 .. n : d.index[At(d, c)] = c
  BY DEF Kept, Tidy
<1>3. /\ SubSeq(d.arr, 1, n) \in [1 .. n -> Backend]
      /\ \A c \in 1 .. n : SubSeq(d.arr, 1, n)[c] = d.arr[c]
  <2>1. \A c \in 1 .. n : d.arr[c] \in Backend
    BY <1>1
  <2>2. /\ SubSeq(d.arr, 1, n) \in Seq(Backend)
        /\ Len(SubSeq(d.arr, 1, n)) = IF 1 <= n THEN n - 1 + 1 ELSE 0
        /\ \A c \in 1 .. n - 1 + 1 : SubSeq(d.arr, 1, n)[c] = d.arr[1 + c - 1]
    BY <2>1, SubSeqProperties
  <2>3. Len(SubSeq(d.arr, 1, n)) = n
    BY <2>2
  <2>4. SubSeq(d.arr, 1, n) \in [1 .. n -> Backend]
    BY <2>2, <2>3, LenProperties
  <2> QED BY <2>2, <2>4
<1>4. \A c \in 0 .. n : At(d, c) \in Backend /\ (c # n => c \in 0 .. n - 1)
  BY <1>1 DEF At
<1>5. p.arr = SubSeq(d.arr, 1, n) /\ p.index = [d.index EXCEPT ![b] = -1]
  BY <1>1 DEF PopLast
<1>6. p \in Heap(n)
  <2>1. p = [arr |-> SubSeq(d.arr, 1, n), index |-> [d.index EXCEPT ![b] = -1]]
    <3>1. Len(d.arr) - 1 = n
      BY <1>1
    <3> QED BY <3>1 DEF PopLast
  <2>2. [d.index EXCEPT ![b] = -1] \in [Backend -> Int]
    <3> HIDE DEF b
    <3>1. ASSUME NEW v \in Int PROVE [d.index EXCEPT ![b] = v] \in [Backend -> Int]
      BY <1>1
    <3>2. -1 \in Int
      OBVIOUS
    <3> QED BY <3>1, <3>2
  <2> QED BY <1>3, <2>1, <2>2 DEF Heap
<1>7. b \in Backend /\ p.index[b] = -1 /\ \A c \in Backend : c # b => p.index[c] = d.index[c]
  BY <1>1, <1>4, <1>5
<1>8. \A c \in 0 .. n - 1 : c \in 0 .. n /\ c # n /\ At(p, c) = At(d, c)
  BY <1>3, <1>5 DEF At
<1>9. \A c \in 0 .. n - 1 : At(p, c) \in Backend /\ At(p, c) # b
  BY <1>2, <1>4, <1>8
<1> HIDE DEF p
<1>10. Tidy(p, n)
  BY <1>2, <1>4, <1>6, <1>7, <1>8, <1>9 DEF Tidy
<1>11. Members(p, n) = Members(h, n + 1) \ {b}
  <2>1. Members(h, n + 1) = {At(d, c) : c \in 0 .. n}
    BY DEF Kept, Members
  <2>2. \A c \in 0 .. n : At(d, c) # b => \E e \in 0 .. n - 1 : At(d, c) = At(p, e)
    BY <1>4, <1>8
  <2>3. \A c \in 0 .. n - 1 : \E e \in 0 .. n : At(p, c) = At(d, e) /\ At(p, c) # b
    BY <1>8, <1>9
  <2> HIDE DEF b
  <2>4. Members(p, n) \subseteq Members(h, n + 1) \ {b}
    BY <2>1, <2>3 DEF Members
  <2>5. Members(h, n + 1) \ {b} \subseteq Members(p, n)
    BY <2>1, <2>2 DEF Members
  <2> QED BY <2>4, <2>5
<1>12. \A c \in Backend \ Members(h, n + 1) : p.index[c] = h.index[c]
  <2>1. b \in Members(d, n + 1)
    BY DEF Members
  <2> QED BY <1>7, <2>1 DEF Kept
<1>13. Sorted(Values(p, n, load), n)
  <2> DEFINE a == Values(d, n + 1, load)
             v == Values(p, n, load)
  <2>1. \A c \in 0 .. n - 1 : v[c] = a[c]
    BY <1>8 DEF Values
  <2>2. \A c \in 1 .. n - 1 : a[Parent(c)] <= a[c]
    BY DEF Sorted
  <2>3. \A c \in 1 .. n - 1 : c \in 0 .. n - 1 /\ Parent(c) \in 0 .. n - 1
    BY Places
  <2> HIDE DEF a, v
  <2>4. Sorted(v, n)
    BY <2>1, <2>2, <2>3 DEF Sorted
  <2> QED BY <2>4 DEF v
<1> QED
  BY <1>7, <1>10, <1>11, <1>12, <1>13 DEF Without, p

\* Remove and Pop, up to down: the element at i goes to the end, and the last one,
\* in its place, sinks.
LEMMA Exchange ==
  ASSUME NEW n \in Nat, NEW h, Tidy(h, n + 1), NEW i \in 0 .. n,
         NEW load, Numbers(load), Sorted(Values(h, n + 1, load), n + 1)
  PROVE  LET d == Down(Swap(h, i, n), i, n, load) IN
         /\ Kept(h, d, n + 1, n + 1) /\ At(d, n) = At(h, i)
         /\ i < n => Rising(Values(d, n + 1, load), n, i)
<1> DEFINE N == n + 1
           s == Swap(h, i, n)
           d == Down(s, i, n, load)
           a == Values(h, N, load)
           v == Values(s, N, load)
<1>1. N \in Nat /\ n \in 0 .. N /\ N \in 0 .. N /\ i \in 0 .. N - 1 /\ n \in 0 .. N - 1
  OBVIOUS
<1>2. Kept(h, h, N, N) /\ h \in Heap(N)
  BY DEF Kept, Tidy
<1>3. Kept(h, s, N, N) /\ Swapped(a, v, N, i, n)
  <2> HIDE DEF N
  <2> QED BY <1>1, <1>2, SwapKeeps
<1>4. At(s, n) = At(h, i)
  <2> HIDE DEF N
  <2> QED BY <1>1, <1>2, SwapType
<1>5. Tidy(s, N) /\ s \in Heap(N)
  BY <1>3 DEF Kept, Tidy
<1>6. Len(s.arr) = N
  BY <1>1, <1>5, Slices DEF Heap
<1>7. a \in [0 .. N - 1 -> Int] /\ v \in [0 .. N - 1 -> Int]
  BY <1>1, <1>2, <1>5, Keys
<1>8. Sinking(v, n, i, i)
  <2> HIDE DEF a, v, s
  <2>1. \A c \in 1 .. n - 1 : /\ c \in 0 .. N - 1 /\ c # n
                              /\ Parent(c) \in 0 .. N - 1 /\ Parent(c) # n
                              /\ Parent(c) \in 0 .. c - 1
                              /\ a[Parent(c)] <= a[c]
    <3>1. \A c \in 1 .. n - 1 : c \in 1 .. N - 1
      OBVIOUS
    <3>2. \A c \in 1 .. n - 1 : a[Parent(c)] <= a[c]
      BY <3>1 DEF Sorted, a
    <3>3. \A c \in 1 .. n - 1 : Parent(c) \in 0 .. c - 1
      BY Tree
    <3> QED BY <3>2, <3>3
  <2>2. \A c \in 0 .. N - 1 : c # i /\ c # n => v[c] = a[c]
    BY <1>3 DEF Swapped
  <2>3. \A c \in 1 .. n - 1 : Parent(c) # i /\ c # i => v[Parent(c)] <= v[c]
    BY <2>1, <2>2
  <2>4. ASSUME NEW c \in 1 .. n - 1, i > 0, Parent(c) = i PROVE v[Parent(i)] <= v[c]
    <3>1. i \in 1 .. n - 1 /\ c # i
      BY <2>1, <2>4
    <3>2. Parent(i) \in 0 .. N - 1 /\ Parent(i) # n /\ Parent(i) # i
      BY <2>1, <3>1
    <3>3. v[Parent(i)] = a[Parent(i)] /\ v[c] = a[c]
      BY <2>1, <2>2, <3>1, <3>2
    <3>4. a[Parent(i)] <= a[i] /\ a[i] <= a[c]
      BY <2>1, <2>4, <3>1
    <3>5. a[Parent(i)] \in Int /\ a[i] \in Int /\ a[c] \in Int
      BY <1>1, <1>7, <2>1, <3>2
    <3> QED BY <3>3, <3>4, <3>5
  <2> QED BY <2>3, <2>4 DEF Sinking
<1>9. Kept(s, d, N, n) /\ (i < n => Rising(Values(d, N, load), n, i))
  <2> HIDE DEF N, s
  <2> QED BY <1>1, <1>5, <1>6, <1>8, DownSound DEF v
<1>10. Kept(h, d, N, N)
  <2> HIDE DEF N, s, d
  <2> QED BY <1>1, <1>3, <1>9, KeptTwice
<1>11. At(d, n) = At(h, i)
  <2>1. n \in n .. N - 1
    OBVIOUS
  <2>2. At(d, n) = At(s, n)
    <3> HIDE DEF s, d
    <3> QED BY <1>9, <2>1 DEF Kept
  <2> HIDE DEF s, d
  <2> QED BY <1>4, <2>2
<1> QED
  BY <1>9, <1>10, <1>11

\* heap.Pop takes the first element, which is a least one.
LEMMA PopSound ==
  ASSUME NEW n \in Nat, NEW h, Tidy(h, n + 1),
         NEW load, Numbers(load), Sorted(Values(h, n + 1, load), n + 1)
  PROVE  /\ Without(h, HeapPop(h, load), n, At(h, 0))
         /\ Sorted(Values(HeapPop(h, load), n, load), n)
<1> DEFINE d == Down(Swap(h, 0, n), 0, n, load)
<1>1. 0 \in 0 .. n
  OBVIOUS
<1>2. Kept(h, d, n + 1, n + 1) /\ At(d, n) = At(h, 0)
      /\ (0 < n => Rising(Values(d, n + 1, load), n, 0))
  BY <1>1, Exchange
<1>3. HeapPop(h, load) = PopLast(d)
  <2>1. Len(h.arr) = n + 1
    BY Slices DEF Tidy, Heap
  <2>2. Len(h.arr) - 1 = n
    BY <2>1
  <2> QED BY <2>2 DEF HeapPop
<1> HIDE DEF d
<1>4. Sorted(Values(d, n + 1, load), n)
  <2>1. CASE n = 0
    BY <2>1 DEF Sorted
  <2>2. CASE n # 0
    <3>1. Values(d, n + 1, load) \in [0 .. (n + 1) - 1 -> Int]
      BY <1>2, Keys DEF Kept, Tidy
    <3>2. Rising(Values(d, n + 1, load), n, 0) /\ n \in 0 .. n + 1 /\ n + 1 \in Nat
      BY <1>2, <2>2
    <3> QED BY <3>1, <3>2, RisingStop
  <2> QED BY <2>1, <2>2
<1> QED
  BY <1>2, <1>3, <1>4, Cut

\* heap.Remove takes the element at i.
LEMMA RemoveSound ==
  ASSUME NEW n \in Nat, NEW h, Tidy(h, n + 1), NEW i \in 0 .. n,
         NEW load, Numbers(load), Sorted(Values(h, n + 1, load), n + 1)
  PROVE  /\ Without(h, HeapRemove(h, i, load), n, At(h, i))
         /\ Sorted(Values(HeapRemove(h, i, load), n, load), n)
<1>1. Len(h.arr) = n + 1 /\ Len(h.arr) - 1 = n
  <2>1. Len(h.arr) = n + 1
    BY Slices DEF Tidy, Heap
  <2> QED BY <2>1
<1>2. CASE i = n
  <2>1. Kept(h, h, n + 1, n + 1)
    BY DEF Kept
  <2>2. Sorted(Values(h, n + 1, load), n)
    BY DEF Sorted
  <2>3. HeapRemove(h, i, load) = PopLast(h)
    BY <1>1, <1>2 DEF HeapRemove
  <2> QED BY <1>2, <2>1, <2>2, <2>3, Cut
<1>3. CASE i # n
  <2> DEFINE d == Down(Swap(h, i, n), i, n, load)
             u == Up(d, i, load)
  <2>1. HeapRemove(h, i, load) = PopLast(u)
    BY <1>1, <1>3 DEF HeapRemove
  <2>2. Kept(h, d, n + 1, n + 1) /\ At(d, n) = At(h, i)
        /\ Rising(Values(d, n + 1, load), n, i)
    <3>1. i < n
      BY <1>3
    <3> QED BY <3>1, Exchange
  <2> HIDE DEF d
  <2>3. Tidy(d, n + 1) /\ Len(d.arr) = n + 1
    BY <2>2, Slices DEF Kept, Tidy, Heap
  <2>4. n + 1 \in Nat /\ n \in 0 .. n + 1 /\ n \in n .. (n + 1) - 1
    OBVIOUS
  <2>5. Kept(d, u, n + 1, n) /\ Sorted(Values(u, n + 1, load), n)
    BY <2>2, <2>3, <2>4, UpSound
  <2> HIDE DEF u
  <2>6. Kept(h, u, n + 1, n + 1)
    BY <2>2, <2>4, <2>5, KeptTwice
  <2>7. At(u, n) = At(h, i)
    BY <2>2, <2>4, <2>5 DEF Kept
  <2> QED BY <2>1, <2>5, <2>6, <2>7, Cut
<1> QED
  BY <1>2, <1>3

-----------------------------------------------------------------------------
(* The inductive invariant. *)

MembersOf(h) == Members(h, Len(h.arr))

\* What is true of the pool between two calls: it is a heap of backends that were
\* added, and the index field of any other one says that it is not there, or still
\* is what NewBackend left.
Good(h, load, added) ==
  /\ Len(h.arr) \in Nat /\ Tidy(h, Len(h.arr))
  /\ Sorted(Values(h, Len(h.arr), load), Len(h.arr))
  /\ MembersOf(h) \subseteq added
  /\ \A b \in Backend \ MembersOf(h) : h.index[b] = IF b \in added THEN -1 ELSE 0

\* Only backends that were added are in use.
PoolInv ==
  /\ leastweight \in BOOLEAN /\ weight \in Weights
  /\ ongoing \in [Backend -> 0 .. Limit] /\ pushed \subseteq Backend
  /\ Good(heap, ongoing, pushed)
  /\ \A b \in Backend : ongoing[b] > 0 => b \in pushed

\* The index of a member is its place.
LEMMA Indexed ==
  ASSUME NEW h, NEW load, NEW added, Good(h, load, added)
  PROVE  /\ h \in Heap(Len(h.arr)) /\ MembersOf(h) \subseteq Backend
         /\ \A b \in MembersOf(h) : /\ h.index[b] \in 0 .. Len(h.arr) - 1
                                    /\ At(h, h.index[b]) = b
         /\ \A c \in 0 .. Len(h.arr) - 1 : /\ At(h, c) \in MembersOf(h)
                                           /\ h.index[At(h, c)] = c
<1> DEFINE n == Len(h.arr)
<1>1. n \in Nat /\ h \in Heap(n) /\ \A c \in 0 .. n - 1 : h.index[At(h, c)] = c
  BY DEF Good, Tidy
<1>2. \A c \in 0 .. n - 1 : At(h, c) \in Backend
  BY <1>1 DEF Heap, At
<1>3. MembersOf(h) = {At(h, c) : c \in 0 .. n - 1}
  BY DEF MembersOf, Members
<1> HIDE DEF n
<1>4. h \in Heap(n) /\ MembersOf(h) \subseteq Backend
  BY <1>1, <1>2, <1>3
<1>5. \A b \in MembersOf(h) : h.index[b] \in 0 .. n - 1 /\ At(h, h.index[b]) = b
  BY <1>1, <1>3
<1>6. \A c \in 0 .. n - 1 : At(h, c) \in MembersOf(h) /\ h.index[At(h, c)] = c
  BY <1>1, <1>3
<1> QED
  BY <1>4, <1>5, <1>6 DEF n

\* heap.Push of a backend that is not in the pool keeps the invariant.
LEMMA GoodPush ==
  ASSUME NEW h, NEW load, NEW added \in SUBSET Backend, Good(h, load, added),
         Numbers(load), NEW b \in Backend, b \in added => h.index[b] = -1
  PROVE  /\ Good(HeapPush(h, b, load), load, added \cup {b})
         /\ MembersOf(HeapPush(h, b, load)) = MembersOf(h) \cup {b}
<1> DEFINE n == Len(h.arr)
           g == HeapPush(h, b, load)
<1>1. n \in Nat /\ Tidy(h, n) /\ Sorted(Values(h, n, load), n)
  BY DEF Good
<1>2. b \notin MembersOf(h)
  <2> SUFFICES ASSUME b \in MembersOf(h) PROVE FALSE
    OBVIOUS
  <2>1. h.index[b] \in 0 .. n - 1 /\ b \in added
    BY Indexed DEF Good
  <2> QED BY <2>1
<1>3. b \in Backend \ Members(h, n)
  BY <1>2 DEF MembersOf
<1> HIDE DEF n
<1>4. With(h, g, n, b) /\ Sorted(Values(g, n + 1, load), n + 1)
  BY <1>1, <1>3, PushSound
<1> HIDE DEF g
<1>5. n + 1 \in Nat /\ Len(g.arr) = n + 1
  BY <1>1, <1>4, Slices DEF With, Tidy, Heap
<1>6. MembersOf(g) = MembersOf(h) \cup {b}
  BY <1>4, <1>5 DEF With, MembersOf, n
<1>7. \A c \in Backend \ MembersOf(g) : g.index[c] = h.index[c]
  BY <1>4, <1>5 DEF With, MembersOf
<1>8. \A c \in Backend \ MembersOf(g) : g.index[c] = IF c \in added \cup {b} THEN -1 ELSE 0
  BY <1>6, <1>7 DEF Good
<1>9. MembersOf(g) \subseteq added \cup {b}
  BY <1>6 DEF Good
<1>10. Good(g, load, added \cup {b})
  BY <1>4, <1>5, <1>8, <1>9 DEF Good, With
<1> QED
  BY <1>6, <1>10 DEF g

\* What Remove and Pop leave.
LEMMA GoodWithout ==
  ASSUME NEW h, NEW load, NEW added, Good(h, load, added),
         NEW n \in Nat, Len(h.arr) = n + 1, NEW b \in MembersOf(h), NEW g,
         Without(h, g, n, b), Sorted(Values(g, n, load), n)
  PROVE  /\ Good(g, load, added)
         /\ MembersOf(g) = MembersOf(h) \ {b}
         /\ g.index[b] = -1
<1>1. Len(g.arr) = n
  BY Slices DEF Without, Tidy, Heap
<1>2. MembersOf(g) = MembersOf(h) \ {b}
  BY <1>1 DEF Without, MembersOf
<1>3. MembersOf(g) \subseteq added /\ b \in added
  BY <1>2 DEF Good
<1>4. ASSUME NEW c \in Backend \ MembersOf(g)
      PROVE  g.index[c] = IF c \in added THEN -1 ELSE 0
  <2>1. CASE c = b
    BY <1>3, <2>1 DEF Without
  <2>2. CASE c # b
    <3>1. c \in Backend \ MembersOf(h)
      BY <1>2, <2>2
    <3>2. g.index[c] = h.index[c]
      BY <3>1 DEF Without, MembersOf
    <3> QED BY <3>1, <3>2 DEF Good
  <2> QED BY <2>1, <2>2
<1>5. Good(g, load, added)
  BY <1>1, <1>3, <1>4 DEF Good, Without
<1> QED
  BY <1>2, <1>5 DEF Without

\* heap.Remove at the index of a backend takes out that backend.
LEMMA GoodRemove ==
  ASSUME NEW h, NEW load, NEW added \in SUBSET Backend, Good(h, load, added),
         Numbers(load), NEW b \in added, h.index[b] # -1
  PROVE  LET g == HeapRemove(h, h.index[b], load) IN
         /\ Good(g, load, added) /\ MembersOf(g) = MembersOf(h) \ {b}
         /\ g.index[b] = -1 /\ b \in MembersOf(h)
<1> DEFINE n == Len(h.arr) - 1
           i == h.index[b]
           g == HeapRemove(h, i, load)
<1>1. b \in MembersOf(h)
  BY DEF Good
<1>2. i \in 0 .. Len(h.arr) - 1 /\ At(h, i) = b
  BY <1>1, Indexed
<1>3. /\ n \in Nat /\ Len(h.arr) = n + 1 /\ i \in 0 .. n
      /\ Tidy(h, n + 1) /\ Sorted(Values(h, n + 1, load), n + 1)
  BY <1>2 DEF Good
<1> HIDE DEF n, i
<1>4. Without(h, g, n, b) /\ Sorted(Values(g, n, load), n)
  BY <1>2, <1>3, RemoveSound
<1> HIDE DEF g
<1>5. Good(g, load, added) /\ MembersOf(g) = MembersOf(h) \ {b} /\ g.index[b] = -1
  BY <1>1, <1>3, <1>4, GoodWithout
<1> QED
  BY <1>1, <1>5 DEF g, i

\* The backend that dispatch takes is a least one.
LEMMA GoodPop ==
  ASSUME NEW h, NEW load, NEW added \in SUBSET Backend, Good(h, load, added),
         Numbers(load), h.arr # <<>>
  PROVE  LET b == h.arr[1]
             g == HeapPop(h, load)
         IN /\ b \in MembersOf(h) /\ b \in added
            /\ \A c \in MembersOf(h) : Key(load)[b] <= Key(load)[c]
            /\ Good(g, load, added) /\ MembersOf(g) = MembersOf(h) \ {b}
            /\ g.index[b] = -1
<1> DEFINE n == Len(h.arr) - 1
           b == h.arr[1]
           g == HeapPop(h, load)
<1>1. /\ Len(h.arr) \in Nat /\ h.arr \in [1 .. Len(h.arr) -> Backend]
      /\ h.arr \in Seq(Backend)
  BY Slices DEF Good, Tidy, Heap
<1>2. Len(h.arr) # 0
  BY <1>1
<1>3. n \in Nat /\ Len(h.arr) = n + 1
  BY <1>1, <1>2
<1> HIDE DEF n
<1>4. /\ Tidy(h, n + 1) /\ Sorted(Values(h, n + 1, load), n + 1)
      /\ b = At(h, 0) /\ b \in MembersOf(h)
  <2>1. 0 \in 0 .. Len(h.arr) - 1
    BY <1>3
  <2>2. At(h, 0) \in MembersOf(h)
    BY <2>1, Indexed
  <2>3. b = At(h, 0)
    BY DEF At
  <2> QED BY <1>3, <2>2, <2>3 DEF Good
<1>5. Without(h, g, n, b) /\ Sorted(Values(g, n, load), n)
  BY <1>3, <1>4, PopSound
<1>6. ASSUME NEW c \in MembersOf(h) PROVE Key(load)[b] <= Key(load)[c]
  <2> DEFINE a == Values(h, n + 1, load)
             i == h.index[c]
  <2>1. i \in 0 .. n /\ At(h, i) = c /\ h \in Heap(n + 1) /\ n + 1 \in Nat
    BY <1>3, Indexed
  <2>2. /\ a \in [0 .. (n + 1) - 1 -> Int]
        /\ \A d \in 0 .. (n + 1) - 1 : a[d] = Key(load)[At(h, d)]
    BY <2>1, Keys
  <2>3. \A d \in 0 .. (n + 1) - 1 : a[0] <= a[d]
    <3> HIDE DEF a
    <3> QED BY <1>4, <2>1, <2>2, FirstLeast DEF a
  <2>4. i \in 0 .. (n + 1) - 1 /\ 0 \in 0 .. (n + 1) - 1
    BY <1>3, <2>1
  <2> HIDE DEF a, i
  <2> QED BY <1>4, <2>1, <2>2, <2>3, <2>4
<1> HIDE DEF g, b
<1>7. Good(g, load, added) /\ MembersOf(g) = MembersOf(h) \ {b} /\ g.index[b] = -1
  BY <1>3, <1>4, <1>5, GoodWithout
<1>8. b \in added
  BY <1>4 DEF Good
<1> QED
  BY <1>4, <1>6, <1>7, <1>8 DEF b, g

\* The load of a backend may change while it is not in the pool.
LEMMA GoodLoad ==
  ASSUME NEW h, NEW load, NEW added, Good(h, load, added),
         NEW other, \A b \in MembersOf(h) : other[b] = load[b]
  PROVE  Good(h, other, added)
<1> DEFINE n == Len(h.arr)
<1>1. \A c \in 0 .. n - 1 : At(h, c) \in MembersOf(h) /\ At(h, c) \in Backend
  BY Indexed
<1>2. \A c \in 0 .. n - 1 : Key(other)[At(h, c)] = Key(load)[At(h, c)]
  BY <1>1 DEF Key
<1>3. Values(h, n, other) = Values(h, n, load)
  BY <1>2 DEF Values
<1> QED
  BY <1>3 DEF Good

\* Less reads numbers.
LEMMA Types ==
  ASSUME PoolInv
  PROVE  /\ Numbers(ongoing)
         /\ weight \in [Backend -> Nat]
         /\ \A load \in [Backend -> 0 .. Limit] : Numbers(load)
<1>1. Limit \in Nat /\ Cardinality(Backend) \in Nat
  BY PoolAssumption, FS_CardinalityType
<1>2. weight \in [Backend -> Nat]
  BY <1>1 DEF PoolInv, Weights
<1>3. weight \in [Backend -> Int]
  BY <1>2
<1>4. \A load \in [Backend -> 0 .. Limit] : load \in [Backend -> Int]
  BY <1>1
<1> QED
  BY <1>2, <1>3, <1>4 DEF PoolInv, Numbers

\* The weights do not change, so neither does what a heap is.
LEMMA GoodNext ==
  ASSUME UNCHANGED fixed, Good(heap', ongoing', pushed')
  PROVE  Good(heap, ongoing, pushed)'
<1>1. Values(heap, Len(heap.arr), ongoing)' = Values(heap', Len(heap'.arr), ongoing')
  BY DEF Values, Key, fixed, At
<1>2. Sorted(Values(heap, Len(heap.arr), ongoing), Len(heap.arr))'
  BY <1>1 DEF Good, Sorted, Parent
<1> QED
  BY <1>2 DEF Good, Tidy, MembersOf, Members, Heap, At

\* NewScheduler's pool.
LEMMA PoolInit == Init => PoolInv
<1> SUFFICES ASSUME Init PROVE PoolInv
  OBVIOUS
<1>1. Limit \in Nat
  BY PoolAssumption
<1>2. heap.arr = <<>> /\ heap.index = [b \in Backend |-> 0]
  BY DEF Init
<1>3. Len(heap.arr) = 0
  BY <1>2
<1>4. heap \in Heap(0)
  <2>1. <<>> \in [1 .. 0 -> Backend]
    OBVIOUS
  <2>2. [b \in Backend |-> 0] \in [Backend -> Int]
    OBVIOUS
  <2> QED BY <2>1, <2>2 DEF Init, Heap
<1>5. Tidy(heap, 0) /\ MembersOf(heap) = {} /\ Sorted(Values(heap, 0, ongoing), 0)
  BY <1>3, <1>4 DEF Tidy, MembersOf, Members, Sorted
<1>6. Good(heap, ongoing, pushed)
  BY <1>2, <1>3, <1>5 DEF Good, Init
<1> QED
  BY <1>1, <1>6 DEF Init, PoolInv

\* AddBackend.
LEMMA AddStep ==
  ASSUME PoolInv, NEW b \in Backend, Add(b)
  PROVE  PoolInv' /\ MembersOf(heap') = MembersOf(heap) \cup {b}
<1>1. /\ Good(HeapPush(heap, b, ongoing), ongoing, pushed \cup {b})
      /\ MembersOf(HeapPush(heap, b, ongoing)) = MembersOf(heap) \cup {b}
  <2>1. pushed \in SUBSET Backend /\ Numbers(ongoing) /\ Good(heap, ongoing, pushed)
        /\ (b \in pushed => heap.index[b] = -1)
    BY Types DEF PoolInv, Add
  <2> QED BY <2>1, GoodPush
<1>2. Good(heap, ongoing, pushed)'
  BY <1>1, GoodNext DEF Add
<1>3. (leastweight \in BOOLEAN /\ weight \in Weights)'
  BY DEF PoolInv, Add, fixed, Weights
<1> QED
  BY <1>1, <1>2, <1>3 DEF PoolInv, Add

\* RemoveBackend.
LEMMA RemoveStep ==
  ASSUME PoolInv, NEW b \in Backend, Remove(b)
  PROVE  PoolInv' /\ MembersOf(heap') = MembersOf(heap) \ {b}
<1>1. Good(heap', ongoing, pushed) /\ MembersOf(heap') = MembersOf(heap) \ {b}
  <2>1. /\ pushed \in SUBSET Backend /\ Numbers(ongoing) /\ b \in pushed
        /\ Good(heap, ongoing, pushed)
    BY Types DEF PoolInv, Remove
  <2>2. CASE heap.index[b] = -1
    <3>1. heap' = heap /\ b \notin MembersOf(heap)
      <4>1. b \in MembersOf(heap) => heap.index[b] \in 0 .. Len(heap.arr) - 1
        BY <2>1, Indexed
      <4> QED BY <2>2, <4>1 DEF Remove
    <3> QED BY <2>1, <3>1
  <2>3. CASE heap.index[b] # -1
    BY <2>1, <2>3, GoodRemove DEF Remove
  <2> QED BY <2>2, <2>3
<1>2. Good(heap, ongoing, pushed)'
  BY <1>1, GoodNext DEF Remove
<1>3. (leastweight \in BOOLEAN /\ weight \in Weights)'
  BY DEF PoolInv, Remove, fixed, Weights
<1> QED
  BY <1>1, <1>2, <1>3 DEF PoolInv, Remove

\* dispatch takes a least backend and puts it back with one connection more.
LEMMA DispatchStep ==
  ASSUME PoolInv, Dispatch
  PROVE  /\ PoolInv' /\ MembersOf(heap') = MembersOf(heap)
         /\ \E b \in MembersOf(heap) :
              /\ b \in Backend /\ \A c \in MembersOf(heap) : Key(ongoing)[b] <= Key(ongoing)[c]
              /\ ongoing' = IF ongoing[b] >= Limit THEN ongoing
                            ELSE [ongoing EXCEPT ![b] = @ + 1]
<1> DEFINE b == heap.arr[1]
           rest == HeapPop(heap, ongoing)
           load == IF ongoing[b] >= Limit THEN ongoing ELSE [ongoing EXCEPT ![b] = @ + 1]
<1>1. /\ heap.arr # <<>> /\ ongoing' = load /\ heap' = HeapPush(rest, b, load)
      /\ UNCHANGED <<fixed, pushed>>
  BY DEF Dispatch
<1>2. /\ pushed \in SUBSET Backend /\ Numbers(ongoing) /\ Good(heap, ongoing, pushed)
      /\ ongoing \in [Backend -> 0 .. Limit] /\ Limit \in Nat
  BY Types, PoolAssumption DEF PoolInv
<1>3. /\ b \in MembersOf(heap) /\ b \in pushed /\ b \in Backend
      /\ \A c \in MembersOf(heap) : Key(ongoing)[b] <= Key(ongoing)[c]
      /\ Good(rest, ongoing, pushed) /\ MembersOf(rest) = MembersOf(heap) \ {b}
      /\ rest.index[b] = -1
  BY <1>1, <1>2, GoodPop
<1> HIDE DEF b, rest
<1>4. /\ load \in [Backend -> 0 .. Limit]
      /\ \A c \in Backend : c # b => load[c] = ongoing[c]
  BY <1>2, <1>3
<1>5. Numbers(load)
  BY <1>4, Types
<1> HIDE DEF load
<1>6. Good(rest, load, pushed)
  <2>1. MembersOf(rest) \subseteq Backend /\ b \notin MembersOf(rest)
    BY <1>3, Indexed
  <2>2. \A c \in MembersOf(rest) : load[c] = ongoing[c]
    BY <1>4, <2>1
  <2> QED BY <1>3, <2>2, GoodLoad
<1>7. /\ Good(heap', load, pushed \cup {b})
      /\ MembersOf(heap') = MembersOf(rest) \cup {b}
  BY <1>1, <1>2, <1>3, <1>5, <1>6, GoodPush
<1>8. Good(heap, ongoing, pushed)'
  <2>1. pushed \cup {b} = pushed
    BY <1>3
  <2> QED BY <1>1, <1>7, <2>1, GoodNext
<1>9. (leastweight \in BOOLEAN /\ weight \in Weights)'
  BY <1>1 DEF PoolInv, fixed, Weights
<1>10. PoolInv'
  BY <1>1, <1>3, <1>4, <1>8, <1>9 DEF PoolInv
<1> QED
  BY <1>1, <1>3, <1>7, <1>10 DEF load

\* finish changes the load of a backend while it is out of the pool.
LEMMA FinishStep ==
  ASSUME PoolInv, NEW b \in Backend, NEW failed \in BOOLEAN, Finish(b, failed)
  PROVE  PoolInv' /\ MembersOf(heap') \in {MembersOf(heap), MembersOf(heap) \ {b}}
<1> DEFINE load == [ongoing EXCEPT ![b] = @ - 1]
           out == IF heap.index[b] = -1 THEN heap
                  ELSE HeapRemove(heap, heap.index[b], ongoing)
<1>1. /\ ongoing[b] > 0 /\ ongoing' = load /\ UNCHANGED <<fixed, pushed>>
      /\ heap' = IF failed \/ heap.index[b] = -1 THEN out ELSE HeapPush(out, b, load)
  BY DEF Finish
<1>2. /\ pushed \in SUBSET Backend /\ Numbers(ongoing) /\ Good(heap, ongoing, pushed)
      /\ ongoing \in [Backend -> 0 .. Limit] /\ Limit \in Nat /\ b \in pushed
  BY <1>1, Types, PoolAssumption DEF PoolInv
<1>3. /\ Good(out, ongoing, pushed) /\ MembersOf(out) = MembersOf(heap) \ {b}
      /\ out.index[b] = -1
      /\ heap.index[b] # -1 => b \in MembersOf(heap)
  <2>1. CASE heap.index[b] = -1
    <3>1. b \in MembersOf(heap) => heap.index[b] \in 0 .. Len(heap.arr) - 1
      BY <1>2, Indexed
    <3> QED BY <1>2, <2>1, <3>1
  <2>2. CASE heap.index[b] # -1
    BY <1>2, <2>2, GoodRemove
  <2> QED BY <2>1, <2>2
<1> HIDE DEF out
<1>4. /\ load \in [Backend -> 0 .. Limit]
      /\ \A c \in Backend : c # b => load[c] = ongoing[c]
      /\ \A c \in Backend : load[c] > 0 => ongoing[c] > 0
  BY <1>1, <1>2
<1>5. Numbers(load)
  BY <1>4, Types
<1> HIDE DEF load
<1>6. Good(out, load, pushed)
  <2>1. MembersOf(out) \subseteq Backend /\ b \notin MembersOf(out)
    BY <1>3, Indexed
  <2>2. \A c \in MembersOf(out) : load[c] = ongoing[c]
    BY <1>4, <2>1
  <2> QED BY <1>3, <2>2, GoodLoad
<1>7. /\ Good(heap', load, pushed)
      /\ MembersOf(heap') \in {MembersOf(heap), MembersOf(heap) \ {b}}
  <2>1. CASE failed \/ heap.index[b] = -1
    BY <1>1, <1>3, <1>6, <2>1
  <2>2. CASE ~ (failed \/ heap.index[b] = -1)
    <3>1. heap' = HeapPush(out, b, load)
      BY <1>1, <2>2
    <3>2. /\ Good(heap', load, pushed \cup {b})
          /\ MembersOf(heap') = MembersOf(out) \cup {b}
      BY <1>2, <1>3, <1>5, <1>6, <3>1, GoodPush
    <3>3. pushed \cup {b} = pushed /\ MembersOf(out) \cup {b} = MembersOf(heap)
      BY <1>2, <1>3, <2>2
    <3> QED BY <3>2, <3>3
  <2> QED BY <2>1, <2>2
<1>8. Good(heap, ongoing, pushed)'
  BY <1>1, <1>7, GoodNext
<1>9. (leastweight \in BOOLEAN /\ weight \in Weights)'
  BY <1>1 DEF PoolInv, fixed, Weights
<1>10. \A c \in Backend : load[c] > 0 => c \in pushed
  BY <1>4 DEF PoolInv
<1> QED
  BY <1>1, <1>4, <1>7, <1>8, <1>9, <1>10 DEF PoolInv

\* Every call keeps the invariant.
LEMMA PoolStep == PoolInv /\ [Next]_vars => PoolInv'
<1> SUFFICES ASSUME PoolInv, [Next]_vars PROVE PoolInv'
  OBVIOUS
<1>1. CASE Dispatch
  BY <1>1, DispatchStep
<1>2. ASSUME NEW b \in Backend, Add(b) PROVE PoolInv'
  BY <1>2, AddStep
<1>3. ASSUME NEW b \in Backend, Remove(b) PROVE PoolInv'
  BY <1>3, RemoveStep
<1>4. ASSUME NEW b \in Backend, NEW failed \in BOOLEAN, Finish(b, failed) PROVE PoolInv'
  BY <1>4, FinishStep
<1>5. CASE UNCHANGED vars
  <2>1. Good(heap, ongoing, pushed)'
    BY <1>5, GoodNext DEF vars, PoolInv
  <2>2. (leastweight \in BOOLEAN /\ weight \in Weights)'
    BY <1>5 DEF PoolInv, vars, fixed, Weights
  <2> QED BY <1>5, <2>1, <2>2 DEF PoolInv, vars
<1> QED
  BY <1>1, <1>2, <1>3, <1>4, <1>5 DEF Next

\* The invariant holds between any two calls of the scheduler, for any number of
\* backends.
THEOREM PoolInductive == Spec => []PoolInv
<1>1. Init => PoolInv
  BY PoolInit
<1>2. PoolInv /\ [Next]_vars => PoolInv'
  BY PoolStep
<1> QED
  BY <1>1, <1>2, PTL DEF Spec

-----------------------------------------------------------------------------
(* What the runs check, for any number of backends. *)

\* The slice never holds a backend twice, and every field has its type.
THEOREM PoolTyped == Spec => []TypeOK
<1>1. PoolInv => TypeOK
  <2> SUFFICES ASSUME PoolInv PROVE TypeOK
    OBVIOUS
  <2> DEFINE n == Len(heap.arr)
  <2>1. Good(heap, ongoing, pushed) /\ n \in Nat /\ Tidy(heap, n)
    BY DEF PoolInv, Good
  <2>2. /\ heap.arr \in [1 .. n -> Backend] /\ heap.arr \in Seq(Backend)
        /\ heap.index \in [Backend -> Int]
    BY <2>1, Slices DEF Tidy, Heap
  <2>3. \A i, j \in DOMAIN heap.arr : heap.arr[i] = heap.arr[j] => i = j
    <3>1. \A i \in 1 .. n : i - 1 \in 0 .. n - 1 /\ At(heap, i - 1) = heap.arr[i]
      BY DEF At
    <3>2. \A c, d \in 0 .. n - 1 : At(heap, c) = At(heap, d) => c = d
      BY <2>1 DEF Tidy
    <3> HIDE DEF n
    <3>3. \A i, j \in 1 .. n : heap.arr[i] = heap.arr[j] => i - 1 = j - 1
      BY <3>1, <3>2
    <3>4. \A i, j \in 1 .. n : i - 1 = j - 1 => i = j
      OBVIOUS
    <3>5. DOMAIN heap.arr = 1 .. n
      BY <2>2
    <3> QED BY <3>3, <3>4, <3>5
  <2>4. ASSUME NEW b \in Backend PROVE heap.index[b] \in -1 .. n
    <3>1. CASE b \in MembersOf(heap)
      BY <2>1, <3>1, Indexed
    <3>2. CASE b \notin MembersOf(heap)
      BY <2>1, <3>2 DEF Good
    <3> QED BY <3>1, <3>2
  <2>5. heap.index \in [Backend -> -1 .. n]
    BY <2>2, <2>4
  <2> QED BY <2>2, <2>3, <2>5 DEF TypeOK, PoolInv
<1> QED
  BY <1>1, PoolInductive, PTL

\* The index that finish, RemoveBackend and the bring-back of Schedule act on is
\* the place of that backend, or says that it is not in the pool.
THEOREM IndexesExact == Spec => []IndexExact
<1>1. PoolInv => IndexExact
  <2> SUFFICES ASSUME PoolInv, NEW b \in pushed
               PROVE  IF heap.index[b] = -1
                      THEN \A i \in DOMAIN heap.arr : heap.arr[i] # b
                      ELSE /\ heap.index[b] + 1 \in DOMAIN heap.arr
                           /\ At(heap, heap.index[b]) = b
    BY DEF IndexExact
  <2> DEFINE n == Len(heap.arr)
  <2>1. /\ Good(heap, ongoing, pushed) /\ n \in Nat /\ b \in Backend
        /\ DOMAIN heap.arr = 1 .. n
    BY DEF PoolInv, Good, Tidy, Heap
  <2>2. CASE heap.index[b] = -1
    <3>1. ASSUME NEW i \in 1 .. n, heap.arr[i] = b PROVE FALSE
      <4>1. i - 1 \in 0 .. n - 1 /\ At(heap, i - 1) = b
        BY <3>1 DEF At
      <4>2. heap.index[b] = i - 1
        BY <2>1, <4>1, Indexed
      <4> QED BY <2>2, <4>1, <4>2
    <3> QED BY <2>1, <2>2, <3>1
  <2>3. CASE heap.index[b] # -1
    <3>1. b \in MembersOf(heap)
      BY <2>1, <2>3 DEF Good
    <3>2. heap.index[b] \in 0 .. n - 1 /\ At(heap, heap.index[b]) = b
      BY <2>1, <3>1, Indexed
    <3> QED BY <2>1, <2>3, <3>2
  <2> QED BY <2>2, <2>3
<1> QED
  BY <1>1, PoolInductive, PTL

\* The slice is a heap between any two calls, although the ongoing fields that its
\* order is by change outside the calls of container/heap.
THEOREM HeapOrdered == Spec => []HeapOrder
<1>1. PoolInv => HeapOrder
  <2> SUFFICES ASSUME PoolInv, NEW i \in 1 .. Len(heap.arr) - 1
               PROVE  ~ Less(heap, i, (i - 1) \div 2, ongoing)
    BY DEF HeapOrder
  <2> DEFINE n == Len(heap.arr)
             a == Values(heap, n, ongoing)
  <2>1. /\ n \in Nat /\ heap \in Heap(n) /\ Numbers(ongoing)
        /\ a[Parent(i)] <= a[i]
    BY Types DEF PoolInv, Good, Tidy, Sorted
  <2>2. Parent(i) = (i - 1) \div 2 /\ i \in 0 .. n - 1 /\ Parent(i) \in 0 .. n - 1
    <3>1. Parent(i) \in 0 .. i - 1
      BY <2>1, Tree
    <3> QED BY <2>1, <3>1 DEF Parent
  <2>3. /\ a[i] \in Int /\ a[Parent(i)] \in Int
        /\ Less(heap, i, Parent(i), ongoing) <=> a[i] < a[Parent(i)]
    <3>1. a \in [0 .. n - 1 -> Int]
      BY <2>1, Keys
    <3>2. Less(heap, i, Parent(i), ongoing) <=> a[i] < a[Parent(i)]
      BY <2>1, <2>2, Keys
    <3> HIDE DEF a
    <3> QED BY <2>2, <3>1, <3>2
  <2> QED BY <2>1, <2>2, <2>3
<1> QED
  BY <1>1, PoolInductive, PTL

\* The two ways to say what a slice holds.
LEMMA Elements ==
  ASSUME NEW h, Len(h.arr) \in Nat, h \in Heap(Len(h.arr))
  PROVE  {h.arr[i] : i \in DOMAIN h.arr} = MembersOf(h)
<1> DEFINE n == Len(h.arr)
           members == {h.arr[i] : i \in DOMAIN h.arr}
<1>1. n \in Nat /\ DOMAIN h.arr = 1 .. n
  BY DEF Heap
<1>2. \A i \in 1 .. n : i - 1 \in 0 .. n - 1 /\ At(h, i - 1) = h.arr[i]
  BY <1>1 DEF At
<1>3. \A c \in 0 .. n - 1 : c + 1 \in 1 .. n /\ At(h, c) = h.arr[c + 1]
  BY <1>1 DEF At
<1>4. MembersOf(h) = {At(h, c) : c \in 0 .. n - 1}
  BY DEF MembersOf, Members
<1> HIDE DEF n
<1>5. members \subseteq MembersOf(h)
  BY <1>1, <1>2, <1>4
<1>6. MembersOf(h) \subseteq members
  BY <1>1, <1>3, <1>4
<1> QED
  BY <1>5, <1>6

\* The pool is a priority set: each call keeps the backends that it should, and the
\* one that dispatch takes has the least key.
THEOREM PoolIsPrioritySet == Spec => ImplementsPrioritySet
<1> DEFINE members == {heap.arr[i] : i \in DOMAIN heap.arr}
<1>1. Init => Abstract!Init
  <2> SUFFICES ASSUME Init PROVE Abstract!Init
    OBVIOUS
  <2>1. weight \in [Backend -> Nat]
    BY PoolInit, Types
  <2>2. members = {}
    BY DEF Init
  <2> QED BY <2>1, <2>2 DEF Init, Abstract!Init
<1>2. PoolInv /\ PoolInv' /\ [Next]_vars => [Abstract!Next]_Abstract!vars
  <2> SUFFICES ASSUME PoolInv, PoolInv', [Next]_vars
               PROVE  [Abstract!Next]_Abstract!vars
    OBVIOUS
  <2>1. members = MembersOf(heap) /\ members' = MembersOf(heap')
    <3>1. Len(heap.arr) \in Nat /\ heap \in Heap(Len(heap.arr))
      BY DEF PoolInv, Good, Tidy
    <3>2. Len(heap'.arr) \in Nat /\ heap' \in Heap(Len(heap'.arr))
      BY DEF PoolInv, Good, Tidy, Heap
    <3> QED BY <3>1, <3>2, Elements
  <2> DEFINE Same == UNCHANGED <<leastweight, weight>>
  <2> HIDE DEF members
  <2>2. CASE Dispatch
    <3>1. /\ MembersOf(heap') = MembersOf(heap)
          /\ \E b \in MembersOf(heap) :
               /\ b \in Backend
               /\ \A c \in MembersOf(heap) : Key(ongoing)[b] <= Key(ongoing)[c]
               /\ ongoing' = IF ongoing[b] >= Limit THEN ongoing
                             ELSE [ongoing EXCEPT ![b] = @ + 1]
      BY <2>2, DispatchStep
    <3>2. members' = members /\ Same
      BY <2>1, <2>2, <3>1 DEF Dispatch, fixed
    <3>3. PICK b \in MembersOf(heap) :
            /\ b \in Backend
            /\ \A c \in MembersOf(heap) : Key(ongoing)[b] <= Key(ongoing)[c]
            /\ ongoing' = IF ongoing[b] >= Limit THEN ongoing
                          ELSE [ongoing EXCEPT ![b] = @ + 1]
      BY <3>1
    <3>4. Abstract!Least(b)
      <4>1. \A c \in MembersOf(heap) : c \in Backend
        BY Indexed DEF PoolInv
      <4>2. \A c \in Backend : Key(ongoing)[c] = Abstract!Key(c)
        BY DEF Key, Abstract!Key
      <4> QED BY <2>1, <3>3, <4>1, <4>2 DEF Abstract!Least, members
    <3>5. CASE ongoing[b] >= Limit
      BY <3>2, <3>3, <3>5 DEF Abstract!vars, Abstract!fixed, members
    <3>6. CASE ~ (ongoing[b] >= Limit)
      <4>1. ongoing[b] < Limit
        BY <3>3, <3>6, PoolAssumption DEF PoolInv
      <4>2. Abstract!Place(b)
        BY <3>2, <3>3, <3>4, <3>6, <4>1 DEF Abstract!Place, Abstract!fixed, members
      <4> QED BY <3>3, <4>2 DEF Abstract!Next
    <3> QED BY <3>5, <3>6
  <2>3. ASSUME NEW b \in Backend, Add(b) PROVE Abstract!Next
    <3>1. members' = members \cup {b} /\ Same /\ ongoing' = ongoing
      BY <2>1, <2>3, AddStep DEF Add, fixed
    <3>2. Abstract!Add(b)
      BY <3>1 DEF Abstract!Add, Abstract!fixed, members
    <3> QED BY <3>2 DEF Abstract!Next
  <2>4. ASSUME NEW b \in Backend, Remove(b) PROVE Abstract!Next
    <3>1. members' = members \ {b} /\ Same /\ ongoing' = ongoing
      BY <2>1, <2>4, RemoveStep DEF Remove, fixed
    <3>2. Abstract!Remove(b)
      BY <3>1 DEF Abstract!Remove, Abstract!fixed, members
    <3> QED BY <3>2 DEF Abstract!Next
  <2>5. ASSUME NEW b \in Backend, NEW failed \in BOOLEAN, Finish(b, failed)
        PROVE  Abstract!Next
    <3>1. members' \in {members, members \ {b}} /\ Same
      BY <2>1, <2>5, FinishStep DEF Finish, fixed
    <3>2. ongoing[b] > 0 /\ ongoing' = [ongoing EXCEPT ![b] = @ - 1]
      BY <2>5 DEF Finish
    <3>3. Abstract!Finish(b)
      BY <3>1, <3>2 DEF Abstract!Finish, Abstract!fixed, members
    <3> QED BY <3>3 DEF Abstract!Next
  <2>6. CASE UNCHANGED vars
    BY <2>6 DEF vars, fixed, Abstract!vars, Abstract!fixed, members
  <2> QED BY <2>2, <2>3, <2>4, <2>5, <2>6 DEF Next
<1> QED
  BY <1>1, <1>2, PoolInductive, PTL DEF Spec, Abstract!Spec, ImplementsPrioritySet

=============================================================================
