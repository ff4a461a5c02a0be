--------------------------- MODULE StreamdProofs ---------------------------
(***************************************************************************)
(* Theorems about modules Spdystream and Streamd, for every value of their *)
(* constants.                                                              *)
(***************************************************************************)
EXTENDS Streamd, TLAPS, FiniteSetTheorems, SequenceTheorems

-----------------------------------------------------------------------------
(* The inductive invariant. *)

\* The types of frames.
Kind == {"syn", "reply", "data", "rst", "ping", "goaway"}

\* The ids of the streams of the connection.
Ids == {Id(n) : n \in Index}

\* The frames that are written; those of a stream name it.
Frames ==
  {f \in [type : Kind, id : Nat, word : Nat, flags : {0, 1}, data : Seq(Nat)] :
     f.type \notin {"ping", "goaway"} => f.id \in Ids}

\* What is on the transport.
Written ==
  {f \in [control : BOOLEAN, type : Kind, flags : {0, 1}, length : Nat, id : Nat,
          word : Nat, data : Seq(Nat), block : Nat] :
     f.type \notin {"ping", "goaway"} => f.id \in Ids}

\* What a Connection object holds.
Connections ==
  [open : BOOLEAN, serving : BOOLEAN, goneAway : BOOLEAN,
   shut : {"no", "goaway", "waiting", "closed", "failed"}, received : Nat, next : Nat,
   robin : Worker, resets : SUBSET Ids, pinged : BOOLEAN]

\* What a Stream object holds.
Streams == [known : BOOLEAN, replied : BOOLEAN, finished : BOOLEAN, closed : BOOLEAN]

\* What a frame queue holds.
Queued == [frame : Frames, priority : Nat]

\* What a frame handler may be doing.
Workers == [at : {"idle", "handler", "data", "reset"}, n : Nat, data : Seq(Nat)]

\* Where the copiers of a stream may be.
Copiers ==
  [out : {"none", "syn", "copy", "close", "finish", "done"},
   in : {"none", "read", "write", "done"}, held : Seq(Nat)]

\* The types of the variables of the library ...
LibTyped ==
  /\ wire \in [End -> Seq(Written)]
  /\ blocks \in [End -> [out : Nat, in : Nat]]
  /\ conn \in [End -> Connections]
  /\ queue \in [End -> [Worker -> Seq(Queued)]]
  /\ worker \in [End -> [Worker -> Workers]]
  /\ stream \in [End -> [Index -> Streams]]

\* ... and of those of the two programs.
AppTyped ==
  /\ sock \in [End -> [Index -> {"none", "open", "gone", "closed"}]]
  /\ said \in [End -> [Index -> Nat]]
  /\ heard \in [End -> [Index -> Seq(Nat)]]
  /\ copier \in [End -> [Index -> Copiers]]
  /\ tunnel \in {"new", "pinging", "up", "dead"}
  /\ lost \in BOOLEAN

\* The header blocks among the first k frames.
Count(w, k) == Cardinality({j \in 1 .. k : w[j].type \in Compressed})

\* A transport with the frames w, of which `in' header blocks were read before and `out'
\* were compressed in all: what is on it can be read, and with what was read it is all
\* that the writer has compressed.  Nothing is on a transport that was closed.
Flowing(w, in, out, open) ==
  /\ Len(w) <= WireCap
  /\ ~ open => w = <<>>
  /\ \A i \in 1 .. Len(w) : ~ Unreadable(w[i], in + Count(w, i - 1))
  /\ open => in + Count(w, Len(w)) = out
  /\ in <= out

\* Both directions of the transport.
Transport ==
  \A e \in End : Flowing(wire[e], blocks[e].in, blocks[Other(e)].out, conn[e].open)

\* Push waits while a queue is full.
Bounded == \A e \in End, w \in Worker : Len(queue[e][w]) <= QUEUE_SIZE

\* The i-th frame in the queue w of the agent is the SYN of stream n.
SynAt(w, i, n) ==
  /\ i \in DOMAIN queue["agent"][w]
  /\ queue["agent"][w][i].frame.type = "syn" /\ queue["agent"][w][i].frame.id = Id(n)

\* The worker w runs the handler of stream n (AgentStreamHandler).
Handling(w, n) == worker["agent"][w].at = "handler" /\ worker["agent"][w].n = n

\* The agent has seen the SYN of stream n, and has not replied.
Pending(n) == Id(n) < conn["agent"].received /\ copier["agent"][n].out = "none"

\* A SYN is taken once, so that the service is dialled once for a stream and there is
\* one reply.
Once ==
  /\ \A n \in Index, w \in Worker, i \in Nat : SynAt(w, i, n) => Pending(n)
  /\ \A n \in Index, w, v \in Worker, i, j \in Nat :
       SynAt(w, i, n) /\ SynAt(v, j, n) => w = v /\ i = j
  /\ \A w \in Worker : worker["agent"][w].at = "handler" => worker["agent"][w].n \in Index
  /\ \A n \in Index, w \in Worker : Handling(w, n) => Pending(n)
  /\ \A n \in Index, w, v \in Worker, i \in Nat : ~ (Handling(w, n) /\ SynAt(v, i, n))
  /\ \A n \in Index, w, v \in Worker : Handling(w, n) /\ Handling(v, n) => w = v
  /\ conn["agent"].open =>
       \A n \in Index : Id(n) >= conn["agent"].received => copier["agent"][n].out = "none"

\* The streams whose SYN was sent, or could not be ...
Opened == {n \in Index : copier["director"][n].out \notin {"none", "syn"}}

\* ... and those the agent has started copiers for.
Answered == {n \in Index : copier["agent"][n].out # "none"}

\* Each header block opens a stream or is the reply to one.
Sparing ==
  /\ blocks["director"].out <= Cardinality(Opened)
  /\ blocks["agent"].out <= Cardinality(Answered)
  /\ tunnel # "dead" =>
       \A n \in Index : Id(n) >= conn["director"].next => copier["director"][n].out = "none"

\* The inductive invariant.
StreamInv == LibTyped /\ AppTyped /\ Transport /\ Bounded /\ Once /\ Sparing

-----------------------------------------------------------------------------
(* Ids, ends and workers. *)

\* The stream ids are the odd numbers, each of one stream.
LEMMA Naming ==
  /\ MaxStream \in Nat \ {0} /\ FRAME_WORKERS \in Nat \ {0}
  /\ QUEUE_SIZE \in Nat \ {0} /\ WireCap \in Nat \ {0}
  /\ Ids \subseteq Nat \ {0}
  /\ \A n \in Index : n \in Nat /\ Id(n) \in Nat \ {0} /\ Id(n) \in Ids /\ IndexOf(Id(n)) = n
  /\ \A x \in Ids : IndexOf(x) \in Index /\ Id(IndexOf(x)) = x
<1>1. /\ MaxStream \in Nat \ {0} /\ FRAME_WORKERS \in Nat \ {0}
      /\ QUEUE_SIZE \in Nat \ {0} /\ WireCap \in Nat \ {0}
  BY SpdystreamAssumption
<1>2. \A n \in Index : n \in Nat /\ Id(n) \in Nat \ {0} /\ Id(n) \in Ids /\ IndexOf(Id(n)) = n
  <2> TAKE n \in Index
  <2>1. n \in Nat \ {0}
    BY <1>1 DEF Index
  <2>2. Id(n) = 2 * n - 1 /\ IndexOf(Id(n)) = (2 * n - 1 + 1) \div 2
    BY DEF Id, IndexOf
  <2>3. (2 * n - 1 + 1) \div 2 = n
    BY <2>1
  <2> QED BY <2>1, <2>2, <2>3 DEF Ids
<1> QED
  BY <1>1, <1>2 DEF Ids

\* The two ends.
LEMMA Ends ==
  /\ End = {"director", "agent"} /\ Other("director") = "agent" /\ Other("agent") = "director"
  /\ \A e \in End : Other(e) \in End /\ Other(e) # e /\ Other(Other(e)) = e
<1>1. End = {"director", "agent"}
  BY DEF End
<1>2. \A e \in End : Other(e) \in End /\ Other(e) # e
  BY DEF Other, End
<1> QED
  BY <1>1, <1>2

\* A frame has a queue.
LEMMA Numbered ==
  /\ \A x \in Nat : x % FRAME_WORKERS \in Worker
  /\ \A w \in Worker : w \in Nat /\ (w + 1) % FRAME_WORKERS \in Worker
<1>1. FRAME_WORKERS \in Nat \ {0}
  BY Naming
<1>2. \A x \in Nat : x % FRAME_WORKERS \in 0 .. FRAME_WORKERS - 1
  BY <1>1
<1>3. \A w \in Worker : w \in Nat
  BY <1>1 DEF Worker
<1> QED
  BY <1>2, <1>3 DEF Worker

-----------------------------------------------------------------------------
(* Sequences. *)

\* One element more at the end of a sequence.
LEMMA Appended ==
  ASSUME NEW S, NEW s \in Seq(S), NEW x \in S
  PROVE  /\ Append(s, x) \in Seq(S) /\ Len(s) \in Nat /\ Len(Append(s, x)) = Len(s) + 1
         /\ \A i \in 1 .. Len(s) : Append(s, x)[i] = s[i]
         /\ Append(s, x)[Len(s) + 1] = x
OBVIOUS

\* One element less at its head.
LEMMA Taken ==
  ASSUME NEW S, NEW s \in Seq(S), s # <<>>
  PROVE  /\ Head(s) \in S /\ Head(s) = s[1] /\ Tail(s) \in Seq(S)
         /\ Len(s) \in Nat \ {0} /\ Len(Tail(s)) = Len(s) - 1
         /\ \A i \in 1 .. Len(s) - 1 : Tail(s)[i] = s[i + 1]
<1>1. Head(s) \in S /\ Tail(s) \in Seq(S) /\ Len(Tail(s)) = Len(s) - 1
      /\ \A i \in 1 .. Len(Tail(s)) : Tail(s)[i] = s[i + 1]
  BY HeadTailProperties
<1>2. Len(s) \in Nat \ {0}
  BY EmptySeq
<1> QED
  BY <1>1, <1>2

\* InsertAt, element by element.
LEMMA Inserted ==
  ASSUME NEW S, NEW s \in Seq(S), NEW x \in S, NEW k \in 0 .. Len(s)
  PROVE  /\ InsertAt(s, k + 1, x) \in Seq(S)
         /\ Len(InsertAt(s, k + 1, x)) = Len(s) + 1
         /\ \A i \in 1 .. Len(s) + 1 : InsertAt(s, k + 1, x)[i] =
              IF i <= k THEN s[i] ELSE IF i = k + 1 THEN x ELSE s[i - 1]
<1> DEFINE a == SubSeq(s, 1, k)
           b == SubSeq(s, k + 1, Len(s))
           r == InsertAt(s, k + 1, x)
<1>0. Len(s) \in Nat /\ k \in Nat /\ \A i \in 1 .. Len(s) : s[i] \in S
  BY LenProperties, ElementOfSeq
<1>1. a \in Seq(S) /\ Len(a) = k /\ \A i \in 1 .. k : a[i] = s[i]
  <2>1. \A i \in 1 .. k : s[i] \in S
    BY <1>0
  <2>2. /\ SubSeq(s, 1, k) \in Seq(S)
        /\ Len(SubSeq(s, 1, k)) = IF 1 <= k THEN k - 1 + 1 ELSE 0
        /\ \A i \in 1 .. k - 1 + 1 : SubSeq(s, 1, k)[i] = s[1 + i - 1]
    BY <1>0, <2>1, SubSeqProperties
  <2> QED BY <1>0, <2>2
<1>2. b \in Seq(S) /\ Len(b) = Len(s) - k /\ \A i \in 1 .. Len(s) - k : b[i] = s[k + i]
  <2> DEFINE m == k + 1
             n == Len(s)
  <2>1. m \in Int /\ n \in Int /\ \A i \in m .. n : s[i] \in S
    BY <1>0
  <2>2. /\ SubSeq(s, m, n) \in Seq(S)
        /\ Len(SubSeq(s, m, n)) = IF m <= n THEN n - m + 1 ELSE 0
        /\ \A i \in 1 .. n - m + 1 : SubSeq(s, m, n)[i] = s[m + i - 1]
    <3> HIDE DEF m, n
    <3> QED BY <2>1, SubSeqProperties
  <2>3. \A i \in 1 .. Len(s) - k : i \in 1 .. n - m + 1 /\ m + i - 1 = k + i
    BY <1>0
  <2> QED BY <1>0, <2>2, <2>3
<1> HIDE DEF a, b
<1>3. r = a \o <<x>> \o b
  <2>1. (k + 1) - 1 = k
    BY <1>0
  <2> QED BY <2>1 DEF InsertAt, a, b
<1>4. /\ a \o <<x>> \in Seq(S) /\ Len(a \o <<x>>) = k + 1
      /\ \A i \in 1 .. k + 1 : (a \o <<x>>)[i] = IF i <= k THEN s[i] ELSE x
  <2>1. <<x>> \in Seq(S) /\ Len(<<x>>) = 1 /\ <<x>>[1] = x
    OBVIOUS
  <2>2. /\ a \o <<x>> \in Seq(S) /\ Len(a \o <<x>>) = Len(a) + Len(<<x>>)
        /\ \A i \in 1 .. Len(a) + Len(<<x>>) :
             (a \o <<x>>)[i] = IF i <= Len(a) THEN a[i] ELSE <<x>>[i - Len(a)]
    BY <1>1, <2>1, ConcatProperties
  <2>3. \A i \in 1 .. k + 1 : i <= k => i \in 1 .. k
    BY <1>0
  <2>4. \A i \in 1 .. k + 1 : ~ (i <= k) => i - k = 1
    BY <1>0
  <2> QED BY <1>0, <1>1, <2>1, <2>2, <2>3, <2>4
<1> DEFINE c == a \o <<x>>
<1> HIDE DEF c
<1>5. /\ c \o b \in Seq(S) /\ Len(c \o b) = Len(c) + Len(b)
      /\ \A i \in 1 .. Len(c) + Len(b) :
           (c \o b)[i] = IF i <= Len(c) THEN c[i] ELSE b[i - Len(c)]
  BY <1>2, <1>4, ConcatProperties DEF c
<1>6. r = c \o b /\ Len(c) = k + 1 /\ Len(b) = Len(s) - k
  BY <1>2, <1>3, <1>4 DEF c
<1>7. ASSUME NEW i \in 1 .. Len(s) + 1
      PROVE  r[i] = IF i <= k THEN s[i] ELSE IF i = k + 1 THEN x ELSE s[i - 1]
  <2>1. i \in 1 .. Len(c) + Len(b)
    BY <1>0, <1>6
  <2>2. CASE i <= k + 1
    <3>1. i \in 1 .. k + 1
      BY <1>0, <2>2
    <3>2. r[i] = c[i]
      BY <1>5, <1>6, <2>1, <2>2
    <3> QED BY <1>0, <1>4, <3>1, <3>2 DEF c
  <2>3. CASE ~ (i <= k + 1)
    <3>1. r[i] = b[i - (k + 1)]
      BY <1>5, <1>6, <2>1, <2>3
    <3>2. i - (k + 1) \in 1 .. Len(s) - k /\ k + (i - (k + 1)) = i - 1
      BY <1>0, <2>3
    <3>3. b[i - (k + 1)] = s[i - 1]
      BY <1>2, <3>2
    <3> QED BY <1>0, <2>3, <3>1, <3>3
  <2> QED BY <2>2, <2>3
<1>8. r \in Seq(S) /\ Len(r) = Len(s) + 1
  <2>1. Len(c \o b) = Len(c) + Len(b) /\ c \o b \in Seq(S)
    BY <1>5
  <2>2. Len(c) + Len(b) = Len(s) + 1
    BY <1>0, <1>6
  <2> HIDE DEF r
  <2> QED BY <1>6, <2>1, <2>2
<1> QED
  BY <1>7, <1>8

\* Push puts the frame somewhere in the queue.
LEMMA PushedSomewhere ==
  ASSUME NEW q \in Seq(Queued), NEW f \in Frames, NEW p \in Nat
  PROVE  \E k \in 0 .. Len(q) :
           /\ Pushed(q, f, p) \in Seq(Queued) /\ Len(Pushed(q, f, p)) = Len(q) + 1
           /\ \A i \in 1 .. Len(q) + 1 : Pushed(q, f, p)[i] =
                IF i <= k THEN q[i]
                ELSE IF i = k + 1 THEN [frame |-> f, priority |-> p] ELSE q[i - 1]
<1> DEFINE before == {i \in DOMAIN q : q[i].priority <= p}
           k == Cardinality(before)
           x == [frame |-> f, priority |-> p]
<1>1. Len(q) \in Nat /\ DOMAIN q = 1 .. Len(q)
  BY LenProperties
<1>2. IsFiniteSet(1 .. Len(q)) /\ Cardinality(1 .. Len(q)) = Len(q)
  BY <1>1, FS_Interval
<1>3. before \subseteq 1 .. Len(q)
  BY <1>1
<1> HIDE DEF before
<1>4. k \in Nat /\ k <= Len(q)
  BY <1>2, <1>3, FS_Subset, FS_CardinalityType
<1>5. k \in 0 .. Len(q)
  BY <1>1, <1>4
<1>6. x \in Queued
  BY DEF Queued
<1> HIDE DEF k, x
<1>7. Pushed(q, f, p) = InsertAt(q, k + 1, x)
  BY DEF Pushed, k, x, before
<1> QED
  BY <1>5, <1>6, <1>7, Inserted DEF x

-----------------------------------------------------------------------------
(* Header blocks on the transport. *)

\* Among k frames there are at most k header blocks.
LEMMA CountType ==
  ASSUME NEW w, NEW k \in Nat
  PROVE  Count(w, k) \in Nat /\ Count(w, k) <= k /\ Count(w, 0) = 0
<1>1. IsFiniteSet(1 .. k) /\ Cardinality(1 .. k) = k
  BY FS_Interval
<1>2. {j \in 1 .. k : w[j].type \in Compressed} \subseteq 1 .. k
  OBVIOUS
<1>3. {j \in 1 .. 0 : w[j].type \in Compressed} = {}
  OBVIOUS
<1> QED
  BY <1>1, <1>2, <1>3, FS_Subset, FS_CardinalityType, FS_EmptySet DEF Count

\* One frame more.
LEMMA CountNext ==
  ASSUME NEW w, NEW k \in Nat
  PROVE  Count(w, k + 1) = Count(w, k) + (IF w[k + 1].type \in Compressed THEN 1 ELSE 0)
<1> DEFINE A == {j \in 1 .. k : w[j].type \in Compressed}
           B == {j \in 1 .. k + 1 : w[j].type \in Compressed}
<1>1. IsFiniteSet(A)
  <2>1. IsFiniteSet(1 .. k) /\ A \subseteq 1 .. k
    BY FS_Interval
  <2> QED BY <2>1, FS_Subset
<1>2. k + 1 \notin A
  OBVIOUS
<1>3. CASE w[k + 1].type \in Compressed
  <2>1. B = A \cup {k + 1}
    BY <1>3
  <2>2. Cardinality(A \cup {k + 1}) = Cardinality(A) + 1
    <3> HIDE DEF A
    <3> QED BY <1>1, <1>2, FS_AddElement
  <2>3. Count(w, k) = Cardinality(A) /\ Count(w, k + 1) = Cardinality(B)
    BY DEF Count
  <2> HIDE DEF A, B
  <2> QED BY <1>3, <2>1, <2>2, <2>3
<1>4. CASE w[k + 1].type \notin Compressed
  <2>1. B = A
    BY <1>4
  <2>2. Cardinality(A) \in Nat
    BY <1>1, FS_CardinalityType
  <2>3. Count(w, k) = Cardinality(A) /\ Count(w, k + 1) = Cardinality(B)
    BY DEF Count
  <2> HIDE DEF A, B
  <2> QED BY <1>4, <2>1, <2>2, <2>3
<1> QED
  BY <1>3, <1>4

\* Only the first k frames count.
LEMMA CountSame ==
  ASSUME NEW v, NEW w, NEW k \in Nat, \A j \in 1 .. k : v[j] = w[j]
  PROVE  Count(v, k) = Count(w, k)
<1>1. {j \in 1 .. k : v[j].type \in Compressed} = {j \in 1 .. k : w[j].type \in Compressed}
  OBVIOUS
<1> QED
  BY <1>1 DEF Count

\* The first frame is taken.
LEMMA CountTail ==
  ASSUME NEW v, NEW w, NEW k \in Nat, \A j \in 1 .. k : v[j] = w[j + 1]
  PROVE  Count(w, k + 1) = Count(v, k) + (IF w[1].type \in Compressed THEN 1 ELSE 0)
<1> DEFINE A == {j \in 1 .. k : v[j].type \in Compressed}
           B == {j \in 2 .. k + 1 : w[j].type \in Compressed}
           C == {j \in 1 .. k + 1 : w[j].type \in Compressed}
           f == [j \in A |-> j + 1]
<1>1. IsFiniteSet(A) /\ IsFiniteSet(B)
  <2>1. IsFiniteSet(1 .. k) /\ A \subseteq 1 .. k /\ IsFiniteSet(2 .. k + 1) /\ B \subseteq 2 .. k + 1
    BY FS_Interval
  <2> QED BY <2>1, FS_Subset
<1>2. f \in Bijection(A, B)
  <2>1. f \in [A -> B]
    OBVIOUS
  <2>2. \A i, j \in A : f[i] = f[j] => i = j
    OBVIOUS
  <2>3. ASSUME NEW j \in B PROVE \E i \in A : f[i] = j
    <3>1. j - 1 \in 1 .. k /\ (j - 1) + 1 = j
      OBVIOUS
    <3>2. v[j - 1] = w[j]
      BY <3>1
    <3>3. j - 1 \in A
      BY <3>1, <3>2
    <3> QED BY <3>1, <3>3
  <2> QED BY <2>1, <2>2, <2>3 DEF Bijection, Injection, Surjection, IsInjective
<1>3. Cardinality(B) = Cardinality(A)
  <2> HIDE DEF A, B, f
  <2> QED BY <1>1, <1>2, FS_Bijection DEF ExistsBijection
<1>4. 1 \notin B /\ Cardinality(A) \in Nat
  BY <1>1, FS_CardinalityType
<1>5. CASE w[1].type \in Compressed
  <2>1. C = B \cup {1}
    BY <1>5
  <2>2. Cardinality(B \cup {1}) = Cardinality(B) + 1
    <3> HIDE DEF B
    <3> QED BY <1>1, <1>4, FS_AddElement
  <2> QED BY <1>3, <1>5, <2>1, <2>2 DEF Count
<1>6. CASE w[1].type \notin Compressed
  <2>1. C = B
    BY <1>6
  <2> QED BY <1>3, <1>4, <1>6, <2>1 DEF Count
<1> QED
  BY <1>5, <1>6

-----------------------------------------------------------------------------
(* Frames. *)

\* ReadFrame keeps the type and the id of a frame.
LEMMA ReadFrame ==
  ASSUME NEW w \in Written
  PROVE  Read(w) \in Frames /\ Read(w).type = w.type /\ Read(w).id = w.id
BY DEF Written, Frames, Read, Frame

\* What the framer writes can be read when it is the next header block.
LEMMA WriteFrame ==
  ASSUME NEW f \in Frames, NEW b \in Nat
  PROVE  /\ Write(f, b) \in Written /\ Write(f, b).type = f.type
         /\ ~ Unwritable(f) => ~ Unreadable(Write(f, b), b)
<1>1. f.type \in Kind /\ f.id \in Nat /\ f.word \in Nat /\ f.flags \in {0, 1}
      /\ f.data \in Seq(Nat) /\ (f.type \notin {"ping", "goaway"} => f.id \in Ids)
  BY DEF Frames
<1>2. Len(f.data) \in Nat
  BY <1>1
<1>3. Flags(f) \in {0, 1} /\ (f.type \in {"rst", "ping", "goaway"} => Flags(f) = 0)
  BY <1>1 DEF Flags
<1> DEFINE l == IF f.type = "data" THEN Len(f.data)
                ELSE FixedSize[f.type] + IF f.type \in Compressed THEN BlockSize ELSE 0
<1>4. l \in Nat
  <2>1. f.type # "data" => FixedSize[f.type] \in Nat
    BY <1>1 DEF FixedSize, Kind
  <2> QED BY <1>2, <2>1 DEF BlockSize
<1>5. (f.type = "goaway" => l = 8)
      /\ (f.type \in Compressed => l = FixedSize[f.type] + BlockSize)
  BY DEF FixedSize, Compressed, BlockSize
<1> HIDE DEF l
<1>6. Write(f, b) = [control |-> f.type # "data", type |-> f.type, flags |-> Flags(f),
                     length |-> l, id |-> f.id, word |-> f.word, data |-> f.data,
                     block |-> IF f.type \in Compressed THEN b + 1 ELSE 0]
  BY DEF Write, l
<1>7. Write(f, b) \in Written
  <2>1. (f.type # "data") \in BOOLEAN /\ (IF f.type \in Compressed THEN b + 1 ELSE 0) \in Nat
    OBVIOUS
  <2> QED BY <1>1, <1>3, <1>4, <1>6, <2>1 DEF Written
<1>8. Write(f, b).type = f.type
  BY <1>6
<1>9. ASSUME ~ Unwritable(f) PROVE ~ Unreadable(Write(f, b), b)
  <2>1. ~ ZeroField(Write(f, b))
    BY <1>6, <1>9 DEF ZeroField, Unwritable
  <2>2. ~ Malformed(Write(f, b))
    BY <1>3, <1>5, <1>6 DEF Malformed
  <2>3. ~ OutOfStep(Write(f, b), b)
    BY <1>5, <1>6 DEF OutOfStep
  <2> QED BY <2>1, <2>2, <2>3 DEF Unreadable
<1> QED
  BY <1>7, <1>8, <1>9

\* The transport takes a frame.
LEMMA FlowAppend ==
  ASSUME NEW w \in Seq(Written), NEW in \in Nat, NEW out \in Nat, NEW f \in Frames,
         Flowing(w, in, out, TRUE), Len(w) < WireCap, ~ Unwritable(f)
  PROVE  /\ Append(w, Write(f, out)) \in Seq(Written)
         /\ Flowing(Append(w, Write(f, out)), in,
                    out + (IF f.type \in Compressed THEN 1 ELSE 0), TRUE)
<1> DEFINE x == Write(f, out)
           v == Append(w, x)
           more == IF f.type \in Compressed THEN 1 ELSE 0
<1>1. x \in Written /\ x.type = f.type /\ ~ Unreadable(x, out)
  BY WriteFrame
<1> HIDE DEF x
<1>2. /\ v \in Seq(Written) /\ Len(w) \in Nat /\ Len(v) = Len(w) + 1
      /\ \A i \in 1 .. Len(w) : v[i] = w[i]
      /\ v[Len(w) + 1] = x
  BY <1>1, Appended
<1> HIDE DEF v
<1>3. WireCap \in Nat
  BY Naming
<1>4. /\ \A i \in 1 .. Len(w) : ~ Unreadable(w[i], in + Count(w, i - 1))
      /\ in + Count(w, Len(w)) = out /\ in <= out
  BY DEF Flowing
<1>5. ASSUME NEW k \in 0 .. Len(w) PROVE Count(v, k) = Count(w, k)
  <2>1. k \in Nat /\ \A j \in 1 .. k : v[j] = w[j]
    BY <1>2
  <2> QED BY <2>1, CountSame
<1>6. Count(v, Len(w)) = Count(w, Len(w)) /\ Count(w, Len(w)) \in Nat
  BY <1>2, <1>5, CountType
<1>7. ASSUME NEW i \in 1 .. Len(v) PROVE ~ Unreadable(v[i], in + Count(v, i - 1))
  <2>1. CASE i = Len(w) + 1
    <3>1. i - 1 = Len(w)
      BY <1>2, <2>1
    <3> QED BY <1>1, <1>2, <1>4, <1>6, <2>1, <3>1
  <2>2. CASE i # Len(w) + 1
    <3>1. i \in 1 .. Len(w) /\ i - 1 \in 0 .. Len(w)
      BY <1>2, <2>2
    <3> QED BY <1>2, <1>4, <1>5, <3>1
  <2> QED BY <2>1, <2>2
<1>8. in + Count(v, Len(v)) = out + more
  <2>1. Count(v, Len(w) + 1) = Count(v, Len(w)) + more
    BY <1>1, <1>2, CountNext
  <2>2. in + (Count(w, Len(w)) + more) = out + more
    BY <1>4, <1>6
  <2> QED BY <1>2, <1>6, <2>1, <2>2
<1>9. Flowing(v, in, out + more, TRUE)
  <2>1. Len(v) <= WireCap
    BY <1>2, <1>3
  <2>2. in <= out + more
    BY <1>4
  <2> QED BY <1>7, <1>8, <2>1, <2>2 DEF Flowing
<1> QED
  BY <1>2, <1>9 DEF v, x

\* Serve takes the first frame.
LEMMA FlowTail ==
  ASSUME NEW w \in Seq(Written), NEW in \in Nat, NEW out \in Nat,
         Flowing(w, in, out, TRUE), w # <<>>
  PROVE  /\ Tail(w) \in Seq(Written) /\ Head(w) \in Written
         /\ Flowing(Tail(w), in + (IF Head(w).type \in Compressed THEN 1 ELSE 0), out, TRUE)
<1> DEFINE v == Tail(w)
           more == IF w[1].type \in Compressed THEN 1 ELSE 0
<1>1. /\ Head(w) \in Written /\ Head(w) = w[1] /\ v \in Seq(Written)
      /\ Len(w) \in Nat \ {0} /\ Len(v) = Len(w) - 1
      /\ \A i \in 1 .. Len(w) - 1 : v[i] = w[i + 1]
  BY Taken
<1> HIDE DEF v
<1>2. WireCap \in Nat
  BY Naming
<1>3. /\ \A i \in 1 .. Len(w) : ~ Unreadable(w[i], in + Count(w, i - 1))
      /\ in + Count(w, Len(w)) = out /\ in <= out /\ Len(w) <= WireCap
  BY DEF Flowing
<1>4. ASSUME NEW k \in 0 .. Len(v)
      PROVE  Count(w, k + 1) = Count(v, k) + more /\ Count(v, k) \in Nat
  <2>1. k \in Nat /\ \A j \in 1 .. k : v[j] = w[j + 1]
    BY <1>1
  <2> QED BY <2>1, CountTail, CountType
<1>5. ASSUME NEW i \in 1 .. Len(v) PROVE ~ Unreadable(v[i], (in + more) + Count(v, i - 1))
  <2>1. i + 1 \in 1 .. Len(w) /\ i - 1 \in 0 .. Len(v) /\ (i + 1) - 1 = (i - 1) + 1
        /\ i \in 1 .. Len(w) - 1
    BY <1>1
  <2>2. v[i] = w[i + 1] /\ ~ Unreadable(w[i + 1], in + Count(w, (i + 1) - 1))
    BY <1>1, <1>3, <2>1
  <2>3. Count(w, (i - 1) + 1) = Count(v, i - 1) + more /\ Count(v, i - 1) \in Nat
    BY <1>4, <2>1
  <2>4. in + (Count(v, i - 1) + more) = (in + more) + Count(v, i - 1)
    BY <2>3
  <2> QED BY <2>1, <2>2, <2>3, <2>4
<1>6. (in + more) + Count(v, Len(v)) = out /\ in + more <= out
  <2>1. Len(v) \in 0 .. Len(v) /\ Len(v) + 1 = Len(w)
    BY <1>1
  <2>2. Count(w, Len(v) + 1) = Count(v, Len(v)) + more /\ Count(v, Len(v)) \in Nat
    BY <1>4, <2>1
  <2>3. in + (Count(v, Len(v)) + more) = out
    BY <1>3, <2>1, <2>2
  <2> QED BY <2>2, <2>3
<1>7. Flowing(v, in + more, out, TRUE)
  <2>1. Len(v) <= WireCap
    BY <1>1, <1>2, <1>3
  <2> QED BY <1>5, <1>6, <2>1 DEF Flowing
<1> QED
  BY <1>1, <1>7 DEF v

\* The reader closes the transport; the writer writes to a transport that was closed.
LEMMA FlowClosed ==
  ASSUME NEW w \in Seq(Written), NEW in \in Nat, NEW out \in Nat, NEW open,
         Flowing(w, in, out, open)
  PROVE  Flowing(<<>>, in, out, FALSE) /\ (~ open => Flowing(w, in, out + 1, open))
<1>1. Len(<<>>) = 0 /\ WireCap \in Nat
  BY Naming
<1> QED
  BY <1>1 DEF Flowing

-----------------------------------------------------------------------------
(* Parts of the invariant under a step. *)

\* A frame is written, or the write fails.
LEMMA SentStep ==
  ASSUME LibTyped, Transport, NEW e \in End, NEW f \in Frames, NEW ok, Sent(e, f, ok),
         \A o \in End : conn'[o].open = conn[o].open
  PROVE  /\ wire' \in [End -> Seq(Written)] /\ blocks' \in [End -> [out : Nat, in : Nat]]
         /\ Transport'
         /\ blocks'[Other(e)].out = blocks[Other(e)].out
         /\ blocks'[e].out = blocks[e].out + (IF ok /\ f.type \in Compressed THEN 1 ELSE 0)
<1> DEFINE d == Other(e)
           more == IF f.type \in Compressed THEN 1 ELSE 0
<1>1. e \in End /\ d \in End /\ d # e /\ Other(d) = e /\ \A o \in End : o = e \/ o = d
  BY Ends
<1>2. /\ wire \in [End -> Seq(Written)] /\ blocks \in [End -> [out : Nat, in : Nat]]
      /\ \A o \in End : /\ wire[o] \in Seq(Written) /\ conn[o].open \in BOOLEAN
                        /\ blocks[o].out \in Nat /\ blocks[o].in \in Nat
  BY DEF LibTyped, Connections
<1>3. /\ Flowing(wire[e], blocks[e].in, blocks[d].out, conn[e].open)
      /\ Flowing(wire[d], blocks[d].in, blocks[e].out, conn[d].open)
  BY <1>1 DEF Transport
<1>4. ok \in BOOLEAN
  BY DEF Sent
<1>5. CASE ~ ok
  <2>1. wire' = wire /\ blocks' = blocks
    BY <1>5 DEF Sent
  <2>2. Transport'
    BY <2>1 DEF Transport
  <2> QED BY <1>1, <1>2, <1>5, <2>1, <2>2
<1>6. CASE ok
  <2>1. /\ ~ Unwritable(f) /\ Len(wire[d]) < WireCap
        /\ wire' = IF conn[d].open THEN [wire EXCEPT ![d] = Append(@, Write(f, blocks[e].out))]
                   ELSE wire
        /\ blocks' = [blocks EXCEPT ![e].out = @ + more]
    BY <1>6 DEF Sent
  <2>2. more \in Nat
    OBVIOUS
  <2> HIDE DEF more
  <2>3. /\ blocks' \in [End -> [out : Nat, in : Nat]]
        /\ blocks'[e].out = blocks[e].out + more /\ blocks'[e].in = blocks[e].in
        /\ blocks'[d] = blocks[d]
    BY <1>1, <1>2, <2>1, <2>2
  <2>4. wire'[e] = wire[e]
    BY <1>1, <1>2, <2>1
  <2>5. CASE conn[d].open
    <3>1. conn[d].open = TRUE
      BY <1>1, <1>2, <2>5
    <3>2. /\ Append(wire[d], Write(f, blocks[e].out)) \in Seq(Written)
          /\ Flowing(Append(wire[d], Write(f, blocks[e].out)), blocks[d].in,
                     blocks[e].out + more, TRUE)
      BY <1>1, <1>2, <1>3, <2>1, <3>1, FlowAppend DEF more
    <3>3. wire' = [wire EXCEPT ![d] = Append(wire[d], Write(f, blocks[e].out))]
      BY <2>1, <2>5
    <3>4. wire' \in [End -> Seq(Written)] /\ wire'[d] = Append(wire[d], Write(f, blocks[e].out))
      BY <1>1, <1>2, <3>2, <3>3
    <3>5. Flowing(wire'[d], blocks'[d].in, blocks'[e].out, conn'[d].open)
      BY <1>1, <2>3, <3>1, <3>2, <3>4
    <3>6. Flowing(wire'[e], blocks'[e].in, blocks'[d].out, conn'[e].open)
      BY <1>1, <1>3, <2>3, <2>4
    <3>7. Transport'
      BY <1>1, <3>5, <3>6 DEF Transport
    <3> QED BY <1>6, <2>3, <3>4, <3>7 DEF more
  <2>6. CASE ~ conn[d].open
    <3>1. wire' = wire
      BY <2>1, <2>6
    <3>2. Flowing(wire[d], blocks[d].in, blocks[e].out + 1, conn[d].open)
      BY <1>1, <1>2, <1>3, <2>6, FlowClosed
    <3>3. blocks[e].out + more = blocks[e].out \/ blocks[e].out + more = blocks[e].out + 1
      BY <1>1, <1>2 DEF more
    <3>4. Flowing(wire'[d], blocks'[d].in, blocks'[e].out, conn'[d].open)
      BY <1>1, <1>3, <2>3, <3>1, <3>2, <3>3
    <3>5. Flowing(wire'[e], blocks'[e].in, blocks'[d].out, conn'[e].open)
      BY <1>1, <1>3, <2>3, <2>4
    <3>6. Transport'
      BY <1>1, <3>4, <3>5 DEF Transport
    <3> QED BY <1>2, <1>6, <2>3, <3>1, <3>6 DEF more
  <2> QED BY <2>5, <2>6
<1> QED
  BY <1>4, <1>5, <1>6

\* Nothing is written or read.
LEMMA TransportSame ==
  ASSUME Transport, UNCHANGED <<wire, blocks>>, \A o \in End : conn'[o].open = conn[o].open
  PROVE  Transport'
BY DEF Transport

\* The transport is closed by e.
LEMMA TransportClosed ==
  ASSUME LibTyped, Transport, NEW e \in End, wire' = [wire EXCEPT ![e] = <<>>],
         UNCHANGED blocks, conn'[e].open = FALSE,
         \A o \in End : o # e => conn'[o].open = conn[o].open
  PROVE  wire' \in [End -> Seq(Written)] /\ Transport'
<1>1. /\ wire \in [End -> Seq(Written)]
      /\ \A o \in End : /\ wire[o] \in Seq(Written) /\ Other(o) \in End
                        /\ blocks[Other(o)].out \in Nat /\ blocks[o].in \in Nat
  BY Ends DEF LibTyped
<1>2. <<>> \in Seq(Written)
  OBVIOUS
<1>3. wire' \in [End -> Seq(Written)] /\ wire'[e] = <<>> /\ \A o \in End : o # e => wire'[o] = wire[o]
  BY <1>1, <1>2
<1>4. \A o \in End : Flowing(wire[o], blocks[o].in, blocks[Other(o)].out, conn[o].open)
  BY DEF Transport
<1>5. Flowing(<<>>, blocks[e].in, blocks[Other(e)].out, FALSE)
  BY <1>1, <1>4, FlowClosed
<1>6. \A o \in End : Flowing(wire'[o], blocks'[o].in, blocks'[Other(o)].out, conn'[o].open)
  BY <1>3, <1>4, <1>5
<1> QED
  BY <1>3, <1>6 DEF Transport

\* What the agent has seen of the SYNs stays as it is.
LEMMA OnceSame ==
  ASSUME Once, queue'["agent"] = queue["agent"],
         \A w \in Worker : worker'["agent"][w].at = "handler" => worker'["agent"][w] = worker["agent"][w],
         conn'["agent"].received = conn["agent"].received,
         conn'["agent"].open => conn["agent"].open,
         \A n \in Index : copier'["agent"][n].out = "none" <=> copier["agent"][n].out = "none"
  PROVE  Once'
<1>1. \A n \in Index, w \in Worker, i \in Nat : SynAt(w, i, n)' <=> SynAt(w, i, n)
  BY DEF SynAt
<1>2. \A n \in Index, w \in Worker : Handling(w, n)' => Handling(w, n)
  BY DEF Handling
<1>3. \A n \in Index : Pending(n)' <=> Pending(n)
  BY DEF Pending
<1>4. \A w \in Worker : worker'["agent"][w].at = "handler" => worker'["agent"][w].n \in Index
  BY DEF Once
<1>5. conn'["agent"].open =>
       \A n \in Index : Id(n) >= conn'["agent"].received => copier'["agent"][n].out = "none"
  BY DEF Once
<1>6. \A n \in Index, w, v \in Worker, i, j \in Nat :
       SynAt(w, i, n)' /\ SynAt(v, j, n)' => w = v /\ i = j
  BY <1>1 DEF Once
<1>7. \A n \in Index, w, v \in Worker, i \in Nat : ~ (Handling(w, n)' /\ SynAt(v, i, n)')
  BY <1>1, <1>2 DEF Once
<1>8. \A n \in Index, w, v \in Worker : Handling(w, n)' /\ Handling(v, n)' => w = v
  BY <1>2 DEF Once
<1>9. /\ \A n \in Index, w \in Worker, i \in Nat : SynAt(w, i, n)' => Pending(n)'
      /\ \A n \in Index, w \in Worker : Handling(w, n)' => Pending(n)'
  BY <1>1, <1>2, <1>3 DEF Once
<1> QED
  BY <1>4, <1>5, <1>6, <1>7, <1>8, <1>9 DEF Once

\* The end of a program: nothing waits.
LEMMA OnceGone ==
  ASSUME \A w \in Worker : queue'["agent"][w] = <<>> /\ worker'["agent"][w].at = "idle",
         conn'["agent"].open = FALSE
  PROVE  Once'
<1>1. \A n \in Index, w \in Worker, i \in Nat : ~ SynAt(w, i, n)' /\ ~ Handling(w, n)'
  BY DEF SynAt, Handling
<1> QED
  BY <1>1 DEF Once

\* There are MaxStream streams, and no more in any set of them.
LEMMA IndexFinite ==
  /\ IsFiniteSet(Index) /\ Cardinality(Index) = MaxStream
  /\ \A A \in SUBSET Index : /\ IsFiniteSet(A) /\ Cardinality(A) \in Nat
                             /\ Cardinality(A) <= MaxStream
                             /\ \A B \in SUBSET A : Cardinality(B) \in Nat /\ Cardinality(B) <= Cardinality(A)
<1>1. IsFiniteSet(Index) /\ Cardinality(Index) = MaxStream
  BY Naming, FS_Interval DEF Index
<1>2. ASSUME NEW A \in SUBSET Index
      PROVE  IsFiniteSet(A) /\ Cardinality(A) \in Nat /\ Cardinality(A) <= MaxStream
  BY <1>1, FS_Subset, FS_CardinalityType
<1>3. ASSUME NEW A \in SUBSET Index, NEW B \in SUBSET A
      PROVE  Cardinality(B) \in Nat /\ Cardinality(B) <= Cardinality(A)
  BY <1>2, FS_Subset, FS_CardinalityType
<1> QED
  BY <1>1, <1>2, <1>3

\* Nothing is compressed.
LEMMA SparingSame ==
  ASSUME LibTyped, Sparing,
         \A e \in End : blocks'[e].out = blocks[e].out,
         \A n \in Index : copier["director"][n].out \notin {"none", "syn"}
                            => copier'["director"][n].out \notin {"none", "syn"},
         \A n \in Index : copier["agent"][n].out # "none" => copier'["agent"][n].out # "none",
         tunnel' # "dead" =>
           /\ tunnel # "dead" /\ conn'["director"].next = conn["director"].next
           /\ \A n \in Index : copier["director"][n].out = "none" => copier'["director"][n].out = "none"
  PROVE  Sparing'
<1>1. Opened \subseteq Opened' /\ Answered \subseteq Answered'
      /\ Opened' \in SUBSET Index /\ Answered' \in SUBSET Index
  BY DEF Opened, Answered
<1>2. /\ Cardinality(Opened) \in Nat /\ Cardinality(Opened') \in Nat
      /\ Cardinality(Opened) <= Cardinality(Opened')
      /\ Cardinality(Answered) \in Nat /\ Cardinality(Answered') \in Nat
      /\ Cardinality(Answered) <= Cardinality(Answered')
  BY <1>1, IndexFinite
<1>3. /\ blocks'["director"].out = blocks["director"].out /\ blocks["director"].out \in Nat
      /\ blocks'["agent"].out = blocks["agent"].out /\ blocks["agent"].out \in Nat
  BY Ends DEF LibTyped
<1>4. blocks'["director"].out <= Cardinality(Opened') /\ blocks'["agent"].out <= Cardinality(Answered')
  BY <1>2, <1>3 DEF Sparing
<1>5. tunnel' # "dead" =>
       \A n \in Index : Id(n) >= conn'["director"].next => copier'["director"][n].out = "none"
  BY DEF Sparing
<1> QED
  BY <1>4, <1>5 DEF Sparing

\* A frame enters a queue of the agent: a SYN is a new one.
LEMMA OncePushed ==
  ASSUME LibTyped, Once, NEW w \in Worker, NEW f \in Frames, NEW p \in Nat,
         queue'["agent"] = [queue["agent"] EXCEPT ![w] = Pushed(@, f, p)],
         worker' = worker, copier' = copier,
         conn["agent"].open = TRUE, conn'["agent"].open = TRUE,
         \/ f.type # "syn" /\ conn'["agent"].received = conn["agent"].received
         \/ /\ f.type = "syn" /\ f.id >= conn["agent"].received
            /\ conn'["agent"].received = f.id + 2
  PROVE  Once'
<1> DEFINE q == queue["agent"][w]
           x == [frame |-> f, priority |-> p]
           New(n) == f.type = "syn" /\ f.id = Id(n)
<1>1. /\ queue["agent"] \in [Worker -> Seq(Queued)] /\ q \in Seq(Queued) /\ Len(q) \in Nat
      /\ conn["agent"].received \in Nat /\ f.id \in Nat
  <2>1. /\ queue["agent"] \in [Worker -> Seq(Queued)] /\ conn["agent"] \in Connections
    BY Ends DEF LibTyped
  <2>2. q \in Seq(Queued)
    BY <2>1
  <2>3. conn["agent"].received \in Nat
    BY <2>1 DEF Connections
  <2>4. f.id \in Nat
    BY DEF Frames
  <2> QED BY <2>1, <2>2, <2>3, <2>4, LenProperties
<1>2. PICK k \in 0 .. Len(q) :
        /\ Pushed(q, f, p) \in Seq(Queued) /\ Len(Pushed(q, f, p)) = Len(q) + 1
        /\ \A i \in 1 .. Len(q) + 1 : Pushed(q, f, p)[i] =
             IF i <= k THEN q[i] ELSE IF i = k + 1 THEN x ELSE q[i - 1]
  <2>1. q \in Seq(Queued) /\ f \in Frames /\ p \in Nat
    BY <1>1
  <2> HIDE DEF q, x
  <2>2. x = [frame |-> f, priority |-> p]
    BY DEF x
  <2> QED BY ONLY <2>1, <2>2, PushedSomewhere
<1> DEFINE old(i) == IF i <= k THEN i ELSE i - 1
<1>3. /\ queue'["agent"][w] = Pushed(q, f, p)
      /\ \A v \in Worker : v # w => queue'["agent"][v] = queue["agent"][v]
  BY <1>1
<1>4. DOMAIN q = 1 .. Len(q) /\ DOMAIN Pushed(q, f, p) = 1 .. Len(q) + 1
  BY <1>1, <1>2, LenProperties
<1> HIDE DEF q, x
\* Where the SYNs of the queue were before.
<1>5. ASSUME NEW n \in Index, NEW i \in Nat, SynAt(w, i, n)'
      PROVE  (i = k + 1 /\ New(n)) \/ (i # k + 1 /\ old(i) \in Nat /\ SynAt(w, old(i), n))
  <2>1. i \in 1 .. Len(q) + 1
    BY <1>3, <1>4, <1>5 DEF SynAt
  <2>2. Pushed(q, f, p)[i].frame.type = "syn" /\ Pushed(q, f, p)[i].frame.id = Id(n)
    BY <1>3, <1>5 DEF SynAt
  <2>3. CASE i = k + 1
    <3>1. Pushed(q, f, p)[i] = x
      BY <1>1, <1>2, <2>1, <2>3
    <3> QED BY <2>2, <2>3, <3>1 DEF x
  <2>4. CASE i # k + 1
    <3>1. old(i) \in 1 .. Len(q) /\ Pushed(q, f, p)[i] = q[old(i)]
      BY <1>1, <1>2, <2>1, <2>4
    <3>2. q[old(i)].frame.type = "syn" /\ q[old(i)].frame.id = Id(n)
      BY <2>2, <3>1
    <3> HIDE DEF old
    <3> QED BY <1>4, <2>4, <3>1, <3>2 DEF SynAt, q
  <2> QED BY <2>3, <2>4
<1>6. ASSUME NEW v \in Worker, v # w, NEW n \in Index, NEW i \in Nat
      PROVE  SynAt(v, i, n)' <=> SynAt(v, i, n)
  BY <1>3, <1>6 DEF SynAt
<1>7. \A i, j \in Nat : i # k + 1 /\ j # k + 1 /\ old(i) = old(j) => i = j
  BY <1>1
<1>8. conn["agent"].received <= conn'["agent"].received
  BY <1>1
<1>9. ASSUME NEW n \in Index, New(n)
      PROVE  /\ ~ (Id(n) < conn["agent"].received) /\ Id(n) < conn'["agent"].received
             /\ copier["agent"][n].out = "none"
  <2>1. f.id >= conn["agent"].received /\ conn'["agent"].received = f.id + 2 /\ f.id = Id(n)
    BY <1>9
  <2>2. copier["agent"][n].out = "none"
    BY <2>1 DEF Once
  <2> QED BY <1>1, <2>1, <2>2
<1>10. ASSUME NEW n \in Index, Pending(n) PROVE Pending(n)' /\ ~ New(n)
  <2>1. ~ New(n)
    BY <1>9, <1>10 DEF Pending
  <2>2. Id(n) \in Nat /\ conn'["agent"].received \in Nat
    BY <1>1, Naming
  <2> QED BY <1>1, <1>8, <1>10, <2>1, <2>2 DEF Pending
<1>11. ASSUME NEW n \in Index, New(n) PROVE Pending(n)'
  BY <1>9, <1>11 DEF Pending
<1> HIDE DEF New, old
<1>12. ASSUME NEW n \in Index, NEW v \in Worker, NEW i \in Nat, SynAt(v, i, n)'
       PROVE  \/ v = w /\ i = k + 1 /\ New(n)
              \/ ~ New(n) /\ v # w /\ SynAt(v, i, n)
              \/ ~ New(n) /\ v = w /\ i # k + 1 /\ old(i) \in Nat /\ SynAt(w, old(i), n)
  <2>1. CASE v = w
    <3>1. (i = k + 1 /\ New(n)) \/ (i # k + 1 /\ old(i) \in Nat /\ SynAt(w, old(i), n))
      BY <1>5, <1>12, <2>1
    <3>2. old(i) \in Nat /\ SynAt(w, old(i), n) => ~ New(n)
      BY <1>10 DEF Once
    <3> QED BY <2>1, <3>1, <3>2
  <2>2. CASE v # w
    <3>1. SynAt(v, i, n)
      BY <1>6, <1>12, <2>2
    <3>2. ~ New(n)
      BY <1>10, <3>1 DEF Once
    <3> QED BY <2>2, <3>1, <3>2
  <2> QED BY <2>1, <2>2
<1>13. \A n \in Index, v \in Worker : Handling(v, n)' <=> Handling(v, n)
  BY DEF Handling
<1>14. \A n \in Index, v \in Worker, i \in Nat : SynAt(v, i, n)' => Pending(n)'
  BY <1>10, <1>11, <1>12 DEF Once
<1>15. ASSUME NEW n \in Index, NEW v \in Worker, NEW u \in Worker, NEW i \in Nat, NEW j \in Nat,
              SynAt(v, i, n)', SynAt(u, j, n)'
       PROVE  v = u /\ i = j
  <2>1. CASE New(n)
    BY <1>12, <1>15, <2>1
  <2>2. CASE ~ New(n)
    <3>1. (v # w /\ SynAt(v, i, n)) \/ (v = w /\ i # k + 1 /\ old(i) \in Nat /\ SynAt(w, old(i), n))
      BY <1>12, <1>15, <2>2
    <3>2. (u # w /\ SynAt(u, j, n)) \/ (u = w /\ j # k + 1 /\ old(j) \in Nat /\ SynAt(w, old(j), n))
      BY <1>12, <1>15, <2>2
    <3>3. \A a, b \in Worker, l, m \in Nat : SynAt(a, l, n) /\ SynAt(b, m, n) => a = b /\ l = m
      BY DEF Once
    <3> QED BY <1>7, <3>1, <3>2, <3>3
  <2> QED BY <2>1, <2>2
<1>16. \A v \in Worker : worker'["agent"][v].at = "handler" => worker'["agent"][v].n \in Index
  BY DEF Once
<1>17. \A n \in Index, v \in Worker : Handling(v, n)' => Pending(n)' /\ ~ New(n)
  BY <1>10, <1>13 DEF Once
<1>18. \A n \in Index, v, u \in Worker, i \in Nat : ~ (Handling(v, n)' /\ SynAt(u, i, n)')
  <2> SUFFICES ASSUME NEW n \in Index, NEW v \in Worker, NEW u \in Worker, NEW i \in Nat,
                      Handling(v, n)', SynAt(u, i, n)'
               PROVE  FALSE
    OBVIOUS
  <2>1. Handling(v, n) /\ ~ New(n)
    BY <1>13, <1>17
  <2>2. \E j \in Nat : SynAt(u, j, n)
    BY <1>12, <2>1
  <2> QED BY <2>1, <2>2 DEF Once
<1>19. \A n \in Index, v, u \in Worker : Handling(v, n)' /\ Handling(u, n)' => v = u
  BY <1>13 DEF Once
<1>20. \A n \in Index : Id(n) >= conn'["agent"].received => copier'["agent"][n].out = "none"
  <2>1. \A n \in Index : Id(n) \in Nat
    BY Naming
  <2>2. conn'["agent"].received \in Nat
    BY <1>1
  <2>3. \A n \in Index : Id(n) >= conn'["agent"].received => Id(n) >= conn["agent"].received
    BY <1>1, <1>8, <2>1, <2>2
  <2> QED BY <2>3 DEF Once
<1> QED
  BY <1>14, <1>15, <1>16, <1>17, <1>18, <1>19, <1>20 DEF Once

\* A worker of the agent takes a frame: that of a new stream becomes its handler.
LEMMA OncePopped ==
  ASSUME LibTyped, Once, NEW w \in Worker, queue["agent"][w] # <<>>,
         worker["agent"][w].at = "idle",
         queue'["agent"] = [queue["agent"] EXCEPT ![w] = Tail(@)],
         copier' = copier, conn'["agent"].received = conn["agent"].received,
         conn'["agent"].open = conn["agent"].open,
         \A v \in Worker : worker'["agent"][v].at = "handler" =>
           \/ worker'["agent"][v] = worker["agent"][v]
           \/ /\ v = w /\ Head(queue["agent"][w]).frame.type = "syn"
              /\ worker'["agent"][w].n = IndexOf(Head(queue["agent"][w]).frame.id)
  PROVE  Once'
<1> DEFINE q == queue["agent"][w]
           h == Head(q).frame
           New(n) == worker'["agent"][w].at = "handler" /\ h.type = "syn" /\ h.id = Id(n)
<1>1. queue["agent"] \in [Worker -> Seq(Queued)] /\ q \in Seq(Queued)
  BY Ends DEF LibTyped
<1>2. /\ Head(q) \in Queued /\ Head(q) = q[1] /\ Tail(q) \in Seq(Queued)
      /\ Len(q) \in Nat \ {0} /\ Len(Tail(q)) = Len(q) - 1
      /\ \A i \in 1 .. Len(q) - 1 : Tail(q)[i] = q[i + 1]
  BY <1>1, Taken
<1>3. DOMAIN q = 1 .. Len(q) /\ DOMAIN Tail(q) = 1 .. Len(q) - 1
  BY <1>1, <1>2, LenProperties
<1>4. queue'["agent"][w] = Tail(q) /\ \A v \in Worker : v # w => queue'["agent"][v] = queue["agent"][v]
  BY <1>1
<1>5. h \in Frames
  BY <1>2 DEF Queued
<1> HIDE DEF q
<1>6. ASSUME NEW n \in Index, NEW i \in Nat, SynAt(w, i, n)'
      PROVE  i + 1 \in Nat /\ i # 0 /\ SynAt(w, i + 1, n)
  <2>1. i \in 1 .. Len(q) - 1
    BY <1>3, <1>4, <1>6 DEF SynAt
  <2>2. q[i + 1].frame.type = "syn" /\ q[i + 1].frame.id = Id(n) /\ i + 1 \in 1 .. Len(q)
    BY <1>2, <1>4, <1>6, <2>1 DEF SynAt
  <2> QED BY <1>3, <2>1, <2>2 DEF SynAt, q
<1>7. \A n \in Index, v \in Worker, i \in Nat : v # w => (SynAt(v, i, n)' <=> SynAt(v, i, n))
  BY <1>4 DEF SynAt
<1>8. ASSUME NEW n \in Index, New(n) PROVE SynAt(w, 1, n)
  <2>1. 1 \in DOMAIN q
    BY <1>2, <1>3
  <2> QED BY <1>2, <1>8, <2>1 DEF SynAt, q
<1>9. \A n \in Index : Pending(n)' <=> Pending(n)
  BY DEF Pending
<1>10. ASSUME NEW v \in Worker, worker'["agent"][v].at = "handler"
       PROVE  \/ worker'["agent"][v] = worker["agent"][v] /\ v # w
              \/ v = w /\ worker'["agent"][v].n \in Index /\ New(worker'["agent"][v].n)
  <2>1. CASE worker'["agent"][v] = worker["agent"][v]
    <3>1. v # w
      BY <1>10, <2>1
    <3> QED BY <2>1, <3>1
  <2>2. CASE worker'["agent"][v] # worker["agent"][v]
    <3>1. v = w /\ h.type = "syn" /\ worker'["agent"][v].n = IndexOf(h.id)
      BY <1>10, <2>2 DEF q
    <3>2. h.id \in Ids
      BY <1>5, <3>1 DEF Frames
    <3>3. IndexOf(h.id) \in Index /\ Id(IndexOf(h.id)) = h.id
      BY <3>2, Naming
    <3> QED BY <1>10, <3>1, <3>3
  <2> QED BY <2>1, <2>2
<1>11. ASSUME NEW n \in Index, NEW v \in Worker, Handling(v, n)'
       PROVE  (v # w /\ Handling(v, n)) \/ (v = w /\ New(n))
  <2>1. worker'["agent"][v].at = "handler" /\ worker'["agent"][v].n = n
    BY <1>11 DEF Handling
  <2> HIDE DEF New
  <2> QED BY <1>10, <2>1 DEF Handling
<1> HIDE DEF New
<1>12. \A n \in Index, v \in Worker, i \in Nat : SynAt(v, i, n)' =>
         (v = w /\ i + 1 \in Nat /\ i # 0 /\ SynAt(w, i + 1, n)) \/ (v # w /\ SynAt(v, i, n))
  BY <1>6, <1>7
<1>13. \A n \in Index : New(n) => 1 \in Nat /\ SynAt(w, 1, n)
  BY <1>8
<1>14. \A n \in Index, v \in Worker, i \in Nat : SynAt(v, i, n)' => Pending(n)'
  BY <1>9, <1>12 DEF Once
<1>15. \A n \in Index, v \in Worker : Handling(v, n)' => Pending(n)'
  BY <1>9, <1>11, <1>13 DEF Once
<1>16. ASSUME NEW n \in Index, NEW v \in Worker, NEW u \in Worker, NEW i \in Nat, NEW j \in Nat,
              SynAt(v, i, n)', SynAt(u, j, n)'
       PROVE  v = u /\ i = j
  <2>1. \A a, b \in Worker, l, m \in Nat : SynAt(a, l, n) /\ SynAt(b, m, n) => a = b /\ l = m
    BY DEF Once
  <2>2. (v = w /\ i + 1 \in Nat /\ SynAt(w, i + 1, n)) \/ (v # w /\ SynAt(v, i, n))
    BY <1>12, <1>16
  <2>3. (u = w /\ j + 1 \in Nat /\ SynAt(w, j + 1, n)) \/ (u # w /\ SynAt(u, j, n))
    BY <1>12, <1>16
  <2>4. v = u
    BY <2>1, <2>2, <2>3
  <2>5. i = j \/ i + 1 = j + 1
    BY <2>1, <2>2, <2>3, <2>4
  <2> QED BY <2>4, <2>5
<1>17. ASSUME NEW n \in Index, NEW v \in Worker, NEW u \in Worker, NEW i \in Nat,
              Handling(v, n)', SynAt(u, i, n)'
       PROVE  FALSE
  <2>1. (u = w /\ i + 1 \in Nat /\ i # 0 /\ SynAt(w, i + 1, n)) \/ (u # w /\ SynAt(u, i, n))
    BY <1>12, <1>17
  <2>2. CASE v # w /\ Handling(v, n)
    BY <2>1, <2>2 DEF Once
  <2>3. CASE v = w /\ New(n)
    <3>1. SynAt(w, 1, n)
      BY <1>13, <2>3
    <3>2. \A a, b \in Worker, l, m \in Nat : SynAt(a, l, n) /\ SynAt(b, m, n) => a = b /\ l = m
      BY DEF Once
    <3>3. u = w
      BY <2>1, <3>1, <3>2
    <3>4. i + 1 = 1 /\ i # 0
      BY <2>1, <3>1, <3>2, <3>3
    <3> QED BY <3>4
  <2> QED BY <1>11, <1>17, <2>2, <2>3
<1>18. ASSUME NEW n \in Index, NEW v \in Worker, NEW u \in Worker, Handling(v, n)', Handling(u, n)'
       PROVE  v = u
  <2>1. (v # w /\ Handling(v, n)) \/ (v = w /\ SynAt(w, 1, n))
    BY <1>11, <1>13, <1>18
  <2>2. (u # w /\ Handling(u, n)) \/ (u = w /\ SynAt(w, 1, n))
    BY <1>11, <1>13, <1>18
  <2>3. 1 \in Nat /\ \A a, b \in Worker, l \in Nat : ~ (Handling(a, n) /\ SynAt(b, l, n))
    BY DEF Once
  <2>4. \A a, b \in Worker : Handling(a, n) /\ Handling(b, n) => a = b
    BY DEF Once
  <2> QED BY <2>1, <2>2, <2>3, <2>4
<1>19. \A v \in Worker : worker'["agent"][v].at = "handler" => worker'["agent"][v].n \in Index
  BY <1>10 DEF Once
<1>20. conn'["agent"].open =>
         \A n \in Index : Id(n) >= conn'["agent"].received => copier'["agent"][n].out = "none"
  BY DEF Once
<1> QED
  BY <1>14, <1>15, <1>16, <1>17, <1>18, <1>19, <1>20 DEF Once

-----------------------------------------------------------------------------
(* The steps of the library. *)

\* A connection changes, and neither its ids nor whether it is open.
LEMMA ConnChanged ==
  ASSUME LibTyped, NEW e \in End, NEW c \in Connections, conn' = [conn EXCEPT ![e] = c],
         c.open = conn[e].open, c.next = conn[e].next, c.received = conn[e].received
  PROVE  /\ conn' \in [End -> Connections]
         /\ \A o \in End : /\ conn'[o].open = conn[o].open /\ conn'[o].next = conn[o].next
                           /\ conn'[o].received = conn[o].received
BY DEF LibTyped

\* A stream changes.
LEMMA StreamStep ==
  ASSUME LibTyped, NEW e \in End, NEW n \in Index, NEW s \in Streams,
         stream' = [stream EXCEPT ![e][n] = s]
  PROVE  stream' \in [End -> [Index -> Streams]]
BY DEF LibTyped

\* A frame enters a queue.
LEMMA PushStep ==
  ASSUME LibTyped, Bounded, NEW e \in End, NEW w \in Worker, NEW f \in Frames, NEW p \in Nat,
         Push(e, w, f, p)
  PROVE  /\ queue' \in [End -> [Worker -> Seq(Queued)]] /\ Bounded'
         /\ queue'[e] = [queue[e] EXCEPT ![w] = Pushed(@, f, p)]
         /\ \A o \in End : o # e => queue'[o] = queue[o]
<1> DEFINE q == queue[e][w]
<1>1. queue \in [End -> [Worker -> Seq(Queued)]]
  BY DEF LibTyped
<1>2. q \in Seq(Queued) /\ f \in Frames /\ p \in Nat
  BY <1>1
<1>3. Pushed(q, f, p) \in Seq(Queued) /\ Len(Pushed(q, f, p)) = Len(q) + 1
  <2> HIDE DEF q
  <2> QED BY ONLY <1>2, PushedSomewhere
<1>4. Len(q) < QUEUE_SIZE /\ queue' = [queue EXCEPT ![e][w] = Pushed(q, f, p)]
  BY DEF Push
<1>5. Len(q) \in Nat /\ QUEUE_SIZE \in Nat
  BY <1>2, LenProperties, Naming
<1>6. Len(Pushed(q, f, p)) <= QUEUE_SIZE
  <2> HIDE DEF q
  <2> QED BY <1>3, <1>4, <1>5
<1> DEFINE r == Pushed(q, f, p)
<1> HIDE DEF r
<1>7. /\ queue' \in [End -> [Worker -> Seq(Queued)]]
      /\ queue'[e] = [queue[e] EXCEPT ![w] = r]
      /\ \A o \in End : o # e => queue'[o] = queue[o]
  BY <1>1, <1>3, <1>4 DEF r
<1>8. \A o \in End, v \in Worker : queue'[o][v] = queue[o][v] \/ queue'[o][v] = r
  BY <1>1, <1>7
<1>9. Bounded'
  BY <1>6, <1>8 DEF Bounded, r
<1> QED
  BY <1>7, <1>9 DEF r

\* Serve enters a frame.
LEMMA DispatchedStep ==
  ASSUME LibTyped, Bounded, Once, NEW e \in End, NEW f \in Frames, conn[e].open,
         Dispatched(e, f), UNCHANGED <<worker, copier>>
  PROVE  /\ conn' \in [End -> Connections] /\ queue' \in [End -> [Worker -> Seq(Queued)]]
         /\ stream' \in [End -> [Index -> Streams]]
         /\ Bounded' /\ Once'
         /\ \A o \in End : conn'[o].open = conn[o].open /\ conn'[o].next = conn[o].next
<1>1. /\ conn \in [End -> Connections] /\ queue \in [End -> [Worker -> Seq(Queued)]]
      /\ stream \in [End -> [Index -> Streams]]
  BY DEF LibTyped
<1>2. conn[e] \in Connections /\ conn[e].open = TRUE
  BY <1>1 DEF Connections
<1>3. f.id \in Nat /\ (f.type \notin {"ping", "goaway"} => f.id \in Ids /\ IndexOf(f.id) \in Index)
  BY Naming DEF Frames
\* The queues do not change.
<1>4. ASSUME UNCHANGED <<queue, stream>>, conn' \in [End -> Connections],
             \A o \in End : /\ conn'[o].open = conn[o].open /\ conn'[o].next = conn[o].next
                            /\ conn'[o].received = conn[o].received
      PROVE  Bounded' /\ Once'
  <2>1. Bounded'
    BY <1>4 DEF Bounded
  <2>2. Once'
    BY <1>4, Ends, OnceSame
  <2> QED BY <2>1, <2>2
\* A frame enters one.
<1>5. ASSUME NEW w \in Worker, NEW p \in Nat, Push(e, w, f, p),
             \A o \in End : /\ conn'[o].open = conn[o].open
                            /\ o # e => conn'[o].received = conn[o].received,
             \/ f.type # "syn" /\ conn'[e].received = conn[e].received
             \/ f.type = "syn" /\ f.id >= conn[e].received /\ conn'[e].received = f.id + 2
      PROVE  queue' \in [End -> [Worker -> Seq(Queued)]] /\ Bounded' /\ Once'
  <2>1. /\ queue' \in [End -> [Worker -> Seq(Queued)]] /\ Bounded'
        /\ queue'[e] = [queue[e] EXCEPT ![w] = Pushed(@, f, p)]
        /\ \A o \in End : o # e => queue'[o] = queue[o]
    BY <1>5, PushStep
  <2>2. CASE e = "agent"
    <3>1. queue'["agent"] = [queue["agent"] EXCEPT ![w] = Pushed(@, f, p)]
      BY <2>1, <2>2
    <3>2. worker' = worker /\ copier' = copier /\ conn["agent"].open = TRUE
          /\ conn'["agent"].open = TRUE
      BY <1>2, <1>5, <2>2
    <3>3. \/ f.type # "syn" /\ conn'["agent"].received = conn["agent"].received
          \/ /\ f.type = "syn" /\ f.id >= conn["agent"].received
             /\ conn'["agent"].received = f.id + 2
      BY <1>5, <2>2
    <3>4. Once'
      BY <3>1, <3>2, <3>3, OncePushed
    <3> QED BY <2>1, <3>4
  <2>3. CASE e # "agent"
    <3>1. "agent" \in End
      BY Ends
    <3>2. queue'["agent"] = queue["agent"] /\ conn'["agent"].open = conn["agent"].open
          /\ conn'["agent"].received = conn["agent"].received
      BY <1>5, <2>1, <2>3, <3>1
    <3>3. Once'
      BY <3>2, OnceSame
    <3> QED BY <2>1, <3>3
  <2> QED BY <2>2, <2>3
<1>6. CASE f.type = "syn" /\ Syn(e, f)
  <2>1. CASE ~ conn[e].goneAway /\ Valid(e, f.id) /\ Accepted(e, f)
    <3>1. /\ Push(e, f.id % FRAME_WORKERS, f, 0) /\ f.id >= conn[e].received
          /\ conn' = [conn EXCEPT ![e].received = f.id + 2]
          /\ stream' = [stream EXCEPT ![e][IndexOf(f.id)] = [NoStream EXCEPT !.known = TRUE]]
      BY <2>1 DEF Accepted, Valid
    <3>2. /\ conn' \in [End -> Connections] /\ conn'[e].received = f.id + 2
          /\ \A o \in End : /\ conn'[o].open = conn[o].open /\ conn'[o].next = conn[o].next
                            /\ o # e => conn'[o].received = conn[o].received
      <4> DEFINE c == [conn[e] EXCEPT !.received = f.id + 2]
      <4>1. conn' = [conn EXCEPT ![e] = c]
        BY <3>1
      <4>2. f.id + 2 \in Nat
        BY <1>3
      <4>3. /\ c \in Connections /\ c.received = f.id + 2 /\ c.open = conn[e].open
            /\ c.next = conn[e].next
        BY <1>2, <4>2 DEF Connections
      <4> HIDE DEF c
      <4> QED BY <1>1, <4>1, <4>3
    <3>3. stream' \in [End -> [Index -> Streams]]
      <4>1. [NoStream EXCEPT !.known = TRUE] \in Streams
        BY DEF NoStream, Streams
      <4> QED BY <1>1, <1>3, <1>6, <3>1, <4>1
    <3>4. f.id % FRAME_WORKERS \in Worker /\ 0 \in Nat
      BY <1>3, Numbered
    <3>5. queue' \in [End -> [Worker -> Seq(Queued)]] /\ Bounded' /\ Once'
      BY <1>5, <1>6, <3>1, <3>2, <3>4
    <3> QED BY <3>2, <3>3, <3>5
  <2>2. CASE UNCHANGED <<conn, queue, stream>>
    BY <1>1, <1>4, <2>2
  <2>3. CASE /\ conn' = [conn EXCEPT ![e].resets = @ \cup {f.id}]
             /\ UNCHANGED <<queue, stream>>
    <3>1. /\ conn' \in [End -> Connections]
          /\ \A o \in End : /\ conn'[o].open = conn[o].open /\ conn'[o].next = conn[o].next
                            /\ conn'[o].received = conn[o].received
      BY <1>1, <1>2, <1>3, <1>6, <2>3 DEF Connections
    <3>2. Bounded' /\ Once'
      BY <1>4, <2>3, <3>1
    <3> QED BY <1>1, <2>3, <3>1, <3>2
  <2> QED BY <1>6, <2>1, <2>2, <2>3 DEF Syn
<1>7. CASE /\ f.type \in {"reply", "data", "rst"}
           /\ Push(e, f.id % FRAME_WORKERS, f, Priority(e, IndexOf(f.id)))
           /\ UNCHANGED <<conn, stream>>
  <2>1. f.id % FRAME_WORKERS \in Worker /\ Priority(e, IndexOf(f.id)) \in Nat
    BY <1>3, Numbered DEF Priority
  <2>2. queue' \in [End -> [Worker -> Seq(Queued)]] /\ Bounded' /\ Once'
    BY <1>5, <1>7, <2>1
  <2> QED BY <1>1, <1>7, <2>2
<1>8. CASE /\ f.type \in {"ping", "goaway"} /\ Push(e, conn[e].robin, f, 0)
           /\ conn' = [conn EXCEPT ![e].robin = (@ + 1) % FRAME_WORKERS]
           /\ UNCHANGED stream
  <2>1. conn[e].robin \in Worker /\ (conn[e].robin + 1) % FRAME_WORKERS \in Worker /\ 0 \in Nat
    BY <1>2, Numbered DEF Connections
  <2>2. /\ conn' \in [End -> Connections]
        /\ \A o \in End : /\ conn'[o].open = conn[o].open /\ conn'[o].next = conn[o].next
                          /\ conn'[o].received = conn[o].received
    BY <1>1, <1>2, <1>8, <2>1 DEF Connections
  <2>3. queue' \in [End -> [Worker -> Seq(Queued)]] /\ Bounded' /\ Once'
    BY <1>5, <1>8, <2>1, <2>2
  <2> QED BY <1>1, <1>8, <2>2, <2>3
<1> QED
  BY <1>6, <1>7, <1>8 DEF Dispatched

\* Serve reads the first frame of the transport.
LEMMA ServeFrameStep ==
  ASSUME StreamInv, NEW e \in End, ServeFrame(e), UNCHANGED app
  PROVE  StreamInv'
<1> USE DEF StreamInv
<1> DEFINE h == Head(wire[e])
           more == IF h.type \in Compressed THEN 1 ELSE 0
<1>1. /\ conn[e].open /\ wire[e] # <<>> /\ Dispatched(e, Read(h))
      /\ wire' = [wire EXCEPT ![e] = Tail(@)]
      /\ blocks' = [blocks EXCEPT ![e].in = @ + more]
      /\ worker' = worker
      /\ UNCHANGED <<sock, said, heard, copier, tunnel, lost>>
  BY DEF ServeFrame, app
<1>2. /\ wire \in [End -> Seq(Written)] /\ blocks \in [End -> [out : Nat, in : Nat]]
      /\ conn[e].open = TRUE /\ Other(e) \in End /\ Other(e) # e
      /\ worker \in [End -> [Worker -> Workers]]
  BY <1>1, Ends DEF LibTyped, Connections
<1>3. /\ wire[e] \in Seq(Written) /\ blocks[e].in \in Nat /\ blocks[Other(e)].out \in Nat
      /\ Flowing(wire[e], blocks[e].in, blocks[Other(e)].out, TRUE)
  BY <1>2 DEF Transport
<1>4. /\ Tail(wire[e]) \in Seq(Written) /\ h \in Written
      /\ Flowing(Tail(wire[e]), blocks[e].in + more, blocks[Other(e)].out, TRUE)
  BY <1>1, <1>3, FlowTail
<1>5. Read(h) \in Frames
  BY <1>4, ReadFrame
<1> HIDE DEF h
<1>6. /\ conn' \in [End -> Connections] /\ queue' \in [End -> [Worker -> Seq(Queued)]]
      /\ stream' \in [End -> [Index -> Streams]]
      /\ Bounded' /\ Once'
      /\ \A o \in End : conn'[o].open = conn[o].open /\ conn'[o].next = conn[o].next
  BY <1>1, <1>5, DispatchedStep
<1>7. more \in Nat
  OBVIOUS
<1> HIDE DEF more
<1>8. /\ wire' \in [End -> Seq(Written)] /\ wire'[e] = Tail(wire[e])
      /\ \A o \in End : o # e => wire'[o] = wire[o]
  BY <1>1, <1>2, <1>4
<1>9. /\ blocks' \in [End -> [out : Nat, in : Nat]]
      /\ \A o \in End : blocks'[o].out = blocks[o].out
      /\ blocks'[e].in = blocks[e].in + more
      /\ \A o \in End : o # e => blocks'[o].in = blocks[o].in
  BY <1>1, <1>2, <1>7
<1>10. Transport'
  <2>1. ASSUME NEW o \in End
        PROVE  Flowing(wire'[o], blocks'[o].in, blocks'[Other(o)].out, conn'[o].open)
    <3>1. Other(o) \in End
      BY Ends
    <3>2. CASE o = e
      BY <1>2, <1>4, <1>6, <1>8, <1>9, <3>2
    <3>3. CASE o # e
      BY <1>6, <1>8, <1>9, <3>1, <3>3 DEF Transport
    <3> QED BY <3>2, <3>3
  <2> QED BY <2>1 DEF Transport
<1>11. LibTyped' /\ AppTyped'
  BY <1>1, <1>2, <1>6, <1>8, <1>9 DEF LibTyped, AppTyped
<1>12. Sparing'
  BY <1>1, <1>6, <1>9, Ends, SparingSame
<1> QED
  BY <1>6, <1>10, <1>11, <1>12

\* Serve returns: the frames it has not read stay on the transport.
LEMMA ServeEndStep ==
  ASSUME StreamInv, NEW e \in End, ServeEnd(e), UNCHANGED app
  PROVE  StreamInv'
<1> USE DEF StreamInv
<1>1. /\ conn' = [conn EXCEPT ![e].serving = FALSE]
      /\ stream' = [stream EXCEPT ![e] = [n \in Index |-> [stream[e][n] EXCEPT !.known = FALSE]]]
      /\ UNCHANGED <<wire, blocks, queue, worker, sock, said, heard, copier, tunnel, lost>>
  BY DEF ServeEnd, app
<1>2. /\ conn' \in [End -> Connections]
      /\ \A o \in End : /\ conn'[o].open = conn[o].open /\ conn'[o].next = conn[o].next
                        /\ conn'[o].received = conn[o].received
  <2> DEFINE c == [conn[e] EXCEPT !.serving = FALSE]
  <2>1. conn[e] \in Connections
    BY DEF LibTyped
  <2>2. /\ c \in Connections /\ c.open = conn[e].open /\ c.next = conn[e].next
        /\ c.received = conn[e].received
    BY <2>1 DEF Connections
  <2>3. conn' = [conn EXCEPT ![e] = c]
    BY <1>1
  <2> HIDE DEF c
  <2> QED BY <2>2, <2>3, ConnChanged
<1>3. stream' \in [End -> [Index -> Streams]]
  <2>1. [n \in Index |-> [stream[e][n] EXCEPT !.known = FALSE]] \in [Index -> Streams]
    <3>1. ASSUME NEW n \in Index PROVE [stream[e][n] EXCEPT !.known = FALSE] \in Streams
      <4>1. stream[e][n] \in Streams
        BY DEF LibTyped
      <4> QED BY <4>1 DEF Streams
    <3> QED BY <3>1
  <2> QED BY <1>1, <2>1 DEF LibTyped
<1>4. LibTyped' /\ AppTyped'
  BY <1>1, <1>2, <1>3 DEF LibTyped, AppTyped
<1>5. Transport' /\ Bounded'
  BY <1>1, <1>2 DEF Transport, Bounded
<1>6. Once'
  BY <1>1, <1>2, Ends, OnceSame
<1>7. Sparing'
  BY <1>1, <1>2, Ends, SparingSame
<1> QED
  BY <1>4, <1>5, <1>6, <1>7

\* The library sends a frame without a header block.
LEMMA SendStep ==
  ASSUME StreamInv, NEW e \in End, NEW f \in Frames, NEW ok, Sent(e, f, ok),
         f.type \notin Compressed,
         conn' \in [End -> Connections],
         \A o \in End : /\ conn'[o].open = conn[o].open /\ conn'[o].next = conn[o].next
                        /\ conn'[o].received = conn[o].received,
         UNCHANGED <<queue, worker, stream, app>>
  PROVE  StreamInv'
<1> USE DEF StreamInv
<1>1. /\ wire' \in [End -> Seq(Written)] /\ blocks' \in [End -> [out : Nat, in : Nat]]
      /\ Transport'
      /\ \A o \in End : blocks'[o].out = blocks[o].out
  <2>1. /\ wire' \in [End -> Seq(Written)] /\ blocks' \in [End -> [out : Nat, in : Nat]]
        /\ Transport'
        /\ blocks'[Other(e)].out = blocks[Other(e)].out
        /\ blocks'[e].out = blocks[e].out + (IF ok /\ f.type \in Compressed THEN 1 ELSE 0)
    BY SentStep
  <2>2. blocks[e].out \in Nat
    BY DEF LibTyped
  <2> QED BY <2>1, <2>2, Ends
<1>2. UNCHANGED <<sock, said, heard, copier, tunnel, lost>>
  BY DEF app
<1>3. LibTyped' /\ AppTyped'
  BY <1>1, <1>2 DEF LibTyped, AppTyped
<1>4. Bounded'
  BY DEF Bounded
<1>5. Once'
  BY <1>2, Ends, OnceSame
<1>6. Sparing'
  BY <1>1, <1>2, Ends, SparingSame
<1> QED
  BY <1>1, <1>3, <1>4, <1>5, <1>6

\* A RST is sent.
LEMMA SendResetStep ==
  ASSUME StreamInv, NEW e \in End, NEW n \in Index, SendReset(e, Id(n)), UNCHANGED app
  PROVE  StreamInv'
<1> DEFINE f == Frame("rst", Id(n), 1, 0, <<>>)
           c == [conn[e] EXCEPT !.resets = @ \ {Id(n)}]
<1>1. PICK ok \in BOOLEAN : Sent(e, f, ok)
  BY DEF SendReset
<1>2. conn' = [conn EXCEPT ![e] = c] /\ UNCHANGED <<queue, worker, stream>>
  BY DEF SendReset
<1>3. f \in Frames /\ f.type \notin Compressed
  <2>1. Id(n) \in Nat /\ Id(n) \in Ids
    BY Naming
  <2> QED BY <2>1 DEF Frame, Frames, Kind, Compressed
<1>4. c \in Connections /\ c.open = conn[e].open /\ c.next = conn[e].next /\ c.received = conn[e].received
  BY DEF StreamInv, LibTyped, Connections
<1> HIDE DEF f, c
<1>5. /\ conn' \in [End -> Connections]
      /\ \A o \in End : /\ conn'[o].open = conn[o].open /\ conn'[o].next = conn[o].next
                        /\ conn'[o].received = conn[o].received
  BY <1>2, <1>4, ConnChanged DEF StreamInv
<1> QED
  BY <1>1, <1>2, <1>3, <1>5, SendStep

\* A GOAWAY is sent.
LEMMA SendGoAwayStep ==
  ASSUME StreamInv, NEW e \in End, SendGoAway(e), UNCHANGED app
  PROVE  StreamInv'
<1> DEFINE last == IF conn[e].received > 2 THEN conn[e].received - 2 ELSE 0
           f == Frame("goaway", last, 0, 0, <<>>)
<1>1. PICK ok \in BOOLEAN :
        /\ Sent(e, f, ok)
        /\ conn' = [conn EXCEPT ![e].shut = IF ok THEN "waiting" ELSE "failed"]
  BY DEF SendGoAway
<1> DEFINE c == [conn[e] EXCEPT !.shut = IF ok THEN "waiting" ELSE "failed"]
<1>2. conn' = [conn EXCEPT ![e] = c] /\ UNCHANGED <<queue, worker, stream>>
  BY <1>1 DEF SendGoAway
<1>3. f \in Frames /\ f.type \notin Compressed
  <2>1. conn[e].received \in Nat
    BY DEF StreamInv, LibTyped, Connections
  <2>2. last \in Nat
    BY <2>1
  <2> HIDE DEF last
  <2> QED BY <2>2 DEF Frame, Frames, Kind, Compressed
<1>4. c \in Connections /\ c.open = conn[e].open /\ c.next = conn[e].next /\ c.received = conn[e].received
  BY DEF StreamInv, LibTyped, Connections
<1> HIDE DEF f, c
<1>5. /\ conn' \in [End -> Connections]
      /\ \A o \in End : /\ conn'[o].open = conn[o].open /\ conn'[o].next = conn[o].next
                        /\ conn'[o].received = conn[o].received
  BY <1>2, <1>4, ConnChanged DEF StreamInv
<1> QED
  BY <1>1, <1>2, <1>3, <1>5, SendStep

\* shutdown closes the socket.
LEMMA ShutdownStep ==
  ASSUME StreamInv, NEW e \in End, Shutdown(e), UNCHANGED app
  PROVE  StreamInv'
<1> USE DEF StreamInv
<1> DEFINE c == [conn[e] EXCEPT !.open = FALSE, !.shut = "closed"]
<1>1. /\ conn' = [conn EXCEPT ![e] = c] /\ wire' = [wire EXCEPT ![e] = <<>>]
      /\ UNCHANGED <<blocks, queue, worker, stream, sock, said, heard, copier, tunnel, lost>>
  BY DEF Shutdown, app
<1>2. c \in Connections /\ c.open = FALSE /\ c.next = conn[e].next /\ c.received = conn[e].received
  BY DEF LibTyped, Connections
<1> HIDE DEF c
<1>3. /\ conn' \in [End -> Connections] /\ conn'[e].open = FALSE
      /\ \A o \in End : /\ o # e => conn'[o].open = conn[o].open
                        /\ conn'[o].next = conn[o].next /\ conn'[o].received = conn[o].received
  BY <1>1, <1>2 DEF LibTyped
<1>4. wire' \in [End -> Seq(Written)] /\ Transport'
  BY <1>1, <1>3, TransportClosed
<1>5. LibTyped' /\ AppTyped'
  BY <1>1, <1>3, <1>4 DEF LibTyped, AppTyped
<1>6. Bounded'
  BY <1>1 DEF Bounded
<1>7. Once'
  <2>1. conn'["agent"].open => conn["agent"].open
    BY <1>3, Ends
  <2> QED BY <1>1, <1>3, <2>1, Ends, OnceSame
<1>8. Sparing'
  BY <1>1, <1>3, Ends, SparingSame
<1> QED
  BY <1>4, <1>5, <1>6, <1>7, <1>8

\* A step of a caller or of a handler that changes neither the transport nor the queues.
LEMMA QuietStep ==
  ASSUME StreamInv, UNCHANGED <<wire, blocks, queue>>,
         conn' \in [End -> Connections], worker' \in [End -> [Worker -> Workers]],
         stream' \in [End -> [Index -> Streams]], AppTyped',
         \A o \in End : /\ conn'[o].open = conn[o].open /\ conn'[o].next = conn[o].next
                        /\ conn'[o].received = conn[o].received,
         \A w \in Worker : worker'["agent"][w].at = "handler" => worker'["agent"][w] = worker["agent"][w],
         \A o \in End, n \in Index : /\ copier'[o][n].out = "none" <=> copier[o][n].out = "none"
                                     /\ copier[o][n].out # "syn" => copier'[o][n].out # "syn",
         tunnel' # "dead" => tunnel # "dead"
  PROVE  StreamInv'
<1> USE DEF StreamInv
<1>1. LibTyped'
  BY DEF LibTyped
<1>2. Transport'
  BY TransportSame
<1>3. Bounded'
  BY DEF Bounded
<1>4. Once'
  BY Ends, OnceSame
<1>5. Sparing'
  BY Ends, SparingSame
<1> QED
  BY <1>1, <1>2, <1>3, <1>4, <1>5

\* Connection.Close says that it goes away.
LEMMA CloseConnStep ==
  ASSUME StreamInv, NEW e \in End, CloseConn(e), UNCHANGED app
  PROVE  StreamInv'
<1> DEFINE c == [conn[e] EXCEPT !.goneAway = TRUE, !.shut = "goaway"]
<1>1. /\ conn' = [conn EXCEPT ![e] = c]
      /\ UNCHANGED <<wire, blocks, queue, worker, stream, sock, said, heard, copier, tunnel, lost>>
  BY DEF CloseConn, app
<1>2. c \in Connections /\ c.open = conn[e].open /\ c.next = conn[e].next /\ c.received = conn[e].received
  BY DEF StreamInv, LibTyped, Connections
<1> HIDE DEF c
<1>3. /\ conn' \in [End -> Connections]
      /\ \A o \in End : /\ conn'[o].open = conn[o].open /\ conn'[o].next = conn[o].next
                        /\ conn'[o].received = conn[o].received
  BY <1>1, <1>2, ConnChanged DEF StreamInv
<1>4. AppTyped' /\ worker' \in [End -> [Worker -> Workers]] /\ stream' \in [End -> [Index -> Streams]]
  BY <1>1 DEF StreamInv, AppTyped, LibTyped
<1> QED
  BY <1>1, <1>3, <1>4, QuietStep

\* What the handling of a frame leaves, apart from the queue it came from.
Handled(e, w, f) ==
  /\ wire' \in [End -> Seq(Written)] /\ blocks' \in [End -> [out : Nat, in : Nat]]
  /\ Transport'
  /\ \A o \in End : blocks'[o].out = blocks[o].out
  /\ conn' \in [End -> Connections]
  /\ \A o \in End : /\ conn'[o].open = conn[o].open /\ conn'[o].next = conn[o].next
                    /\ conn'[o].received = conn[o].received
  /\ stream' \in [End -> [Index -> Streams]]
  /\ worker' \in [End -> [Worker -> Workers]]
  /\ \A o \in End, v \in Worker :
       worker'[o][v].at = "handler" =>
         \/ worker'[o][v] = worker[o][v]
         \/ o = e /\ v = w /\ f.type = "syn" /\ worker'[o][v].n = IndexOf(f.id)

\* A worker waits.
LEMMA WaitStep ==
  ASSUME LibTyped, NEW e \in End, NEW w \in Worker, NEW at \in {"idle", "handler", "data", "reset"},
         NEW n \in Nat, NEW data \in Seq(Nat), Wait(e, w, at, n, data)
  PROVE  /\ worker' \in [End -> [Worker -> Workers]]
         /\ worker'[e][w].at = at /\ worker'[e][w].n = n
         /\ \A o \in End, v \in Worker : o # e \/ v # w => worker'[o][v] = worker[o][v]
<1> DEFINE x == [at |-> at, n |-> n, data |-> data]
<1>1. x \in Workers /\ x.at = at /\ x.n = n
  BY DEF Workers
<1>2. worker \in [End -> [Worker -> Workers]] /\ worker' = [worker EXCEPT ![e][w] = x]
  BY DEF LibTyped, Wait
<1> HIDE DEF x
<1> QED
  BY <1>1, <1>2

\* A frame is handled and leaves its queue.
LEMMA HandledStep ==
  ASSUME StreamInv, NEW e \in End, NEW w \in Worker, queue[e][w] # <<>>,
         Popped(e, w), worker[e][w].at = "idle",
         Handled(e, w, Head(queue[e][w]).frame), UNCHANGED app
  PROVE  StreamInv'
<1> USE DEF StreamInv
<1> DEFINE q == queue[e][w]
<1>1. /\ queue \in [End -> [Worker -> Seq(Queued)]] /\ q \in Seq(Queued)
      /\ queue' = [queue EXCEPT ![e][w] = Tail(q)]
  BY DEF LibTyped, Popped
<1>2. Tail(q) \in Seq(Queued) /\ Len(q) \in Nat /\ Len(Tail(q)) = Len(q) - 1
  BY <1>1, Taken
<1>3. UNCHANGED <<sock, said, heard, copier, tunnel, lost>>
  BY DEF app
<1>4. /\ queue' \in [End -> [Worker -> Seq(Queued)]]
      /\ queue'[e] = [queue[e] EXCEPT ![w] = Tail(@)]
      /\ \A o \in End : o # e => queue'[o] = queue[o]
      /\ queue'[e][w] = Tail(q)
      /\ \A v \in Worker : v # w => queue'[e][v] = queue[e][v]
  <2> DEFINE r == Tail(q)
  <2>1. r \in Seq(Queued)
    BY <1>2
  <2> HIDE DEF r
  <2>2. queue' = [queue EXCEPT ![e][w] = r]
    BY <1>1 DEF r
  <2>3. /\ queue' \in [End -> [Worker -> Seq(Queued)]]
        /\ queue'[e] = [queue[e] EXCEPT ![w] = r]
        /\ \A o \in End : o # e => queue'[o] = queue[o]
        /\ queue'[e][w] = r
        /\ \A v \in Worker : v # w => queue'[e][v] = queue[e][v]
    <3>1. queue' = [queue EXCEPT ![e] = [queue[e] EXCEPT ![w] = r]]
      BY <2>2
    <3>2. queue[e] \in [Worker -> Seq(Queued)]
      BY <1>1
    <3>3. [queue[e] EXCEPT ![w] = r] \in [Worker -> Seq(Queued)]
      BY <2>1, <3>2
    <3>4. /\ queue' \in [End -> [Worker -> Seq(Queued)]]
          /\ queue'[e] = [queue[e] EXCEPT ![w] = r]
          /\ \A o \in End : o # e => queue'[o] = queue[o]
      BY <1>1, <3>1, <3>3
    <3>5. queue'[e][w] = r /\ \A v \in Worker : v # w => queue'[e][v] = queue[e][v]
      BY <3>2, <3>4
    <3> QED BY <3>4, <3>5
  <2> QED BY <2>3 DEF r
<1>5. Bounded'
  <2>1. QUEUE_SIZE \in Nat /\ Len(q) <= QUEUE_SIZE
    BY Naming DEF Bounded
  <2>2. Len(Tail(q)) <= QUEUE_SIZE
    BY <1>2, <2>1
  <2>3. ASSUME NEW o \in End, NEW v \in Worker PROVE Len(queue'[o][v]) <= QUEUE_SIZE
    <3>1. CASE o = e /\ v = w
      BY <1>4, <2>2, <3>1
    <3>2. CASE ~ (o = e /\ v = w)
      <4>1. queue'[o][v] = queue[o][v]
        BY <1>4, <3>2
      <4> QED BY <4>1 DEF Bounded
    <3> QED BY <3>1, <3>2
  <2> QED BY <2>3 DEF Bounded
<1>6. LibTyped' /\ AppTyped'
  BY <1>3, <1>4 DEF Handled, LibTyped, AppTyped
<1>7. Transport'
  BY DEF Handled
<1>8. Once'
  <2>1. CASE e = "agent"
    <3>1. /\ queue["agent"][w] # <<>> /\ worker["agent"][w].at = "idle"
          /\ queue'["agent"] = [queue["agent"] EXCEPT ![w] = Tail(@)]
          /\ copier' = copier
      BY <1>3, <1>4, <2>1
    <3>2. conn'["agent"].received = conn["agent"].received /\ conn'["agent"].open = conn["agent"].open
      BY Ends DEF Handled
    <3>3. \A v \in Worker : worker'["agent"][v].at = "handler" =>
            \/ worker'["agent"][v] = worker["agent"][v]
            \/ /\ v = w /\ Head(queue["agent"][w]).frame.type = "syn"
               /\ worker'["agent"][w].n = IndexOf(Head(queue["agent"][w]).frame.id)
      BY <2>1 DEF Handled
    <3> QED BY <3>1, <3>2, <3>3, OncePopped
  <2>2. CASE e # "agent"
    <3>1. "agent" \in End
      BY Ends
    <3>2. /\ queue'["agent"] = queue["agent"] /\ copier' = copier
          /\ conn'["agent"].received = conn["agent"].received
          /\ conn'["agent"].open = conn["agent"].open
          /\ \A v \in Worker : worker'["agent"][v].at = "handler" => worker'["agent"][v] = worker["agent"][v]
      BY <1>3, <1>4, <2>2, <3>1 DEF Handled
    <3> QED BY <3>2, OnceSame
  <2> QED BY <2>1, <2>2
<1>9. Sparing'
  <2>1. /\ \A o \in End : blocks'[o].out = blocks[o].out
        /\ conn'["director"].next = conn["director"].next
    BY Ends DEF Handled
  <2> QED BY <1>3, <2>1, SparingSame
<1> QED
  BY <1>5, <1>6, <1>7, <1>8, <1>9

\* The frame handler, for each type of frame.
LEMMA HandleStep ==
  ASSUME StreamInv, NEW e \in End, NEW w \in Worker, Handle(e, w), UNCHANGED app
  PROVE  StreamInv'
<1> USE DEF StreamInv
<1> DEFINE f == Head(queue[e][w]).frame
           n == IndexOf(f.id)
<1>1. queue[e][w] # <<>> /\ worker[e][w].at = "idle" /\ Popped(e, w)
  BY DEF Handle
<1>2. \/ f.type = "ping" /\ HandlePing(e, f)
      \/ /\ \/ f.type = "syn" /\ HandleSyn(e, w, n)
            \/ f.type = "reply" /\ HandleReply(e, n)
            \/ f.type = "rst" /\ HandleReset(e, w, n)
            \/ f.type = "data" /\ HandleData(e, w, n, f)
            \/ f.type = "goaway" /\ HandleGoAway(e)
         /\ UNCHANGED <<wire, blocks>>
  BY DEF Handle
<1>3. f \in Frames
  <2>1. queue[e][w] \in Seq(Queued)
    BY DEF LibTyped
  <2>2. Head(queue[e][w]) \in Queued
    BY <1>1, <2>1, Taken
  <2> QED BY <2>2 DEF Queued
<1> HIDE DEF f
<1>4. f.data \in Seq(Nat) /\ <<>> \in Seq(Nat)
      /\ (f.type \notin {"ping", "goaway"} => n \in Index /\ n \in Nat)
  BY <1>3, Naming DEF Frames
<1>5. /\ wire \in [End -> Seq(Written)] /\ blocks \in [End -> [out : Nat, in : Nat]]
      /\ conn \in [End -> Connections] /\ stream \in [End -> [Index -> Streams]]
      /\ worker \in [End -> [Worker -> Workers]]
  BY DEF LibTyped
<1> HIDE DEF n
<1> SUFFICES Handled(e, w, f)
  BY <1>1, HandledStep DEF f
\* The transport and the connection stay as they are.
<1>6. ASSUME UNCHANGED <<wire, blocks, conn>>,
             stream' \in [End -> [Index -> Streams]], worker' \in [End -> [Worker -> Workers]],
             \A o \in End, v \in Worker :
               worker'[o][v].at = "handler" =>
                 \/ worker'[o][v] = worker[o][v]
                 \/ o = e /\ v = w /\ f.type = "syn" /\ worker'[o][v].n = n
      PROVE  Handled(e, w, f)
  <2>1. Transport'
    BY <1>6, TransportSame
  <2> QED BY <1>5, <1>6, <2>1 DEF Handled, n
<1>7. CASE f.type = "syn" /\ HandleSyn(e, w, n) /\ UNCHANGED <<wire, blocks>>
  <2>1. UNCHANGED <<conn, stream>> /\ (Wait(e, w, "handler", n, <<>>) \/ UNCHANGED worker)
    BY <1>7 DEF HandleSyn
  <2>2. CASE Wait(e, w, "handler", n, <<>>)
    <3>1. /\ worker' \in [End -> [Worker -> Workers]] /\ worker'[e][w].n = n
          /\ \A o \in End, v \in Worker : o # e \/ v # w => worker'[o][v] = worker[o][v]
      BY <1>4, <1>7, <2>2, WaitStep
    <3> QED BY <1>5, <1>6, <1>7, <2>1, <3>1
  <2>3. CASE UNCHANGED worker
    BY <1>5, <1>6, <1>7, <2>1, <2>3
  <2> QED BY <2>1, <2>2, <2>3
<1>8. CASE f.type = "reply" /\ HandleReply(e, n) /\ UNCHANGED <<wire, blocks>>
  <2>1. UNCHANGED <<conn, worker>>
        /\ stream' = [stream EXCEPT ![e][n].replied = @ \/ stream[e][n].known]
    BY <1>8 DEF HandleReply
  <2>2. stream' \in [End -> [Index -> Streams]]
    <3>1. stream[e][n] \in Streams
      BY <1>4, <1>5, <1>8
    <3>2. [stream[e][n] EXCEPT !.replied = @ \/ stream[e][n].known] \in Streams
      BY <3>1 DEF Streams
    <3> QED BY <1>4, <1>5, <1>8, <2>1, <3>2
  <2> QED BY <1>5, <1>6, <1>8, <2>1, <2>2
<1>9. CASE f.type = "rst" /\ HandleReset(e, w, n) /\ UNCHANGED <<wire, blocks>>
  <2> DEFINE s == stream[e][n]
             reset == [s EXCEPT !.known = FALSE, !.closed = TRUE, !.replied = TRUE]
             last == [reset EXCEPT !.finished = TRUE]
  <2>1. /\ UNCHANGED conn
        /\ \/ UNCHANGED <<worker, stream>>
           \/ stream' = [stream EXCEPT ![e][n] = reset] /\ Wait(e, w, "reset", n, <<>>)
           \/ stream' = [stream EXCEPT ![e][n] = last] /\ UNCHANGED worker
    BY <1>9 DEF HandleReset
  <2>2. reset \in Streams /\ last \in Streams
    <3>1. s \in Streams
      BY <1>4, <1>5, <1>9
    <3> QED BY <3>1 DEF Streams
  <2> HIDE DEF reset, last
  <2>3. CASE UNCHANGED <<worker, stream>>
    BY <1>5, <1>6, <1>9, <2>1, <2>3
  <2>4. CASE stream' = [stream EXCEPT ![e][n] = reset] /\ Wait(e, w, "reset", n, <<>>)
    <3>1. stream' \in [End -> [Index -> Streams]]
      BY <1>4, <1>5, <1>9, <2>2, <2>4
    <3>2. /\ worker' \in [End -> [Worker -> Workers]] /\ worker'[e][w].at = "reset"
          /\ \A o \in End, v \in Worker : o # e \/ v # w => worker'[o][v] = worker[o][v]
      BY <1>4, <1>9, <2>4, WaitStep
    <3>3. \A o \in End, v \in Worker :
            worker'[o][v].at = "handler" => worker'[o][v] = worker[o][v]
      BY <3>2
    <3> QED BY <1>6, <1>9, <2>1, <3>1, <3>2, <3>3
  <2>5. CASE stream' = [stream EXCEPT ![e][n] = last] /\ UNCHANGED worker
    <3>1. stream' \in [End -> [Index -> Streams]]
      BY <1>4, <1>5, <1>9, <2>2, <2>5
    <3> QED BY <1>5, <1>6, <1>9, <2>1, <2>5, <3>1
  <2> QED BY <2>1, <2>3, <2>4, <2>5
<1>10. CASE f.type = "data" /\ HandleData(e, w, n, f) /\ UNCHANGED <<wire, blocks>>
  <2>1. /\ UNCHANGED conn
        /\ Wait(e, w, "data", n, f.data) \/ UNCHANGED worker
        /\ stream' = [stream EXCEPT ![e][n] = RemoteFinished(stream[e][n])] \/ stream' = stream
    BY <1>10 DEF HandleData
  <2>2. stream' \in [End -> [Index -> Streams]]
    <3>1. stream[e][n] \in Streams
      BY <1>4, <1>5, <1>10
    <3>2. RemoteFinished(stream[e][n]) \in Streams
      BY <3>1 DEF Streams, RemoteFinished
    <3> DEFINE s == RemoteFinished(stream[e][n])
    <3>3. n \in Index /\ s \in Streams
          /\ (stream' = [stream EXCEPT ![e][n] = s] \/ stream' = stream)
      BY <1>4, <1>10, <2>1, <3>2
    <3> HIDE DEF s
    <3> QED BY <1>5, <3>3, StreamStep
  <2>3. CASE Wait(e, w, "data", n, f.data)
    <3>1. /\ worker' \in [End -> [Worker -> Workers]] /\ worker'[e][w].at = "data"
          /\ \A o \in End, v \in Worker : o # e \/ v # w => worker'[o][v] = worker[o][v]
      BY <1>4, <1>10, <2>3, WaitStep
    <3>2. \A o \in End, v \in Worker :
            worker'[o][v].at = "handler" => worker'[o][v] = worker[o][v]
      BY <3>1
    <3> QED BY <1>6, <1>10, <2>1, <2>2, <3>1, <3>2
  <2>4. CASE UNCHANGED worker
    BY <1>5, <1>6, <1>10, <2>1, <2>2, <2>4
  <2> QED BY <2>1, <2>3, <2>4
<1>11. ASSUME NEW c \in Connections, conn' = [conn EXCEPT ![e] = c] \/ conn' = conn,
              c.open = conn[e].open, c.next = conn[e].next, c.received = conn[e].received,
              UNCHANGED <<wire, blocks, worker, stream>>
       PROVE  Handled(e, w, f)
  <2>1. Transport' /\ conn' \in [End -> Connections]
        /\ \A o \in End : /\ conn'[o].open = conn[o].open /\ conn'[o].next = conn[o].next
                          /\ conn'[o].received = conn[o].received
    <3>1. /\ conn' \in [End -> Connections]
          /\ \A o \in End : /\ conn'[o].open = conn[o].open /\ conn'[o].next = conn[o].next
                            /\ conn'[o].received = conn[o].received
      BY <1>5, <1>11, ConnChanged
    <3> QED BY <1>11, <3>1, TransportSame
  <2> QED BY <1>5, <1>11, <2>1 DEF Handled
<1>12. CASE f.type = "goaway" /\ HandleGoAway(e) /\ UNCHANGED <<wire, blocks>>
  <2> DEFINE c == [conn[e] EXCEPT !.goneAway = TRUE, !.shut = "waiting"]
  <2>1. (conn' = [conn EXCEPT ![e] = c] \/ conn' = conn) /\ UNCHANGED <<worker, stream>>
    <3>1. conn' = conn \/ conn' = [conn EXCEPT ![e].goneAway = TRUE, ![e].shut = "waiting"]
      BY <1>12 DEF HandleGoAway
    <3>2. [conn EXCEPT ![e].goneAway = TRUE, ![e].shut = "waiting"] = [conn EXCEPT ![e] = c]
      BY <1>5
    <3> QED BY <1>12, <3>1, <3>2 DEF HandleGoAway
  <2>2. c \in Connections /\ c.open = conn[e].open /\ c.next = conn[e].next /\ c.received = conn[e].received
    <3>1. conn[e] \in Connections
      BY <1>5
    <3> QED BY <3>1 DEF Connections
  <2> HIDE DEF c
  <2> QED BY <1>11, <1>12, <2>1, <2>2
<1>13. CASE f.type = "ping" /\ HandlePing(e, f)
  <2>1. CASE e = "director" /\ conn' = [conn EXCEPT ![e].pinged = TRUE]
             /\ UNCHANGED <<wire, blocks, worker, stream>>
    <3> DEFINE c == [conn[e] EXCEPT !.pinged = TRUE]
    <3>1. conn' = [conn EXCEPT ![e] = c]
      BY <2>1
    <3>2. c \in Connections /\ c.open = conn[e].open /\ c.next = conn[e].next /\ c.received = conn[e].received
      <4>1. conn[e] \in Connections
        BY <1>5
      <4> QED BY <4>1 DEF Connections
    <3> HIDE DEF c
    <3> QED BY <1>11, <2>1, <3>1, <3>2
  <2>2. ASSUME NEW ok \in BOOLEAN, Sent(e, f, ok), UNCHANGED <<conn, worker, stream>>
        PROVE  Handled(e, w, f)
    <3>1. f.type \notin Compressed
      BY <1>13 DEF Compressed
    <3>2. /\ wire' \in [End -> Seq(Written)] /\ blocks' \in [End -> [out : Nat, in : Nat]]
          /\ Transport'
          /\ blocks'[Other(e)].out = blocks[Other(e)].out
          /\ blocks'[e].out = blocks[e].out + (IF ok /\ f.type \in Compressed THEN 1 ELSE 0)
      BY <1>3, <2>2, SentStep
    <3>3. \A o \in End : blocks'[o].out = blocks[o].out
      <4>1. blocks[e].out \in Nat
        BY <1>5
      <4> QED BY <3>1, <3>2, <4>1, Ends
    <3> QED BY <1>5, <2>2, <3>2, <3>3 DEF Handled
  <2> QED BY <1>13, <2>1, <2>2 DEF HandlePing
<1> QED
  BY <1>2, <1>7, <1>8, <1>9, <1>10, <1>12, <1>13

-----------------------------------------------------------------------------
(* The steps of the two programs. *)

\* The copiers that were started and those that never will be.
LEMMA Copies ==
  /\ Copying \in Copiers /\ Copying.out = "copy"
  /\ Stopped \in Copiers /\ Stopped.out = "done"
<1>1. NoCopier \in Copiers
  BY DEF NoCopier, Copiers
<1> DEFINE x == [NoCopier EXCEPT !.out = "copy"]
           y == [NoCopier EXCEPT !.out = "done"]
<1>2. x \in Copiers /\ x.out = "copy" /\ y \in Copiers /\ y.out = "done"
  BY <1>1 DEF Copiers
<1>3. Copying = [x EXCEPT !.in = "read"] /\ Stopped = [y EXCEPT !.in = "done"]
  BY DEF Copying, Stopped
<1> HIDE DEF x, y
<1> QED
  BY <1>2, <1>3 DEF Copiers

\* The copiers of stream n at e are c now, the others are as they were.
Moved(e, n, c) ==
  /\ copier' \in [End -> [Index -> Copiers]] /\ copier'[e][n] = c
  /\ \A o \in End, m \in Index : o # e \/ m # n => copier'[o][m] = copier[o][m]

\* A copier moves on.
LEMMA CopierStep ==
  ASSUME AppTyped, NEW e \in End, NEW n \in Index, NEW c \in Copiers,
         copier' = [copier EXCEPT ![e][n] = c]
  PROVE  Moved(e, n, c)
<1>1. copier \in [End -> [Index -> Copiers]]
  BY DEF AppTyped
<1> QED
  BY <1>1 DEF Moved

\* A socket opens or closes.
LEMMA SockStep ==
  ASSUME AppTyped, NEW e \in End, NEW n \in Index, NEW x \in {"none", "open", "gone", "closed"},
         sock' = [sock EXCEPT ![e][n] = x]
  PROVE  sock' \in [End -> [Index -> {"none", "open", "gone", "closed"}]]
BY DEF AppTyped

\* NewConnTunnel sends its ping.
LEMMA PingStep ==
  ASSUME StreamInv, Ping
  PROVE  StreamInv'
<1> USE DEF StreamInv
<1> DEFINE f == Frame("ping", 1, 0, 0, <<>>)
<1>1. PICK ok \in BOOLEAN : Sent("director", f, ok) /\ tunnel' = IF ok THEN "pinging" ELSE "dead"
  BY DEF Ping, SendPing
<1>2. UNCHANGED <<conn, queue, worker, stream, sock, said, heard, copier, lost>> /\ tunnel = "new"
  BY DEF Ping
<1>3. f \in Frames /\ f.type \notin Compressed
  BY DEF Frame, Frames, Kind, Compressed
<1> HIDE DEF f
<1>4. /\ wire' \in [End -> Seq(Written)] /\ blocks' \in [End -> [out : Nat, in : Nat]]
      /\ Transport'
      /\ \A o \in End : blocks'[o].out = blocks[o].out
  <2>1. /\ wire' \in [End -> Seq(Written)] /\ blocks' \in [End -> [out : Nat, in : Nat]]
        /\ Transport'
        /\ blocks'[Other("director")].out = blocks[Other("director")].out
        /\ blocks'["director"].out
             = blocks["director"].out + (IF ok /\ f.type \in Compressed THEN 1 ELSE 0)
    BY <1>1, <1>2, <1>3, Ends, SentStep
  <2>2. blocks["director"].out \in Nat
    BY Ends DEF LibTyped
  <2> QED BY <1>3, <2>1, <2>2, Ends
<1>5. tunnel' \in {"new", "pinging", "up", "dead"}
  BY <1>1
<1>6. LibTyped' /\ AppTyped'
  BY <1>2, <1>4, <1>5 DEF LibTyped, AppTyped
<1>7. Bounded'
  BY <1>2 DEF Bounded
<1>8. Once'
  BY <1>2, Ends, OnceSame
<1>9. Sparing'
  BY <1>2, <1>4, Ends, SparingSame
<1> QED
  BY <1>4, <1>6, <1>7, <1>8, <1>9

\* NewConnTunnel has its answer, or will never have it.
LEMMA PingedStep ==
  ASSUME StreamInv, Pinged
  PROVE  StreamInv'
<1>1. /\ UNCHANGED <<wire, blocks, conn, queue, worker, stream, sock, said, heard, copier, lost>>
      /\ tunnel = "pinging" /\ tunnel' \in {"up", "dead"}
  BY DEF Pinged, lib
<1>2. /\ conn' \in [End -> Connections] /\ worker' \in [End -> [Worker -> Workers]]
      /\ stream' \in [End -> [Index -> Streams]] /\ AppTyped'
  BY <1>1 DEF StreamInv, LibTyped, AppTyped
<1> QED
  BY <1>1, <1>2, QuietStep

\* A client is forwarded: no copier was started for a new id.
LEMMA ForwardStep ==
  ASSUME StreamInv, NEW n \in Index, Forward(n)
  PROVE  StreamInv'
<1> USE DEF StreamInv
<1> DEFINE c == [conn["director"] EXCEPT !.next = @ + 2]
           s == [NoStream EXCEPT !.known = TRUE]
           k == [copier["director"][n] EXCEPT !.out = "syn"]
<1>1. /\ tunnel = "up" /\ conn["director"].next = Id(n)
      /\ conn' = [conn EXCEPT !["director"] = c]
      /\ stream' = [stream EXCEPT !["director"][n] = s]
      /\ sock' = [sock EXCEPT !["director"][n] = "open"]
      /\ copier' = [copier EXCEPT !["director"][n] = k]
      /\ UNCHANGED <<wire, blocks, queue, worker, said, heard, tunnel, lost>>
  BY DEF Forward, CreateStream, NextStreamId
<1>2. "director" \in End /\ "agent" \in End
  BY Ends
<1>3. /\ c \in Connections /\ c.open = conn["director"].open
      /\ c.next = conn["director"].next + 2 /\ c.received = conn["director"].received
      /\ conn["director"].next \in Nat
  <2>1. conn["director"] \in Connections
    BY <1>2 DEF LibTyped
  <2> QED BY <2>1 DEF Connections
<1>4. s \in Streams
  BY DEF NoStream, Streams
<1>5. k \in Copiers /\ k.out = "syn"
  <2>1. copier["director"][n] \in Copiers
    BY <1>2 DEF AppTyped
  <2> QED BY <2>1 DEF Copiers
<1> HIDE DEF c, s, k
<1>6. /\ conn' \in [End -> Connections] /\ conn'["director"].next = conn["director"].next + 2
      /\ conn'["agent"] = conn["agent"]
      /\ \A o \in End : conn'[o].open = conn[o].open
  BY <1>1, <1>2, <1>3 DEF LibTyped
<1>7. /\ copier' \in [End -> [Index -> Copiers]] /\ copier'["director"][n].out = "syn"
      /\ \A o \in End, m \in Index : o # "director" \/ m # n => copier'[o][m] = copier[o][m]
  <2>1. /\ copier' \in [End -> [Index -> Copiers]] /\ copier'["director"][n] = k
        /\ \A o \in End, m \in Index : o # "director" \/ m # n => copier'[o][m] = copier[o][m]
    <3>1. Moved("director", n, k)
      BY <1>1, <1>2, <1>5, CopierStep
    <3> QED BY <3>1 DEF Moved
  <2> QED BY <1>5, <2>1
<1>8. LibTyped' /\ AppTyped'
  <2>1. stream' \in [End -> [Index -> Streams]]
    BY <1>1, <1>2, <1>4, StreamStep
  <2>2. sock' \in [End -> [Index -> {"none", "open", "gone", "closed"}]]
    BY <1>1, <1>2, SockStep
  <2> QED BY <1>1, <1>6, <1>7, <2>1, <2>2 DEF LibTyped, AppTyped
<1>9. Transport' /\ Bounded'
  BY <1>1, <1>6, TransportSame DEF Bounded
<1>10. Once'
  BY <1>1, <1>2, <1>6, <1>7, OnceSame
<1>11. copier["director"][n].out = "none"
  BY <1>1, <1>3 DEF Sparing
<1>12. Opened' = Opened /\ Answered' = Answered
  BY <1>2, <1>7, <1>11 DEF Opened, Answered
<1>13. \A m \in Index : Id(m) >= conn'["director"].next => copier'["director"][m].out = "none"
  <2> SUFFICES ASSUME NEW m \in Index, Id(m) >= conn'["director"].next
               PROVE  copier'["director"][m].out = "none"
    OBVIOUS
  <2>1. Id(m) \in Nat /\ Id(m) >= conn["director"].next /\ m # n
    BY <1>1, <1>3, <1>6, Naming
  <2>2. copier["director"][m].out = "none"
    BY <1>1, <2>1 DEF Sparing
  <2> QED BY <1>2, <1>7, <2>1, <2>2
<1>14. Sparing'
  BY <1>1, <1>12, <1>13 DEF Sparing
<1> QED
  BY <1>8, <1>9, <1>10, <1>14

\* The SYN of a client is sent: it is the only header block of its stream.
LEMMA ForwardedStep ==
  ASSUME StreamInv, NEW n \in Index, Forwarded(n)
  PROVE  StreamInv'
<1> USE DEF StreamInv
<1> DEFINE f == Frame("syn", Id(n), 0, 0, <<>>)
<1>1. /\ copier["director"][n].out = "syn"
      /\ UNCHANGED <<conn, queue, worker, stream, said, heard, tunnel, lost>>
  BY DEF Forwarded
<1>2. PICK ok \in BOOLEAN :
        /\ Sent("director", f, ok)
        /\ copier' = [copier EXCEPT !["director"][n] = IF ok THEN Copying ELSE Stopped]
        /\ sock' = [sock EXCEPT !["director"][n] = IF ok THEN @ ELSE "none"]
  BY DEF Forwarded, SendStream
<1> DEFINE k == IF ok THEN Copying ELSE Stopped
           x == IF ok THEN sock["director"][n] ELSE "none"
<1>3. "director" \in End /\ "agent" \in End /\ Other("director") = "agent"
  BY Ends
<1>4. f \in Frames /\ f.type \in Compressed
  <2>1. Id(n) \in Nat /\ Id(n) \in Ids
    BY Naming
  <2> QED BY <2>1 DEF Frame, Frames, Kind, Compressed
<1>5. k \in Copiers /\ k.out \notin {"none", "syn"}
  BY Copies
<1>6. x \in {"none", "open", "gone", "closed"}
  BY <1>3 DEF AppTyped
<1>7. copier' = [copier EXCEPT !["director"][n] = k] /\ sock' = [sock EXCEPT !["director"][n] = x]
  BY <1>2
<1> HIDE DEF f, k, x
<1>8. /\ copier' \in [End -> [Index -> Copiers]] /\ copier'["director"][n] = k
      /\ \A o \in End, m \in Index : o # "director" \/ m # n => copier'[o][m] = copier[o][m]
  <2>1. Moved("director", n, k)
    BY <1>3, <1>5, <1>7, CopierStep
  <2> QED BY <2>1 DEF Moved
<1>9. sock' \in [End -> [Index -> {"none", "open", "gone", "closed"}]]
  BY <1>3, <1>6, <1>7, SockStep
<1>10. /\ wire' \in [End -> Seq(Written)] /\ blocks' \in [End -> [out : Nat, in : Nat]]
       /\ Transport'
       /\ blocks'["agent"].out = blocks["agent"].out
       /\ blocks'["director"].out = blocks["director"].out + (IF ok THEN 1 ELSE 0)
  BY <1>1, <1>2, <1>3, <1>4, SentStep
<1>11. LibTyped' /\ AppTyped'
  BY <1>1, <1>8, <1>9, <1>10 DEF LibTyped, AppTyped
<1>12. Bounded'
  BY <1>1 DEF Bounded
<1>13. Once'
  BY <1>1, <1>3, <1>8, OnceSame
<1>14. Opened' = Opened \cup {n} /\ n \notin Opened /\ Answered' = Answered
  <2>1. \A m \in Index : copier'["director"][m].out \notin {"none", "syn"}
                            <=> m = n \/ copier["director"][m].out \notin {"none", "syn"}
    BY <1>3, <1>5, <1>8
  <2>2. \A m \in Index : copier'["agent"][m] = copier["agent"][m]
    BY <1>3, <1>8
  <2> QED BY <1>1, <2>1, <2>2 DEF Opened, Answered
<1>15. Cardinality(Opened') = Cardinality(Opened) + 1 /\ Cardinality(Opened) \in Nat
  <2>1. Opened \in SUBSET Index
    BY DEF Opened
  <2>2. IsFiniteSet(Opened) /\ Cardinality(Opened) \in Nat
    BY <2>1, IndexFinite
  <2> QED BY <1>14, <2>2, FS_AddElement
<1>16. \A m \in Index : Id(m) >= conn'["director"].next /\ tunnel' # "dead"
                          => copier'["director"][m].out = "none"
  BY <1>1, <1>3, <1>8 DEF Sparing
<1>17. Sparing'
  <2>1. blocks["director"].out \in Nat
    BY <1>3 DEF LibTyped
  <2>2. blocks'["director"].out <= Cardinality(Opened')
    BY <1>10, <1>15, <2>1 DEF Sparing
  <2>3. blocks'["agent"].out <= Cardinality(Answered')
    BY <1>10, <1>14 DEF Sparing
  <2> QED BY <1>16, <2>2, <2>3 DEF Sparing
<1> QED
  BY <1>10, <1>11, <1>12, <1>13, <1>17

\* The handler of a stream replies: it is the only one of its stream, and the reply the
\* only header block.
LEMMA HandlerStep ==
  ASSUME StreamInv, NEW w \in Worker, NEW n \in Index, Handler(w, n)
  PROVE  StreamInv'
<1> USE DEF StreamInv
<1>1. /\ Handling(w, n)
      /\ worker' = [worker EXCEPT !["agent"][w] = Idle]
      /\ UNCHANGED <<conn, queue, said, heard, tunnel, lost>>
  BY DEF Handler, Handling
<1>2. "director" \in End /\ "agent" \in End /\ Other("agent") = "director"
  BY Ends
<1>3. Idle \in Workers /\ Idle.at = "idle"
  BY DEF Idle, Workers
<1>4. /\ worker' \in [End -> [Worker -> Workers]] /\ worker'["agent"][w].at = "idle"
      /\ \A v \in Worker : v # w => worker'["agent"][v] = worker["agent"][v]
  <2>1. worker \in [End -> [Worker -> Workers]]
    BY DEF LibTyped
  <2>2. /\ worker' \in [End -> [Worker -> Workers]] /\ worker'["agent"][w] = Idle
        /\ \A v \in Worker : v # w => worker'["agent"][v] = worker["agent"][v]
    BY <1>1, <1>2, <1>3, <2>1
  <2> QED BY <1>3, <2>2
<1>5. Bounded'
  BY <1>1 DEF Bounded
<1>6. Pending(n) /\ Id(n) \in Nat /\ conn["agent"].received \in Nat
  <2>1. conn["agent"] \in Connections
    BY <1>2 DEF LibTyped
  <2> QED BY <1>1, <2>1, Naming DEF Once, Connections
\* The dial or the reply failed.
<1>7. ASSUME UNCHANGED copier, wire' \in [End -> Seq(Written)],
             blocks' \in [End -> [out : Nat, in : Nat]], Transport',
             \A o \in End : blocks'[o].out = blocks[o].out,
             stream' \in [End -> [Index -> Streams]],
             sock' \in [End -> [Index -> {"none", "open", "gone", "closed"}]]
      PROVE  StreamInv'
  <2>1. LibTyped' /\ AppTyped'
    BY <1>1, <1>4, <1>7 DEF LibTyped, AppTyped
  <2>2. Once'
    <3>1. \A v \in Worker : worker'["agent"][v].at = "handler" => worker'["agent"][v] = worker["agent"][v]
      BY <1>4
    <3> QED BY <1>1, <1>7, <3>1, OnceSame
  <2>3. Sparing'
    BY <1>1, <1>7, Ends, SparingSame
  <2> QED BY <1>5, <1>7, <2>1, <2>2, <2>3
\* The reply was sent.
<1>8. ASSUME copier' \in [End -> [Index -> Copiers]], copier'["agent"][n].out = "copy",
             \A o \in End, m \in Index : o # "agent" \/ m # n => copier'[o][m] = copier[o][m],
             wire' \in [End -> Seq(Written)],
             blocks' \in [End -> [out : Nat, in : Nat]], Transport',
             blocks'["director"].out = blocks["director"].out,
             blocks'["agent"].out = blocks["agent"].out + 1,
             stream' \in [End -> [Index -> Streams]],
             sock' \in [End -> [Index -> {"none", "open", "gone", "closed"}]]
      PROVE  StreamInv'
  <2>1. LibTyped' /\ AppTyped'
    BY <1>1, <1>4, <1>8 DEF LibTyped, AppTyped
  <2>2. \A m \in Index, v \in Worker, i \in Nat : SynAt(v, i, m)' <=> SynAt(v, i, m)
    BY <1>1 DEF SynAt
  <2>3. \A m \in Index, v \in Worker : Handling(v, m)' => v # w /\ Handling(v, m)
    BY <1>4 DEF Handling
  <2>4. \A m \in Index : m # n => (Pending(m)' <=> Pending(m))
    BY <1>1, <1>2, <1>8 DEF Pending
  <2>5. \A v \in Worker, i \in Nat : ~ SynAt(v, i, n)' /\ ~ Handling(v, n)'
    <3>1. \A v \in Worker, i \in Nat : ~ SynAt(v, i, n)
      BY <1>1 DEF Once
    <3>2. \A v \in Worker : Handling(v, n) => v = w
      BY <1>1 DEF Once
    <3> QED BY <2>2, <2>3, <3>1, <3>2
  <2>6. Once'
    <3>1. \A m \in Index, v \in Worker, i \in Nat : SynAt(v, i, m)' => Pending(m)'
      BY <2>2, <2>4, <2>5 DEF Once
    <3>2. \A m \in Index, v, u \in Worker, i, j \in Nat :
            SynAt(v, i, m)' /\ SynAt(u, j, m)' => v = u /\ i = j
      BY <2>2 DEF Once
    <3>3. \A v \in Worker : worker'["agent"][v].at = "handler" => worker'["agent"][v].n \in Index
      BY <1>4 DEF Once
    <3>4. \A m \in Index, v \in Worker : Handling(v, m)' => Pending(m)'
      BY <2>3, <2>4, <2>5 DEF Once
    <3>5. \A m \in Index, v, u \in Worker, i \in Nat : ~ (Handling(v, m)' /\ SynAt(u, i, m)')
      BY <2>2, <2>3 DEF Once
    <3>6. \A m \in Index, v, u \in Worker : Handling(v, m)' /\ Handling(u, m)' => v = u
      BY <2>3 DEF Once
    <3>7. conn'["agent"].open =>
            \A m \in Index : Id(m) >= conn'["agent"].received => copier'["agent"][m].out = "none"
      <4> SUFFICES ASSUME conn'["agent"].open, NEW m \in Index, Id(m) >= conn'["agent"].received
                   PROVE  copier'["agent"][m].out = "none"
        OBVIOUS
      <4>1. m # n
        BY <1>1, <1>6 DEF Pending
      <4>2. copier["agent"][m].out = "none"
        BY <1>1 DEF Once
      <4> QED BY <1>2, <1>8, <4>1, <4>2
    <3> QED BY <3>1, <3>2, <3>3, <3>4, <3>5, <3>6, <3>7 DEF Once
  <2>7. Opened' = Opened /\ Answered' = Answered \cup {n} /\ n \notin Answered
    <3>1. \A m \in Index : copier'["agent"][m].out # "none"
                              <=> m = n \/ copier["agent"][m].out # "none"
      BY <1>2, <1>8
    <3>2. \A m \in Index : copier'["director"][m] = copier["director"][m]
      BY <1>2, <1>8
    <3> QED BY <1>6, <3>1, <3>2 DEF Opened, Answered, Pending
  <2>8. Cardinality(Answered') = Cardinality(Answered) + 1 /\ Cardinality(Answered) \in Nat
    <3>1. Answered \in SUBSET Index
      BY DEF Answered
    <3>2. IsFiniteSet(Answered) /\ Cardinality(Answered) \in Nat
      BY <3>1, IndexFinite
    <3> QED BY <2>7, <3>2, FS_AddElement
  <2>9. Sparing'
    <3>1. blocks["agent"].out \in Nat
      BY <1>2 DEF LibTyped
    <3>2. blocks'["agent"].out <= Cardinality(Answered')
      BY <1>8, <2>8, <3>1 DEF Sparing
    <3>3. blocks'["director"].out <= Cardinality(Opened')
      BY <1>8, <2>7 DEF Sparing
    <3>4. tunnel' # "dead" =>
            \A m \in Index : Id(m) >= conn'["director"].next => copier'["director"][m].out = "none"
      BY <1>1, <1>2, <1>8 DEF Sparing
    <3> QED BY <3>2, <3>3, <3>4 DEF Sparing
  <2> QED BY <1>5, <1>8, <2>1, <2>6, <2>9
<1>9. CASE UNCHANGED <<wire, blocks, stream, sock, copier>>
  <2>1. Transport'
    BY <1>1, <1>9, TransportSame
  <2> QED BY <1>7, <1>9, <2>1 DEF LibTyped, AppTyped
<1>10. ASSUME NEW ok \in BOOLEAN, SendReply(n, ok),
              sock' = [sock EXCEPT !["agent"][n] = "open"],
              copier' = [copier EXCEPT !["agent"][n] = IF ok THEN Copying ELSE @]
       PROVE  StreamInv'
  <2> DEFINE f == Frame("reply", Id(n), 0, 0, <<>>)
             s == [stream["agent"][n] EXCEPT !.replied = @ \/ ok]
  <2>1. Sent("agent", f, ok) /\ stream' = [stream EXCEPT !["agent"][n] = s]
    BY <1>10 DEF SendReply
  <2>2. f \in Frames /\ f.type \in Compressed
    <3>1. Id(n) \in Nat /\ Id(n) \in Ids
      BY Naming
    <3> QED BY <3>1 DEF Frame, Frames, Kind, Compressed
  <2>3. s \in Streams
    <3>1. stream["agent"][n] \in Streams
      BY <1>2 DEF LibTyped
    <3> QED BY <3>1 DEF Streams
  <2> HIDE DEF f, s
  <2>4. stream' \in [End -> [Index -> Streams]]
    BY <1>2, <2>1, <2>3, StreamStep
  <2>5. sock' \in [End -> [Index -> {"none", "open", "gone", "closed"}]]
    BY <1>2, <1>10, SockStep
  <2>6. /\ wire' \in [End -> Seq(Written)] /\ blocks' \in [End -> [out : Nat, in : Nat]]
        /\ Transport'
        /\ blocks'["director"].out = blocks["director"].out
        /\ blocks'["agent"].out = blocks["agent"].out + (IF ok THEN 1 ELSE 0)
    BY <1>1, <1>2, <2>1, <2>2, SentStep
  <2>7. CASE ok
    <3>1. copier' = [copier EXCEPT !["agent"][n] = Copying]
      BY <1>10, <2>7
    <3>2. /\ copier' \in [End -> [Index -> Copiers]] /\ copier'["agent"][n] = Copying
          /\ \A o \in End, m \in Index : o # "agent" \/ m # n => copier'[o][m] = copier[o][m]
      <4>1. Copying \in Copiers /\ "agent" \in End /\ AppTyped
        BY <1>2, Copies
      <4>2. Moved("agent", n, Copying)
        BY <3>1, <4>1, CopierStep
      <4> QED BY <4>2 DEF Moved
    <3>3. copier'["agent"][n].out = "copy" /\ blocks'["agent"].out = blocks["agent"].out + 1
      BY <2>6, <2>7, <3>2, Copies
    <3> QED BY <1>8, <2>4, <2>5, <2>6, <3>2, <3>3
  <2>8. CASE ~ ok
    <3>1. copier' = copier
      BY <1>2, <1>10, <2>8 DEF AppTyped
    <3>2. \A o \in End : blocks'[o].out = blocks[o].out
      <4>1. blocks["agent"].out \in Nat
        BY <1>2 DEF LibTyped
      <4> QED BY <2>6, <2>8, <4>1, Ends
    <3> QED BY <1>7, <2>4, <2>5, <2>6, <3>1, <3>2
  <2> QED BY <2>7, <2>8
<1> QED
  BY <1>9, <1>10 DEF Handler

\* A program writes data or a FIN to a stream: no header block.
LEMMA WriteStep ==
  ASSUME StreamInv, NEW e \in End, NEW n \in Index, NEW flags \in {0, 1}, NEW data \in Seq(Nat),
         NEW ok, Sent(e, Frame("data", Id(n), 0, flags, data), ok),
         UNCHANGED <<conn, queue, worker, tunnel>>,
         stream' \in [End -> [Index -> Streams]], AppTyped',
         \A o \in End, m \in Index : /\ copier'[o][m].out = "none" <=> copier[o][m].out = "none"
                                     /\ copier[o][m].out # "syn" => copier'[o][m].out # "syn"
  PROVE  StreamInv'
<1> USE DEF StreamInv
<1> DEFINE f == Frame("data", Id(n), 0, flags, data)
<1>1. f \in Frames /\ f.type \notin Compressed /\ Sent(e, f, ok)
  <2>1. Id(n) \in Nat /\ Id(n) \in Ids
    BY Naming
  <2> QED BY <2>1 DEF Frame, Frames, Kind, Compressed
<1> HIDE DEF f
<1>2. /\ wire' \in [End -> Seq(Written)] /\ blocks' \in [End -> [out : Nat, in : Nat]]
      /\ Transport'
      /\ \A o \in End : blocks'[o].out = blocks[o].out
  <2>1. /\ wire' \in [End -> Seq(Written)] /\ blocks' \in [End -> [out : Nat, in : Nat]]
        /\ Transport'
        /\ blocks'[Other(e)].out = blocks[Other(e)].out
        /\ blocks'[e].out = blocks[e].out + (IF ok /\ f.type \in Compressed THEN 1 ELSE 0)
    BY <1>1, SentStep
  <2>2. blocks[e].out \in Nat
    BY DEF LibTyped
  <2> QED BY <1>1, <2>1, <2>2, Ends
<1>3. LibTyped'
  BY <1>2 DEF LibTyped
<1>4. Bounded'
  BY DEF Bounded
<1>5. Once'
  BY Ends, OnceSame
<1>6. Sparing'
  BY <1>2, Ends, SparingSame
<1> QED
  BY <1>2, <1>3, <1>4, <1>5, <1>6

\* A message of the socket is written to the stream.
LEMMA CopyOutStep ==
  ASSUME StreamInv, NEW e \in End, NEW n \in Index, CopyOut(e, n)
  PROVE  StreamInv'
<1> USE DEF StreamInv
<1>1. /\ copier[e][n].out = "copy"
      /\ UNCHANGED <<conn, queue, worker, stream, sock, heard, tunnel, lost>>
  BY DEF CopyOut
<1>2. PICK ok \in BOOLEAN :
        /\ Sent(e, Frame("data", Id(n), 0, 0, <<said[e][n] + 1>>), ok)
        /\ said' = [said EXCEPT ![e][n] = IF ok THEN @ + 1 ELSE @]
        /\ copier' = [copier EXCEPT ![e][n].out = IF ok THEN @ ELSE "close"]
  BY DEF CopyOut, WriteData
<1> DEFINE k == [copier[e][n] EXCEPT !.out = IF ok THEN @ ELSE "close"]
<1>3. copier[e][n] \in Copiers /\ said[e][n] \in Nat
  BY DEF AppTyped
<1>4. k \in Copiers /\ k.out \in {"copy", "close"} /\ copier' = [copier EXCEPT ![e][n] = k]
  BY <1>1, <1>2, <1>3 DEF Copiers
<1> HIDE DEF k
<1>5. /\ copier' \in [End -> [Index -> Copiers]] /\ copier'[e][n] = k
      /\ \A o \in End, m \in Index : o # e \/ m # n => copier'[o][m] = copier[o][m]
  <2>1. Moved(e, n, k)
    BY <1>4, CopierStep
  <2> QED BY <2>1 DEF Moved
<1>6. said' \in [End -> [Index -> Nat]]
  <2>1. (IF ok THEN said[e][n] + 1 ELSE said[e][n]) \in Nat
    BY <1>3
  <2> QED BY <1>2, <2>1 DEF AppTyped
<1>7. AppTyped'
  BY <1>1, <1>5, <1>6 DEF AppTyped
<1>8. \A o \in End, m \in Index : /\ copier'[o][m].out = "none" <=> copier[o][m].out = "none"
                                  /\ copier[o][m].out # "syn" => copier'[o][m].out # "syn"
  BY <1>1, <1>4, <1>5
<1>9. stream' \in [End -> [Index -> Streams]]
  BY <1>1 DEF LibTyped
<1>10. <<said[e][n] + 1>> \in Seq(Nat)
  BY <1>3
<1> QED
  BY <1>1, <1>2, <1>7, <1>8, <1>9, <1>10, WriteStep

\* The socket has nothing more to say.
LEMMA EndOutStep ==
  ASSUME StreamInv, NEW e \in End, NEW n \in Index, EndOut(e, n)
  PROVE  StreamInv'
<1> DEFINE k == [copier[e][n] EXCEPT !.out = "close"]
<1>1. /\ copier[e][n].out = "copy" /\ copier' = [copier EXCEPT ![e][n] = k]
      /\ UNCHANGED <<wire, blocks, conn, queue, worker, stream, sock, said, heard, tunnel, lost>>
  BY DEF EndOut, lib
<1>2. k \in Copiers /\ k.out = "close"
  <2>1. copier[e][n] \in Copiers
    BY DEF StreamInv, AppTyped
  <2> QED BY <2>1 DEF Copiers
<1> HIDE DEF k
<1>3. /\ copier' \in [End -> [Index -> Copiers]] /\ copier'[e][n] = k
      /\ \A o \in End, m \in Index : o # e \/ m # n => copier'[o][m] = copier[o][m]
  <2>1. Moved(e, n, k)
    BY <1>1, <1>2, CopierStep DEF StreamInv
  <2> QED BY <2>1 DEF Moved
<1>4. \A o \in End, m \in Index : /\ copier'[o][m].out = "none" <=> copier[o][m].out = "none"
                                  /\ copier[o][m].out # "syn" => copier'[o][m].out # "syn"
  BY <1>1, <1>2, <1>3
<1>5. /\ conn' \in [End -> Connections] /\ worker' \in [End -> [Worker -> Workers]]
      /\ stream' \in [End -> [Index -> Streams]] /\ AppTyped'
  BY <1>1, <1>3 DEF StreamInv, LibTyped, AppTyped
<1> QED
  BY <1>1, <1>4, <1>5, QuietStep

\* The first half of Stream.Close.
LEMMA CloseOutStep ==
  ASSUME StreamInv, NEW e \in End, NEW n \in Index, CloseOut(e, n)
  PROVE  StreamInv'
<1> DEFINE k == [copier[e][n] EXCEPT !.out = "finish"]
           s == [stream[e][n] EXCEPT !.closed = TRUE, !.known = @ /\ ~ stream[e][n].closed]
<1>1. stream[e][n] \in Streams /\ copier[e][n] \in Copiers
  BY DEF StreamInv, LibTyped, AppTyped
<1>2. /\ copier[e][n].out = "close" /\ copier' = [copier EXCEPT ![e][n] = k]
      /\ UNCHANGED <<wire, blocks, conn, queue, worker, sock, said, heard, tunnel, lost>>
  BY DEF CloseOut
<1>3. stream' = [stream EXCEPT ![e][n] = s]
  <2>1. stream' = [stream EXCEPT ![e][n].closed = TRUE, ![e][n].known = @ /\ ~ stream[e][n].closed]
    BY DEF CloseOut, CloseChan
  <2>2. stream \in [End -> [Index -> Streams]]
    BY DEF StreamInv, LibTyped
  <2> QED BY <1>1, <2>1, <2>2 DEF Streams
<1>4. k \in Copiers /\ k.out = "finish" /\ s \in Streams
  BY <1>1 DEF Copiers, Streams
<1> HIDE DEF k, s
<1>5. /\ copier' \in [End -> [Index -> Copiers]] /\ copier'[e][n] = k
      /\ \A o \in End, m \in Index : o # e \/ m # n => copier'[o][m] = copier[o][m]
  <2>1. Moved(e, n, k)
    BY <1>2, <1>4, CopierStep DEF StreamInv
  <2> QED BY <2>1 DEF Moved
<1>6. \A o \in End, m \in Index : /\ copier'[o][m].out = "none" <=> copier[o][m].out = "none"
                                  /\ copier[o][m].out # "syn" => copier'[o][m].out # "syn"
  BY <1>2, <1>4, <1>5
<1>7. stream' \in [End -> [Index -> Streams]]
  BY <1>3, <1>4, StreamStep DEF StreamInv
<1>8. /\ conn' \in [End -> Connections] /\ worker' \in [End -> [Worker -> Workers]] /\ AppTyped'
  BY <1>2, <1>5 DEF StreamInv, LibTyped, AppTyped
<1> QED
  BY <1>2, <1>6, <1>7, <1>8, QuietStep

\* The second half of Stream.Close.
LEMMA FinishOutStep ==
  ASSUME StreamInv, NEW e \in End, NEW n \in Index, FinishOut(e, n)
  PROVE  StreamInv'
<1> DEFINE k == [copier[e][n] EXCEPT !.out = "done"]
           s == [stream[e][n] EXCEPT !.finished = TRUE]
<1>1. stream[e][n] \in Streams /\ copier[e][n] \in Copiers
  BY DEF StreamInv, LibTyped, AppTyped
<1>2. /\ copier[e][n].out = "finish" /\ copier' = [copier EXCEPT ![e][n] = k]
      /\ stream' = [stream EXCEPT ![e][n] = s]
      /\ UNCHANGED <<conn, queue, worker, sock, said, heard, tunnel, lost>>
  BY DEF FinishOut, MarkFinished
<1>3. k \in Copiers /\ k.out = "done" /\ s \in Streams
  BY <1>1 DEF Copiers, Streams
<1> HIDE DEF k, s
<1>4. /\ copier' \in [End -> [Index -> Copiers]] /\ copier'[e][n] = k
      /\ \A o \in End, m \in Index : o # e \/ m # n => copier'[o][m] = copier[o][m]
  <2>1. Moved(e, n, k)
    BY <1>2, <1>3, CopierStep DEF StreamInv
  <2> QED BY <2>1 DEF Moved
<1>5. \A o \in End, m \in Index : /\ copier'[o][m].out = "none" <=> copier[o][m].out = "none"
                                  /\ copier[o][m].out # "syn" => copier'[o][m].out # "syn"
  BY <1>2, <1>3, <1>4
<1>6. stream' \in [End -> [Index -> Streams]]
  BY <1>2, <1>3, StreamStep DEF StreamInv
<1>7. /\ conn' \in [End -> Connections] /\ worker' \in [End -> [Worker -> Workers]] /\ AppTyped'
  BY <1>2, <1>4 DEF StreamInv, LibTyped, AppTyped
<1>8. CASE UNCHANGED <<wire, blocks>>
  <2>1. \A o \in End : /\ conn'[o].open = conn[o].open /\ conn'[o].next = conn[o].next
                       /\ conn'[o].received = conn[o].received
    BY <1>2
  <2>2. \A w \in Worker : worker'["agent"][w].at = "handler" => worker'["agent"][w] = worker["agent"][w]
    BY <1>2
  <2> QED BY <1>2, <1>5, <1>6, <1>7, <1>8, <2>1, <2>2, QuietStep
<1>9. ASSUME NEW ok \in BOOLEAN, WriteFin(e, n, ok) PROVE StreamInv'
  <2>1. Sent(e, Frame("data", Id(n), 0, 1, <<>>), ok) /\ <<>> \in Seq(Nat)
    BY <1>9 DEF WriteFin
  <2> QED BY <1>2, <1>5, <1>6, <1>7, <2>1, WriteStep
<1> QED
  BY <1>8, <1>9 DEF FinishOut

\* Stream.Read returns a message or the end of the stream.
LEMMA ReadInStep ==
  ASSUME StreamInv, NEW e \in End, NEW n \in Index, ReadIn(e, n)
  PROVE  StreamInv'
<1>1. UNCHANGED <<wire, blocks, conn, queue, stream, said, heard, tunnel, lost>>
  BY DEF ReadIn
<1>2. copier[e][n] \in Copiers
  BY DEF StreamInv, AppTyped
<1>3. ASSUME NEW k \in Copiers, copier' = [copier EXCEPT ![e][n] = k],
             k.out = copier[e][n].out, worker' \in [End -> [Worker -> Workers]],
             \A w \in Worker : worker'["agent"][w].at = "handler" => worker'["agent"][w] = worker["agent"][w],
             sock' \in [End -> [Index -> {"none", "open", "gone", "closed"}]]
      PROVE  StreamInv'
  <2>1. /\ copier' \in [End -> [Index -> Copiers]] /\ copier'[e][n] = k
        /\ \A o \in End, m \in Index : o # e \/ m # n => copier'[o][m] = copier[o][m]
    <3>1. Moved(e, n, k)
      BY <1>3, CopierStep DEF StreamInv
    <3> QED BY <3>1 DEF Moved
  <2>2. \A o \in End, m \in Index : /\ copier'[o][m].out = "none" <=> copier[o][m].out = "none"
                                    /\ copier[o][m].out # "syn" => copier'[o][m].out # "syn"
    BY <1>3, <2>1
  <2>3. /\ conn' \in [End -> Connections] /\ stream' \in [End -> [Index -> Streams]] /\ AppTyped'
    BY <1>1, <1>3, <2>1 DEF StreamInv, LibTyped, AppTyped
  <2> QED BY <1>1, <1>3, <2>2, <2>3, QuietStep
<1>4. ASSUME NEW w \in Offering(e, n),
             copier' = [copier EXCEPT ![e][n].in = "write", ![e][n].held = worker[e][w].data],
             worker' = [worker EXCEPT ![e][w] = Idle], UNCHANGED sock
      PROVE  StreamInv'
  <2> DEFINE k == [copier[e][n] EXCEPT !.in = "write", !.held = worker[e][w].data]
  <2>1. w \in Worker /\ worker \in [End -> [Worker -> Workers]]
    BY DEF Offering, StreamInv, LibTyped
  <2>2. worker[e][w].data \in Seq(Nat)
    BY <2>1 DEF Workers
  <2>3. k \in Copiers /\ k.out = copier[e][n].out
    BY <1>2, <2>2 DEF Copiers
  <2>4. copier' = [copier EXCEPT ![e][n] = k]
    <3>1. copier \in [End -> [Index -> Copiers]]
      BY DEF StreamInv, AppTyped
    <3> QED BY <1>4, <3>1 DEF Copiers
  <2> HIDE DEF k
  <2>5. Idle \in Workers /\ Idle.at = "idle"
    BY DEF Idle, Workers
  <2>6. /\ worker' \in [End -> [Worker -> Workers]]
        /\ \A v \in Worker : worker'["agent"][v].at = "handler" => worker'["agent"][v] = worker["agent"][v]
    BY <1>4, <2>1, <2>5, Ends
  <2>7. sock' \in [End -> [Index -> {"none", "open", "gone", "closed"}]]
    BY <1>4 DEF StreamInv, AppTyped
  <2> QED BY <1>3, <2>3, <2>4, <2>6, <2>7
<1>5. CASE ShutIn(e, n) /\ UNCHANGED worker
  <2> DEFINE k == [copier[e][n] EXCEPT !.in = "done", !.held = <<>>]
  <2>1. k \in Copiers /\ k.out = copier[e][n].out
    <3>1. <<>> \in Seq(Nat)
      OBVIOUS
    <3> QED BY <1>2, <3>1 DEF Copiers
  <2>2. copier' = [copier EXCEPT ![e][n] = k]
    <3>1. copier \in [End -> [Index -> Copiers]]
      BY DEF StreamInv, AppTyped
    <3> QED BY <1>5, <3>1 DEF Copiers, ShutIn
  <2> HIDE DEF k
  <2>3. sock' \in [End -> [Index -> {"none", "open", "gone", "closed"}]]
    BY <1>5, SockStep DEF ShutIn, StreamInv
  <2>4. worker' \in [End -> [Worker -> Workers]]
    BY <1>5 DEF StreamInv, LibTyped
  <2> QED BY <1>3, <1>5, <2>1, <2>2, <2>3, <2>4
<1> QED
  BY <1>4, <1>5 DEF ReadIn

\* A message of the stream is written to the socket.
LEMMA WriteInStep ==
  ASSUME StreamInv, NEW e \in End, NEW n \in Index, WriteIn(e, n)
  PROVE  StreamInv'
<1>1. UNCHANGED <<wire, blocks, conn, queue, worker, stream, said, tunnel, lost>>
  BY DEF WriteIn, lib
<1>2. copier[e][n] \in Copiers /\ heard[e][n] \in Seq(Nat)
  BY DEF StreamInv, AppTyped
<1> DEFINE k(at) == [copier[e][n] EXCEPT !.in = at, !.held = <<>>]
<1>3. ASSUME NEW at \in {"read", "done"}
      PROVE  k(at) \in Copiers /\ k(at).out = copier[e][n].out
             /\ [copier EXCEPT ![e][n].in = at, ![e][n].held = <<>>] = [copier EXCEPT ![e][n] = k(at)]
  <2>1. <<>> \in Seq(Nat) /\ at \in {"none", "read", "write", "done"}
    BY <1>3
  <2>2. k(at) \in Copiers /\ k(at).out = copier[e][n].out
    BY <1>2, <2>1 DEF Copiers
  <2>3. copier \in [End -> [Index -> Copiers]]
    BY DEF StreamInv, AppTyped
  <2> QED BY <2>2, <2>3 DEF Copiers
<1>4. ASSUME NEW c \in Copiers, c.out = copier[e][n].out, copier' = [copier EXCEPT ![e][n] = c],
             sock' \in [End -> [Index -> {"none", "open", "gone", "closed"}]],
             heard' \in [End -> [Index -> Seq(Nat)]]
      PROVE  StreamInv'
  <2>1. /\ copier' \in [End -> [Index -> Copiers]] /\ copier'[e][n] = c
        /\ \A o \in End, m \in Index : o # e \/ m # n => copier'[o][m] = copier[o][m]
    <3>1. Moved(e, n, c)
      BY <1>4, CopierStep DEF StreamInv
    <3> QED BY <3>1 DEF Moved
  <2>2. \A o \in End, m \in Index : /\ copier'[o][m].out = "none" <=> copier[o][m].out = "none"
                                    /\ copier[o][m].out # "syn" => copier'[o][m].out # "syn"
    BY <1>4, <2>1
  <2>3. /\ conn' \in [End -> Connections] /\ worker' \in [End -> [Worker -> Workers]]
        /\ stream' \in [End -> [Index -> Streams]] /\ AppTyped'
    BY <1>1, <1>4, <2>1 DEF StreamInv, LibTyped, AppTyped
  <2> QED BY <1>1, <2>2, <2>3, QuietStep
<1>5. CASE /\ heard' = [heard EXCEPT ![e][n] = @ \o copier[e][n].held]
           /\ copier' = [copier EXCEPT ![e][n].in = "read", ![e][n].held = <<>>]
           /\ UNCHANGED sock
  <2>1. heard[e][n] \o copier[e][n].held \in Seq(Nat)
    <3>1. copier[e][n].held \in Seq(Nat)
      BY <1>2 DEF Copiers
    <3> QED BY <1>2, <3>1, ConcatProperties
  <2>2. heard' \in [End -> [Index -> Seq(Nat)]]
    BY <1>5, <2>1 DEF StreamInv, AppTyped
  <2>3. sock' \in [End -> [Index -> {"none", "open", "gone", "closed"}]]
    BY <1>5 DEF StreamInv, AppTyped
  <2>4. /\ copier' = [copier EXCEPT ![e][n] = k("read")]
        /\ k("read") \in Copiers /\ k("read").out = copier[e][n].out
    BY <1>3, <1>5
  <2> HIDE DEF k
  <2> QED BY <1>4, <2>2, <2>3, <2>4
<1>6. CASE ShutIn(e, n) /\ UNCHANGED heard
  <2>1. sock' \in [End -> [Index -> {"none", "open", "gone", "closed"}]]
    BY <1>6, SockStep DEF ShutIn, StreamInv
  <2>2. heard' \in [End -> [Index -> Seq(Nat)]]
    BY <1>6 DEF StreamInv, AppTyped
  <2>3. /\ copier' = [copier EXCEPT ![e][n] = k("done")]
        /\ k("done") \in Copiers /\ k("done").out = copier[e][n].out
    BY <1>3, <1>6 DEF ShutIn
  <2> HIDE DEF k
  <2> QED BY <1>4, <2>1, <2>2, <2>3
<1> QED
  BY <1>5, <1>6 DEF WriteIn

\* The far end of a socket closes it.
LEMMA GoneStep ==
  ASSUME StreamInv, NEW e \in End, NEW n \in Index, Gone(e, n)
  PROVE  StreamInv'
<1>1. /\ sock' = [sock EXCEPT ![e][n] = "gone"]
      /\ UNCHANGED <<wire, blocks, conn, queue, worker, stream, said, heard, copier, tunnel, lost>>
  BY DEF Gone, lib
<1>2. sock' \in [End -> [Index -> {"none", "open", "gone", "closed"}]]
  BY <1>1, SockStep DEF StreamInv
<1>3. /\ conn' \in [End -> Connections] /\ worker' \in [End -> [Worker -> Workers]]
      /\ stream' \in [End -> [Index -> Streams]] /\ AppTyped'
  BY <1>1, <1>2 DEF StreamInv, LibTyped, AppTyped
<1> QED
  BY <1>1, <1>3, QuietStep

\* A program ends: its streams are gone, and its end of the transport with them.
LEMMA DiesStep ==
  ASSUME StreamInv, NEW e \in End, Dies(e)
  PROVE  StreamInv'
<1> USE DEF StreamInv
<1> DEFINE c == [NewConnection EXCEPT !.open = FALSE, !.serving = FALSE]
<1>1. /\ lost' = TRUE /\ conn' = [conn EXCEPT ![e] = c]
      /\ wire' = [wire EXCEPT ![e] = <<>>]
      /\ queue' = [queue EXCEPT ![e] = [w \in Worker |-> <<>>]]
      /\ worker' = [worker EXCEPT ![e] = [w \in Worker |-> Idle]]
      /\ stream' = [stream EXCEPT ![e] = [n \in Index |-> NoStream]]
      /\ sock' = [sock EXCEPT ![e] = [n \in Index |-> "closed"]]
      /\ copier' = [copier EXCEPT ![e] = [n \in Index |-> Stopped]]
      /\ tunnel' = (IF e = "director" THEN "dead" ELSE tunnel)
      /\ UNCHANGED <<blocks, said, heard>>
  BY DEF Dies
<1>2. c \in Connections /\ c.open = FALSE
  <2>1. NewConnection \in Connections
    <3>1. 0 \in Worker
      BY Naming DEF Worker
    <3> QED BY <3>1 DEF NewConnection, Connections
  <2> QED BY <2>1 DEF Connections
<1> HIDE DEF c
<1>3. /\ conn' \in [End -> Connections] /\ conn'[e].open = FALSE
      /\ \A o \in End : o # e => conn'[o] = conn[o]
  BY <1>1, <1>2 DEF LibTyped
<1>4. wire' \in [End -> Seq(Written)] /\ Transport'
  BY <1>1, <1>3, TransportClosed
<1>5. Idle \in Workers /\ Idle.at = "idle" /\ NoStream \in Streams /\ <<>> \in Seq(Queued)
  BY DEF Idle, Workers, NoStream, Streams
<1>6. /\ queue' \in [End -> [Worker -> Seq(Queued)]] /\ \A w \in Worker : queue'[e][w] = <<>>
      /\ \A o \in End : o # e => queue'[o] = queue[o]
  BY <1>1, <1>5 DEF LibTyped
<1>7. /\ worker' \in [End -> [Worker -> Workers]] /\ \A w \in Worker : worker'[e][w] = Idle
      /\ \A o \in End : o # e => worker'[o] = worker[o]
  BY <1>1, <1>5 DEF LibTyped
<1>8. stream' \in [End -> [Index -> Streams]]
  BY <1>1, <1>5 DEF LibTyped
<1>9. /\ copier' \in [End -> [Index -> Copiers]] /\ \A n \in Index : copier'[e][n] = Stopped
      /\ \A o \in End : o # e => copier'[o] = copier[o]
  BY <1>1, Copies DEF AppTyped
<1>10. LibTyped' /\ AppTyped'
  <2>1. sock' \in [End -> [Index -> {"none", "open", "gone", "closed"}]]
    BY <1>1 DEF AppTyped
  <2>2. tunnel' \in {"new", "pinging", "up", "dead"} /\ lost' \in BOOLEAN
    BY <1>1 DEF AppTyped
  <2> QED BY <1>1, <1>3, <1>4, <1>6, <1>7, <1>8, <1>9, <2>1, <2>2 DEF LibTyped, AppTyped
<1>11. Bounded'
  <2>1. Len(<<>>) = 0 /\ QUEUE_SIZE \in Nat
    BY Naming
  <2>2. ASSUME NEW o \in End, NEW w \in Worker PROVE Len(queue'[o][w]) <= QUEUE_SIZE
    <3>1. CASE o = e
      BY <1>6, <2>1, <3>1
    <3>2. CASE o # e
      BY <1>6, <3>2 DEF Bounded
    <3> QED BY <3>1, <3>2
  <2> QED BY <2>2 DEF Bounded
<1>12. Once'
  <2>1. CASE e = "agent"
    BY <1>3, <1>5, <1>6, <1>7, <2>1, OnceGone
  <2>2. CASE e # "agent"
    <3>1. "agent" \in End
      BY Ends
    <3>2. /\ queue'["agent"] = queue["agent"] /\ worker'["agent"] = worker["agent"]
          /\ conn'["agent"] = conn["agent"] /\ copier'["agent"] = copier["agent"]
      BY <1>3, <1>6, <1>7, <1>9, <2>2, <3>1
    <3> QED BY <3>2, OnceSame
  <2> QED BY <2>1, <2>2
<1>13. Sparing'
  <2>1. /\ \A o \in End : blocks'[o].out = blocks[o].out
        /\ \A n \in Index : copier["director"][n].out \notin {"none", "syn"}
                              => copier'["director"][n].out \notin {"none", "syn"}
        /\ \A n \in Index : copier["agent"][n].out # "none" => copier'["agent"][n].out # "none"
    <3>1. "director" \in End /\ "agent" \in End
      BY Ends
    <3>2. \A n \in Index : copier'["director"][n] = copier["director"][n]
                             \/ copier'["director"][n].out = "done"
      BY <1>9, <3>1, Copies
    <3>3. \A n \in Index : copier'["agent"][n] = copier["agent"][n]
                             \/ copier'["agent"][n].out = "done"
      BY <1>9, <3>1, Copies
    <3> QED BY <1>1, <3>2, <3>3
  <2>2. tunnel' # "dead" =>
          /\ tunnel # "dead" /\ conn'["director"].next = conn["director"].next
          /\ \A n \in Index : copier["director"][n].out = "none" => copier'["director"][n].out = "none"
    <3>1. "director" \in End
      BY Ends
    <3> QED BY <1>1, <1>3, <1>9, <3>1
  <2> QED BY <2>1, <2>2, SparingSame
<1> QED
  BY <1>4, <1>10, <1>11, <1>12, <1>13

-----------------------------------------------------------------------------
(* The theorems. *)

\* A new connection satisfies the invariant.
LEMMA StreamInit == SInit => StreamInv
<1> SUFFICES ASSUME SInit PROVE StreamInv
  OBVIOUS
<1>1. /\ wire = [e \in End |-> <<>>]
      /\ blocks = [e \in End |-> [out |-> 0, in |-> 0]]
      /\ conn = [e \in End |-> NewConnection]
      /\ queue = [e \in End |-> [w \in Worker |-> <<>>]]
      /\ worker = [e \in End |-> [w \in Worker |-> Idle]]
      /\ stream = [e \in End |-> [n \in Index |-> NoStream]]
  BY DEF SInit, LibInit
<1>2. /\ sock = [e \in End |-> [n \in Index |-> "none"]]
      /\ said = [e \in End |-> [n \in Index |-> 0]]
      /\ heard = [e \in End |-> [n \in Index |-> <<>>]]
      /\ copier = [e \in End |-> [n \in Index |-> NoCopier]]
      /\ tunnel = "new" /\ lost = FALSE
  BY DEF SInit
<1>3. /\ NewConnection \in Connections /\ Idle \in Workers /\ Idle.at = "idle"
      /\ NoStream \in Streams /\ NoCopier \in Copiers /\ NoCopier.out = "none"
  <2>1. 0 \in Worker
    BY Naming DEF Worker
  <2>2. NewConnection \in Connections
    BY <2>1 DEF NewConnection, Connections
  <2> QED BY <2>2 DEF Idle, Workers, NoStream, Streams, NoCopier, Copiers
<1>4. /\ [out |-> 0, in |-> 0] \in [out : Nat, in : Nat] /\ <<>> \in Seq(Written)
      /\ <<>> \in Seq(Queued) /\ <<>> \in Seq(Nat)
  OBVIOUS
<1>5. LibTyped
  BY <1>1, <1>3, <1>4 DEF LibTyped
<1>6. AppTyped
  BY <1>2, <1>3, <1>4 DEF AppTyped
<1>7. Transport
  <2>1. \A e \in End : wire[e] = <<>> /\ blocks[e].in = 0 /\ blocks[Other(e)].out = 0
    BY <1>1, Ends
  <2>2. Count(<<>>, 0) = 0
    BY CountType
  <2>3. Len(<<>>) = 0 /\ WireCap \in Nat
    BY Naming
  <2>4. ASSUME NEW open PROVE Flowing(<<>>, 0, 0, open)
    BY <2>2, <2>3 DEF Flowing
  <2> QED BY <2>1, <2>4 DEF Transport
<1>8. Bounded
  <2>1. Len(<<>>) = 0 /\ QUEUE_SIZE \in Nat
    BY Naming
  <2> QED BY <1>1, <2>1 DEF Bounded
<1>9. Once
  <2>1. \A n \in Index, w \in Worker, i \in Nat : ~ SynAt(w, i, n) /\ ~ Handling(w, n)
    BY <1>1, <1>3, Ends DEF SynAt, Handling
  <2>2. \A w \in Worker : worker["agent"][w].at = "idle"
    BY <1>1, <1>3, Ends
  <2>3. \A n \in Index : copier["agent"][n].out = "none"
    BY <1>2, <1>3, Ends
  <2> QED BY <2>1, <2>2, <2>3 DEF Once
<1>10. Sparing
  <2>1. Opened \in SUBSET Index /\ Answered \in SUBSET Index
    BY DEF Opened, Answered
  <2>2. Cardinality(Opened) \in Nat /\ Cardinality(Answered) \in Nat
    BY <2>1, IndexFinite
  <2>3. blocks["director"].out = 0 /\ blocks["agent"].out = 0
    BY <1>1, Ends
  <2>4. \A n \in Index : copier["director"][n].out = "none"
    BY <1>2, <1>3, Ends
  <2> QED BY <2>2, <2>3, <2>4 DEF Sparing
<1> QED
  BY <1>5, <1>6, <1>7, <1>8, <1>9, <1>10 DEF StreamInv

\* The steps of the library together.
LEMMA LibStep ==
  ASSUME StreamInv, Lib
  PROVE  StreamInv'
<1>1. UNCHANGED app /\ \E e \in End : \/ Serve(e) \/ Resets(e) \/ Goes(e)
                                      \/ \E w \in Worker : Handle(e, w)
  BY DEF Lib
<1>2. PICK e \in End : \/ Serve(e) \/ Resets(e) \/ Goes(e)
                       \/ \E w \in Worker : Handle(e, w)
  BY <1>1
<1>3. CASE Serve(e)
  BY <1>1, <1>3, ServeFrameStep, ServeEndStep DEF Serve
<1>4. CASE Resets(e)
  BY <1>1, <1>4, SendResetStep DEF Resets
<1>5. CASE Goes(e)
  BY <1>1, <1>5, SendGoAwayStep, ShutdownStep DEF Goes
<1>6. CASE \E w \in Worker : Handle(e, w)
  BY <1>1, <1>6, HandleStep
<1> QED
  BY <1>2, <1>3, <1>4, <1>5, <1>6

\* Nothing happens.
LEMMA StreamStutter ==
  ASSUME StreamInv, UNCHANGED svars
  PROVE  StreamInv'
<1>1. UNCHANGED <<wire, blocks, conn, queue, worker, stream, sock, said, heard, copier, tunnel, lost>>
  BY DEF svars
<1>2. /\ conn' \in [End -> Connections] /\ worker' \in [End -> [Worker -> Workers]]
      /\ stream' \in [End -> [Index -> Streams]] /\ AppTyped'
  BY <1>1 DEF StreamInv, LibTyped, AppTyped
<1> QED
  BY <1>1, <1>2, QuietStep

\* The inductive invariant: what is on the transport can be read in its order, no more
\* is compressed than one header block for each stream and end, and the agent takes the
\* SYN of a stream once.
THEOREM StreamInductive == SSpec => []StreamInv
<1>1. SInit => StreamInv
  BY StreamInit
<1>2. StreamInv /\ [SNext]_svars => StreamInv'
  <2> SUFFICES ASSUME StreamInv, [SNext]_svars PROVE StreamInv'
    OBVIOUS
  <2>1. CASE Lib
    BY <2>1, LibStep
  <2>2. CASE Session
    BY <2>2, PingStep, PingedStep DEF Session
  <2>3. ASSUME NEW w \in Worker, NEW n \in Index, Handler(w, n) PROVE StreamInv'
    BY <2>3, HandlerStep
  <2>4. ASSUME NEW n \in Index, Forwarded(n) \/ Forward(n) PROVE StreamInv'
    BY <2>4, ForwardedStep, ForwardStep
  <2>5. ASSUME NEW e \in End, NEW n \in Index, Out(e, n) \/ In(e, n) PROVE StreamInv'
    BY <2>5, EndOutStep, CloseOutStep, FinishOutStep, ReadInStep, WriteInStep DEF Out, In
  <2>6. CASE Switched
    BY <2>6, Ends, CloseConnStep DEF Switched
  <2>7. ASSUME NEW e \in End, NEW n \in Index, CopyOut(e, n) \/ Gone(e, n) PROVE StreamInv'
    BY <2>7, CopyOutStep, GoneStep
  <2>8. ASSUME NEW e \in End, Dies(e) PROVE StreamInv'
    BY <2>8, DiesStep
  <2>9. CASE UNCHANGED svars
    BY <2>9, StreamStutter
  <2> QED BY <2>1, <2>2, <2>3, <2>4, <2>5, <2>6, <2>7, <2>8, <2>9 DEF SNext, Program, Environment
<1> QED
  BY <1>1, <1>2, PTL DEF SSpec

\* The transport and the queues never hold more than their size, and an end compresses
\* and inflates at most one header block for each stream.
THEOREM StreamTyped == SSpec => []STypeOK
<1>1. StreamInv => STypeOK
  <2> SUFFICES ASSUME StreamInv PROVE STypeOK
    OBVIOUS
  <2> USE DEF StreamInv
  <2>1. ASSUME NEW e \in End
        PROVE  blocks[e].out \in 0 .. MaxStream /\ blocks[e].in \in Nat
               /\ blocks[e].in <= blocks[Other(e)].out
    <3>1. Opened \in SUBSET Index /\ Answered \in SUBSET Index
      BY DEF Opened, Answered
    <3>2. /\ Cardinality(Opened) \in Nat /\ Cardinality(Opened) <= MaxStream
          /\ Cardinality(Answered) \in Nat /\ Cardinality(Answered) <= MaxStream
      BY <3>1, IndexFinite
    <3>3. blocks[e].out \in Nat /\ blocks[e].in \in Nat /\ MaxStream \in Nat
      BY Naming DEF LibTyped
    <3>4. blocks[e].out <= MaxStream
      BY <3>2, <3>3, Ends DEF Sparing
    <3>5. blocks[e].in <= blocks[Other(e)].out
      BY DEF Transport, Flowing
    <3> QED BY <3>3, <3>4, <3>5
  <2>2. ASSUME NEW e \in End
        PROVE  blocks[e] \in [out : 0 .. MaxStream, in : 0 .. MaxStream]
    <3>1. /\ blocks[e].out \in 0 .. MaxStream /\ blocks[Other(e)].out \in 0 .. MaxStream
          /\ blocks[e].in \in Nat /\ blocks[e].in <= blocks[Other(e)].out
      BY <2>1, Ends
    <3>2. blocks[e].in \in 0 .. MaxStream
      BY <3>1, Naming
    <3>3. blocks[e] \in [out : Nat, in : Nat]
      BY DEF LibTyped
    <3> QED BY <3>1, <3>2, <3>3
  <2>3. ASSUME NEW e \in End PROVE Len(wire[e]) <= WireCap
    BY DEF Transport, Flowing
  <2>4. ASSUME NEW e \in End, NEW w \in Worker
        PROVE  /\ Len(queue[e][w]) <= QUEUE_SIZE
               /\ worker[e][w].at \in {"idle", "handler", "data", "reset"}
    <3>1. worker[e][w] \in Workers
      BY DEF LibTyped
    <3> QED BY <3>1 DEF Bounded, Workers
  <2>5. ASSUME NEW e \in End
        PROVE  /\ conn[e].shut \in {"no", "goaway", "waiting", "closed", "failed"}
               /\ conn[e].robin \in Worker
    <3>1. conn[e] \in Connections
      BY DEF LibTyped
    <3> QED BY <3>1 DEF Connections
  <2>6. ASSUME NEW e \in End, NEW n \in Index
        PROVE  /\ stream[e][n] \in [known : BOOLEAN, replied : BOOLEAN, finished : BOOLEAN, closed : BOOLEAN]
               /\ copier[e][n].out \in {"none", "syn", "copy", "close", "finish", "done"}
               /\ copier[e][n].in \in {"none", "read", "write", "done"}
    <3>1. stream[e][n] \in Streams /\ copier[e][n] \in Copiers
      BY DEF LibTyped, AppTyped
    <3> QED BY <3>1 DEF Streams, Copiers
  <2> QED BY <2>2, <2>3, <2>4, <2>5, <2>6 DEF STypeOK, AppTyped
<1> QED
  BY <1>1, StreamInductive, PTL

\* Whoever writes, each frame on the transport can be read: its header block is the next
\* one for the decompressor of the reader.
THEOREM FramesReadable == SSpec => []WireReadable
<1>1. StreamInv => WireReadable
  <2> SUFFICES ASSUME StreamInv, NEW e \in End, NEW i \in 1 .. Len(wire[e])
               PROVE  ~ Unreadable(wire[e][i],
                        blocks[e].in + Cardinality({j \in 1 .. (i - 1) : wire[e][j].type \in Compressed}))
    BY DEF WireReadable
  <2>1. ~ Unreadable(wire[e][i], blocks[e].in + Count(wire[e], i - 1))
    BY DEF StreamInv, Transport, Flowing
  <2> QED BY <2>1 DEF Count
<1> QED
  BY <1>1, StreamInductive, PTL

-----------------------------------------------------------------------------
(* The order of the messages: the second invariant. *)

\* The queue of a stream.
Home(n) == Id(n) % FRAME_WORKERS

\* The frames of a queue, and behind them those of a transport.
LineOf(q, w) ==
  [i \in 1 .. Len(q) + Len(w) |-> IF i <= Len(q) THEN q[i].frame ELSE Read(w[i - Len(q)])]

\* What e has still to handle, among it all that is on its way to stream n.
Line(e, n) == LineOf(queue[e][Home(n)], wire[e])

\* The frame f is of stream n.
Of(f, n) == f.type \notin {"ping", "goaway"} /\ f.id = Id(n)

\* The frames of stream n, its messages with their numbers, its FIN, and the frame that
\* introduces it.
Mine(L, n) == {i \in DOMAIN L : Of(L[i], n)}
DataAt(L, n, i) == i \in Mine(L, n) /\ L[i].type = "data"
MessageAt(L, n, i, k) == DataAt(L, n, i) /\ L[i].data = <<k>>
FinAt(L, n, i) == DataAt(L, n, i) /\ L[i].flags = 1
IntroAt(L, n, i) == i \in Mine(L, n) /\ L[i].type \in {"syn", "reply"}

\* The message k is among them.
Has(L, n, k) == \E i \in Mine(L, n) : MessageAt(L, n, i, k)

\* There is a frame of type t, or an introduction: a SYN or a reply.
Carries(L, n, t) == \E i \in Mine(L, n) : L[i].type = t
Introduced(L, n) == Carries(L, n, "syn") \/ Carries(L, n, "reply")

\* A stream is introduced before anything else is sent to it.
IntroFirst(L, n) == \A i, j \in Mine(L, n) : IntroAt(L, n, i) => i <= j

\* The messages after the first `base' come in order and without a gap; all that were said
\* (`top') are there while nothing was lost (`full') and when there is a FIN, which comes
\* last, when its sender is done (`over').
Good(L, n, base, top, full, over) ==
  /\ \A i \in Mine(L, n) : DataAt(L, n, i) =>
       \/ L[i].flags = 1 /\ L[i].data = <<>>
       \/ L[i].flags = 0 /\ \E k \in base + 1 .. top : L[i].data = <<k>>
  /\ \A i, j \in Mine(L, n), k, l \in Nat :
       MessageAt(L, n, i, k) /\ MessageAt(L, n, j, l) /\ i < j => k < l
  /\ \A i, j \in Mine(L, n) : FinAt(L, n, i) /\ DataAt(L, n, j) => j <= i
  /\ \A k, l \in base + 1 .. top : Has(L, n, k) /\ l < k => Has(L, n, l)
  /\ full => \A k \in base + 1 .. top : Has(L, n, k)
  /\ \A i \in Mine(L, n) : FinAt(L, n, i) => over /\ \A k \in base + 1 .. top : Has(L, n, k)

\* The messages that e has taken out of the queue of stream n and not dropped.
Base(e, n) ==
  Len(heard[e][n]) + Len(copier[e][n].held) + (IF Offering(e, n) = {} THEN 0 ELSE 1)

\* A worker of the agent runs the handler of stream n.
Dialing(n) == \E w \in Worker : Handling(w, n)

\* A message that comes now may still be delivered.
Deliverable(e, n) ==
  \/ Introduced(Line(e, n), n)
  \/ /\ stream[e][n].known /\ ~ stream[e][n].closed
     /\ \/ stream[e][n].replied
        \/ e = "agent" /\ Dialing(n)

\* The messages on their way.
Pipeline(e, n) ==
  Deliverable(e, n) /\ copier[e][n].in # "done" =>
    Good(Line(e, n), n, Base(e, n), said[Other(e)][n], conn[e].open, copier[Other(e)][n].out = "done")

\* The messages that have arrived, and the one that is being handed over.
Arrived(e, n) ==
  /\ heard[e][n] = [k \in 1 .. Len(heard[e][n]) |-> k]
  /\ Len(heard[e][n]) <= said[Other(e)][n]
  /\ copier[e][n].in = "write" => copier[e][n].held = <<Len(heard[e][n]) + 1>>
  /\ copier[e][n].in # "write" => copier[e][n].held = <<>>
  /\ copier[e][n].in # "done" => Base(e, n) <= said[Other(e)][n]
  /\ \A w \in Offering(e, n) :
       /\ w = Home(n)
       /\ copier[e][n].in # "done" =>
            worker[e][w].data = <<Len(heard[e][n]) + Len(copier[e][n].held) + 1>>
  /\ stream[e][n].closed /\ copier[e][n].in # "done" => Offering(e, n) = {}

\* Each end sends frames of its own kinds, introductions first.
Kinds(n) ==
  /\ IntroFirst(Line("director", n), n) /\ IntroFirst(Line("agent", n), n)
  /\ ~ Carries(Line("director", n), n, "syn")
  /\ ~ Carries(Line("agent", n), n, "reply") /\ ~ Carries(Line("agent", n), n, "rst")

\* Before the SYN there is nothing.
Before(n) ==
  copier["director"][n].out \in {"none", "syn"} =>
    /\ Mine(Line("agent", n), n) = {} /\ Mine(Line("director", n), n) = {}
    /\ ~ Dialing(n) /\ Id(n) \notin conn["agent"].resets
    /\ copier["agent"][n].out = "none" \/ ~ conn["agent"].open
    /\ copier["agent"][n].out \in {"none", "done"}

\* Until the agent has handled the SYN it does nothing for the stream.
Unhandled(n) ==
  Introduced(Line("agent", n), n) =>
    ~ stream["agent"][n].replied /\ ~ Dialing(n) /\ copier["agent"][n].out = "none"

\* A stream that the agent has refused: nothing will come from it.
Barren(n) ==
  /\ ~ Introduced(Line("agent", n), n) /\ ~ Dialing(n) /\ said["agent"][n] = 0
  /\ copier["agent"][n].out \in {"none", "done"}
  /\ copier["director"][n].out \notin {"none", "syn"}

\* A stream that is reset was refused.
Refused(n) ==
  /\ Id(n) \in conn["agent"].resets => Barren(n)
  /\ Carries(Line("director", n), n, "rst") => Barren(n)

\* Before its copiers run an end has sent no messages, and has not been closed.
Silent(e, n) ==
  copier[e][n].out \in {"none", "syn"} =>
    /\ said[e][n] = 0 /\ copier[e][n].in = "none"
    /\ ~ stream[e][n].closed /\ ~ stream[e][n].replied
    /\ ~ Carries(Line(Other(e), n), n, "data") /\ ~ Carries(Line(Other(e), n), n, "reply")

\* A stream that its other end has closed had delivered everything.
Complete(e, n) ==
  stream[e][n].closed /\ copier[e][n].out = "copy" /\ copier[e][n].in # "done" =>
    /\ Base(e, n) = said[Other(e)][n]
    /\ \/ copier[Other(e)][n].out = "done"
       \/ e = "director" /\ Barren(n)

\* What is true of each stream.
Conversation(n) ==
  /\ \A e \in End : Pipeline(e, n) /\ Arrived(e, n) /\ Silent(e, n) /\ Complete(e, n)
  /\ Kinds(n) /\ Before(n) /\ Unhandled(n) /\ Refused(n)
  /\ \A w \in Worker : Handling(w, n) => w = Home(n)

\* The frames of a queue are in the order of their priorities, those of a stream are in
\* its queue, and those of a stream in the table have the first priority.
Sorted(q) == \A i, j \in DOMAIN q : i <= j => q[i].priority <= q[j].priority
Prompt(q, n) == \A i \in DOMAIN q : Of(q[i].frame, n) => q[i].priority = 0
Queues ==
  /\ \A e \in End, w \in Worker :
       /\ Sorted(queue[e][w])
       /\ \A i \in DOMAIN queue[e][w] :
            /\ queue[e][w][i].priority <= 7
            /\ \A n \in Index : Of(queue[e][w][i].frame, n) => w = Home(n)
  /\ \A e \in End, n \in Index : stream[e][n].known => Prompt(queue[e][Home(n)], n)

\* The second inductive invariant.
OrderInv == Queues /\ conn["director"].resets = {} /\ \A n \in Index : Conversation(n)

\* The frames of stream n in M are frames of L, in the same order.
Within(M, L, n, g) ==
  /\ g \in [Mine(M, n) -> Mine(L, n)]
  /\ \A i \in Mine(M, n) : M[i] = L[g[i]]
  /\ \A i, j \in Mine(M, n) : i <= j <=> g[i] <= g[j]

\* ... and all of them.
Same(M, L, n) ==
  \E g : Within(M, L, n, g) /\ \A i \in Mine(L, n) : \E j \in Mine(M, n) : g[j] = i

\* What is kept of what is on its way.
LEMMA PartKept ==
  ASSUME NEW n, NEW L, NEW M, NEW g, Within(M, L, n, g)
  PROVE  /\ IntroFirst(L, n) => IntroFirst(M, n)
         /\ Introduced(M, n) => Introduced(L, n)
         /\ Mine(L, n) = {} => Mine(M, n) = {}
         /\ \A t : Carries(M, n, t) => Carries(L, n, t)
         /\ \A k : Has(M, n, k) => Has(L, n, k)
<1>1. \A i \in Mine(M, n) : g[i] \in Mine(L, n) /\ M[i] = L[g[i]]
  BY DEF Within
<1>2. IntroFirst(L, n) => IntroFirst(M, n)
  BY <1>1 DEF IntroFirst, IntroAt, Within
<1>3. \A t : Carries(M, n, t) => Carries(L, n, t)
  BY <1>1 DEF Carries
<1>4. \A k : Has(M, n, k) => Has(L, n, k)
  BY <1>1 DEF Has, MessageAt, DataAt
<1> QED
  BY <1>1, <1>2, <1>3, <1>4 DEF Introduced

\* What is not lost stays in order.
LEMMA GoodPart ==
  ASSUME NEW n, NEW L, NEW M, NEW g, Within(M, L, n, g), DOMAIN M \subseteq Nat, DOMAIN L \subseteq Nat,
         NEW base \in Nat, NEW top \in Nat, NEW full, NEW over, NEW full2, NEW over2,
         Good(L, n, base, top, full, over), full2 => full, over => over2,
         \A k \in base + 1 .. top : Has(L, n, k) => Has(M, n, k)
  PROVE  Good(M, n, base, top, full2, over2)
<1>1. \A i \in Mine(M, n) : g[i] \in Mine(L, n) /\ M[i] = L[g[i]]
  BY DEF Within
<1>2. \A i, j \in Mine(M, n) : i <= j <=> g[i] <= g[j]
  BY DEF Within
<1>3. \A i, j \in Mine(M, n) : i \in Nat /\ j \in Nat /\ g[i] \in Nat /\ g[j] \in Nat
  BY <1>1 DEF Mine
<1>4. \A k : Has(M, n, k) => Has(L, n, k)
  BY PartKept
<1>5. \A i \in Mine(M, n) : (DataAt(M, n, i) <=> DataAt(L, n, g[i]))
                            /\ (FinAt(M, n, i) <=> FinAt(L, n, g[i]))
                            /\ \A k : MessageAt(M, n, i, k) <=> MessageAt(L, n, g[i], k)
  BY <1>1 DEF DataAt, FinAt, MessageAt
<1>6. ASSUME NEW i \in Mine(M, n), DataAt(M, n, i)
      PROVE  \/ M[i].flags = 1 /\ M[i].data = <<>>
             \/ M[i].flags = 0 /\ \E k \in base + 1 .. top : M[i].data = <<k>>
  BY <1>1, <1>5, <1>6 DEF Good
<1>7. ASSUME NEW i \in Mine(M, n), NEW j \in Mine(M, n), NEW k \in Nat, NEW l \in Nat,
             MessageAt(M, n, i, k), MessageAt(M, n, j, l), i < j
      PROVE  k < l
  <2>1. g[i] < g[j]
    BY <1>2, <1>3, <1>7
  <2> QED BY <1>1, <1>5, <1>7, <2>1 DEF Good
<1>8. ASSUME NEW i \in Mine(M, n), NEW j \in Mine(M, n), FinAt(M, n, i), DataAt(M, n, j)
      PROVE  j <= i
  <2>1. g[j] <= g[i]
    BY <1>1, <1>5, <1>8 DEF Good
  <2> QED BY <1>2, <2>1
<1>9. ASSUME NEW k \in base + 1 .. top, NEW l \in base + 1 .. top, Has(M, n, k), l < k
      PROVE  Has(M, n, l)
  BY <1>4, <1>9 DEF Good
<1>10. full2 => \A k \in base + 1 .. top : Has(M, n, k)
  BY DEF Good
<1>11. ASSUME NEW i \in Mine(M, n), FinAt(M, n, i)
       PROVE  over2 /\ \A k \in base + 1 .. top : Has(M, n, k)
  BY <1>1, <1>5, <1>11 DEF Good
<1> QED
  BY <1>6, <1>7, <1>8, <1>9, <1>10, <1>11 DEF Good

\* Nothing is lost when all is kept.
LEMMA SameHas ==
  ASSUME NEW n, NEW L, NEW M, NEW g, Within(M, L, n, g),
         \A i \in Mine(L, n) : L[i].type = "data" => \E j \in Mine(M, n) : g[j] = i
  PROVE  \A k : Has(L, n, k) => Has(M, n, k)
BY DEF Within, Has, MessageAt, DataAt

\* Lines with the same frames of the stream are as good as each other.
LEMMA SameGood ==
  ASSUME NEW n, NEW L, NEW M, Same(M, L, n), DOMAIN M \subseteq Nat, DOMAIN L \subseteq Nat,
         NEW base \in Nat, NEW top \in Nat, NEW full, NEW over, NEW full2, NEW over2,
         Good(L, n, base, top, full, over), full2 => full, over => over2
  PROVE  Good(M, n, base, top, full2, over2)
<1>1. PICK g : Within(M, L, n, g) /\ \A i \in Mine(L, n) : \E j \in Mine(M, n) : g[j] = i
  BY DEF Same
<1>2. \A k : Has(L, n, k) => Has(M, n, k)
  BY <1>1, SameHas
<1> QED
  BY <1>1, <1>2, GoodPart

\* ... and carry the same.
LEMMA SameKept ==
  ASSUME NEW n, NEW L, NEW M, Same(M, L, n)
  PROVE  /\ IntroFirst(L, n) => IntroFirst(M, n)
         /\ Introduced(M, n) <=> Introduced(L, n)
         /\ Mine(L, n) = {} <=> Mine(M, n) = {}
         /\ \A t : Carries(M, n, t) <=> Carries(L, n, t)
<1>1. PICK g : Within(M, L, n, g) /\ \A i \in Mine(L, n) : \E j \in Mine(M, n) : g[j] = i
  BY DEF Same
<1>2. \A i \in Mine(M, n) : g[i] \in Mine(L, n) /\ M[i] = L[g[i]]
  BY <1>1 DEF Within
<1>3. IntroFirst(L, n) => IntroFirst(M, n)
  BY <1>1, PartKept
<1>4. \A t : Carries(M, n, t) <=> Carries(L, n, t)
  BY <1>1, <1>2 DEF Carries
<1> QED
  BY <1>1, <1>2, <1>3, <1>4 DEF Introduced

\* There is nothing to put in order.
LEMMA GoodNone ==
  ASSUME NEW n, NEW L, NEW base \in Nat, NEW top \in Nat, NEW full, NEW over,
         \A i \in Mine(L, n) : L[i].type # "data", top <= base
  PROVE  Good(L, n, base, top, full, over)
<1>1. \A i : ~ DataAt(L, n, i)
  BY DEF DataAt
<1>2. base + 1 .. top = {}
  OBVIOUS
<1>3. \A i, k : ~ MessageAt(L, n, i, k) /\ ~ FinAt(L, n, i)
  BY <1>1 DEF MessageAt, FinAt
<1> QED
  BY <1>1, <1>2, <1>3 DEF Good

\* The head of L is taken.
Behead(M, L) ==
  /\ DOMAIN L \subseteq Nat \ {0} /\ DOMAIN M \subseteq Nat \ {0} /\ 1 \in DOMAIN L
  /\ \A i \in DOMAIN M : i + 1 \in DOMAIN L /\ M[i] = L[i + 1]
  /\ \A i \in DOMAIN L : i # 1 => i - 1 \in DOMAIN M

\* Its frames come one place earlier.
Shifted(M, L, n, g) ==
  /\ Within(M, L, n, g)
  /\ \A i \in Mine(L, n) : i # 1 => \E j \in Mine(M, n) : g[j] = i
  /\ \A j \in Mine(M, n) : g[j] = j + 1

\* The frames of the stream that are left, each one place nearer.
LEMMA BeheadMap ==
  ASSUME NEW n, NEW L, NEW M, Behead(M, L)
  PROVE  \E g : Shifted(M, L, n, g)
<1> DEFINE g == [i \in Mine(M, n) |-> i + 1]
<1>1. \A i \in Mine(M, n) : i \in Nat /\ i + 1 \in Mine(L, n) /\ M[i] = L[i + 1]
  BY DEF Mine, Behead
<1>2. Within(M, L, n, g)
  BY <1>1 DEF Within
<1>3. \A i \in Mine(L, n) : i # 1 => i - 1 \in Mine(M, n) /\ g[i - 1] = i
  BY DEF Mine, Behead
<1> QED
  BY <1>2, <1>3 DEF Shifted

\* A frame of another stream is taken.
LEMMA BeheadOther ==
  ASSUME NEW n, NEW L, NEW M, Behead(M, L), ~ Of(L[1], n)
  PROVE  Same(M, L, n)
<1>1. PICK g : Shifted(M, L, n, g)
  BY BeheadMap
<1>2. \A i \in Mine(L, n) : i # 1
  BY DEF Mine
<1> QED
  BY <1>1, <1>2 DEF Same, Shifted

\* A frame of the stream is taken that is not a message.
LEMMA GoodBehead ==
  ASSUME NEW n, NEW L, NEW M, Behead(M, L), L[1].type # "data",
         NEW base \in Nat, NEW top \in Nat, NEW full, NEW over, Good(L, n, base, top, full, over)
  PROVE  Good(M, n, base, top, full, over)
<1>1. PICK g : Shifted(M, L, n, g)
  BY BeheadMap
<1>2. \A i \in Mine(L, n) : L[i].type = "data" => \E j \in Mine(M, n) : g[j] = i
  BY <1>1 DEF Shifted
<1>3. \A k : Has(L, n, k) => Has(M, n, k)
  BY <1>1, <1>2, SameHas DEF Shifted
<1>4. DOMAIN L \subseteq Nat /\ DOMAIN M \subseteq Nat
  BY DEF Behead
<1> QED
  BY <1>1, <1>3, <1>4, GoodPart DEF Shifted

\* The next message is taken.
LEMMA GoodTaken ==
  ASSUME NEW n, NEW L, NEW M, Behead(M, L), DataAt(L, n, 1), L[1].data # <<>>,
         NEW base \in Nat, NEW top \in Nat, NEW full, NEW over, Good(L, n, base, top, full, over)
  PROVE  /\ L[1].data = <<base + 1>> /\ L[1].flags = 0 /\ base + 1 <= top
         /\ Good(M, n, base + 1, top, full, over)
<1>1. PICK g : Shifted(M, L, n, g)
  BY BeheadMap
<1>2. 1 \in Mine(L, n) /\ \A i \in Mine(L, n) : i \in Nat \ {0}
  BY DEF DataAt, Mine, Behead
<1>3. PICK k \in base + 1 .. top : L[1].flags = 0 /\ L[1].data = <<k>>
  BY <1>2 DEF Good
<1>4. MessageAt(L, n, 1, k) /\ Has(L, n, k)
  BY <1>2, <1>3 DEF MessageAt, Has
<1>5. \A i \in Mine(L, n), l \in Nat : MessageAt(L, n, i, l) /\ i # 1 => k < l
  BY <1>2, <1>4 DEF Good
<1>6. \A l \in Nat : MessageAt(L, n, 1, l) => l = k
  BY <1>3 DEF MessageAt
<1>7. k = base + 1
  <2> SUFFICES ASSUME k # base + 1 PROVE FALSE
    OBVIOUS
  <2>1. base + 1 \in base + 1 .. top /\ base + 1 < k
    OBVIOUS
  <2>2. Has(L, n, base + 1)
    BY <1>4, <2>1 DEF Good
  <2>3. PICK i \in Mine(L, n) : MessageAt(L, n, i, base + 1)
    BY <2>2 DEF Has
  <2> QED BY <1>5, <1>6, <2>1, <2>3
<1>8. \A i \in Mine(M, n) : g[i] \in Mine(L, n) /\ M[i] = L[g[i]] /\ g[i] # 1 /\ i \in Nat
  <2> TAKE i \in Mine(M, n)
  <2>1. g[i] \in Mine(L, n) /\ M[i] = L[g[i]] /\ g[i] = i + 1
    BY <1>1 DEF Within, Shifted
  <2>2. i \in Nat \ {0}
    BY DEF Mine, Behead
  <2>3. g[i] # 1
    BY <2>1, <2>2
  <2> QED BY <2>1, <2>2, <2>3
<1>9. \A i \in Mine(M, n) : (DataAt(M, n, i) <=> DataAt(L, n, g[i]))
                            /\ (FinAt(M, n, i) <=> FinAt(L, n, g[i]))
                            /\ \A l : MessageAt(M, n, i, l) <=> MessageAt(L, n, g[i], l)
  BY <1>8 DEF DataAt, FinAt, MessageAt
<1>10. \A l \in base + 2 .. top : Has(L, n, l) <=> Has(M, n, l)
  <2> TAKE l \in base + 2 .. top
  <2>1. Has(M, n, l) => Has(L, n, l)
    BY <1>1, PartKept DEF Shifted
  <2>2. ASSUME Has(L, n, l) PROVE Has(M, n, l)
    <3>1. PICK i \in Mine(L, n) : MessageAt(L, n, i, l)
      BY <2>2 DEF Has
    <3>2. i # 1
      BY <1>6, <1>7, <3>1
    <3>3. PICK j \in Mine(M, n) : g[j] = i
      BY <1>1, <3>2 DEF Shifted
    <3> QED BY <1>9, <3>1, <3>3 DEF Has
  <2> QED BY <2>1, <2>2
<1>11. base + 1 + 1 = base + 2
  OBVIOUS
<1>12. ASSUME NEW i \in Mine(M, n), DataAt(M, n, i)
       PROVE  \/ M[i].flags = 1 /\ M[i].data = <<>>
              \/ M[i].flags = 0 /\ \E l \in base + 2 .. top : M[i].data = <<l>>
  <2>1. CASE L[g[i]].flags = 1 /\ L[g[i]].data = <<>>
    BY <1>8, <2>1
  <2>2. CASE L[g[i]].flags = 0 /\ \E l \in base + 1 .. top : L[g[i]].data = <<l>>
    <3>1. PICK l \in base + 1 .. top : L[g[i]].data = <<l>>
      BY <2>2
    <3>2. MessageAt(L, n, g[i], l)
      BY <1>8, <1>9, <1>12, <3>1 DEF MessageAt
    <3>3. k < l
      BY <1>5, <1>8, <3>2
    <3>4. l \in base + 2 .. top
      BY <1>7, <3>3
    <3> QED BY <1>8, <2>2, <3>1, <3>4
  <2> QED BY <1>8, <1>9, <1>12, <2>1, <2>2 DEF Good
<1>13. ASSUME NEW i \in Mine(M, n), NEW j \in Mine(M, n), NEW p \in Nat, NEW l \in Nat,
              MessageAt(M, n, i, p), MessageAt(M, n, j, l), i < j
       PROVE  p < l
  <2>1. g[i] < g[j]
    BY <1>1, <1>8, <1>13 DEF Shifted
  <2> QED BY <1>8, <1>9, <1>13, <2>1 DEF Good
<1>14. ASSUME NEW i \in Mine(M, n), NEW j \in Mine(M, n), FinAt(M, n, i), DataAt(M, n, j)
       PROVE  j <= i
  <2>1. g[j] <= g[i]
    BY <1>8, <1>9, <1>14 DEF Good
  <2> QED BY <1>1, <1>8, <2>1 DEF Shifted
<1>15. ASSUME NEW p \in base + 2 .. top, NEW l \in base + 2 .. top, Has(M, n, p), l < p
       PROVE  Has(M, n, l)
  BY <1>10, <1>15 DEF Good
<1>16. full => \A p \in base + 2 .. top : Has(M, n, p)
  BY <1>10 DEF Good
<1>17. ASSUME NEW i \in Mine(M, n), FinAt(M, n, i)
       PROVE  over /\ \A p \in base + 2 .. top : Has(M, n, p)
  <2>1. over /\ \A p \in base + 1 .. top : Has(L, n, p)
    BY <1>8, <1>9, <1>17 DEF Good
  <2> QED BY <1>10, <2>1
<1>18. Good(M, n, base + 1, top, full, over)
  BY <1>11, <1>12, <1>13, <1>14, <1>15, <1>16, <1>17 DEF Good
<1> QED
  BY <1>3, <1>7, <1>18

\* The FIN is taken: nothing is left.
LEMMA GoodEnd ==
  ASSUME NEW n, NEW L, DOMAIN L \subseteq Nat \ {0}, DataAt(L, n, 1), L[1].flags = 1,
         NEW base \in Nat, NEW top \in Nat, NEW full, NEW over, Good(L, n, base, top, full, over)
  PROVE  L[1].data = <<>> /\ top <= base /\ over
<1>1. 1 \in Mine(L, n) /\ \A i \in Mine(L, n) : i \in Nat \ {0}
  BY DEF DataAt, Mine
<1>2. FinAt(L, n, 1) /\ L[1].data = <<>>
  BY <1>1 DEF FinAt, Good
<1>3. over /\ \A k \in base + 1 .. top : Has(L, n, k)
  BY <1>1, <1>2 DEF Good
<1>4. \A k : ~ Has(L, n, k)
  <2> SUFFICES ASSUME NEW k, NEW i \in Mine(L, n), MessageAt(L, n, i, k) PROVE FALSE
    BY DEF Has
  <2>1. DataAt(L, n, i)
    BY DEF MessageAt
  <2>2. i <= 1
    BY <1>1, <1>2, <2>1 DEF Good
  <2>3. i = 1
    BY <1>1, <2>2
  <2>4. <<k>> # <<>>
    OBVIOUS
  <2>5. L[1].data = <<k>>
    BY <2>3 DEF MessageAt
  <2> QED BY <1>2, <2>4, <2>5
<1> QED
  BY <1>2, <1>3, <1>4

\* A transport that is closed takes with it the last frames.
LEMMA GoodPrefix ==
  ASSUME NEW n, NEW L, NEW M, DOMAIN L \subseteq Nat, NEW m \in Nat,
         DOMAIN M = {i \in DOMAIN L : i <= m}, \A i \in DOMAIN M : M[i] = L[i],
         NEW base \in Nat, NEW top \in Nat, NEW full, NEW over, Good(L, n, base, top, full, over)
  PROVE  Within(M, L, n, [i \in Mine(M, n) |-> i]) /\ Good(M, n, base, top, FALSE, over)
<1>1. \A i \in Mine(M, n) : i \in Mine(L, n) /\ M[i] = L[i] /\ i \in Nat /\ i <= m
  BY DEF Mine
<1>2. \A i \in Mine(L, n) : i <= m => i \in Mine(M, n)
  BY DEF Mine
<1>3. \A i \in Mine(M, n) : (DataAt(M, n, i) <=> DataAt(L, n, i))
                            /\ (FinAt(M, n, i) <=> FinAt(L, n, i))
                            /\ \A l : MessageAt(M, n, i, l) <=> MessageAt(L, n, i, l)
  BY <1>1 DEF DataAt, FinAt, MessageAt
<1>4. \A i \in Mine(L, n) : i \in Nat
  BY DEF Mine
<1>5. ASSUME NEW i \in Mine(M, n), NEW j \in Mine(L, n), NEW k \in Nat, NEW l \in Nat,
             MessageAt(L, n, i, k), MessageAt(L, n, j, l), l < k
      PROVE  j \in Mine(M, n)
  <2>1. ~ (i < j)
    BY <1>1, <1>5 DEF Good
  <2> QED BY <1>1, <1>2, <1>4, <2>1
<1>6. ASSUME NEW k \in base + 1 .. top, NEW l \in base + 1 .. top, Has(M, n, k), l < k
      PROVE  Has(M, n, l)
  <2>1. PICK i \in Mine(M, n) : MessageAt(L, n, i, k)
    BY <1>3, <1>6 DEF Has
  <2>2. Has(L, n, l)
    BY <1>1, <1>6, <2>1 DEF Good, Has
  <2>3. PICK j \in Mine(L, n) : MessageAt(L, n, j, l)
    BY <2>2 DEF Has
  <2>4. j \in Mine(M, n)
    BY <1>5, <1>6, <2>1, <2>3
  <2> QED BY <1>3, <2>3, <2>4 DEF Has
<1>7. ASSUME NEW i \in Mine(M, n), FinAt(M, n, i)
      PROVE  over /\ \A k \in base + 1 .. top : Has(M, n, k)
  <2>1. i \in Mine(L, n) /\ FinAt(L, n, i)
    BY <1>1, <1>3, <1>7
  <2>2. over /\ \A k \in base + 1 .. top : Has(L, n, k)
    BY <2>1 DEF Good
  <2>3. ASSUME NEW k \in base + 1 .. top PROVE Has(M, n, k)
    <3>1. PICK j \in Mine(L, n) : MessageAt(L, n, j, k)
      BY <2>2 DEF Has
    <3>2. DataAt(L, n, j)
      BY <3>1 DEF MessageAt
    <3>3. j <= i
      BY <2>1, <3>2 DEF Good
    <3>4. j \in Mine(M, n)
      BY <1>1, <1>2, <1>4, <3>3
    <3> QED BY <1>3, <3>1, <3>4 DEF Has
  <2> QED BY <2>2, <2>3
<1>8. ASSUME NEW i \in Mine(M, n), DataAt(M, n, i)
      PROVE  \/ M[i].flags = 1 /\ M[i].data = <<>>
             \/ M[i].flags = 0 /\ \E k \in base + 1 .. top : M[i].data = <<k>>
  BY <1>1, <1>3, <1>8 DEF Good
<1>9. ASSUME NEW i \in Mine(M, n), NEW j \in Mine(M, n), NEW k \in Nat, NEW l \in Nat,
             MessageAt(M, n, i, k), MessageAt(M, n, j, l), i < j
      PROVE  k < l
  BY <1>1, <1>3, <1>9 DEF Good
<1>10. ASSUME NEW i \in Mine(M, n), NEW j \in Mine(M, n), FinAt(M, n, i), DataAt(M, n, j)
       PROVE  j <= i
  BY <1>1, <1>3, <1>10 DEF Good
<1>11. Good(M, n, base, top, FALSE, over)
  BY <1>6, <1>7, <1>8, <1>9, <1>10 DEF Good
<1> QED
  BY <1>1, <1>11 DEF Within

\* One frame more.
Longer(M, L, x) ==
  \E m \in Nat :
    /\ DOMAIN L = 1 .. m /\ DOMAIN M = 1 .. m + 1
    /\ \A i \in 1 .. m : M[i] = L[i]
    /\ M[m + 1] = x

\* ... is the last, at p.
Behind(M, L, n, x, p) ==
  /\ \A i \in Mine(L, n) : i \in Mine(M, n) /\ i \in Nat /\ i < p /\ M[i] = L[i]
  /\ M[p] = x /\ (p \in Mine(M, n) <=> Of(x, n))
  /\ \A i \in Mine(M, n) : i \in Mine(L, n) \/ i = p

\* The frames of the stream when a line gets longer.
LEMMA LongerMine ==
  ASSUME NEW n, NEW L, NEW M, NEW x, Longer(M, L, x)
  PROVE  \E p \in Nat : Behind(M, L, n, x, p)
<1>1. PICK m \in Nat : /\ DOMAIN L = 1 .. m /\ DOMAIN M = 1 .. m + 1
                       /\ \A i \in 1 .. m : M[i] = L[i]
                       /\ M[m + 1] = x
  BY DEF Longer
<1>2. m + 1 \in Nat /\ m + 1 \in DOMAIN M
  BY <1>1
<1>3. \A i \in Mine(L, n) : i \in Mine(M, n) /\ i \in Nat /\ i < m + 1 /\ M[i] = L[i]
  BY <1>1 DEF Mine
<1>4. \A i \in Mine(M, n) : i \in Mine(L, n) \/ i = m + 1
  BY <1>1 DEF Mine
<1>5. m + 1 \in Mine(M, n) <=> Of(x, n)
  BY <1>1, <1>2 DEF Mine
<1> QED
  BY <1>1, <1>2, <1>3, <1>4, <1>5 DEF Behind

\* A frame of another stream, or a frame that is lost.
LEMMA LongerOther ==
  ASSUME NEW n, NEW L, NEW M, NEW x, Longer(M, L, x), ~ Of(x, n)
  PROVE  Same(M, L, n)
<1>1. PICK p \in Nat : Behind(M, L, n, x, p)
  BY LongerMine
<1>2. Mine(M, n) = Mine(L, n)
  BY <1>1 DEF Behind
<1> DEFINE g == [i \in Mine(M, n) |-> i]
<1>3. Within(M, L, n, g)
  BY <1>1, <1>2 DEF Within, Behind
<1> QED
  BY <1>2, <1>3 DEF Same

\* A line has the frames it has.
LEMMA SameSelf ==
  ASSUME NEW n, NEW L PROVE Same(L, L, n)
<1> DEFINE g == [i \in Mine(L, n) |-> i]
<1>1. Within(L, L, n, g)
  BY DEF Within
<1> QED
  BY <1>1 DEF Same

\* What is introduced when one frame more is on its way.
LEMMA LongerKinds ==
  ASSUME NEW n, NEW L, NEW M, NEW x, Longer(M, L, x), IntroFirst(L, n),
         x.type \in {"syn", "reply"} => Mine(L, n) = {}
  PROVE  /\ IntroFirst(M, n)
         /\ \A t : Carries(M, n, t) <=> Carries(L, n, t) \/ (Of(x, n) /\ x.type = t)
<1>1. PICK p \in Nat : Behind(M, L, n, x, p)
  BY LongerMine
<1>2. \A i \in Mine(M, n) : i \in Nat /\ i <= p
  BY <1>1 DEF Behind
<1>3. ASSUME NEW i \in Mine(M, n), NEW j \in Mine(M, n), IntroAt(M, n, i)
      PROVE  i <= j
  <2>1. CASE i = p
    BY <1>1, <1>2, <1>3, <2>1 DEF IntroAt, Behind
  <2>2. CASE i # p
    BY <1>1, <1>3, <2>2 DEF IntroAt, IntroFirst, Behind
  <2> QED BY <2>1, <2>2
<1> QED
  BY <1>1, <1>3 DEF IntroFirst, Carries, Behind

\* A frame that is not a message does not disturb them.
LEMMA GoodOther ==
  ASSUME NEW n, NEW L, NEW M, NEW x, Longer(M, L, x), x.type # "data",
         NEW base \in Nat, NEW top \in Nat, NEW full, NEW over, Good(L, n, base, top, full, over)
  PROVE  Good(M, n, base, top, full, over)
<1>1. PICK p \in Nat : Behind(M, L, n, x, p)
  BY LongerMine
<1>2. \A i \in Mine(M, n) : DataAt(M, n, i) => i \in Mine(L, n) /\ M[i] = L[i]
  BY <1>1 DEF DataAt, Behind
<1>3. \A i \in Mine(L, n) : (DataAt(M, n, i) <=> DataAt(L, n, i))
                            /\ (FinAt(M, n, i) <=> FinAt(L, n, i))
                            /\ \A l : MessageAt(M, n, i, l) <=> MessageAt(L, n, i, l)
  BY <1>1 DEF DataAt, FinAt, MessageAt, Behind
<1>4. \A i \in Mine(M, n) : (DataAt(M, n, i) => i \in Mine(L, n) /\ DataAt(L, n, i) /\ M[i] = L[i])
                            /\ (FinAt(M, n, i) => i \in Mine(L, n) /\ FinAt(L, n, i))
                            /\ \A l : MessageAt(M, n, i, l) => i \in Mine(L, n) /\ MessageAt(L, n, i, l)
  BY <1>2, <1>3 DEF FinAt, MessageAt
<1>5. \A k : Has(M, n, k) <=> Has(L, n, k)
  BY <1>1, <1>3, <1>4 DEF Has, Behind
<1>6. ASSUME NEW i \in Mine(M, n), DataAt(M, n, i)
      PROVE  \/ M[i].flags = 1 /\ M[i].data = <<>>
             \/ M[i].flags = 0 /\ \E k \in base + 1 .. top : M[i].data = <<k>>
  BY <1>4, <1>6 DEF Good
<1>7. ASSUME NEW i \in Mine(M, n), NEW j \in Mine(M, n), NEW k \in Nat, NEW l \in Nat,
             MessageAt(M, n, i, k), MessageAt(M, n, j, l), i < j
      PROVE  k < l
  BY <1>4, <1>7 DEF Good
<1>8. ASSUME NEW i \in Mine(M, n), NEW j \in Mine(M, n), FinAt(M, n, i), DataAt(M, n, j)
      PROVE  j <= i
  BY <1>4, <1>8 DEF Good
<1>9. ASSUME NEW i \in Mine(M, n), FinAt(M, n, i)
      PROVE  over /\ \A k \in base + 1 .. top : Has(M, n, k)
  BY <1>4, <1>5, <1>9 DEF Good
<1>10. /\ \A k, l \in base + 1 .. top : Has(M, n, k) /\ l < k => Has(M, n, l)
       /\ full => \A k \in base + 1 .. top : Has(M, n, k)
  BY <1>5 DEF Good
<1> QED
  BY <1>6, <1>7, <1>8, <1>9, <1>10 DEF Good

\* A message more is sent.
LEMMA GoodMore ==
  ASSUME NEW n, NEW L, NEW M, NEW x, Longer(M, L, x), Of(x, n), x.type = "data", x.flags = 0,
         NEW base \in Nat, NEW top \in Nat, x.data = <<top + 1>>, base <= top,
         Good(L, n, base, top, TRUE, FALSE)
  PROVE  Good(M, n, base, top + 1, TRUE, FALSE)
<1>1. PICK p \in Nat : Behind(M, L, n, x, p)
  BY LongerMine
<1>2. /\ \A i \in Mine(L, n) : i \in Mine(M, n) /\ i \in Nat /\ i < p /\ M[i] = L[i]
      /\ M[p] = x /\ p \in Mine(M, n) /\ p \in Nat
      /\ \A i \in Mine(M, n) : i \in Mine(L, n) \/ i = p
  BY <1>1 DEF Behind
<1>3. \A i \in Mine(L, n) : (DataAt(M, n, i) <=> DataAt(L, n, i))
                            /\ (FinAt(M, n, i) <=> FinAt(L, n, i))
                            /\ \A l : MessageAt(M, n, i, l) <=> MessageAt(L, n, i, l)
  BY <1>2 DEF DataAt, FinAt, MessageAt
<1>4. MessageAt(M, n, p, top + 1) /\ DataAt(M, n, p) /\ ~ FinAt(M, n, p)
      /\ \A k \in Nat : MessageAt(M, n, p, k) => k = top + 1
  BY <1>2 DEF DataAt, FinAt, MessageAt
<1>5. \A i \in Mine(L, n) : ~ FinAt(L, n, i)
  BY DEF Good
<1>6. \A i \in Mine(M, n) : ~ FinAt(M, n, i)
  BY <1>2, <1>3, <1>4, <1>5
<1>7. \A k \in base + 1 .. top : Has(M, n, k)
  <2> TAKE k \in base + 1 .. top
  <2>1. PICK i \in Mine(L, n) : MessageAt(L, n, i, k)
    BY DEF Good, Has
  <2> QED BY <1>2, <1>3, <2>1 DEF Has
<1>8. \A k \in base + 1 .. top + 1 : Has(M, n, k)
  <2> TAKE k \in base + 1 .. top + 1
  <2>1. CASE k \in base + 1 .. top
    BY <1>7, <2>1
  <2>2. CASE k = top + 1
    BY <1>2, <1>4, <2>2 DEF Has
  <2> QED BY <2>1, <2>2
<1>9. ASSUME NEW i \in Mine(M, n), DataAt(M, n, i)
      PROVE  \/ M[i].flags = 1 /\ M[i].data = <<>>
             \/ M[i].flags = 0 /\ \E k \in base + 1 .. top + 1 : M[i].data = <<k>>
  <2>1. CASE i = p
    <3>1. top + 1 \in base + 1 .. top + 1
      OBVIOUS
    <3> QED BY <1>2, <2>1, <3>1
  <2>2. CASE i # p
    <3>1. i \in Mine(L, n) /\ DataAt(L, n, i) /\ M[i] = L[i]
      BY <1>2, <1>3, <1>9, <2>2
    <3>2. base + 1 .. top \subseteq base + 1 .. top + 1
      OBVIOUS
    <3>3. \/ L[i].flags = 1 /\ L[i].data = <<>>
          \/ L[i].flags = 0 /\ \E k \in base + 1 .. top : L[i].data = <<k>>
      BY <3>1 DEF Good
    <3> QED BY <3>1, <3>2, <3>3
  <2> QED BY <2>1, <2>2
<1>10. ASSUME NEW i \in Mine(L, n), NEW k \in Nat, MessageAt(L, n, i, k)
       PROVE  k < top + 1
  <2>1. DataAt(L, n, i) /\ L[i].data = <<k>> /\ <<k>> # <<>>
    BY <1>10 DEF MessageAt
  <2>2. PICK l \in base + 1 .. top : L[i].data = <<l>>
    BY <2>1 DEF Good
  <2>3. k = l
    BY <2>1, <2>2
  <2> QED BY <2>3
<1>11. ASSUME NEW i \in Mine(M, n), NEW j \in Mine(M, n), NEW k \in Nat, NEW l \in Nat,
              MessageAt(M, n, i, k), MessageAt(M, n, j, l), i < j
       PROVE  k < l
  <2>0. i \in Mine(L, n)
    <3>1. \A h \in Mine(M, n) : h \in Nat /\ h <= p
      BY <1>2
    <3>2. i # p
      BY <1>11, <3>1
    <3> QED BY <1>2, <3>2
  <2>1. CASE j = p
    <3>1. l = top + 1
      BY <1>4, <1>11, <2>1
    <3>2. MessageAt(L, n, i, k)
      BY <1>3, <1>11, <2>0
    <3> QED BY <1>10, <2>0, <3>1, <3>2
  <2>2. CASE j # p
    <3>1. j \in Mine(L, n)
      BY <1>2, <2>2
    <3> QED BY <1>3, <1>11, <2>0, <3>1 DEF Good
  <2> QED BY <2>1, <2>2
<1> QED
  BY <1>6, <1>8, <1>9, <1>11 DEF Good

\* A message is sent that nobody will read.
LEMMA GoodMissed ==
  ASSUME NEW n, NEW L, NEW base \in Nat, NEW top \in Nat, Good(L, n, base, top, FALSE, FALSE)
  PROVE  Good(L, n, base, top + 1, FALSE, FALSE)
<1>1. \A i \in Mine(L, n) : ~ FinAt(L, n, i)
  BY DEF Good
<1>2. base + 1 .. top \subseteq base + 1 .. top + 1
  OBVIOUS
<1>3. ASSUME NEW i \in Mine(L, n), DataAt(L, n, i)
      PROVE  \/ L[i].flags = 1 /\ L[i].data = <<>>
             \/ L[i].flags = 0 /\ \E k \in base + 1 .. top + 1 : L[i].data = <<k>>
  <2>1. \/ L[i].flags = 1 /\ L[i].data = <<>>
        \/ L[i].flags = 0 /\ \E k \in base + 1 .. top : L[i].data = <<k>>
    BY <1>3 DEF Good
  <2> QED BY <1>2, <2>1
<1>4. ASSUME NEW k \in base + 1 .. top + 1, Has(L, n, k)
      PROVE  k \in base + 1 .. top
  <2>1. PICK i \in Mine(L, n) : DataAt(L, n, i) /\ L[i].data = <<k>>
    BY <1>4 DEF Has, MessageAt
  <2>2. <<k>> # <<>>
    OBVIOUS
  <2>3. PICK l \in base + 1 .. top : L[i].data = <<l>>
    BY <2>1, <2>2 DEF Good
  <2> QED BY <2>1, <2>3
<1>5. ASSUME NEW k \in base + 1 .. top + 1, NEW l \in base + 1 .. top + 1, Has(L, n, k), l < k
      PROVE  Has(L, n, l)
  <2>1. k \in base + 1 .. top
    BY <1>4, <1>5
  <2>2. l \in base + 1 .. top
    BY <1>5, <2>1
  <2> QED BY <1>5, <2>1, <2>2 DEF Good
<1>6. /\ \A i, j \in Mine(L, n), k, l \in Nat :
           MessageAt(L, n, i, k) /\ MessageAt(L, n, j, l) /\ i < j => k < l
  BY DEF Good
<1> QED
  BY <1>1, <1>3, <1>5, <1>6 DEF Good

\* The FIN is sent behind all messages.
LEMMA GoodFin ==
  ASSUME NEW n, NEW L, NEW M, NEW x, Longer(M, L, x), Of(x, n), x.type = "data", x.flags = 1,
         x.data = <<>>, NEW base \in Nat, NEW top \in Nat, Good(L, n, base, top, TRUE, FALSE)
  PROVE  Good(M, n, base, top, TRUE, TRUE)
<1>1. PICK p \in Nat : Behind(M, L, n, x, p)
  BY LongerMine
<1>2. /\ \A i \in Mine(L, n) : i \in Mine(M, n) /\ i \in Nat /\ i < p /\ M[i] = L[i]
      /\ M[p] = x /\ p \in Mine(M, n) /\ p \in Nat
      /\ \A i \in Mine(M, n) : i \in Mine(L, n) \/ i = p
  BY <1>1 DEF Behind
<1>3. \A i \in Mine(L, n) : (DataAt(M, n, i) <=> DataAt(L, n, i))
                            /\ (FinAt(M, n, i) <=> FinAt(L, n, i))
                            /\ \A l : MessageAt(M, n, i, l) <=> MessageAt(L, n, i, l)
  BY <1>2 DEF DataAt, FinAt, MessageAt
<1>4. \A k : ~ MessageAt(M, n, p, k)
  <2>1. \A k : <<k>> # <<>>
    OBVIOUS
  <2> QED BY <1>2, <2>1 DEF MessageAt
<1>5. \A i \in Mine(L, n) : ~ FinAt(L, n, i)
  BY DEF Good
<1>6. \A k \in base + 1 .. top : Has(M, n, k)
  <2> TAKE k \in base + 1 .. top
  <2>1. PICK i \in Mine(L, n) : MessageAt(L, n, i, k)
    BY DEF Good, Has
  <2> QED BY <1>2, <1>3, <2>1 DEF Has
<1>7. ASSUME NEW i \in Mine(M, n), DataAt(M, n, i)
      PROVE  \/ M[i].flags = 1 /\ M[i].data = <<>>
             \/ M[i].flags = 0 /\ \E k \in base + 1 .. top : M[i].data = <<k>>
  BY <1>2, <1>3, <1>7 DEF Good
<1>8. ASSUME NEW i \in Mine(M, n), NEW j \in Mine(M, n), NEW k \in Nat, NEW l \in Nat,
             MessageAt(M, n, i, k), MessageAt(M, n, j, l), i < j
      PROVE  k < l
  <2>1. i \in Mine(L, n) /\ j \in Mine(L, n)
    BY <1>2, <1>4, <1>8
  <2> QED BY <1>3, <1>8, <2>1 DEF Good
<1>9. ASSUME NEW i \in Mine(M, n), NEW j \in Mine(M, n), FinAt(M, n, i), DataAt(M, n, j)
      PROVE  j <= i
  <2>1. i = p
    BY <1>2, <1>3, <1>5, <1>9
  <2> QED BY <1>2, <2>1
<1> QED
  BY <1>6, <1>7, <1>8, <1>9 DEF Good

-----------------------------------------------------------------------------
(* The line of a stream. *)

\* Its frames.
LEMMA LineType ==
  ASSUME NEW q \in Seq(Queued), NEW w \in Seq(Written)
  PROVE  /\ Len(q) \in Nat /\ Len(w) \in Nat
         /\ DOMAIN LineOf(q, w) = 1 .. Len(q) + Len(w)
         /\ DOMAIN LineOf(q, w) \subseteq Nat \ {0} /\ DOMAIN LineOf(q, w) \subseteq Nat
         /\ \A i \in DOMAIN LineOf(q, w) : LineOf(q, w)[i] \in Frames
         /\ \A i \in 1 .. Len(q) : LineOf(q, w)[i] = q[i].frame
         /\ \A i \in Len(q) + 1 .. Len(q) + Len(w) : LineOf(q, w)[i] = Read(w[i - Len(q)])
<1>1. Len(q) \in Nat /\ Len(w) \in Nat
  BY LenProperties
<1>2. \A i \in 1 .. Len(q) : q[i] \in Queued
  BY ElementOfSeq
<1>3. \A i \in 1 .. Len(w) : w[i] \in Written
  BY ElementOfSeq
<1>4. \A i \in 1 .. Len(q) + Len(w) :
        LineOf(q, w)[i] = IF i <= Len(q) THEN q[i].frame ELSE Read(w[i - Len(q)])
  BY DEF LineOf
<1>5. DOMAIN LineOf(q, w) = 1 .. Len(q) + Len(w)
  BY DEF LineOf
<1>6. \A i \in 1 .. Len(q) : LineOf(q, w)[i] = q[i].frame
  BY <1>1, <1>4
<1>7. \A i \in Len(q) + 1 .. Len(q) + Len(w) :
        LineOf(q, w)[i] = Read(w[i - Len(q)]) /\ i - Len(q) \in 1 .. Len(w)
  BY <1>1, <1>4
<1>8. \A i \in 1 .. Len(q) : LineOf(q, w)[i] \in Frames
  BY <1>2, <1>6 DEF Queued
<1>9. \A i \in Len(q) + 1 .. Len(q) + Len(w) : LineOf(q, w)[i] \in Frames
  BY <1>3, <1>7, ReadFrame
<1>10. \A i \in 1 .. Len(q) + Len(w) : i \in 1 .. Len(q) \/ i \in Len(q) + 1 .. Len(q) + Len(w)
  BY <1>1
<1>11. \A i \in 1 .. Len(q) + Len(w) : LineOf(q, w)[i] \in Frames
  BY <1>8, <1>9, <1>10
<1>12. 1 .. Len(q) + Len(w) \subseteq Nat \ {0} /\ Nat \ {0} \subseteq Nat
  BY <1>1
<1> QED
  BY <1>1, <1>5, <1>6, <1>7, <1>11, <1>12

\* A frame is written.
LEMMA LineAppend ==
  ASSUME NEW q \in Seq(Queued), NEW w \in Seq(Written), NEW y \in Written
  PROVE  Longer(LineOf(q, Append(w, y)), LineOf(q, w), Read(y))
<1> DEFINE m == Len(q) + Len(w)
           v == Append(w, y)
<1>1. /\ Len(q) \in Nat /\ Len(w) \in Nat /\ v \in Seq(Written) /\ Len(v) = Len(w) + 1
      /\ \A i \in 1 .. Len(w) : v[i] = w[i]
      /\ v[Len(w) + 1] = y
  BY Appended, LenProperties
<1> HIDE DEF v
<1>2. /\ DOMAIN LineOf(q, w) = 1 .. m /\ DOMAIN LineOf(q, v) = 1 .. m + 1
  BY <1>1, LineType
<1>3. ASSUME NEW i \in 1 .. m PROVE LineOf(q, v)[i] = LineOf(q, w)[i]
  <2>1. CASE i \in 1 .. Len(q)
    BY <1>1, <2>1, LineType
  <2>2. CASE i \in Len(q) + 1 .. Len(q) + Len(w)
    <3>1. i - Len(q) \in 1 .. Len(w) /\ i \in Len(q) + 1 .. Len(q) + Len(v)
      BY <1>1, <2>2
    <3>2. LineOf(q, v)[i] = Read(v[i - Len(q)])
      BY <1>1, <3>1, LineType
    <3>3. LineOf(q, w)[i] = Read(w[i - Len(q)])
      BY <2>2, LineType
    <3> QED BY <1>1, <3>1, <3>2, <3>3
  <2> QED BY <1>1, <2>1, <2>2
<1>4. LineOf(q, v)[m + 1] = Read(y)
  <2>1. m + 1 \in Len(q) + 1 .. Len(q) + Len(v) /\ (m + 1) - Len(q) = Len(w) + 1
    BY <1>1
  <2>2. LineOf(q, v)[m + 1] = Read(v[(m + 1) - Len(q)])
    BY <1>1, <2>1, LineType
  <2> QED BY <1>1, <2>1, <2>2
<1>5. m \in Nat
  BY <1>1
<1> QED
  BY <1>2, <1>3, <1>4, <1>5 DEF Longer, v

\* A frame is handled.
LEMMA LinePop ==
  ASSUME NEW q \in Seq(Queued), NEW w \in Seq(Written), q # <<>>
  PROVE  Behead(LineOf(Tail(q), w), LineOf(q, w)) /\ LineOf(q, w)[1] = Head(q).frame
<1>1. /\ Tail(q) \in Seq(Queued) /\ Len(q) \in Nat \ {0} /\ Len(Tail(q)) = Len(q) - 1
      /\ Head(q) = q[1] /\ Len(w) \in Nat
      /\ \A i \in 1 .. Len(q) - 1 : Tail(q)[i] = q[i + 1]
  BY Taken, LenProperties
<1> DEFINE r == Tail(q)
<1> HIDE DEF r
<1>2. r \in Seq(Queued) /\ Len(r) = Len(q) - 1 /\ \A i \in 1 .. Len(q) - 1 : r[i] = q[i + 1]
  BY <1>1 DEF r
<1>3. /\ DOMAIN LineOf(q, w) = 1 .. Len(q) + Len(w)
      /\ DOMAIN LineOf(r, w) = 1 .. Len(q) - 1 + Len(w)
  BY <1>2, LineType
<1>4. ASSUME NEW i \in 1 .. Len(q) - 1 + Len(w) PROVE LineOf(r, w)[i] = LineOf(q, w)[i + 1]
  <2>1. CASE i \in 1 .. Len(q) - 1
    <3>1. i + 1 \in 1 .. Len(q) /\ i \in 1 .. Len(r)
      BY <1>1, <1>2, <2>1
    <3>2. LineOf(r, w)[i] = r[i].frame
      BY <1>2, <3>1, LineType
    <3>3. LineOf(q, w)[i + 1] = q[i + 1].frame
      BY <3>1, LineType
    <3> QED BY <1>2, <2>1, <3>2, <3>3
  <2>2. CASE i \in Len(q) .. Len(q) - 1 + Len(w)
    <3>1. /\ i + 1 \in Len(q) + 1 .. Len(q) + Len(w) /\ i \in Len(r) + 1 .. Len(r) + Len(w)
          /\ (i + 1) - Len(q) = i - Len(r)
      BY <1>1, <1>2, <2>2
    <3>2. LineOf(r, w)[i] = Read(w[i - Len(r)])
      BY <1>2, <3>1, LineType
    <3>3. LineOf(q, w)[i + 1] = Read(w[(i + 1) - Len(q)])
      BY <3>1, LineType
    <3> QED BY <3>1, <3>2, <3>3
  <2> QED BY <1>1, <2>1, <2>2
<1>5. /\ 1 .. Len(q) + Len(w) \subseteq Nat \ {0} /\ 1 .. Len(q) - 1 + Len(w) \subseteq Nat \ {0}
      /\ 1 \in 1 .. Len(q) + Len(w)
      /\ \A i \in 1 .. Len(q) - 1 + Len(w) : i + 1 \in 1 .. Len(q) + Len(w)
      /\ \A i \in 1 .. Len(q) + Len(w) : i # 1 => i - 1 \in 1 .. Len(q) - 1 + Len(w)
  BY <1>1
<1>6. Behead(LineOf(r, w), LineOf(q, w))
  BY <1>3, <1>4, <1>5 DEF Behead
<1>7. LineOf(q, w)[1] = q[1].frame
  BY <1>1, LineType
<1> QED
  BY <1>1, <1>6, <1>7 DEF r

\* The transport is closed.
LEMMA LineCut ==
  ASSUME NEW q \in Seq(Queued), NEW w \in Seq(Written)
  PROVE  /\ DOMAIN LineOf(q, <<>>) = {i \in DOMAIN LineOf(q, w) : i <= Len(q)}
         /\ \A i \in DOMAIN LineOf(q, <<>>) : LineOf(q, <<>>)[i] = LineOf(q, w)[i]
<1>1. <<>> \in Seq(Written) /\ Len(<<>>) = 0 /\ Len(q) \in Nat /\ Len(w) \in Nat
  BY LenProperties
<1> DEFINE z == <<>>
<1>2. z \in Seq(Written) /\ Len(z) = 0
  BY <1>1
<1> HIDE DEF z
<1>3. DOMAIN LineOf(q, z) = 1 .. Len(q) + Len(z) /\ \A i \in 1 .. Len(q) : LineOf(q, z)[i] = q[i].frame
  BY <1>2, LineType
<1>4. DOMAIN LineOf(q, z) = 1 .. Len(q)
  BY <1>1, <1>2, <1>3
<1>5. DOMAIN LineOf(q, w) = 1 .. Len(q) + Len(w) /\ \A i \in 1 .. Len(q) : LineOf(q, w)[i] = q[i].frame
  BY LineType
<1>6. 1 .. Len(q) = {i \in 1 .. Len(q) + Len(w) : i <= Len(q)}
  BY <1>1
<1> QED
  BY <1>3, <1>4, <1>5, <1>6 DEF z

\* A frame is read from the transport and is not put into this queue.
LEMMA LineSkip ==
  ASSUME NEW n, NEW q \in Seq(Queued), NEW w \in Seq(Written), w # <<>>
  PROVE  /\ \E g : /\ Within(LineOf(q, Tail(w)), LineOf(q, w), n, g)
                   /\ \A i \in Mine(LineOf(q, w), n) :
                        i # Len(q) + 1 => \E j \in Mine(LineOf(q, Tail(w)), n) : g[j] = i
                   /\ \A j \in Mine(LineOf(q, Tail(w)), n) : g[j] # Len(q) + 1
         /\ Len(q) + 1 \in DOMAIN LineOf(q, w)
         /\ LineOf(q, w)[Len(q) + 1] = Read(Head(w))
<1>1. /\ Tail(w) \in Seq(Written) /\ Len(w) \in Nat \ {0} /\ Len(Tail(w)) = Len(w) - 1
      /\ Head(w) = w[1] /\ Len(q) \in Nat
      /\ \A i \in 1 .. Len(w) - 1 : Tail(w)[i] = w[i + 1]
  BY Taken, LenProperties
<1> DEFINE v == Tail(w)
           L == LineOf(q, w)
           M == LineOf(q, v)
           g == [i \in Mine(M, n) |-> IF i <= Len(q) THEN i ELSE i + 1]
<1> HIDE DEF v
<1>2. v \in Seq(Written) /\ Len(v) = Len(w) - 1 /\ \A i \in 1 .. Len(w) - 1 : v[i] = w[i + 1]
  BY <1>1 DEF v
<1>3. DOMAIN L = 1 .. Len(q) + Len(w) /\ DOMAIN M = 1 .. Len(q) + Len(w) - 1
  BY <1>1, <1>2, LineType
<1>4. \A i \in 1 .. Len(q) : L[i] = q[i].frame /\ M[i] = q[i].frame
  BY <1>2, LineType
<1>5. \A i \in Len(q) + 1 .. Len(q) + Len(w) - 1 : M[i] = L[i + 1]
  <2> TAKE i \in Len(q) + 1 .. Len(q) + Len(w) - 1
  <2>1. /\ i \in Len(q) + 1 .. Len(q) + Len(v) /\ i + 1 \in Len(q) + 1 .. Len(q) + Len(w)
        /\ i - Len(q) \in 1 .. Len(w) - 1 /\ (i + 1) - Len(q) = (i - Len(q)) + 1
    BY <1>1, <1>2
  <2>2. M[i] = Read(v[i - Len(q)])
    BY <1>2, <2>1, LineType
  <2>3. L[i + 1] = Read(w[(i + 1) - Len(q)])
    BY <2>1, LineType
  <2> QED BY <1>2, <2>1, <2>2, <2>3
<1>6. Len(q) + 1 \in DOMAIN L /\ L[Len(q) + 1] = Read(Head(w))
  <2>1. Len(q) + 1 \in Len(q) + 1 .. Len(q) + Len(w) /\ (Len(q) + 1) - Len(q) = 1
    BY <1>1
  <2>2. L[Len(q) + 1] = Read(w[(Len(q) + 1) - Len(q)])
    BY <2>1, LineType
  <2> QED BY <1>1, <1>3, <2>1, <2>2
<1> HIDE DEF L, M
<1>7. \A i \in Mine(M, n) : i \in 1 .. Len(q) + Len(w) - 1 /\ Of(M[i], n)
  BY <1>3 DEF Mine
<1>8. ASSUME NEW i \in Mine(M, n)
      PROVE  i \in Nat /\ g[i] \in Nat /\ g[i] \in Mine(L, n) /\ M[i] = L[g[i]] /\ g[i] # Len(q) + 1
             /\ g[i] = IF i <= Len(q) THEN i ELSE i + 1
  <2>1. i \in 1 .. Len(q) + Len(w) - 1 /\ Of(M[i], n)
    BY <1>7
  <2>2. CASE i <= Len(q)
    <3>1. i \in 1 .. Len(q) /\ i \in DOMAIN L /\ g[i] = i
      BY <1>1, <1>3, <2>1, <2>2
    <3>2. M[i] = L[i] /\ i # Len(q) + 1
      BY <1>1, <1>4, <2>2, <3>1
    <3> QED BY <2>1, <2>2, <3>1, <3>2 DEF Mine
  <2>3. CASE ~ (i <= Len(q))
    <3>1. i \in Len(q) + 1 .. Len(q) + Len(w) - 1 /\ i + 1 \in DOMAIN L /\ g[i] = i + 1
      BY <1>1, <1>3, <2>1, <2>3
    <3>2. M[i] = L[i + 1] /\ i + 1 # Len(q) + 1
      BY <1>1, <1>5, <2>1, <2>3, <3>1
    <3> QED BY <2>1, <2>3, <3>1, <3>2 DEF Mine
  <2> QED BY <2>2, <2>3
<1>9. \A i, j \in Mine(M, n) : i <= j <=> g[i] <= g[j]
  <2> TAKE i, j \in Mine(M, n)
  <2>1. /\ i \in Nat /\ j \in Nat /\ g[i] = (IF i <= Len(q) THEN i ELSE i + 1)
        /\ g[j] = (IF j <= Len(q) THEN j ELSE j + 1)
    BY <1>8
  <2> HIDE DEF g
  <2> QED BY <1>1, <2>1
<1>10. Within(M, L, n, g)
  <2>1. g \in [Mine(M, n) -> Mine(L, n)]
    BY <1>8
  <2> HIDE DEF g
  <2> QED BY <1>8, <1>9, <2>1 DEF Within
<1>11. ASSUME NEW i \in Mine(L, n), i # Len(q) + 1
       PROVE  \E j \in Mine(M, n) : g[j] = i
  <2>1. i \in 1 .. Len(q) + Len(w) /\ Of(L[i], n)
    BY <1>3 DEF Mine
  <2>2. CASE i <= Len(q)
    <3>1. i \in 1 .. Len(q) /\ i \in DOMAIN M
      BY <1>1, <1>3, <2>1, <2>2
    <3>2. i \in Mine(M, n)
      BY <1>4, <2>1, <3>1 DEF Mine
    <3> QED BY <2>2, <3>2
  <2>3. CASE ~ (i <= Len(q))
    <3>1. /\ i - 1 \in Len(q) + 1 .. Len(q) + Len(w) - 1 /\ i - 1 \in DOMAIN M /\ (i - 1) + 1 = i
          /\ ~ (i - 1 <= Len(q))
      BY <1>1, <1>3, <1>11, <2>1, <2>3
    <3>2. M[i - 1] = L[i]
      BY <1>5, <3>1
    <3>3. i - 1 \in Mine(M, n)
      BY <2>1, <3>1, <3>2 DEF Mine
    <3>4. g[i - 1] = i
      BY <3>1, <3>3
    <3> QED BY <3>3, <3>4
  <2> QED BY <2>2, <2>3
<1> QED
  <2> HIDE DEF g
  <2>1. \A j \in Mine(M, n) : g[j] # Len(q) + 1
    BY <1>8
  <2> QED BY <1>6, <1>10, <1>11, <2>1 DEF L, M, v

\* A frame of another stream is read, and not put into this queue.
LEMMA LineSkipOther ==
  ASSUME NEW n, NEW q \in Seq(Queued), NEW w \in Seq(Written), w # <<>>, ~ Of(Read(Head(w)), n)
  PROVE  Same(LineOf(q, Tail(w)), LineOf(q, w), n)
<1>1. PICK g : /\ Within(LineOf(q, Tail(w)), LineOf(q, w), n, g)
               /\ \A i \in Mine(LineOf(q, w), n) :
                    i # Len(q) + 1 => \E j \in Mine(LineOf(q, Tail(w)), n) : g[j] = i
  BY LineSkip
<1>2. \A i \in Mine(LineOf(q, w), n) : i # Len(q) + 1
  BY LineSkip DEF Mine
<1> QED
  BY <1>1, <1>2 DEF Same

\* A frame is read from the transport and put into this queue, before k frames or more
\* that are not of its stream.
LEMMA LineMove ==
  ASSUME NEW n, NEW q \in Seq(Queued), NEW w \in Seq(Written), w # <<>>, NEW r \in Seq(Queued),
         NEW k \in 0 .. Len(q), Len(r) = Len(q) + 1, NEW p,
         \A i \in 1 .. Len(q) + 1 : r[i] =
           IF i <= k THEN q[i]
           ELSE IF i = k + 1 THEN [frame |-> Read(Head(w)), priority |-> p] ELSE q[i - 1],
         Of(Read(Head(w)), n) => \A i \in k + 1 .. Len(q) : ~ Of(q[i].frame, n)
  PROVE  Same(LineOf(r, Tail(w)), LineOf(q, w), n)
<1> DEFINE v == Tail(w)
           x == Read(Head(w))
           c == Len(q) + 1
           L == LineOf(q, w)
           M == LineOf(r, v)
           at(i) == IF i <= k THEN i ELSE IF i = k + 1 THEN c ELSE IF i <= c THEN i - 1 ELSE i
           g == [i \in Mine(M, n) |-> at(i)]
<1>1. /\ Tail(w) \in Seq(Written) /\ Len(w) \in Nat \ {0} /\ Len(Tail(w)) = Len(w) - 1
      /\ Head(w) = w[1] /\ Len(q) \in Nat /\ k \in Nat /\ k <= Len(q)
      /\ \A i \in 1 .. Len(w) - 1 : Tail(w)[i] = w[i + 1]
  BY Taken, LenProperties
<1>2. v \in Seq(Written) /\ Len(v) = Len(w) - 1 /\ \A i \in 1 .. Len(w) - 1 : v[i] = w[i + 1]
  BY <1>1
<1> HIDE DEF v
<1>3. DOMAIN L = 1 .. Len(q) + Len(w)
  BY LineType
<1>4. DOMAIN M = 1 .. Len(q) + Len(w)
  <2>1. DOMAIN M = 1 .. Len(r) + Len(v)
    BY <1>2, LineType
  <2>2. Len(r) + Len(v) = Len(q) + Len(w)
    BY <1>1, <1>2
  <2> QED BY <2>1, <2>2
<1>5. \A i \in 1 .. Len(q) : L[i] = q[i].frame
  BY LineType
<1>6. \A i \in 1 .. c : M[i] = r[i].frame
  BY <1>2, LineType
<1>7. \A i \in c + 1 .. Len(q) + Len(w) : M[i] = L[i]
  <2> TAKE i \in c + 1 .. Len(q) + Len(w)
  <2>1. /\ i \in Len(r) + 1 .. Len(r) + Len(v) /\ i \in Len(q) + 1 .. Len(q) + Len(w)
        /\ i - Len(r) \in 1 .. Len(w) - 1 /\ (i - Len(r)) + 1 = i - Len(q)
    BY <1>1, <1>2
  <2>2. M[i] = Read(v[i - Len(r)])
    BY <1>2, <2>1, LineType
  <2>3. L[i] = Read(w[i - Len(q)])
    BY <2>1, LineType
  <2>4. v[i - Len(r)] = w[(i - Len(r)) + 1]
    BY <1>2, <2>1
  <2> QED BY <2>1, <2>2, <2>3, <2>4
<1>8. c \in DOMAIN L /\ L[c] = x
  BY LineSkip
<1>9. c \in Nat /\ c > k /\ k + 1 <= c /\ c <= Len(q) + Len(w)
  BY <1>1
<1> HIDE DEF L, M, x
<1>10. ASSUME NEW i \in 1 .. Len(q) + Len(w)
       PROVE  at(i) \in 1 .. Len(q) + Len(w) /\ M[i] = L[at(i)]
  <2>1. CASE i <= k
    <3>1. at(i) = i /\ i \in 1 .. Len(q) /\ i \in 1 .. c
      BY <1>1, <1>9, <2>1
    <3>2. r[i] = q[i]
      BY <2>1, <3>1
    <3> HIDE DEF at
    <3> QED BY <1>5, <1>6, <3>1, <3>2
  <2>2. CASE i = k + 1
    <3>1. at(i) = c /\ i \in 1 .. c /\ ~ (i <= k)
      BY <1>1, <1>9, <2>2
    <3>2. r[i].frame = x
      BY <2>2, <3>1 DEF x
    <3> QED BY <1>3, <1>6, <1>8, <3>1, <3>2
  <2>3. CASE i > k + 1 /\ i <= c
    <3>1. at(i) = i - 1 /\ i - 1 \in 1 .. Len(q) /\ i \in 1 .. c /\ ~ (i <= k) /\ i # k + 1
          /\ i - 1 \in 1 .. Len(q) + Len(w)
      BY <1>1, <1>9, <2>3
    <3>2. r[i] = q[i - 1]
      BY <3>1
    <3> HIDE DEF at
    <3>3. M[i] = r[i].frame
      BY <1>6, <3>1
    <3>4. L[i - 1] = q[i - 1].frame
      BY <1>5, <3>1
    <3> QED BY <3>1, <3>2, <3>3, <3>4
  <2>4. CASE i > c
    <3>1. at(i) = i /\ i \in c + 1 .. Len(q) + Len(w)
      BY <1>1, <1>9, <2>4
    <3> QED BY <1>7, <3>1
  <2> QED BY <1>1, <1>9, <2>1, <2>2, <2>3, <2>4
<1>11. ASSUME NEW i \in Mine(M, n)
       PROVE  i \in 1 .. Len(q) + Len(w) /\ Of(M[i], n) /\ at(i) \in Mine(L, n) /\ M[i] = L[at(i)]
  <2>1. i \in 1 .. Len(q) + Len(w) /\ Of(M[i], n)
    BY <1>4 DEF Mine
  <2>2. at(i) \in 1 .. Len(q) + Len(w) /\ M[i] = L[at(i)]
    BY <1>10, <2>1
  <2> HIDE DEF at
  <2> QED BY <1>3, <2>1, <2>2 DEF Mine
<1>12. ASSUME k + 1 \in Mine(M, n), NEW i \in k + 2 .. c
       PROVE  i \notin Mine(M, n)
  <2>1. M[k + 1] = x
    <3>1. k + 1 \in 1 .. Len(q) + Len(w) /\ at(k + 1) = c
      BY <1>1, <1>9
    <3>2. M[k + 1] = L[at(k + 1)]
      BY <1>10, <3>1
    <3> QED BY <1>8, <3>1, <3>2
  <2>2. Of(x, n)
    BY <1>12, <2>1 DEF Mine
  <2>3. /\ i \in 1 .. c /\ i - 1 \in k + 1 .. Len(q) /\ ~ (i <= k) /\ i # k + 1
    BY <1>1, <1>9, <1>12
  <2>4. M[i] = q[i - 1].frame
    BY <1>6, <2>3
  <2>5. ~ Of(q[i - 1].frame, n)
    BY <2>2, <2>3 DEF x
  <2> QED BY <2>4, <2>5 DEF Mine
<1>13. \A i, j \in Mine(M, n) : i <= j <=> at(i) <= at(j)
  <2> TAKE i, j \in Mine(M, n)
  <2>1. i \in 1 .. Len(q) + Len(w) /\ j \in 1 .. Len(q) + Len(w)
    BY <1>11
  <2>2. i = k + 1 => j \notin k + 2 .. c
    BY <1>12
  <2>3. j = k + 1 => i \notin k + 2 .. c
    BY <1>12
  <2>4. CASE i = k + 1
    BY <1>1, <1>9, <2>1, <2>2, <2>4
  <2>5. CASE j = k + 1
    BY <1>1, <1>9, <2>1, <2>3, <2>5
  <2>6. CASE i # k + 1 /\ j # k + 1
    BY <1>1, <1>9, <2>1, <2>6
  <2> QED BY <2>4, <2>5, <2>6
<1>14. Within(M, L, n, g)
  <2>1. \A i \in Mine(M, n) : g[i] = at(i)
    OBVIOUS
  <2>2. g \in [Mine(M, n) -> Mine(L, n)]
    <3> HIDE DEF at
    <3> QED BY <1>11
  <2> HIDE DEF g, at
  <2> QED BY <1>11, <1>13, <2>1, <2>2 DEF Within
<1>15. ASSUME NEW i \in Mine(L, n)
       PROVE  \E j \in Mine(M, n) : at(j) = i
  <2>1. i \in 1 .. Len(q) + Len(w) /\ Of(L[i], n)
    BY <1>3 DEF Mine
  <2>2. \A j \in 1 .. Len(q) + Len(w) : at(j) = i => j \in Mine(M, n)
    <3> HIDE DEF at
    <3> QED BY <1>4, <1>10, <2>1 DEF Mine
  <2>3. CASE i <= k
    <3>1. at(i) = i
      BY <2>3
    <3> QED BY <2>1, <2>2, <3>1
  <2>4. CASE i > k /\ i < c
    <3>1. i + 1 \in 1 .. Len(q) + Len(w) /\ at(i + 1) = i
      BY <1>1, <1>9, <2>1, <2>4
    <3> QED BY <2>2, <3>1
  <2>5. CASE i = c
    <3>1. k + 1 \in 1 .. Len(q) + Len(w) /\ at(k + 1) = i
      BY <1>1, <1>9, <2>5
    <3> QED BY <2>2, <3>1
  <2>6. CASE i > c
    <3>1. at(i) = i
      BY <1>1, <1>9, <2>1, <2>6
    <3> QED BY <2>1, <2>2, <3>1
  <2> QED BY <1>1, <1>9, <2>1, <2>3, <2>4, <2>5, <2>6
<1>16. \A i \in Mine(L, n) : \E j \in Mine(M, n) : g[j] = i
  <2> HIDE DEF at
  <2> QED BY <1>15
<1>17. Same(M, L, n)
  BY <1>14, <1>16 DEF Same
<1> QED
  BY <1>17 DEF L, M, v

\* Push keeps the order of the priorities.
LEMMA PushedSorted ==
  ASSUME NEW q \in Seq(Queued), NEW f \in Frames, NEW p \in Nat, Sorted(q)
  PROVE  \E k \in 0 .. Len(q) :
           /\ Pushed(q, f, p) \in Seq(Queued) /\ Len(Pushed(q, f, p)) = Len(q) + 1
           /\ \A i \in 1 .. Len(q) + 1 : Pushed(q, f, p)[i] =
                IF i <= k THEN q[i]
                ELSE IF i = k + 1 THEN [frame |-> f, priority |-> p] ELSE q[i - 1]
           /\ \A i \in 1 .. k : q[i].priority <= p
           /\ \A i \in k + 1 .. Len(q) : q[i].priority > p
           /\ Sorted(Pushed(q, f, p))
<1> DEFINE before == {i \in DOMAIN q : q[i].priority <= p}
           k == Cardinality(before)
           x == [frame |-> f, priority |-> p]
<1>1. Len(q) \in Nat /\ DOMAIN q = 1 .. Len(q) /\ \A i \in 1 .. Len(q) : q[i].priority \in Nat
  <2>1. \A i \in 1 .. Len(q) : q[i] \in Queued
    BY ElementOfSeq
  <2> QED BY <2>1, LenProperties DEF Queued
<1>2. IsFiniteSet(1 .. Len(q)) /\ Cardinality(1 .. Len(q)) = Len(q)
  BY <1>1, FS_Interval
<1>3. before \subseteq 1 .. Len(q) /\ \A i \in 1 .. Len(q) : i \in before <=> q[i].priority <= p
  BY <1>1
<1>4. \A i, j \in 1 .. Len(q) : i <= j /\ j \in before => i \in before
  <2> TAKE i, j \in 1 .. Len(q)
  <2>1. i <= j => q[i].priority <= q[j].priority
    BY <1>1 DEF Sorted
  <2> HIDE DEF before
  <2> QED BY <1>1, <1>3, <2>1
<1> HIDE DEF before
<1>5. IsFiniteSet(before) /\ k \in Nat /\ k <= Len(q)
  BY <1>2, <1>3, FS_Subset, FS_CardinalityType
<1>6. ASSUME NEW i \in 1 .. k PROVE i \in before
  <2> SUFFICES ASSUME i \notin before PROVE FALSE
    OBVIOUS
  <2>1. before \subseteq 1 .. (i - 1)
    BY <1>1, <1>3, <1>4, <1>5
  <2>2. IsFiniteSet(1 .. (i - 1)) /\ Cardinality(1 .. (i - 1)) = i - 1
    <3>1. i - 1 \in Nat
      BY <1>5
    <3>2. Cardinality(1 .. (i - 1)) = IF 1 > i - 1 THEN 0 ELSE (i - 1) - 1 + 1
      BY <3>1, FS_Interval
    <3> QED BY <3>1, <3>2, FS_Interval
  <2>3. k <= i - 1
    <3>1. Cardinality(before) <= Cardinality(1 .. (i - 1))
      BY <2>1, <2>2, FS_Subset
    <3> QED BY <2>2, <3>1
  <2> QED BY <1>5, <2>3
<1>7. ASSUME NEW i \in k + 1 .. Len(q) PROVE i \notin before
  <2> SUFFICES ASSUME i \in before PROVE FALSE
    OBVIOUS
  <2>1. 1 .. i \subseteq before
    BY <1>1, <1>3, <1>4, <1>5
  <2>2. i \in Nat /\ IsFiniteSet(1 .. i) /\ Cardinality(1 .. i) = i
    <3>1. i \in Nat
      BY <1>1, <1>5
    <3>2. Cardinality(1 .. i) = IF 1 > i THEN 0 ELSE i - 1 + 1
      BY <3>1, FS_Interval
    <3> QED BY <3>1, <3>2, FS_Interval
  <2>3. i <= k
    BY <1>5, <2>1, <2>2, FS_Subset
  <2> QED BY <1>1, <1>5, <2>3
<1>8. x \in Queued /\ k \in 0 .. Len(q)
  BY <1>1, <1>5 DEF Queued
<1> HIDE DEF k, x
<1>9. Pushed(q, f, p) = InsertAt(q, k + 1, x)
  BY DEF Pushed, k, x, before
<1> DEFINE r == Pushed(q, f, p)
<1>10. /\ r \in Seq(Queued) /\ Len(r) = Len(q) + 1
       /\ \A i \in 1 .. Len(q) + 1 : r[i] = IF i <= k THEN q[i] ELSE IF i = k + 1 THEN x ELSE q[i - 1]
  <2>1. /\ InsertAt(q, k + 1, x) \in Seq(Queued) /\ Len(InsertAt(q, k + 1, x)) = Len(q) + 1
        /\ \A i \in 1 .. Len(q) + 1 : InsertAt(q, k + 1, x)[i] =
             IF i <= k THEN q[i] ELSE IF i = k + 1 THEN x ELSE q[i - 1]
    <3>1. x \in Queued /\ k \in 0 .. Len(q) /\ q \in Seq(Queued)
      BY <1>8
    <3>2. InsertAt(q, k + 1, x) \in Seq(Queued) /\ Len(InsertAt(q, k + 1, x)) = Len(q) + 1
      BY ONLY <3>1, Inserted
    <3>3. \A i \in 1 .. Len(q) + 1 : InsertAt(q, k + 1, x)[i] =
            IF i <= k THEN q[i] ELSE IF i = k + 1 THEN x ELSE q[i - 1]
      BY ONLY <3>1, Inserted
    <3> QED BY <3>2, <3>3
  <2> QED BY <1>9, <2>1
<1> HIDE DEF r
<1>11. /\ \A i \in 1 .. k : i \in 1 .. Len(q) /\ q[i].priority <= p
       /\ \A i \in k + 1 .. Len(q) : i \in 1 .. Len(q) /\ q[i].priority > p
  <2>1. \A i \in 1 .. k : i \in 1 .. Len(q)
    BY <1>1, <1>5
  <2>2. \A i \in k + 1 .. Len(q) : i \in 1 .. Len(q)
    BY <1>1, <1>5
  <2> QED BY <1>1, <1>3, <1>6, <1>7, <2>1, <2>2
<1>12. x.priority = p /\ x.frame = f
  BY DEF x
<1>13. ASSUME NEW i \in 1 .. Len(q) + 1
       PROVE  /\ i <= k => i \in 1 .. k /\ r[i] = q[i]
              /\ i = k + 1 => r[i] = x
              /\ i > k + 1 => i - 1 \in k + 1 .. Len(q) /\ r[i] = q[i - 1]
  BY <1>1, <1>5, <1>10
<1>14. \A i, j \in 1 .. Len(q) : i <= j => q[i].priority <= q[j].priority
  BY <1>1 DEF Sorted
<1>15. ASSUME NEW i \in 1 .. Len(q) + 1, NEW j \in 1 .. Len(q) + 1, i <= j
       PROVE  r[i].priority <= r[j].priority
  <2>1. CASE j <= k
    <3>1. i <= k
      BY <1>5, <1>15, <2>1
    <3> QED BY <1>11, <1>13, <1>14, <1>15, <2>1, <3>1
  <2>2. CASE j = k + 1
    <3>1. i <= k \/ i = k + 1
      BY <1>5, <1>15, <2>2
    <3> QED BY <1>11, <1>12, <1>13, <2>2, <3>1
  <2>3. CASE j > k + 1
    <3>1. CASE i <= k
      <4>1. i <= j - 1
        BY <1>1, <1>5, <2>3, <3>1
      <4> QED BY <1>11, <1>13, <1>14, <2>3, <3>1, <4>1
    <3>2. CASE i = k + 1
      BY <1>1, <1>11, <1>12, <1>13, <2>3, <3>2
    <3>3. CASE i > k + 1
      <4>1. i - 1 <= j - 1
        BY <1>15
      <4> QED BY <1>11, <1>13, <1>14, <2>3, <3>3, <4>1
    <3> QED BY <1>5, <3>1, <3>2, <3>3
  <2> QED BY <1>5, <2>1, <2>2, <2>3
<1>16. DOMAIN r = 1 .. Len(q) + 1
  BY <1>10, LenProperties
<1>17. Sorted(r)
  BY <1>15, <1>16 DEF Sorted
<1> QED
  BY <1>8, <1>10, <1>11, <1>17 DEF r, x

-----------------------------------------------------------------------------
(* Steps that leave a stream alone. *)

\* The step moves no message of stream n, and does not go on with its handler, its reader
\* or the end of its life.
Calm(n) ==
  /\ \A e \in End :
       /\ Same(Line(e, n)', Line(e, n), n)
       /\ stream'[e][n].known => stream[e][n].known \/ Introduced(Line(e, n), n)
       /\ stream'[e][n].closed = stream[e][n].closed
       /\ stream'[e][n].replied = stream[e][n].replied
       /\ copier'[e][n].in = copier[e][n].in /\ copier'[e][n].held = copier[e][n].held
       /\ \/ copier'[e][n].out = copier[e][n].out
          \/ copier[e][n].out = "copy" /\ copier'[e][n].out = "close"
       /\ said'[e][n] = said[e][n] /\ heard'[e][n] = heard[e][n]
       /\ Offering(e, n)' = Offering(e, n)
       /\ \A w \in Offering(e, n) : worker'[e][w].data = worker[e][w].data
       /\ conn'[e].open => conn[e].open
  /\ \A w \in Worker : Handling(w, n)' <=> Handling(w, n)
  /\ Id(n) \in conn'["agent"].resets => Id(n) \in conn["agent"].resets

\* The line of a stream before and after a step.
LEMMA LineOfStream ==
  ASSUME LibTyped, LibTyped', NEW e \in End, NEW n \in Index
  PROVE  /\ Home(n) \in Worker
         /\ queue[e][Home(n)] \in Seq(Queued) /\ wire[e] \in Seq(Written)
         /\ queue'[e][Home(n)] \in Seq(Queued) /\ wire'[e] \in Seq(Written)
         /\ Line(e, n) = LineOf(queue[e][Home(n)], wire[e])
         /\ Line(e, n)' = LineOf(queue'[e][Home(n)], wire'[e])
         /\ DOMAIN Line(e, n) \subseteq Nat \ {0} /\ DOMAIN Line(e, n) \subseteq Nat
         /\ DOMAIN Line(e, n)' \subseteq Nat
         /\ \A i \in DOMAIN Line(e, n) : Line(e, n)[i] \in Frames
<1>1. Home(n) \in Worker
  BY Naming, Numbered DEF Home
<1>2. /\ queue[e][Home(n)] \in Seq(Queued) /\ wire[e] \in Seq(Written)
      /\ queue'[e][Home(n)] \in Seq(Queued) /\ wire'[e] \in Seq(Written)
  BY <1>1 DEF LibTyped
<1>3. Line(e, n) = LineOf(queue[e][Home(n)], wire[e])
      /\ Line(e, n)' = LineOf(queue'[e][Home(n)], wire'[e])
  BY DEF Line
<1>4. /\ DOMAIN LineOf(queue[e][Home(n)], wire[e]) \subseteq Nat \ {0}
      /\ DOMAIN LineOf(queue[e][Home(n)], wire[e]) \subseteq Nat
      /\ \A i \in DOMAIN LineOf(queue[e][Home(n)], wire[e]) :
           LineOf(queue[e][Home(n)], wire[e])[i] \in Frames
  BY <1>2, LineType
<1>5. DOMAIN LineOf(queue'[e][Home(n)], wire'[e]) \subseteq Nat
  BY <1>2, LineType
<1> QED
  BY <1>1, <1>2, <1>3, <1>4, <1>5

\* The types of what an end has taken.
LEMMA BaseType ==
  ASSUME AppTyped, NEW e \in End, NEW n \in Index
  PROVE  /\ Base(e, n) \in Nat /\ said[e][n] \in Nat /\ said[Other(e)][n] \in Nat
         /\ heard[e][n] \in Seq(Nat) /\ Len(heard[e][n]) \in Nat
         /\ copier[e][n].held \in Seq(Nat) /\ Len(copier[e][n].held) \in Nat
<1>1. heard[e][n] \in Seq(Nat) /\ copier[e][n] \in Copiers /\ Other(e) \in End
  BY Ends DEF AppTyped
<1>2. copier[e][n].held \in Seq(Nat)
  BY <1>1 DEF Copiers
<1>3. Len(heard[e][n]) \in Nat /\ Len(copier[e][n].held) \in Nat
  BY <1>1, <1>2, LenProperties
<1>4. said[e][n] \in Nat /\ said[Other(e)][n] \in Nat
  BY <1>1 DEF AppTyped
<1> DEFINE a == Len(heard[e][n])
           b == Len(copier[e][n].held)
           c == IF Offering(e, n) = {} THEN 0 ELSE 1
<1>5. a \in Nat /\ b \in Nat /\ c \in Nat
  BY <1>3
<1>6. Base(e, n) = a + b + c
  BY DEF Base
<1> HIDE DEF a, b, c
<1>7. Base(e, n) \in Nat
  BY <1>5, <1>6
<1> QED
  BY <1>1, <1>2, <1>3, <1>4, <1>7

\* What is on its way may still be delivered.
LEMMA PipelineKept ==
  ASSUME LibTyped, AppTyped, LibTyped', NEW e \in End, NEW n \in Index, Pipeline(e, n),
         Same(Line(e, n)', Line(e, n), n), Deliverable(e, n)' => Deliverable(e, n),
         copier'[e][n].in # "done" => copier[e][n].in # "done", Base(e, n)' = Base(e, n),
         said'[Other(e)][n] = said[Other(e)][n], conn'[e].open => conn[e].open,
         copier[Other(e)][n].out = "done" => copier'[Other(e)][n].out = "done"
  PROVE  Pipeline(e, n)'
<1> SUFFICES ASSUME Deliverable(e, n)', copier'[e][n].in # "done"
             PROVE  Good(Line(e, n)', n, Base(e, n)', said'[Other(e)][n], conn'[e].open,
                         copier'[Other(e)][n].out = "done")
  BY DEF Pipeline
<1>1. Good(Line(e, n), n, Base(e, n), said[Other(e)][n], conn[e].open,
           copier[Other(e)][n].out = "done")
  BY DEF Pipeline
<1>2. DOMAIN Line(e, n) \subseteq Nat /\ DOMAIN Line(e, n)' \subseteq Nat
  BY LineOfStream
<1>3. Base(e, n) \in Nat /\ said[Other(e)][n] \in Nat
  BY BaseType
<1> DEFINE base == Base(e, n)
           top == said[Other(e)][n]
           over == copier[Other(e)][n].out = "done"
           over2 == copier'[Other(e)][n].out = "done"
<1>4. /\ base \in Nat /\ top \in Nat /\ Good(Line(e, n), n, base, top, conn[e].open, over)
      /\ over => over2
  BY <1>1, <1>3
<1> HIDE DEF base, top, over, over2
<1>5. Good(Line(e, n)', n, base, top, conn'[e].open, over2)
  BY <1>2, <1>4, SameGood
<1> QED
  BY <1>5 DEF base, top, over, over2

\* What has arrived stays.
LEMMA ArrivedKept ==
  ASSUME NEW e \in End, NEW n \in Index, Arrived(e, n),
         heard'[e][n] = heard[e][n], said'[Other(e)][n] = said[Other(e)][n],
         copier'[e][n].in = copier[e][n].in, copier'[e][n].held = copier[e][n].held,
         stream'[e][n].closed => stream[e][n].closed, Offering(e, n)' = Offering(e, n),
         \A w \in Offering(e, n) : worker'[e][w].data = worker[e][w].data
  PROVE  Arrived(e, n)' /\ Base(e, n)' = Base(e, n)
<1>1. Home(n)' = Home(n) /\ Base(e, n)' = Base(e, n)
  BY DEF Home, Base
<1> QED
  BY <1>1 DEF Arrived

\* A stream that is complete stays so.
LEMMA CompleteKept ==
  ASSUME NEW e \in End, NEW n \in Index, Complete(e, n), Base(e, n)' = Base(e, n),
         said'[Other(e)][n] = said[Other(e)][n],
         copier'[e][n].in # "done" => copier[e][n].in # "done",
         stream'[e][n].closed => stream[e][n].closed,
         copier'[e][n].out = "copy" => copier[e][n].out = "copy",
         copier[Other(e)][n].out = "done" => copier'[Other(e)][n].out = "done",
         Barren(n) => Barren(n)'
  PROVE  Complete(e, n)'
BY DEF Complete

\* A stream that a step leaves in peace is as it was.
LEMMA CalmConversation ==
  ASSUME LibTyped, AppTyped, LibTyped', AppTyped', NEW n \in Index, Conversation(n), Calm(n)
  PROVE  Conversation(n)'
<1>1. ASSUME NEW e \in End
      PROVE  /\ Base(e, n)' = Base(e, n)
             /\ Introduced(Line(e, n)', n) <=> Introduced(Line(e, n), n)
             /\ IntroFirst(Line(e, n), n) => IntroFirst(Line(e, n)', n)
             /\ Mine(Line(e, n), n) = {} => Mine(Line(e, n)', n) = {}
             /\ \A t : Carries(Line(e, n)', n, t) <=> Carries(Line(e, n), n, t)
  BY SameKept DEF Calm, Base
<1>2. Dialing(n)' <=> Dialing(n)
  BY DEF Calm, Dialing
<1>3. ASSUME NEW e \in End PROVE Deliverable(e, n)' => Deliverable(e, n)
  BY <1>1, <1>2 DEF Deliverable, Calm
<1>4. Barren(n) => Barren(n)'
  BY <1>1, <1>2, Ends DEF Barren, Calm
<1>5. ASSUME NEW e \in End PROVE Pipeline(e, n)'
  <2>1. Pipeline(e, n)
    BY DEF Conversation
  <2>2. /\ Same(Line(e, n)', Line(e, n), n) /\ (conn'[e].open => conn[e].open)
        /\ (copier[Other(e)][n].out = "done" => copier'[Other(e)][n].out = "done")
        /\ said'[Other(e)][n] = said[Other(e)][n] /\ copier'[e][n].in = copier[e][n].in
    BY Ends DEF Calm
  <2> QED BY <1>1, <1>3, <2>1, <2>2, PipelineKept
<1>6. ASSUME NEW e \in End PROVE Arrived(e, n)'
  <2>1. Arrived(e, n) /\ Other(e) \in End
    BY Ends DEF Conversation
  <2>2. /\ heard'[e][n] = heard[e][n] /\ said'[Other(e)][n] = said[Other(e)][n]
        /\ copier'[e][n].in = copier[e][n].in /\ copier'[e][n].held = copier[e][n].held
        /\ stream'[e][n].closed = stream[e][n].closed /\ Offering(e, n)' = Offering(e, n)
        /\ \A w \in Offering(e, n) : worker'[e][w].data = worker[e][w].data
    BY <2>1 DEF Calm
  <2> QED BY <2>1, <2>2, ArrivedKept
<1>7. ASSUME NEW e \in End PROVE Silent(e, n)'
  <2>1. Silent(e, n) /\ Other(e) \in End
    BY Ends DEF Conversation
  <2> QED BY <1>1, <2>1 DEF Silent, Calm
<1>8. ASSUME NEW e \in End PROVE Complete(e, n)'
  <2>1. Complete(e, n) /\ Other(e) \in End
    BY Ends DEF Conversation
  <2> QED BY <1>1, <1>4, <2>1 DEF Complete, Calm
<1>9. Kinds(n)'
  <2>1. Kinds(n)
    BY DEF Conversation
  <2> QED BY <1>1, <2>1, Ends DEF Kinds
<1>10. Before(n)'
  <2>1. Before(n)
    BY DEF Conversation
  <2> QED BY <1>1, <1>2, <2>1, Ends DEF Before, Calm
<1>11. Unhandled(n)'
  <2>1. Unhandled(n)
    BY DEF Conversation
  <2> QED BY <1>1, <1>2, <2>1, Ends DEF Unhandled, Calm
<1>12. Refused(n)'
  <2>1. Refused(n)
    BY DEF Conversation
  <2> QED BY <1>1, <1>4, <2>1, Ends DEF Refused, Calm
<1>13. \A w \in Worker : Handling(w, n)' => w = Home(n)
  BY DEF Conversation, Calm
<1> QED
  BY <1>5, <1>6, <1>7, <1>8, <1>9, <1>10, <1>11, <1>12, <1>13 DEF Conversation, Home, Id
-----------------------------------------------------------------------------
(* The Serve loop. *)

\* A frame of a stream has the queue of the stream.
LEMMA OfStream ==
  ASSUME NEW f \in Frames
  PROVE  /\ \A n \in Index : Of(f, n) => f.id % FRAME_WORKERS = Home(n) /\ IndexOf(f.id) = n
         /\ f.type \notin {"ping", "goaway"} => IndexOf(f.id) \in Index /\ Of(f, IndexOf(f.id))
<1>1. \A n \in Index : Of(f, n) => f.id % FRAME_WORKERS = Home(n) /\ IndexOf(f.id) = n
  BY Naming DEF Of, Home
<1>2. f.type \notin {"ping", "goaway"} => f.id \in Ids
  BY DEF Frames
<1>3. f.type \notin {"ping", "goaway"} => IndexOf(f.id) \in Index /\ f.id = Id(IndexOf(f.id))
  BY <1>2, Naming
<1> QED
  BY <1>1, <1>3 DEF Of

\* A frame goes from the transport to a queue: for a stream nothing changes.
LEMMA PushLines ==
  ASSUME LibTyped, LibTyped', Queues, NEW e \in End, NEW w \in Worker, NEW p \in Nat, p <= 7,
         wire[e] # <<>>, Read(Head(wire[e])) \in Frames, Push(e, w, Read(Head(wire[e])), p),
         wire' = [wire EXCEPT ![e] = Tail(@)], NEW n \in Index,
         Of(Read(Head(wire[e])), n) => w = Home(n) /\ (p = 7 \/ Prompt(queue[e][Home(n)], n)),
         NEW d \in End
  PROVE  Same(Line(d, n)', Line(d, n), n)
<1> DEFINE f == Read(Head(wire[e]))
           q == queue[e][Home(n)]
<1>1. /\ Line(d, n) = LineOf(queue[d][Home(n)], wire[d])
      /\ Line(d, n)' = LineOf(queue'[d][Home(n)], wire'[d])
      /\ Home(n) \in Worker /\ q \in Seq(Queued) /\ wire[e] \in Seq(Written)
      /\ queue'[e][Home(n)] \in Seq(Queued)
  BY LineOfStream
<1>2. /\ queue' = [queue EXCEPT ![e][w] = Pushed(@, f, p)]
      /\ queue \in [End -> [Worker -> Seq(Queued)]] /\ wire \in [End -> Seq(Written)]
  BY DEF Push, LibTyped
<1>3. CASE d # e
  <2>1. queue'[d] = queue[d] /\ wire'[d] = wire[d]
    BY <1>2, <1>3
  <2> QED BY <1>1, <2>1, SameSelf
<1>4. CASE d = e /\ w # Home(n)
  <2>1. queue'[e][Home(n)] = q /\ wire'[e] = Tail(wire[e])
    BY <1>1, <1>2, <1>4
  <2>2. ~ Of(f, n)
    BY <1>4
  <2> HIDE DEF q
  <2>3. Same(LineOf(q, Tail(wire[e])), LineOf(q, wire[e]), n)
    BY <1>1, <2>2, LineSkipOther
  <2> QED BY <1>1, <1>4, <2>1, <2>3 DEF q
<1>5. CASE d = e /\ w = Home(n)
  <2>1. queue'[e][Home(n)] = Pushed(q, f, p) /\ wire'[e] = Tail(wire[e])
    BY <1>1, <1>2, <1>5
  <2>2. Sorted(q) /\ \A i \in DOMAIN q : q[i].priority <= 7
    BY <1>1 DEF Queues
  <2>3. DOMAIN q = 1 .. Len(q) /\ Len(q) \in Nat /\ \A i \in 1 .. Len(q) : q[i].priority \in Nat
    <3>1. \A i \in 1 .. Len(q) : q[i] \in Queued
      BY <1>1, ElementOfSeq
    <3> QED BY <1>1, <3>1, LenProperties DEF Queued
  <2>4. Of(f, n) => p = 7 \/ Prompt(q, n)
    OBVIOUS
  <2>5. f \in Frames
    OBVIOUS
  <2> HIDE DEF q, f
  <2> DEFINE r == Pushed(q, f, p)
  <2>6. PICK k \in 0 .. Len(q) :
           /\ r \in Seq(Queued) /\ Len(r) = Len(q) + 1
           /\ \A i \in 1 .. Len(q) + 1 : r[i] =
                IF i <= k THEN q[i]
                ELSE IF i = k + 1 THEN [frame |-> f, priority |-> p] ELSE q[i - 1]
           /\ \A i \in k + 1 .. Len(q) : q[i].priority > p
    BY <1>1, <2>2, <2>5, PushedSorted
  <2> HIDE DEF r
  <2>7. ASSUME Of(f, n), NEW i \in k + 1 .. Len(q) PROVE ~ Of(q[i].frame, n)
    <3>1. i \in 1 .. Len(q) /\ q[i].priority > p
      BY <2>3, <2>6
    <3>2. CASE p = 7
      BY <2>2, <2>3, <3>1, <3>2
    <3>3. CASE Prompt(q, n)
      <4>1. Of(q[i].frame, n) => q[i].priority = 0
        BY <2>3, <3>1, <3>3 DEF Prompt
      <4> QED BY <3>1, <4>1
    <3> QED BY <2>4, <2>7, <3>2, <3>3
  <2>8. Same(LineOf(r, Tail(wire[e])), LineOf(q, wire[e]), n)
    BY <1>1, <2>6, <2>7, LineMove DEF f
  <2> QED BY <1>1, <1>5, <2>1, <2>8 DEF q, r
<1> QED
  BY <1>3, <1>4, <1>5

\* ... and the queues stay in order.
LEMMA PushQueues ==
  ASSUME LibTyped, Queues, NEW e \in End, NEW w \in Worker, NEW f \in Frames, NEW p \in Nat, p <= 7,
         Push(e, w, f, p), \A n \in Index : Of(f, n) => w = Home(n),
         \A d \in End, n \in Index : stream'[d][n].known =>
           /\ stream[d][n].known \/ Prompt(queue[d][Home(n)], n)
           /\ d = e /\ Of(f, n) => p = 0
  PROVE  Queues'
<1> DEFINE q == queue[e][w]
           r == Pushed(q, f, p)
           x == [frame |-> f, priority |-> p]
<1>1. /\ queue' = [queue EXCEPT ![e][w] = r]
      /\ queue \in [End -> [Worker -> Seq(Queued)]] /\ q \in Seq(Queued)
  BY DEF Push, LibTyped
<1>2. queue'[e][w] = r /\ \A d \in End, v \in Worker : d # e \/ v # w => queue'[d][v] = queue[d][v]
  BY <1>1
<1>3. Sorted(q)
  BY DEF Queues
<1> HIDE DEF q, r
<1>4. PICK k \in 0 .. Len(q) :
         /\ r \in Seq(Queued) /\ Len(r) = Len(q) + 1
         /\ \A i \in 1 .. Len(q) + 1 : r[i] = IF i <= k THEN q[i] ELSE IF i = k + 1 THEN x ELSE q[i - 1]
         /\ Sorted(r)
  <2>1. q \in Seq(Queued) /\ f \in Frames /\ p \in Nat /\ Sorted(q)
    BY <1>1, <1>3
  <2>2. \E k \in 0 .. Len(q) :
           /\ Pushed(q, f, p) \in Seq(Queued) /\ Len(Pushed(q, f, p)) = Len(q) + 1
           /\ \A i \in 1 .. Len(q) + 1 : Pushed(q, f, p)[i] =
                IF i <= k THEN q[i]
                ELSE IF i = k + 1 THEN [frame |-> f, priority |-> p] ELSE q[i - 1]
           /\ \A i \in 1 .. k : q[i].priority <= p
           /\ \A i \in k + 1 .. Len(q) : q[i].priority > p
           /\ Sorted(Pushed(q, f, p))
    BY ONLY <2>1, PushedSorted
  <2> QED BY <2>2 DEF r
<1>5. x.frame = f /\ x.priority = p
  OBVIOUS
<1> HIDE DEF x
<1>6. ASSUME NEW i \in DOMAIN r PROVE r[i] = x \/ \E j \in DOMAIN q : r[i] = q[j]
  <2>1. Len(q) \in Nat /\ DOMAIN q = 1 .. Len(q) /\ DOMAIN r = 1 .. Len(q) + 1
    BY <1>1, <1>4, LenProperties
  <2>2. CASE i <= k
    BY <1>4, <2>1, <2>2
  <2>3. CASE i = k + 1
    BY <1>4, <2>1, <2>3
  <2>4. CASE i > k + 1
    <3>1. i - 1 \in DOMAIN q /\ r[i] = q[i - 1]
      BY <1>4, <2>1, <2>4
    <3> QED BY <3>1
  <2> QED BY <2>1, <2>2, <2>3, <2>4
<1>7. ASSUME NEW d \in End, NEW v \in Worker
      PROVE  /\ Sorted(queue'[d][v])
             /\ \A i \in DOMAIN queue'[d][v] :
                  /\ queue'[d][v][i].priority <= 7
                  /\ \A n \in Index : Of(queue'[d][v][i].frame, n) => v = Home(n)
  <2>0. \A j \in DOMAIN q :
          q[j].priority <= 7 /\ \A n \in Index : Of(q[j].frame, n) => w = Home(n)
    BY DEF Queues, q
  <2>1. CASE d = e /\ v = w
    <3>1. queue'[d][v] = r /\ Sorted(r)
      BY <1>2, <1>4, <2>1
    <3>2. ASSUME NEW i \in DOMAIN r
          PROVE  r[i].priority <= 7 /\ \A n \in Index : Of(r[i].frame, n) => w = Home(n)
      BY <1>5, <1>6, <2>0
    <3> QED BY <2>1, <3>1, <3>2
  <2>2. CASE d # e \/ v # w
    BY <1>2, <2>2 DEF Queues
  <2> QED BY <2>1, <2>2
<1>8. ASSUME NEW d \in End, NEW n \in Index, stream'[d][n].known
      PROVE  Prompt(queue'[d][Home(n)], n)
  <2>1. Home(n) \in Worker
    BY Naming, Numbered DEF Home
  <2>2. Prompt(queue[d][Home(n)], n)
    BY <1>8 DEF Queues
  <2>3. CASE d = e /\ Home(n) = w
    BY <1>2, <1>5, <1>6, <1>8, <2>2, <2>3 DEF Prompt, q
  <2>4. CASE d # e \/ Home(n) # w
    BY <1>2, <2>1, <2>2, <2>4
  <2> QED BY <2>3, <2>4
<1>9. \A n \in Index : Home(n)' = Home(n)
  BY DEF Home
<1> QED
  BY <1>7, <1>8, <1>9 DEF Queues

\* A frame leaves its queue.
LEMMA PopQueues ==
  ASSUME LibTyped, Queues, NEW e \in End, NEW w \in Worker, queue[e][w] # <<>>, Popped(e, w),
         \A d \in End, n \in Index : stream'[d][n].known => stream[d][n].known
  PROVE  Queues'
<1> DEFINE q == queue[e][w]
<1>1. /\ queue' = [queue EXCEPT ![e][w] = Tail(q)]
      /\ queue \in [End -> [Worker -> Seq(Queued)]] /\ q \in Seq(Queued)
  BY DEF Popped, LibTyped
<1>2. queue'[e][w] = Tail(q) /\ \A d \in End, v \in Worker : d # e \/ v # w => queue'[d][v] = queue[d][v]
  BY <1>1
<1>3. /\ Tail(q) \in Seq(Queued) /\ Len(q) \in Nat \ {0} /\ Len(Tail(q)) = Len(q) - 1
      /\ \A i \in 1 .. Len(q) - 1 : Tail(q)[i] = q[i + 1]
  BY <1>1, Taken
<1>4. /\ Sorted(q) /\ \A i \in DOMAIN q : q[i].priority <= 7
      /\ \A i \in DOMAIN q, n \in Index : Of(q[i].frame, n) => w = Home(n)
  BY DEF Queues
<1> DEFINE r == Tail(q)
<1> HIDE DEF q, r
<1>5. \A i \in DOMAIN r : i + 1 \in DOMAIN q /\ r[i] = q[i + 1] /\ i \in Nat
  <2>1. DOMAIN q = 1 .. Len(q) /\ DOMAIN r = 1 .. Len(q) - 1
    BY <1>1, <1>3, LenProperties DEF r
  <2> QED BY <1>3, <2>1 DEF r
<1>6. Sorted(r)
  <2> SUFFICES ASSUME NEW i \in DOMAIN r, NEW j \in DOMAIN r, i <= j
               PROVE  r[i].priority <= r[j].priority
    BY DEF Sorted
  <2>1. i + 1 <= j + 1
    BY <1>5
  <2> QED BY <1>4, <1>5, <2>1 DEF Sorted
<1>7. ASSUME NEW d \in End, NEW v \in Worker
      PROVE  /\ Sorted(queue'[d][v])
             /\ \A i \in DOMAIN queue'[d][v] :
                  /\ queue'[d][v][i].priority <= 7
                  /\ \A n \in Index : Of(queue'[d][v][i].frame, n) => v = Home(n)
  <2>1. CASE d = e /\ v = w
    <3>1. queue'[d][v] = r
      BY <1>2, <2>1 DEF r
    <3>2. ASSUME NEW i \in DOMAIN r
          PROVE  r[i].priority <= 7 /\ \A n \in Index : Of(r[i].frame, n) => w = Home(n)
      BY <1>4, <1>5
    <3> QED BY <1>6, <2>1, <3>1, <3>2
  <2>2. CASE d # e \/ v # w
    BY <1>2, <2>2 DEF Queues
  <2> QED BY <2>1, <2>2
<1>8. ASSUME NEW d \in End, NEW n \in Index, stream'[d][n].known
      PROVE  Prompt(queue'[d][Home(n)], n)
  <2>1. Home(n) \in Worker
    BY Naming, Numbered DEF Home
  <2>2. Prompt(queue[d][Home(n)], n)
    BY <1>8 DEF Queues
  <2>3. CASE d = e /\ Home(n) = w
    <3>1. queue'[d][Home(n)] = r /\ Prompt(q, n)
      BY <1>2, <2>2, <2>3 DEF q, r
    <3> QED BY <1>5, <3>1 DEF Prompt
  <2>4. CASE d # e \/ Home(n) # w
    BY <1>2, <2>1, <2>2, <2>4
  <2> QED BY <2>3, <2>4
<1>9. \A n \in Index : Home(n)' = Home(n)
  BY DEF Home
<1> QED
  BY <1>7, <1>8, <1>9 DEF Queues

\* The queues are left alone.
LEMMA SameQueues ==
  ASSUME Queues, UNCHANGED queue, \A d \in End, n \in Index : stream'[d][n].known =>
           stream[d][n].known \/ Prompt(queue[d][Home(n)], n)
  PROVE  Queues'
<1>1. \A n \in Index : Home(n)' = Home(n)
  BY DEF Home
<1> QED
  BY <1>1 DEF Queues

\* The streams of a step of Serve: their goroutines do not move.
LEMMA ServeCalm ==
  ASSUME LibTyped, LibTyped', NEW n \in Index, UNCHANGED app, UNCHANGED worker,
         \A d \in End :
           /\ Same(Line(d, n)', Line(d, n), n)
           /\ stream'[d][n].known => stream[d][n].known \/ Introduced(Line(d, n), n)
           /\ stream'[d][n].closed = stream[d][n].closed
           /\ stream'[d][n].replied = stream[d][n].replied
           /\ conn'[d].open => conn[d].open,
         Id(n) \in conn'["agent"].resets => Id(n) \in conn["agent"].resets
  PROVE  Calm(n)
BY DEF Calm, app, Offering, Handling

\* A frame that is read has been a frame of the lines of its stream.
LEMMA ReadMine ==
  ASSUME LibTyped, LibTyped', NEW e \in End, wire[e] # <<>>, NEW n \in Index, Of(Read(Head(wire[e])), n)
  PROVE  /\ Len(queue[e][Home(n)]) \in Nat
         /\ Len(queue[e][Home(n)]) + 1 \in Mine(Line(e, n), n)
         /\ Line(e, n)[Len(queue[e][Home(n)]) + 1] = Read(Head(wire[e]))
         /\ Carries(Line(e, n), n, Read(Head(wire[e])).type)
<1>1. /\ Line(e, n) = LineOf(queue[e][Home(n)], wire[e])
      /\ queue[e][Home(n)] \in Seq(Queued) /\ wire[e] \in Seq(Written)
  BY LineOfStream
<1> DEFINE q == queue[e][Home(n)]
<1> HIDE DEF q
<1>2. /\ Len(q) + 1 \in DOMAIN LineOf(q, wire[e]) /\ Len(q) \in Nat
      /\ LineOf(q, wire[e])[Len(q) + 1] = Read(Head(wire[e]))
  BY <1>1, LineSkip, LenProperties DEF q
<1> QED
  BY <1>1, <1>2 DEF Mine, Carries, q

\* A frame that goes to its queue, and a SYN that is accepted.
LEMMA ServePush ==
  ASSUME StreamInv, LibTyped', AppTyped', OrderInv, NEW e \in End, ServeFrame(e), UNCHANGED app,
         NEW w \in Worker, NEW p \in {0, 7}, Push(e, w, Read(Head(wire[e])), p),
         \A n \in Index : Of(Read(Head(wire[e])), n) => w = Home(n) /\ (p = 0 => stream'[e][n].known),
         \A d \in End, n \in Index :
           /\ stream'[d][n].closed = stream[d][n].closed
           /\ stream'[d][n].replied = stream[d][n].replied
           /\ stream'[d][n].known =>
                \/ stream[d][n].known /\ (d = e /\ Of(Read(Head(wire[e])), n) => p = 0)
                \/ d = e /\ p = 0 /\ Of(Read(Head(wire[e])), n) /\ Read(Head(wire[e])).type = "syn",
         \A d \in End : conn'[d].open = conn[d].open /\ conn'[d].resets = conn[d].resets
  PROVE  OrderInv'
<1> DEFINE f == Read(Head(wire[e]))
<1>1. LibTyped /\ AppTyped /\ Queues /\ UNCHANGED worker /\ wire[e] # <<>>
      /\ wire' = [wire EXCEPT ![e] = Tail(@)]
  BY DEF StreamInv, OrderInv, ServeFrame
<1>2. f \in Frames
  <2>1. wire[e] \in Seq(Written)
    BY <1>1 DEF LibTyped
  <2>2. Head(wire[e]) \in Written
    BY <1>1, <2>1, Taken
  <2> QED BY <2>2, ReadFrame
<1>3. p \in Nat /\ p <= 7
  OBVIOUS
<1>4. ASSUME NEW n \in Index, Of(f, n), f.type = "syn"
      PROVE  Prompt(queue[e][Home(n)], n) /\ Introduced(Line(e, n), n)
  <2> DEFINE q == queue[e][Home(n)]
  <2>1. /\ Len(q) \in Nat /\ Len(q) + 1 \in Mine(Line(e, n), n)
        /\ Line(e, n)[Len(q) + 1] = f /\ Carries(Line(e, n), n, f.type)
    BY <1>1, <1>4, ReadMine
  <2>2. IntroFirst(Line(e, n), n)
    BY Ends DEF OrderInv, Conversation, Kinds
  <2>3. \A j \in Mine(Line(e, n), n) : Len(q) + 1 <= j
    BY <1>4, <2>1, <2>2 DEF IntroFirst, IntroAt
  <2>4. q \in Seq(Queued) /\ wire[e] \in Seq(Written) /\ Line(e, n) = LineOf(q, wire[e])
    BY <1>1, LineOfStream
  <2> HIDE DEF q
  <2>5. \A i \in DOMAIN q : i \in 1 .. Len(q) /\ i \in DOMAIN Line(e, n) /\ Line(e, n)[i] = q[i].frame
    <3>1. DOMAIN q = 1 .. Len(q) /\ Len(wire[e]) \in Nat
      BY <2>4, LenProperties
    <3>2. /\ DOMAIN LineOf(q, wire[e]) = 1 .. Len(q) + Len(wire[e])
          /\ \A i \in 1 .. Len(q) : LineOf(q, wire[e])[i] = q[i].frame
      BY <2>4, LineType
    <3>3. \A i \in 1 .. Len(q) : i \in 1 .. Len(q) + Len(wire[e])
      BY <2>1, <3>1
    <3> QED BY <2>4, <3>1, <3>2, <3>3
  <2>6. \A i \in DOMAIN q : ~ Of(q[i].frame, n)
    <3> SUFFICES ASSUME NEW i \in DOMAIN q, Of(q[i].frame, n) PROVE FALSE
      OBVIOUS
    <3>1. i \in Mine(Line(e, n), n)
      BY <2>5 DEF Mine
    <3> QED BY <2>1, <2>3, <2>5, <3>1
  <2> QED BY <1>4, <2>1, <2>6 DEF Prompt, Introduced, q
<1>5. Queues'
  <2>1. \A n \in Index : Of(f, n) => w = Home(n)
    OBVIOUS
  <2>2. ASSUME NEW d \in End, NEW n \in Index, stream'[d][n].known
        PROVE  /\ stream[d][n].known \/ Prompt(queue[d][Home(n)], n)
               /\ d = e /\ Of(f, n) => p = 0
    BY <1>4, <2>2
  <2> HIDE DEF f
  <2>3. Push(e, w, f, p)
    BY DEF f
  <2> QED BY <1>1, <1>2, <1>3, <2>1, <2>2, <2>3, PushQueues
<1>6. ASSUME NEW n \in Index PROVE Conversation(n)'
  <2>1. Of(f, n) => w = Home(n) /\ (p = 7 \/ Prompt(queue[e][Home(n)], n))
    <3>1. CASE p = 7
      BY <3>1
    <3>2. CASE p = 0
      BY <1>1, <1>4, <3>2 DEF Queues
    <3> QED BY <3>1, <3>2
  <2>2. ASSUME NEW d \in End PROVE Same(Line(d, n)', Line(d, n), n)
    <3>1. /\ LibTyped /\ LibTyped' /\ Queues /\ e \in End /\ w \in Worker /\ p \in Nat /\ p <= 7
          /\ wire[e] # <<>> /\ f \in Frames /\ Push(e, w, f, p)
          /\ wire' = [wire EXCEPT ![e] = Tail(@)] /\ n \in Index /\ d \in End
          /\ Of(f, n) => w = Home(n) /\ (p = 7 \/ Prompt(queue[e][Home(n)], n))
      BY <1>1, <1>2, <1>3, <2>1
    <3> QED BY ONLY <3>1, PushLines
  <2>3. \A d \in End : stream'[d][n].known => stream[d][n].known \/ Introduced(Line(d, n), n)
    BY <1>4
  <2>4. Calm(n)
    BY <1>1, <2>2, <2>3, ServeCalm, Ends
  <2> QED BY <1>1, <2>4, CalmConversation DEF OrderInv
<1>7. conn'["director"].resets = {}
  BY Ends DEF OrderInv
<1> QED
  BY <1>5, <1>6, <1>7 DEF OrderInv

\* A SYN that is not accepted: the stream has been refused.
LEMMA ServeRefused ==
  ASSUME StreamInv, LibTyped', AppTyped', OrderInv, NEW e \in End, wire[e] # <<>>,
         UNCHANGED <<queue, stream, worker>>, UNCHANGED app, wire' = [wire EXCEPT ![e] = Tail(@)],
         \A d \in End : conn'[d].open = conn[d].open,
         NEW n \in Index, Of(Read(Head(wire[e])), n), Read(Head(wire[e])).type = "syn"
  PROVE  e = "agent" /\ Conversation(n)'
<1>1. LibTyped /\ AppTyped /\ Conversation(n) /\ "agent" \in End /\ "director" \in End
      /\ Other("director") = "agent" /\ Other("agent") = "director"
  BY Ends DEF StreamInv, OrderInv
<1>2. Carries(Line(e, n), n, "syn")
  BY <1>1, ReadMine
<1>3. e = "agent"
  BY <1>1, <1>2, Ends DEF Conversation, Kinds
<1> DEFINE q == queue["agent"][Home(n)]
           L == Line("agent", n)
           M == Line("agent", n)'
<1>4. /\ q \in Seq(Queued) /\ wire["agent"] \in Seq(Written) /\ L = LineOf(q, wire["agent"])
      /\ M = LineOf(q, Tail(wire["agent"]))
  <2>1. /\ Line("agent", n)' = LineOf(queue'["agent"][Home(n)], wire'["agent"])
        /\ q \in Seq(Queued) /\ wire["agent"] \in Seq(Written) /\ L = LineOf(q, wire["agent"])
    BY <1>1, LineOfStream
  <2>2. wire'["agent"] = Tail(wire["agent"]) /\ queue' = queue
    BY <1>1, <1>3 DEF LibTyped
  <2> QED BY <2>1, <2>2
<1>5. Len(q) + 1 \in Mine(L, n) /\ L[Len(q) + 1].type = "syn" /\ Len(q) \in Nat
  BY <1>1, <1>3, ReadMine
<1> HIDE DEF q
<1>6. PICK g : /\ Within(M, L, n, g)
               /\ \A j \in Mine(M, n) : g[j] # Len(q) + 1
  <2> DEFINE w == wire["agent"]
  <2>1. q \in Seq(Queued) /\ w \in Seq(Written) /\ w # <<>>
    BY <1>3, <1>4
  <2> HIDE DEF w
  <2>2. PICK g : /\ Within(LineOf(q, Tail(w)), LineOf(q, w), n, g)
                 /\ \A j \in Mine(LineOf(q, Tail(w)), n) : g[j] # Len(q) + 1
    BY <2>1, LineSkip
  <2> QED BY <1>4, <2>2 DEF w
<1>7. IntroFirst(L, n) /\ Kinds(n) /\ \A i \in Mine(L, n) : i \in Nat
  BY <1>1, LineOfStream DEF Conversation, Kinds, Mine
<1> HIDE DEF L, M
<1>8. /\ IntroFirst(M, n) /\ (Mine(L, n) = {} => Mine(M, n) = {})
      /\ \A t : Carries(M, n, t) => Carries(L, n, t)
  BY <1>6, <1>7, PartKept
<1>9. ~ Introduced(M, n)
  <2>1. ~ Carries(M, n, "reply")
    BY <1>7, <1>8 DEF Kinds, L
  <2>2. ASSUME NEW j \in Mine(M, n), M[j].type = "syn" PROVE FALSE
    <3>1. g[j] \in Mine(L, n) /\ L[g[j]].type = "syn" /\ g[j] # Len(q) + 1
      BY <1>6, <2>2 DEF Within
    <3>2. g[j] <= Len(q) + 1 /\ Len(q) + 1 <= g[j]
      BY <1>5, <1>7, <3>1 DEF IntroFirst, IntroAt
    <3> QED BY <1>5, <1>7, <3>1, <3>2
  <2> QED BY <2>1, <2>2 DEF Introduced, Carries
<1>10. Introduced(L, n)
  BY <1>5 DEF Introduced, Carries
<1>11. /\ ~ stream["agent"][n].replied /\ ~ Dialing(n) /\ copier["agent"][n].out = "none"
  BY <1>1, <1>10 DEF Conversation, Unhandled, L
<1>12. said["agent"][n] = 0 /\ ~ stream["agent"][n].closed
  BY <1>1, <1>11 DEF Conversation, Silent
<1>13. copier["director"][n].out \notin {"none", "syn"}
  BY <1>1, <1>5 DEF Conversation, Before, L
<1>14. Dialing(n)' <=> Dialing(n)
  BY DEF Dialing, Handling
<1>15. UNCHANGED <<stream, worker, copier, said, heard, sock>>
  BY DEF app
<1>16. Barren(n)'
  BY <1>9, <1>11, <1>12, <1>13, <1>14, <1>15 DEF Barren, M
<1>17. Line("director", n)' = Line("director", n)
  <2>1. wire'["director"] = wire["director"] /\ queue' = queue
    BY <1>1, <1>3 DEF LibTyped
  <2> QED BY <1>1, <2>1, LineOfStream
<1>18. \A d \in End : Arrived(d, n)' /\ Base(d, n)' = Base(d, n)
  <2> TAKE d \in End
  <2>1. Arrived(d, n) /\ Offering(d, n)' = Offering(d, n)
    BY <1>1, <1>15 DEF Conversation, Offering
  <2> QED BY <1>15, <2>1, ArrivedKept
<1>19. Pipeline("agent", n)'
  BY <1>9, <1>11, <1>12, <1>14, <1>15 DEF Pipeline, Deliverable, M
<1>20. Pipeline("director", n)'
  <2>1. Same(Line("director", n)', Line("director", n), n)
    BY <1>17, SameSelf
  <2>2. Deliverable("director", n)' => Deliverable("director", n)
    BY <1>15, <1>17 DEF Deliverable
  <2> QED BY <1>1, <1>15, <1>18, <2>1, <2>2, PipelineKept DEF Conversation
<1>21. \A d \in End : Complete(d, n)'
  BY <1>1, <1>15, <1>16, <1>18, CompleteKept DEF Conversation
<1>22. \A d \in End : Silent(d, n)'
  <2>1. \A t : Carries(Line("agent", n)', n, t) => Carries(Line("agent", n), n, t)
    BY <1>8 DEF L, M
  <2> QED BY <1>1, <1>15, <1>17, <2>1, Ends DEF Conversation, Silent
<1>23. Kinds(n)'
  BY <1>7, <1>8, <1>17 DEF Kinds, L, M
<1>24. Before(n)' /\ Unhandled(n)' /\ Refused(n)'
  BY <1>9, <1>13, <1>15, <1>16 DEF Before, Unhandled, Refused, M
<1>25. \A w \in Worker : Handling(w, n)' => w = Home(n)
  BY <1>1, <1>15 DEF Conversation, Handling
<1> QED
  BY <1>3, <1>18, <1>19, <1>20, <1>21, <1>22, <1>23, <1>24, <1>25, Ends DEF Conversation, Home, Id

\* A step of Serve.
LEMMA ServeOrder ==
  ASSUME StreamInv, LibTyped', AppTyped', OrderInv, NEW e \in End, ServeFrame(e), UNCHANGED app
  PROVE  OrderInv'
<1> DEFINE f == Read(Head(wire[e]))
<1>1. LibTyped /\ AppTyped /\ Queues /\ UNCHANGED worker /\ wire[e] # <<>>
      /\ wire' = [wire EXCEPT ![e] = Tail(@)] /\ Dispatched(e, f)
  BY DEF StreamInv, OrderInv, ServeFrame
<1>2. f \in Frames
  <2>1. wire[e] \in Seq(Written)
    BY <1>1 DEF LibTyped
  <2>2. Head(wire[e]) \in Written
    BY <1>1, <2>1, Taken
  <2> QED BY <2>2, ReadFrame
<1>3. /\ conn \in [End -> Connections] /\ stream \in [End -> [Index -> Streams]]
      /\ queue \in [End -> [Worker -> Seq(Queued)]] /\ conn[e] \in Connections
  BY <1>1 DEF LibTyped
<1>4. f.id \in Nat /\ f.id % FRAME_WORKERS \in Worker
  BY <1>2, Numbered DEF Frames
<1>5. /\ \A n \in Index : Of(f, n) => f.id % FRAME_WORKERS = Home(n) /\ IndexOf(f.id) = n
      /\ f.type \notin {"ping", "goaway"} => IndexOf(f.id) \in Index /\ Of(f, IndexOf(f.id))
  BY <1>2, OfStream
<1>6. CASE f.type \in {"reply", "data", "rst"}
  <2> DEFINE p == Priority(e, IndexOf(f.id))
  <2>1. Push(e, f.id % FRAME_WORKERS, f, p) /\ UNCHANGED <<conn, stream>>
    BY <1>1, <1>6 DEF Dispatched
  <2>2. p \in {0, 7} /\ \A n \in Index : Of(f, n) => (p = 0 <=> stream[e][n].known)
    BY <1>5 DEF Priority
  <2> HIDE DEF p
  <2>3. \A n \in Index : Of(f, n) => f.id % FRAME_WORKERS = Home(n) /\ (p = 0 => stream'[e][n].known)
    BY <1>5, <2>1, <2>2
  <2>4. \A d \in End, n \in Index :
           /\ stream'[d][n].closed = stream[d][n].closed
           /\ stream'[d][n].replied = stream[d][n].replied
           /\ stream'[d][n].known => stream[d][n].known /\ (d = e /\ Of(f, n) => p = 0)
    BY <2>1, <2>2
  <2> QED BY <1>4, <2>1, <2>2, <2>3, <2>4, ServePush
<1>7. CASE f.type \in {"ping", "goaway"}
  <2> DEFINE w == conn[e].robin
  <2>1. Push(e, w, f, 0) /\ conn' = [conn EXCEPT ![e].robin = (@ + 1) % FRAME_WORKERS] /\ UNCHANGED stream
    BY <1>1, <1>7 DEF Dispatched
  <2>2. w \in Worker
    BY <1>3 DEF Connections
  <2>3. \A n \in Index : ~ Of(f, n)
    BY <1>7 DEF Of
  <2>4. \A d \in End : conn'[d].open = conn[d].open /\ conn'[d].resets = conn[d].resets
    BY <1>3, <2>1 DEF Connections
  <2> HIDE DEF w
  <2>5. 0 \in {0, 7}
    OBVIOUS
  <2> QED BY <2>1, <2>2, <2>3, <2>4, <2>5, ServePush
<1>8. CASE f.type = "syn"
  <2>0. Syn(e, f)
    BY <1>1, <1>8 DEF Dispatched
  <2>a. PICK m \in Index : m = IndexOf(f.id)
    BY <1>5, <1>8
  <2>1. m \in Index /\ Of(f, m) /\ \A n \in Index : Of(f, n) => n = m
    BY <1>5, <1>8, <2>a
  <2>2. f.id = Id(m) /\ \A n \in Index : n # m => Id(n) # f.id
    BY <2>1, Naming DEF Of
  <2>3. Carries(Line(e, m), m, "syn")
    BY <1>1, <1>8, <2>1, ReadMine
  <2>4. e = "agent"
    BY <2>1, <2>3, Ends DEF OrderInv, Conversation, Kinds
  <2>5. CASE Accepted(e, f)
    <3>1. /\ Push(e, f.id % FRAME_WORKERS, f, 0) /\ conn' = [conn EXCEPT ![e].received = f.id + 2]
          /\ stream' = [stream EXCEPT ![e][m] = [NoStream EXCEPT !.known = TRUE]]
      BY <2>5, <2>a DEF Accepted
    <3>2. ~ stream[e][m].replied /\ ~ stream[e][m].closed
      <4>1. Conversation(m) /\ Introduced(Line("agent", m), m)
        BY <2>1, <2>3, <2>4 DEF OrderInv, Introduced
      <4>2. ~ stream["agent"][m].replied /\ copier["agent"][m].out = "none"
        BY <4>1 DEF Conversation, Unhandled
      <4>3. ~ stream["agent"][m].closed
        BY <4>1, <4>2, Ends DEF Conversation, Silent
      <4> QED BY <2>4, <4>2, <4>3
    <3>3. \A d \in End : conn'[d].open = conn[d].open /\ conn'[d].resets = conn[d].resets
      BY <1>3, <3>1 DEF Connections
    <3>4. stream'[e][m] = [known |-> TRUE, replied |-> FALSE, finished |-> FALSE, closed |-> FALSE]
      BY <1>3, <2>1, <3>1 DEF NoStream
    <3>5. \A d \in End, n \in Index : d # e \/ n # m => stream'[d][n] = stream[d][n]
      BY <1>3, <3>1
    <3>6. stream[e][m].replied = FALSE /\ stream[e][m].closed = FALSE
      BY <1>3, <2>1, <3>2 DEF Streams
    <3>7. \A d \in End, n \in Index :
             /\ stream'[d][n].closed = stream[d][n].closed
             /\ stream'[d][n].replied = stream[d][n].replied
             /\ stream'[d][n].known => stream[d][n].known \/ (d = e /\ n = m)
      <4> TAKE d \in End, n \in Index
      <4>1. CASE d = e /\ n = m
        <5>1. stream'[d][n].closed = FALSE /\ stream'[d][n].replied = FALSE
          BY <3>4, <4>1
        <5>2. stream[d][n].closed = FALSE /\ stream[d][n].replied = FALSE
          BY <3>6, <4>1
        <5> QED BY <4>1, <5>1, <5>2
      <4>2. CASE d # e \/ n # m
        BY <3>5, <4>2
      <4> QED BY <4>1, <4>2
    <3>8. \A n \in Index : Of(f, n) => f.id % FRAME_WORKERS = Home(n) /\ (0 = 0 => stream'[e][n].known)
      BY <1>5, <2>1, <3>4
    <3>9. \A d \in End, n \in Index : stream'[d][n].known =>
                \/ stream[d][n].known /\ (d = e /\ Of(f, n) => 0 = 0)
                \/ d = e /\ 0 = 0 /\ Of(f, n) /\ f.type = "syn"
      BY <1>8, <2>1, <3>7
    <3>10. 0 \in {0, 7}
      OBVIOUS
    <3> QED BY <1>4, <3>1, <3>3, <3>7, <3>8, <3>9, <3>10, ServePush
  <2>6. CASE \/ UNCHANGED <<conn, queue, stream>>
             \/ conn' = [conn EXCEPT ![e].resets = @ \cup {f.id}] /\ UNCHANGED <<queue, stream>>
    <3>1. /\ UNCHANGED <<queue, stream, worker>>
          /\ \A d \in End : conn'[d].open = conn[d].open
          /\ \A n \in Index : n # m /\ Id(n) \in conn'["agent"].resets => Id(n) \in conn["agent"].resets
          /\ conn'["director"].resets = {}
      BY <1>1, <1>3, <2>2, <2>4, <2>6, Ends DEF Connections, OrderInv
    <3>2. Conversation(m)'
      <4>1. Of(f, m) /\ f.type = "syn" /\ m \in Index /\ wire[e] # <<>>
            /\ wire' = [wire EXCEPT ![e] = Tail(@)] /\ UNCHANGED <<queue, stream, worker>>
            /\ \A d \in End : conn'[d].open = conn[d].open
        BY <1>1, <1>8, <2>1, <3>1
      <4> QED BY <4>1, ServeRefused
    <3>3. ASSUME NEW n \in Index, n # m PROVE Conversation(n)'
      <4>1. ~ Of(f, n)
        BY <2>1, <3>3
      <4>2. ASSUME NEW d \in End PROVE Same(Line(d, n)', Line(d, n), n)
        <5>1. /\ Line(d, n) = LineOf(queue[d][Home(n)], wire[d])
              /\ Line(d, n)' = LineOf(queue[d][Home(n)], wire'[d])
              /\ queue[d][Home(n)] \in Seq(Queued) /\ wire[d] \in Seq(Written)
          BY <1>1, <3>1, LineOfStream
        <5>2. CASE d = e
          <6>1. wire'[e] = Tail(wire[e])
            BY <1>1 DEF LibTyped
          <6> DEFINE q == queue[e][Home(n)]
          <6>2. q \in Seq(Queued) /\ wire[e] \in Seq(Written)
            BY <5>1, <5>2
          <6> HIDE DEF q
          <6>3. Same(LineOf(q, Tail(wire[e])), LineOf(q, wire[e]), n)
            BY <1>1, <4>1, <6>2, LineSkipOther
          <6> QED BY <5>1, <5>2, <6>1, <6>3 DEF q
        <5>3. CASE d # e
          <6>1. wire'[d] = wire[d]
            BY <1>1, <5>3 DEF LibTyped
          <6> QED BY <5>1, <6>1, SameSelf
        <5> QED BY <5>2, <5>3
      <4>3. Calm(n)
        BY <1>1, <3>1, <3>3, <4>2, ServeCalm, Ends
      <4> QED BY <1>1, <4>3, CalmConversation DEF OrderInv
    <3>4. Queues'
      BY <1>1, <3>1, SameQueues
    <3>5. \A n \in Index : Conversation(n)'
      BY <3>2, <3>3
    <3> QED BY <3>1, <3>4, <3>5 DEF OrderInv
  <2> QED BY <2>0, <2>5, <2>6 DEF Syn
<1> QED
  BY <1>2, <1>6, <1>7, <1>8 DEF Frames, Kind

-----------------------------------------------------------------------------
(* Steps that concern no stream. *)

\* What a write adds to the line of a stream.
LEMMA SentLines ==
  ASSUME LibTyped, LibTyped', NEW e \in End, NEW f \in Frames, NEW ok \in BOOLEAN, Sent(e, f, ok),
         UNCHANGED queue, NEW n \in Index
  PROVE  /\ Line(e, n)' = Line(e, n)
         /\ \E x : /\ x.type = f.type /\ x.data = f.data /\ x.flags = Flags(f)
                   /\ Of(x, n) <=> Of(f, n)
                   /\ IF ok /\ conn[Other(e)].open
                      THEN Longer(Line(Other(e), n)', Line(Other(e), n), x)
                      ELSE Line(Other(e), n)' = Line(Other(e), n)
<1> DEFINE o == Other(e)
           y == Write(f, blocks[e].out)
           x == Read(y)
<1>1. o \in End /\ o # e
  BY Ends
<1>2. /\ Line(e, n) = LineOf(queue[e][Home(n)], wire[e])
      /\ Line(e, n)' = LineOf(queue'[e][Home(n)], wire'[e])
  BY LineOfStream
<1>3. /\ Line(o, n) = LineOf(queue[o][Home(n)], wire[o])
      /\ Line(o, n)' = LineOf(queue'[o][Home(n)], wire'[o])
      /\ queue[o][Home(n)] \in Seq(Queued) /\ wire[o] \in Seq(Written)
  <2> HIDE DEF o
  <2>1. /\ Line(o, n) = LineOf(queue[o][Home(n)], wire[o])
        /\ queue[o][Home(n)] \in Seq(Queued) /\ wire[o] \in Seq(Written)
    BY <1>1, LineOfStream
  <2>2. Line(o, n)' = LineOf(queue'[o][Home(n)], wire'[o])
    BY <1>1, LineOfStream DEF o
  <2> QED BY <2>1, <2>2 DEF o
<1>4. wire \in [End -> Seq(Written)] /\ blocks[e].out \in Nat
  BY DEF LibTyped
<1>5. wire'[e] = wire[e]
  BY <1>1, <1>4 DEF Sent
<1>6. wire'[o] = IF ok /\ conn[o].open THEN Append(wire[o], y) ELSE wire[o]
  BY <1>1, <1>4 DEF Sent
<1>7. y \in Written
  BY <1>4, WriteFrame
<1>8. x.type = f.type /\ x.data = f.data /\ x.flags = Flags(f) /\ x.id = f.id
  BY DEF Read, Write, Frame
<1>9. Of(x, n) <=> Of(f, n)
  BY <1>8 DEF Of
<1> HIDE DEF y
<1>10. ASSUME ok /\ conn[o].open PROVE Longer(Line(o, n)', Line(o, n), x)
  <2>1. Longer(LineOf(queue[o][Home(n)], Append(wire[o], y)), LineOf(queue[o][Home(n)], wire[o]), Read(y))
    BY <1>3, <1>7, LineAppend
  <2> QED BY <1>3, <1>6, <1>10, <2>1
<1>11. ASSUME ~ (ok /\ conn[o].open) PROVE Line(o, n)' = Line(o, n)
  BY <1>3, <1>6, <1>11
<1>12. Line(e, n)' = Line(e, n)
  BY <1>2, <1>5
<1> HIDE DEF x
<1> QED
  BY <1>8, <1>9, <1>10, <1>11, <1>12

\* Another stream does not see it.
LEMMA SentSame ==
  ASSUME LibTyped, LibTyped', NEW e \in End, NEW f \in Frames, NEW ok \in BOOLEAN, Sent(e, f, ok),
         UNCHANGED queue, NEW n \in Index, ~ Of(f, n)
  PROVE  \A d \in End : Same(Line(d, n)', Line(d, n), n)
<1>1. Line(e, n)' = Line(e, n)
  BY SentLines
<1>2. PICK x : /\ Of(x, n) <=> Of(f, n)
               /\ IF ok /\ conn[Other(e)].open
                  THEN Longer(Line(Other(e), n)', Line(Other(e), n), x)
                  ELSE Line(Other(e), n)' = Line(Other(e), n)
  BY SentLines
<1>3. Same(Line(Other(e), n)', Line(Other(e), n), n)
  BY <1>2, LongerOther, SameSelf
<1>4. Same(Line(e, n)', Line(e, n), n)
  BY <1>1, SameSelf
<1> QED
  BY <1>3, <1>4, Ends

\* A worker that does nothing with the messages or the handler of stream n.
Away(x, n) == x.at \in {"idle", "reset"} \/ x.n # n

\* A stream that a step of the library concerns as little as one of the programs.
LEMMA Undisturbed ==
  ASSUME LibTyped, LibTyped', NEW n \in Index, UNCHANGED <<said, heard>>,
         \A d \in End :
           /\ Same(Line(d, n)', Line(d, n), n)
           /\ stream'[d][n].known => stream[d][n].known
           /\ stream'[d][n].closed = stream[d][n].closed
           /\ stream'[d][n].replied = stream[d][n].replied
           /\ copier'[d][n] = copier[d][n]
           /\ conn'[d].open => conn[d].open
           /\ \A w \in Worker : \/ worker'[d][w] = worker[d][w]
                                \/ Away(worker[d][w], n) /\ Away(worker'[d][w], n),
         Id(n) \in conn'["agent"].resets => Id(n) \in conn["agent"].resets
  PROVE  Calm(n)
<1>1. ASSUME NEW d \in End, NEW w \in Worker
      PROVE  /\ (worker'[d][w].at = "data" /\ worker'[d][w].n = n)
                  <=> (worker[d][w].at = "data" /\ worker[d][w].n = n)
             /\ (worker'[d][w].at = "handler" /\ worker'[d][w].n = n)
                  <=> (worker[d][w].at = "handler" /\ worker[d][w].n = n)
             /\ (worker[d][w].at = "data" /\ worker[d][w].n = n) => worker'[d][w].data = worker[d][w].data
  <2>1. CASE worker'[d][w] = worker[d][w]
    BY <2>1
  <2>2. CASE Away(worker[d][w], n) /\ Away(worker'[d][w], n)
    BY <2>2 DEF Away
  <2> QED BY <2>1, <2>2
<1>2. \A d \in End : Offering(d, n)' = Offering(d, n)
                     /\ \A w \in Offering(d, n) : worker'[d][w].data = worker[d][w].data
  BY <1>1 DEF Offering
<1>3. \A w \in Worker : Handling(w, n)' <=> Handling(w, n)
  BY <1>1, Ends DEF Handling
<1> QED
  BY <1>2, <1>3 DEF Calm

\* A step that concerns no stream.
LEMMA QuietOrder ==
  ASSUME StreamInv, LibTyped', AppTyped', OrderInv, Queues', conn'["director"].resets = {},
         \A n \in Index : Calm(n)
  PROVE  OrderInv'
BY CalmConversation DEF StreamInv, OrderInv

\* Frames and workers stay where they are.
LEMMA StillOrder ==
  ASSUME StreamInv, LibTyped', AppTyped', OrderInv, UNCHANGED <<wire, queue, worker, said, heard>>,
         \A d \in End :
           /\ conn'[d].open => conn[d].open
           /\ conn'[d].resets \subseteq conn[d].resets,
         \A d \in End, n \in Index :
           /\ stream'[d][n].known => stream[d][n].known
           /\ stream'[d][n].closed = stream[d][n].closed
           /\ stream'[d][n].replied = stream[d][n].replied
           /\ copier'[d][n].in = copier[d][n].in /\ copier'[d][n].held = copier[d][n].held
           /\ \/ copier'[d][n].out = copier[d][n].out
              \/ copier[d][n].out = "copy" /\ copier'[d][n].out = "close"
  PROVE  OrderInv'
<1>1. LibTyped /\ Queues /\ conn["director"].resets = {}
  BY DEF StreamInv, OrderInv
<1>2. Queues'
  BY <1>1, SameQueues
<1>3. conn'["director"].resets = {}
  BY <1>1, Ends
<1>4. ASSUME NEW n \in Index PROVE Calm(n)
  <2>1. \A d \in End : Same(Line(d, n)', Line(d, n), n)
    <3> TAKE d \in End
    <3>1. Line(d, n)' = Line(d, n)
      BY <1>1, LineOfStream
    <3> QED BY <3>1, SameSelf
  <2>2. \A d \in End : Offering(d, n)' = Offering(d, n)
                     /\ \A w \in Offering(d, n) : worker'[d][w].data = worker[d][w].data
    BY DEF Offering
  <2>3. \A w \in Worker : Handling(w, n)' <=> Handling(w, n)
    BY DEF Handling
  <2> QED BY <2>1, <2>2, <2>3, Ends DEF Calm
<1> QED
  BY <1>2, <1>3, <1>4, QuietOrder

\* The Serve loop ends.
LEMMA ServeEndOrder ==
  ASSUME StreamInv, LibTyped', AppTyped', OrderInv, NEW e \in End, ServeEnd(e), UNCHANGED app
  PROVE  OrderInv'
<1>1. LibTyped /\ conn \in [End -> Connections] /\ stream \in [End -> [Index -> Streams]]
  BY DEF StreamInv, LibTyped
<1>2. /\ conn' = [conn EXCEPT ![e].serving = FALSE] /\ UNCHANGED <<wire, queue, worker>>
      /\ stream' = [stream EXCEPT ![e] = [n \in Index |-> [stream[e][n] EXCEPT !.known = FALSE]]]
      /\ UNCHANGED <<said, heard, copier>>
  BY DEF ServeEnd, app
<1>3. \A d \in End : conn'[d].open = conn[d].open /\ conn'[d].resets = conn[d].resets
  BY <1>1, <1>2 DEF Connections
<1>4. ASSUME NEW d \in End, NEW n \in Index
      PROVE  /\ stream'[d][n].known => stream[d][n].known
             /\ stream'[d][n].closed = stream[d][n].closed
             /\ stream'[d][n].replied = stream[d][n].replied
  <2>1. CASE d = e
    <3>1. stream'[d][n] = [stream[e][n] EXCEPT !.known = FALSE] /\ stream[e][n] \in Streams
      BY <1>1, <1>2, <2>1
    <3> QED BY <2>1, <3>1 DEF Streams
  <2>2. CASE d # e
    <3>1. stream'[d] = stream[d]
      BY <1>1, <1>2, <2>2
    <3> QED BY <3>1
  <2> QED BY <2>1, <2>2
<1> QED
  BY <1>2, <1>3, <1>4, StillOrder

\* Steps of the callers that write nothing.
LEMMA CloseConnOrder ==
  ASSUME StreamInv, LibTyped', AppTyped', OrderInv, NEW e \in End, CloseConn(e), UNCHANGED app
  PROVE  OrderInv'
<1>1. LibTyped /\ conn \in [End -> Connections]
  BY DEF StreamInv, LibTyped
<1>2. /\ conn' = [conn EXCEPT ![e].goneAway = TRUE, ![e].shut = "goaway"]
      /\ UNCHANGED <<wire, queue, worker, stream, said, heard, copier>>
  BY DEF CloseConn, app
<1>3. \A d \in End : conn'[d].open = conn[d].open /\ conn'[d].resets = conn[d].resets
  BY <1>1, <1>2 DEF Connections
<1> QED
  BY <1>2, <1>3, StillOrder

\* The ping is answered, or the session has gone: nothing moves.
LEMMA PingedOrder ==
  ASSUME StreamInv, LibTyped', AppTyped', OrderInv, Pinged
  PROVE  OrderInv'
BY StillOrder DEF Pinged, lib

\* A socket is closed by its far end: the copiers have yet to see it.
LEMMA GoneOrder ==
  ASSUME StreamInv, LibTyped', AppTyped', OrderInv, NEW e \in End, NEW n \in Index, Gone(e, n)
  PROVE  OrderInv'
BY StillOrder DEF Gone, lib

\* A copier has seen the end of its socket: no message is said after it.
LEMMA EndOutOrder ==
  ASSUME StreamInv, LibTyped', AppTyped', OrderInv, NEW e \in End, NEW n \in Index, EndOut(e, n)
  PROVE  OrderInv'
<1>1. copier \in [End -> [Index -> Copiers]]
  BY DEF StreamInv, AppTyped
<1>2. /\ copier' = [copier EXCEPT ![e][n].out = "close"] /\ copier[e][n].out = "copy"
      /\ UNCHANGED <<wire, queue, worker, stream, conn, said, heard>>
  BY DEF EndOut, lib
<1>3. ASSUME NEW d \in End, NEW m \in Index
      PROVE  /\ copier'[d][m].in = copier[d][m].in /\ copier'[d][m].held = copier[d][m].held
             /\ \/ copier'[d][m].out = copier[d][m].out
                \/ copier[d][m].out = "copy" /\ copier'[d][m].out = "close"
  BY <1>1, <1>2 DEF Copiers
<1> QED
  BY <1>2, <1>3, StillOrder

\* A frame that is of no stream.
LEMMA SentOrder ==
  ASSUME StreamInv, LibTyped', AppTyped', OrderInv, NEW e \in End, NEW f \in Frames, NEW ok \in BOOLEAN,
         Sent(e, f, ok), f.type \in {"ping", "goaway"},
         UNCHANGED <<queue, worker, stream, said, heard, copier>>,
         \A d \in End : conn'[d].open = conn[d].open /\ conn'[d].resets = conn[d].resets
  PROVE  OrderInv'
<1>1. LibTyped /\ Queues /\ conn["director"].resets = {}
  BY DEF StreamInv, OrderInv
<1>2. Queues'
  BY <1>1, SameQueues
<1>3. conn'["director"].resets = {}
  BY <1>1, Ends
<1>4. ASSUME NEW n \in Index PROVE Calm(n)
  <2>1. \A d \in End : Same(Line(d, n)', Line(d, n), n)
    BY <1>1, SentSame DEF Of
  <2> QED BY <1>1, <2>1, Undisturbed, Ends
<1> QED
  BY <1>2, <1>3, <1>4, QuietOrder

\* GOAWAY is sent, which is a frame of no stream.
LEMMA SendGoAwayOrder ==
  ASSUME StreamInv, LibTyped', AppTyped', OrderInv, NEW e \in End, SendGoAway(e), UNCHANGED app
  PROVE  OrderInv'
<1> DEFINE last == IF conn[e].received > 2 THEN conn[e].received - 2 ELSE 0
<1>1. LibTyped /\ conn \in [End -> Connections] /\ conn[e].received \in Nat
  BY DEF StreamInv, LibTyped, Connections
<1>2. last \in Nat
  BY <1>1
<1> HIDE DEF last
<1>3. PICK ok \in BOOLEAN :
         /\ Sent(e, Frame("goaway", last, 0, 0, <<>>), ok)
         /\ conn' = [conn EXCEPT ![e].shut = IF ok THEN "waiting" ELSE "failed"]
  BY DEF SendGoAway, last
<1>4. PICK l \in Nat : l = last
  BY <1>2
<1> DEFINE f == Frame("goaway", l, 0, 0, <<>>)
<1>5. f \in Frames /\ f.type = "goaway" /\ Sent(e, f, ok)
  BY <1>3, <1>4 DEF Frames, Frame, Kind
<1> HIDE DEF f
<1>6. \A d \in End : conn'[d].open = conn[d].open /\ conn'[d].resets = conn[d].resets
  BY <1>1, <1>3 DEF Connections
<1>7. UNCHANGED <<queue, worker, stream, said, heard, copier>>
  BY DEF SendGoAway, app
<1> QED
  BY <1>5, <1>6, <1>7, SentOrder

\* A ping is sent, which is a frame of no stream.
LEMMA PingOrder ==
  ASSUME StreamInv, LibTyped', AppTyped', OrderInv, Ping
  PROVE  OrderInv'
<1> DEFINE f == Frame("ping", 1, 0, 0, <<>>)
<1>1. PICK ok \in BOOLEAN : Sent("director", f, ok)
  BY DEF Ping, SendPing
<1>2. f \in Frames /\ f.type = "ping" /\ "director" \in End
  BY Ends DEF Frames, Frame, Kind
<1> HIDE DEF f
<1>3. UNCHANGED <<queue, worker, stream, said, heard, copier, conn>>
  BY DEF Ping
<1> QED
  BY <1>1, <1>2, <1>3, SentOrder

\* A SYN that was refused is answered with a RST.
LEMMA SendResetOrder ==
  ASSUME StreamInv, LibTyped', AppTyped', OrderInv, NEW e \in End, NEW m \in Index,
         SendReset(e, Id(m)), UNCHANGED app
  PROVE  OrderInv'
<1> DEFINE f == Frame("rst", Id(m), 1, 0, <<>>)
<1>1. LibTyped /\ AppTyped /\ Queues /\ conn["director"].resets = {} /\ conn \in [End -> Connections]
      /\ Conversation(m)
  BY DEF StreamInv, LibTyped, OrderInv
<1>2. /\ Id(m) \in conn[e].resets /\ conn' = [conn EXCEPT ![e].resets = @ \ {Id(m)}]
      /\ UNCHANGED <<queue, worker, stream, said, heard, copier>>
  BY DEF SendReset, app
<1>3. e = "agent"
  BY <1>1, <1>2, Ends
<1>4. PICK ok \in BOOLEAN : Sent(e, f, ok)
  BY DEF SendReset
<1>5. f \in Frames /\ f.type = "rst" /\ f.id = Id(m)
  BY Naming DEF Frames, Frame, Kind
<1> HIDE DEF f
<1>6. /\ \A d \in End : conn'[d].open = conn[d].open /\ conn'[d].resets \subseteq conn[d].resets
      /\ conn'["director"].resets = {}
  BY <1>1, <1>2, <1>3, Ends DEF Connections
<1>7. Queues'
  BY <1>1, <1>2, SameQueues
<1>8. ASSUME NEW n \in Index, n # m PROVE Conversation(n)'
  <2>1. ~ Of(f, n)
    BY <1>5, <1>8, Naming DEF Of
  <2>2. \A d \in End : Same(Line(d, n)', Line(d, n), n)
    BY <1>1, <1>2, <1>4, <1>5, <2>1, SentSame
  <2>3. Calm(n)
    BY <1>1, <1>2, <1>6, <2>2, Undisturbed, Ends
  <2> QED BY <1>1, <2>3, CalmConversation DEF OrderInv
<1>9. Conversation(m)'
  <2>1. Line("agent", m)' = Line("agent", m)
    BY <1>1, <1>2, <1>3, <1>4, <1>5, SentLines
  <2>2. PICK x : /\ x.type = "rst"
                 /\ \/ Longer(Line("director", m)', Line("director", m), x)
                    \/ Line("director", m)' = Line("director", m)
    BY <1>1, <1>2, <1>3, <1>4, <1>5, SentLines, Ends
  <2>3. Dialing(m)' <=> Dialing(m)
    BY <1>2 DEF Dialing, Handling
  <2>4. Barren(m) /\ Barren(m)'
    <3>1. Barren(m)
      BY <1>1, <1>2, <1>3 DEF Conversation, Refused
    <3> QED BY <1>2, <2>1, <2>3, <3>1 DEF Barren
  <2>5. Kinds(m) /\ IntroFirst(Line("director", m), m)
    BY <1>1 DEF Conversation, Kinds
  <2>6. /\ IntroFirst(Line("director", m)', m)
        /\ \A t : t # "rst" => (Carries(Line("director", m)', m, t) <=> Carries(Line("director", m), m, t))
    BY <2>2, <2>5, LongerKinds
  <2>7. Introduced(Line("director", m)', m) <=> Introduced(Line("director", m), m)
    BY <2>6 DEF Introduced
  <2>8. \A d \in End : Arrived(d, m)' /\ Base(d, m)' = Base(d, m)
    <3> TAKE d \in End
    <3>1. Arrived(d, m) /\ Offering(d, m)' = Offering(d, m)
      BY <1>1, <1>2 DEF Conversation, Offering
    <3> QED BY <1>2, <3>1, ArrivedKept
  <2>9. Pipeline("agent", m)'
    <3>1. Same(Line("agent", m)', Line("agent", m), m)
      BY <2>1, SameSelf
    <3>2. Deliverable("agent", m)' => Deliverable("agent", m)
      BY <1>2, <2>1, <2>3 DEF Deliverable
    <3> QED BY <1>1, <1>2, <1>6, <2>8, <3>1, <3>2, PipelineKept, Ends DEF Conversation
  <2>10. Pipeline("director", m)'
    <3> SUFFICES ASSUME Deliverable("director", m)', copier'["director"][m].in # "done"
                 PROVE  Good(Line("director", m)', m, Base("director", m)', said'["agent"][m],
                             conn'["director"].open, copier'["agent"][m].out = "done")
      BY Ends DEF Pipeline
    <3> DEFINE base == Base("director", m)
               top == said["agent"][m]
               full == conn["director"].open
               over == copier["agent"][m].out = "done"
               L == Line("director", m)
               M == Line("director", m)'
    <3>1. Deliverable("director", m)
      BY <1>2, <2>7 DEF Deliverable
    <3>2. Good(L, m, base, top, full, over)
      BY <1>1, <1>2, <3>1, Ends DEF Conversation, Pipeline
    <3>3. base \in Nat /\ top \in Nat
      BY <1>1, BaseType, Ends
    <3>4. (\E z : Longer(M, L, z) /\ z.type # "data") \/ M = L
      BY <2>2
    <3>5. Base("director", m)' = base /\ said'["agent"][m] = top /\ conn'["director"].open = full
          /\ (copier'["agent"][m].out = "done") = over
      BY <1>2, <1>6, <2>8, Ends
    <3> HIDE DEF base, top, full, over, L, M
    <3>6. Good(M, m, base, top, full, over)
      BY <3>2, <3>3, <3>4, GoodOther
    <3> QED BY <3>5, <3>6 DEF M
  <2>11. \A d \in End : Complete(d, m)'
    BY <1>1, <1>2, <2>4, <2>8, CompleteKept DEF Conversation
  <2>12. \A d \in End : Silent(d, m)'
    BY <1>1, <1>2, <2>1, <2>6, Ends DEF Conversation, Silent
  <2>13. Kinds(m)'
    BY <2>1, <2>5, <2>6 DEF Kinds
  <2>14. Before(m)' /\ Unhandled(m)' /\ Refused(m)'
    BY <1>1, <1>2, <2>1, <2>3, <2>4 DEF Before, Unhandled, Refused, Barren, Conversation
  <2>15. \A w \in Worker : Handling(w, m)' => w = Home(m)
    BY <1>1, <1>2 DEF Conversation, Handling
  <2> QED
    BY <2>8, <2>9, <2>10, <2>11, <2>12, <2>13, <2>14, <2>15, Ends DEF Conversation, Home, Id
<1>10. \A n \in Index : Conversation(n)'
  BY <1>8, <1>9
<1> QED
  BY <1>6, <1>7, <1>10 DEF OrderInv

-----------------------------------------------------------------------------
(* Frames that are lost or dropped. *)

\* A stream that was refused remains so.
LEMMA BarrenKept ==
  ASSUME NEW n \in Index, UNCHANGED <<said, copier>>, Dialing(n)' => Dialing(n),
         Introduced(Line("agent", n)', n) => Introduced(Line("agent", n), n)
  PROVE  Barren(n) => Barren(n)'
BY DEF Barren

\* What remains true of a stream of which frames disappear.
LEMMA LostConversation ==
  ASSUME NEW n \in Index, Conversation(n), UNCHANGED <<said, heard, copier>>,
         \A d \in End :
           /\ \E g : Within(Line(d, n)', Line(d, n), n, g)
           /\ stream'[d][n].closed => stream[d][n].closed \/ copier[d][n].out \notin {"none", "syn"}
           /\ stream'[d][n].replied => stream[d][n].replied \/ copier[d][n].out \notin {"none", "syn"}
           /\ conn'[d].open => conn[d].open
           /\ Pipeline(d, n)' /\ Arrived(d, n)' /\ Complete(d, n)',
         stream'["agent"][n].replied => stream["agent"][n].replied,
         \A w \in Worker : Handling(w, n)' => Handling(w, n),
         Id(n) \in conn'["agent"].resets => Id(n) \in conn["agent"].resets
  PROVE  Conversation(n)'
<1>1. ASSUME NEW d \in End
      PROVE  /\ IntroFirst(Line(d, n), n) => IntroFirst(Line(d, n)', n)
             /\ Introduced(Line(d, n)', n) => Introduced(Line(d, n), n)
             /\ Mine(Line(d, n), n) = {} => Mine(Line(d, n)', n) = {}
             /\ \A t : Carries(Line(d, n)', n, t) => Carries(Line(d, n), n, t)
  <2>1. PICK g : Within(Line(d, n)', Line(d, n), n, g)
    OBVIOUS
  <2> QED BY <2>1, PartKept
<1>2. Dialing(n)' => Dialing(n)
  BY DEF Dialing
<1>3. Barren(n) => Barren(n)'
  BY <1>1, <1>2, BarrenKept, Ends
<1>4. \A d \in End : Silent(d, n)'
  BY <1>1, Ends DEF Conversation, Silent
<1>5. Kinds(n)'
  BY <1>1, Ends DEF Conversation, Kinds
<1>6. Before(n)'
  BY <1>1, <1>2, Ends DEF Conversation, Before
<1>7. Unhandled(n)'
  BY <1>1, <1>2, Ends DEF Conversation, Unhandled
<1>8. Refused(n)'
  BY <1>1, <1>3, Ends DEF Conversation, Refused
<1>9. \A w \in Worker : Handling(w, n)' => w = Home(n)
  BY DEF Conversation
<1> QED
  BY <1>4, <1>5, <1>6, <1>7, <1>8, <1>9, Ends DEF Conversation, Home, Id

\* An end closes the transport: what it has not read is lost.
LEMMA ShutdownOrder ==
  ASSUME StreamInv, LibTyped', AppTyped', OrderInv, NEW e \in End, Shutdown(e), UNCHANGED app
  PROVE  OrderInv'
<1>1. /\ LibTyped /\ AppTyped /\ Queues /\ conn["director"].resets = {}
      /\ conn \in [End -> Connections] /\ wire \in [End -> Seq(Written)]
  BY DEF StreamInv, LibTyped, OrderInv
<1>2. /\ conn' = [conn EXCEPT ![e].open = FALSE, ![e].shut = "closed"]
      /\ wire' = [wire EXCEPT ![e] = <<>>]
      /\ UNCHANGED <<queue, worker, stream, said, heard, copier>>
  BY DEF Shutdown, app
<1>3. /\ \A d \in End : conn'[d].resets = conn[d].resets /\ (conn'[d].open => conn[d].open)
      /\ ~ conn'[e].open
  BY <1>1, <1>2 DEF Connections
<1>4. Queues'
  BY <1>1, <1>2, SameQueues
<1>5. ASSUME NEW n \in Index PROVE Conversation(n)'
  <2>1. \A d \in End : Arrived(d, n)' /\ Base(d, n)' = Base(d, n)
    <3> TAKE d \in End
    <3>1. Arrived(d, n) /\ Offering(d, n)' = Offering(d, n)
      BY <1>2 DEF OrderInv, Conversation, Offering
    <3> QED BY <1>2, <3>1, ArrivedKept
  <2>2. Dialing(n)' <=> Dialing(n)
    BY <1>2 DEF Dialing, Handling
  <2>3. ASSUME NEW d \in End, d # e
        PROVE  (\E g : Within(Line(d, n)', Line(d, n), n, g)) /\ Pipeline(d, n)'
    <3>1. Line(d, n)' = Line(d, n)
      BY <1>1, <1>2, <2>3, LineOfStream
    <3>2. Same(Line(d, n)', Line(d, n), n)
      BY <3>1, SameSelf
    <3>3. Deliverable(d, n)' => Deliverable(d, n)
      BY <1>2, <2>2, <3>1 DEF Deliverable
    <3>4. Pipeline(d, n)'
      BY <1>1, <1>2, <1>3, <2>1, <3>2, <3>3, PipelineKept, Ends DEF OrderInv, Conversation
    <3> QED BY <3>2, <3>4 DEF Same
  <2>4. (\E g : Within(Line(e, n)', Line(e, n), n, g)) /\ Pipeline(e, n)'
    <3>1. /\ Line(e, n) = LineOf(queue[e][Home(n)], wire[e]) /\ DOMAIN Line(e, n) \subseteq Nat
          /\ queue[e][Home(n)] \in Seq(Queued) /\ wire[e] \in Seq(Written)
      BY <1>1, LineOfStream
    <3>2. Line(e, n)' = LineOf(queue[e][Home(n)], <<>>)
      BY <1>1, <1>2, LineOfStream
    <3> DEFINE L == Line(e, n)
               M == Line(e, n)'
               m == Len(queue[e][Home(n)])
               base == Base(e, n)
               top == said[Other(e)][n]
               full == conn[e].open
               over == copier[Other(e)][n].out = "done"
    <3>3. m \in Nat /\ base \in Nat /\ top \in Nat
      BY <1>1, <3>1, BaseType
    <3>4. DOMAIN M = {i \in DOMAIN L : i <= m} /\ \A i \in DOMAIN M : M[i] = L[i]
      BY <3>1, <3>2, LineCut
    <3>5. \E g : Within(M, L, n, g)
      <4> HIDE DEF M, L, m, base, top, full, over
      <4>1. Within(M, L, n, [i \in Mine(M, n) |-> i])
        <5>1. Mine(M, n) \subseteq Mine(L, n) /\ \A i \in Mine(M, n) : M[i] = L[i]
          BY <3>4 DEF Mine
        <5> QED BY <5>1 DEF Within
      <4> QED BY <4>1
    <3>6. ASSUME Good(L, n, base, top, full, over) PROVE Good(M, n, base, top, FALSE, over)
      <4> HIDE DEF M, L, m, base, top, full, over
      <4>0. DOMAIN L \subseteq Nat
        BY <3>1 DEF L
      <4> QED BY <3>3, <3>4, <3>6, <4>0, GoodPrefix
    <3>7. Deliverable(e, n)' => Deliverable(e, n)
      <4>1. Introduced(Line(e, n)', n) => Introduced(Line(e, n), n)
        BY <3>5, PartKept
      <4> QED BY <1>2, <2>2, <4>1 DEF Deliverable
    <3>8. Base(e, n)' = base /\ said'[Other(e)][n] = top /\ conn'[e].open = FALSE
          /\ (copier'[Other(e)][n].out = "done") = over
      <4>1. conn'[e].open = FALSE
        BY <1>1, <1>2 DEF Connections
      <4> QED BY <1>2, <2>1, <4>1
    <3>9. Deliverable(e, n) /\ copier[e][n].in # "done" => Good(L, n, base, top, full, over)
      BY DEF OrderInv, Conversation, Pipeline
    <3>10. Pipeline(e, n)'
      <4> SUFFICES ASSUME Deliverable(e, n)', copier'[e][n].in # "done"
                   PROVE Good(M, n, Base(e, n)', said'[Other(e)][n], conn'[e].open,
                              copier'[Other(e)][n].out = "done")
        BY Ends DEF Pipeline
      <4>1. Deliverable(e, n) /\ copier[e][n].in # "done"
        BY <1>2, <3>7
      <4>2. Good(M, n, base, top, FALSE, over)
        BY <3>6, <3>9, <4>1
      <4> HIDE DEF M, L, m, base, top, full, over
      <4> QED BY <3>8, <4>2
    <3> QED BY <3>5, <3>10
  <2>5. ASSUME NEW d \in End
        PROVE  (\E g : Within(Line(d, n)', Line(d, n), n, g)) /\ Pipeline(d, n)'
    BY <2>3, <2>4
  <2>6. Barren(n) => Barren(n)'
    <3>1. Introduced(Line("agent", n)', n) => Introduced(Line("agent", n), n)
      BY <2>5, PartKept, Ends
    <3> QED BY <1>2, <2>2, <3>1, BarrenKept
  <2>7. \A d \in End : Complete(d, n)'
    BY <1>2, <2>1, <2>6, CompleteKept DEF OrderInv, Conversation
  <2>8. Conversation(n) /\ UNCHANGED <<said, heard, copier, stream>>
        /\ (\A d \in End : conn'[d].open => conn[d].open)
        /\ (\A w \in Worker : Handling(w, n)' => Handling(w, n))
        /\ (Id(n) \in conn'["agent"].resets => Id(n) \in conn["agent"].resets)
    BY <1>2, <1>3, Ends DEF OrderInv, Handling
  <2> QED BY <2>1, <2>5, <2>7, <2>8, LostConversation
<1> QED
  BY <1>1, <1>3, <1>4, <1>5, Ends DEF OrderInv

-----------------------------------------------------------------------------
(* The workers. *)

\* The line of a stream when a frame is taken out of a queue of e.
LEMMA PopLines ==
  ASSUME LibTyped, LibTyped', NEW e \in End, NEW w \in Worker, queue[e][w] # <<>>, Popped(e, w),
         wire'[e] = wire[e], NEW n \in Index
  PROVE  /\ w # Home(n) => Line(e, n)' = Line(e, n)
         /\ w = Home(n) => /\ Behead(Line(e, n)', Line(e, n))
                           /\ Line(e, n)[1] = Head(queue[e][w]).frame
         /\ \A d \in End : d # e => queue'[d] = queue[d]
<1>1. queue \in [End -> [Worker -> Seq(Queued)]] /\ queue' = [queue EXCEPT ![e][w] = Tail(@)]
  BY DEF LibTyped, Popped
<1>2. /\ Line(e, n) = LineOf(queue[e][Home(n)], wire[e])
      /\ Line(e, n)' = LineOf(queue'[e][Home(n)], wire[e])
      /\ Home(n) \in Worker /\ wire[e] \in Seq(Written) /\ queue[e][Home(n)] \in Seq(Queued)
  BY LineOfStream
<1>3. ASSUME w # Home(n) PROVE Line(e, n)' = Line(e, n)
  BY <1>1, <1>2, <1>3
<1>4. ASSUME w = Home(n)
      PROVE  Behead(Line(e, n)', Line(e, n)) /\ Line(e, n)[1] = Head(queue[e][w]).frame
  <2> DEFINE q == queue[e][w]
  <2>1. queue'[e][Home(n)] = Tail(q) /\ q = queue[e][Home(n)] /\ q \in Seq(Queued) /\ q # <<>>
    BY <1>1, <1>2, <1>4
  <2> HIDE DEF q
  <2>2. Behead(LineOf(Tail(q), wire[e]), LineOf(q, wire[e])) /\ LineOf(q, wire[e])[1] = Head(q).frame
    BY <1>2, <2>1, LinePop
  <2> QED BY <1>2, <2>1, <2>2 DEF q
<1>5. \A d \in End : d # e => queue'[d] = queue[d]
  BY <1>1
<1> QED
  BY <1>3, <1>4, <1>5

\* The frame at the head is of the stream whose queue it is.
LEMMA PopMine ==
  ASSUME LibTyped, Queues, NEW e \in End, NEW w \in Worker, queue[e][w] # <<>>
  PROVE  /\ Head(queue[e][w]).frame \in Frames
         /\ \A n \in Index : Of(Head(queue[e][w]).frame, n) => w = Home(n)
<1> DEFINE q == queue[e][w]
<1>1. q \in Seq(Queued) /\ q # <<>>
  BY DEF LibTyped
<1>2. \A i \in DOMAIN q : \A n \in Index : Of(q[i].frame, n) => w = Home(n)
  BY DEF Queues
<1> HIDE DEF q
<1>3. Head(q) \in Queued /\ Head(q) = q[1] /\ 1 \in DOMAIN q
  <2>1. Len(q) \in Nat \ {0} /\ DOMAIN q = 1 .. Len(q)
    BY <1>1, LenProperties, EmptySeq
  <2> QED BY <1>1, <2>1, Taken
<1> QED
  BY <1>2, <1>3 DEF q, Queued

\* A frame of another stream is taken.
LEMMA PopSame ==
  ASSUME LibTyped, LibTyped', Queues, NEW e \in End, NEW w \in Worker, queue[e][w] # <<>>, Popped(e, w),
         wire'[e] = wire[e], NEW n \in Index, ~ Of(Head(queue[e][w]).frame, n)
  PROVE  Same(Line(e, n)', Line(e, n), n)
<1>1. CASE w = Home(n)
  <2>1. Behead(Line(e, n)', Line(e, n)) /\ ~ Of(Line(e, n)[1], n)
    BY <1>1, PopLines
  <2> QED BY <2>1, BeheadOther
<1>2. CASE w # Home(n)
  BY <1>2, PopLines, SameSelf
<1> QED
  BY <1>1, <1>2

\* A PING or a GOAWAY.
LEMMA PopQuiet ==
  ASSUME StreamInv, LibTyped', AppTyped', OrderInv, NEW e \in End, NEW w \in Worker,
         queue[e][w] # <<>>, Popped(e, w), Head(queue[e][w]).frame.type \in {"ping", "goaway"},
         wire'[e] = wire[e], UNCHANGED <<worker, stream, said, heard, copier>>,
         \A d \in End : conn'[d].open = conn[d].open /\ conn'[d].resets = conn[d].resets,
         \A d \in End, n \in Index : d # e => Same(Line(d, n)', Line(d, n), n)
  PROVE  OrderInv'
<1>1. LibTyped /\ Queues /\ conn["director"].resets = {}
  BY DEF StreamInv, OrderInv
<1>2. Queues'
  BY <1>1, PopQueues
<1>3. conn'["director"].resets = {}
  BY <1>1, Ends
<1>4. ASSUME NEW n \in Index PROVE Calm(n)
  <2>1. ~ Of(Head(queue[e][w]).frame, n)
    BY DEF Of
  <2>2. Same(Line(e, n)', Line(e, n), n)
    BY <1>1, <2>1, PopSame
  <2>3. \A d \in End : Same(Line(d, n)', Line(d, n), n)
    BY <2>2
  <2> QED BY <1>1, <2>3, Undisturbed, Ends
<1> QED
  BY <1>2, <1>3, <1>4, QuietOrder

\* PING and its answer.
LEMMA HandlePingOrder ==
  ASSUME StreamInv, LibTyped', AppTyped', OrderInv, NEW e \in End, NEW w \in Worker,
         queue[e][w] # <<>>, Popped(e, w), Head(queue[e][w]).frame.type = "ping",
         HandlePing(e, Head(queue[e][w]).frame), UNCHANGED app
  PROVE  OrderInv'
<1> DEFINE f == Head(queue[e][w]).frame
<1>1. LibTyped /\ Queues /\ conn \in [End -> Connections] /\ wire \in [End -> Seq(Written)]
      /\ UNCHANGED <<said, heard, copier>> /\ blocks \in [End -> [out : Nat, in : Nat]]
  BY DEF StreamInv, OrderInv, LibTyped, app
<1>2. f \in Frames
  BY <1>1, PopMine
<1>3. \A d \in End : d # e => queue'[d] = queue[d]
  BY <1>1 DEF Popped, LibTyped
<1>4. CASE e = "agent" /\ (\E ok \in BOOLEAN : Sent(e, f, ok)) /\ UNCHANGED <<conn, worker, stream>>
  <2>1. PICK ok \in BOOLEAN : Sent(e, f, ok)
    BY <1>4
  <2> DEFINE y == Write(f, blocks[e].out)
  <2>2. \E x \in Written : x = y
    BY <1>1, <1>2, WriteFrame
  <2>3. PICK x \in Written : x = y
    BY <2>2
  <2>4. x.type = "ping"
    BY <2>3 DEF Write
  <2>5. wire'[e] = wire[e]
    BY <1>1, <2>1, Ends DEF Sent
  <2>6. wire'[Other(e)] = wire[Other(e)] \/ wire'[Other(e)] = Append(wire[Other(e)], x)
    BY <1>1, <2>1, <2>3, Ends DEF Sent
  <2> HIDE DEF y, f
  <2>7. ASSUME NEW d \in End, NEW n \in Index, d # e PROVE Same(Line(d, n)', Line(d, n), n)
    <3>1. d = Other(e)
      BY <2>7, Ends
    <3>2. /\ Line(d, n) = LineOf(queue[d][Home(n)], wire[d])
          /\ Line(d, n)' = LineOf(queue[d][Home(n)], wire'[d])
          /\ queue[d][Home(n)] \in Seq(Queued) /\ wire[d] \in Seq(Written)
      <4>1. queue'[d] = queue[d]
        BY <1>3, <2>7
      <4> QED BY <1>1, <4>1, LineOfStream
    <3>3. CASE wire'[d] = wire[d]
      BY <3>2, <3>3, SameSelf
    <3>4. CASE wire'[d] = Append(wire[d], x)
      <4> DEFINE q == queue[d][Home(n)]
                 u == wire[d]
      <4>1. q \in Seq(Queued) /\ u \in Seq(Written)
        BY <3>2
      <4> HIDE DEF q, u
      <4>2. Longer(LineOf(q, Append(u, x)), LineOf(q, u), Read(x))
        BY <4>1, LineAppend
      <4>3. ~ Of(Read(x), n)
        BY <2>4 DEF Of, Read, Frame
      <4>4. Same(LineOf(q, Append(u, x)), LineOf(q, u), n)
        BY <4>2, <4>3, LongerOther
      <4> QED BY <3>2, <3>4, <4>4 DEF q, u
    <3> QED BY <2>6, <3>1, <3>3, <3>4
  <2>8. UNCHANGED <<worker, stream, said, heard, copier, conn>>
    BY <1>1, <1>4
  <2> QED BY <2>5, <2>7, <2>8, PopQuiet
<1>5. CASE /\ e = "director" /\ conn' = [conn EXCEPT ![e].pinged = TRUE]
           /\ UNCHANGED <<wire, blocks, worker, stream>>
  <2>1. \A d \in End : conn'[d].open = conn[d].open /\ conn'[d].resets = conn[d].resets
    BY <1>1, <1>5 DEF Connections
  <2>2. ASSUME NEW d \in End, NEW n \in Index, d # e PROVE Same(Line(d, n)', Line(d, n), n)
    <3>1. Line(d, n)' = Line(d, n)
      <4>1. queue'[d] = queue[d] /\ wire'[d] = wire[d]
        BY <1>3, <1>5, <2>2
      <4> QED BY <1>1, <4>1, LineOfStream
    <3> QED BY <3>1, SameSelf
  <2> QED BY <1>1, <1>5, <2>1, <2>2, PopQuiet
<1> QED
  BY <1>4, <1>5 DEF HandlePing

\* GOAWAY.
LEMMA HandleGoAwayOrder ==
  ASSUME StreamInv, LibTyped', AppTyped', OrderInv, NEW e \in End, NEW w \in Worker,
         queue[e][w] # <<>>, Popped(e, w), Head(queue[e][w]).frame.type = "goaway",
         HandleGoAway(e), UNCHANGED wire, UNCHANGED app
  PROVE  OrderInv'
<1>1. LibTyped /\ conn \in [End -> Connections] /\ UNCHANGED <<worker, stream, said, heard, copier>>
  BY DEF StreamInv, LibTyped, app, HandleGoAway
<1>2. \A d \in End : conn'[d].open = conn[d].open /\ conn'[d].resets = conn[d].resets
  BY <1>1 DEF Connections, HandleGoAway
<1>3. ASSUME NEW d \in End, NEW n \in Index, d # e PROVE Same(Line(d, n)', Line(d, n), n)
  <2>1. queue'[d] = queue[d] /\ wire'[d] = wire[d]
    BY <1>1, <1>3 DEF Popped, LibTyped
  <2>2. Line(d, n)' = Line(d, n)
    BY <1>1, <2>1, LineOfStream
  <2> QED BY <2>2, SameSelf
<1> QED
  BY <1>1, <1>2, <1>3, PopQuiet

\* A worker takes a frame of stream n.
Takes(e, w, n) ==
  /\ queue[e][w] # <<>> /\ Popped(e, w) /\ worker[e][w].at = "idle"
  /\ Of(Head(queue[e][w]).frame, n)
  /\ UNCHANGED <<wire, conn, said, heard, copier>>
  /\ \A d \in End, v \in Worker : d # e \/ v # w => worker'[d][v] = worker[d][v]
  /\ worker'[e][w] = worker[e][w] \/ worker'[e][w].n = n
  /\ \A d \in End, m \in Index : d # e \/ m # n => stream'[d][m] = stream[d][m]
  /\ stream'[e][n].known => stream[e][n].known

\* It concerns no other stream.
LEMMA TakesOrder ==
  ASSUME StreamInv, LibTyped', AppTyped', OrderInv, NEW e \in End, NEW w \in Worker, NEW n \in Index,
         Takes(e, w, n), Conversation(n)'
  PROVE  OrderInv'
<1>1. /\ LibTyped /\ AppTyped /\ Queues /\ conn["director"].resets = {}
      /\ queue[e][w] # <<>> /\ Popped(e, w) /\ Of(Head(queue[e][w]).frame, n)
      /\ UNCHANGED <<wire, conn, said, heard, copier>>
  BY DEF StreamInv, OrderInv, Takes
<1>2. \A d \in End, m \in Index : stream'[d][m].known => stream[d][m].known
  BY DEF Takes
<1>3. Queues'
  BY <1>1, <1>2, PopQueues
<1>4. ASSUME NEW m \in Index, m # n PROVE Conversation(m)'
  <2>1. ~ Of(Head(queue[e][w]).frame, m)
    BY <1>1, <1>4, Naming DEF Of
  <2>2. Same(Line(e, m)', Line(e, m), m)
    BY <1>1, <2>1, PopSame
  <2>3. ASSUME NEW d \in End, d # e PROVE Same(Line(d, m)', Line(d, m), m)
    <3>1. queue'[d] = queue[d]
      BY <1>1, <2>3 DEF Popped, LibTyped
    <3>2. Line(d, m)' = Line(d, m)
      BY <1>1, <3>1, LineOfStream
    <3> QED BY <3>2, SameSelf
  <2>4. \A d \in End : Same(Line(d, m)', Line(d, m), m)
    BY <2>2, <2>3
  <2>5. ASSUME NEW d \in End, NEW v \in Worker
        PROVE  worker'[d][v] = worker[d][v] \/ (Away(worker[d][v], m) /\ Away(worker'[d][v], m))
    <3>0. \A c \in End, u \in Worker : c # e \/ u # w => worker'[c][u] = worker[c][u]
      BY DEF Takes
    <3>1. CASE d # e \/ v # w
      BY <3>0, <3>1
    <3>2. CASE d = e /\ v = w
      <4>1. worker[e][w].at = "idle"
        BY DEF Takes
      <4>2. worker'[e][w] = worker[e][w] \/ worker'[e][w].n = n
        BY DEF Takes
      <4> QED BY <1>4, <3>2, <4>1, <4>2 DEF Away
    <3> QED BY <3>1, <3>2
  <2>6. \A d \in End : stream'[d][m] = stream[d][m]
    BY <1>4 DEF Takes
  <2>7. Calm(m)
    BY <1>1, <2>4, <2>5, <2>6, Undisturbed, Ends
  <2> QED BY <1>1, <2>7, CalmConversation DEF OrderInv
<1>5. \A m \in Index : Conversation(m)'
  BY <1>4
<1> QED
  BY <1>1, <1>3, <1>5 DEF OrderInv

\* The lines of the stream when it does.
LEMMA TakesLine ==
  ASSUME LibTyped, LibTyped', OrderInv, NEW e \in End, NEW w \in Worker, NEW n \in Index, Takes(e, w, n)
  PROVE  /\ w = Home(n) /\ Head(queue[e][w]).frame \in Frames
         /\ Behead(Line(e, n)', Line(e, n)) /\ Line(e, n)[1] = Head(queue[e][w]).frame
         /\ 1 \in Mine(Line(e, n), n)
         /\ ~ Introduced(Line(e, n)', n)
         /\ \E g : Within(Line(e, n)', Line(e, n), n, g)
         /\ Line(Other(e), n)' = Line(Other(e), n)
<1>1. /\ Queues /\ queue[e][w] # <<>> /\ Popped(e, w) /\ Of(Head(queue[e][w]).frame, n)
      /\ UNCHANGED wire
  BY DEF OrderInv, Takes
<1>2. w = Home(n) /\ Head(queue[e][w]).frame \in Frames
  BY <1>1, PopMine
<1>3. Behead(Line(e, n)', Line(e, n)) /\ Line(e, n)[1] = Head(queue[e][w]).frame
  BY <1>1, <1>2, PopLines
<1>4. 1 \in Mine(Line(e, n), n)
  BY <1>1, <1>3 DEF Behead, Mine
<1>5. PICK g : Shifted(Line(e, n)', Line(e, n), n, g)
  BY <1>3, BeheadMap
<1>6. ASSUME NEW i \in Mine(Line(e, n)', n) PROVE Line(e, n)'[i].type \notin {"syn", "reply"}
  <2>1. IntroFirst(Line(e, n), n)
    BY Ends DEF OrderInv, Conversation, Kinds
  <2>2. g[i] = i + 1 /\ g[i] \in Mine(Line(e, n), n) /\ Line(e, n)'[i] = Line(e, n)[g[i]]
    BY <1>5 DEF Shifted, Within
  <2>3. i \in Nat \ {0}
    BY <1>3 DEF Behead, Mine
  <2>4. ~ (i + 1 <= 1)
    BY <2>3
  <2> QED BY <1>4, <2>1, <2>2, <2>4 DEF IntroFirst, IntroAt
<1>7. ~ Introduced(Line(e, n)', n)
  BY <1>6 DEF Introduced, Carries
<1>8. Line(Other(e), n)' = Line(Other(e), n)
  <2>1. PICK o \in End : o = Other(e)
    BY Ends
  <2>2. o # e
    BY <2>1, Ends
  <2>3. queue'[o] = queue[o] /\ wire'[o] = wire[o]
    BY <1>1, <2>2 DEF Popped, LibTyped
  <2>4. Line(o, n)' = Line(o, n)
    BY <2>3, LineOfStream
  <2> QED BY <2>1, <2>4
<1> QED
  BY <1>2, <1>3, <1>4, <1>5, <1>7, <1>8 DEF Shifted

\* The worker was free, so that nothing was being handed over, and no handler was running.
LEMMA TakesFree ==
  ASSUME LibTyped, LibTyped', OrderInv, NEW e \in End, NEW w \in Worker, NEW n \in Index, Takes(e, w, n)
  PROVE  /\ Offering(e, n) = {} /\ (e = "agent" => ~ Dialing(n))
         /\ \A d \in End : d # e => /\ Offering(d, n)' = Offering(d, n)
                                    /\ \A v \in Offering(d, n) : worker'[d][v].data = worker[d][v].data
         /\ \A v \in Worker : v # w => v \notin Offering(e, n)'
         /\ worker'[e][w].at # "data" => Offering(e, n)' = {}
<1>1. w = Home(n)
  BY TakesLine
<1>2. \A v \in Offering(e, n) : v = w
  BY <1>1 DEF OrderInv, Conversation, Arrived
<1>3. Offering(e, n) = {}
  BY <1>2 DEF Takes, Offering
<1>4. e = "agent" => ~ Dialing(n)
  BY <1>1 DEF OrderInv, Conversation, Dialing, Handling, Takes
<1>5. \A d \in End : d # e => /\ Offering(d, n)' = Offering(d, n)
                              /\ \A v \in Offering(d, n) : worker'[d][v].data = worker[d][v].data
  BY DEF Takes, Offering
<1>6. \A v \in Worker : v # w => v \notin Offering(e, n)'
  BY <1>3 DEF Takes, Offering
<1> QED
  BY <1>3, <1>4, <1>5, <1>6 DEF Offering

\* What is left to show when it does not start the handler.
LEMMA TakesConversation ==
  ASSUME StreamInv, LibTyped', AppTyped', OrderInv, NEW e \in End, NEW w \in Worker, NEW n \in Index,
         Takes(e, w, n), worker'[e][w].at # "handler",
         stream'[e][n].closed => stream[e][n].closed \/ copier[e][n].out \notin {"none", "syn"},
         stream'[e][n].replied => stream[e][n].replied \/ copier[e][n].out \notin {"none", "syn"},
         e = "agent" /\ stream'[e][n].replied => stream[e][n].replied,
         Pipeline(e, n)', Arrived(e, n)', Complete(e, n)'
  PROVE  Conversation(n)'
<1> DEFINE o == Other(e)
<1>1. /\ LibTyped /\ AppTyped /\ Conversation(n) /\ UNCHANGED <<wire, conn, said, heard, copier>>
      /\ o \in End /\ o # e /\ \A d \in End : d = e \/ d = o
  BY Ends DEF StreamInv, OrderInv, Takes
<1>2. (\E g : Within(Line(e, n)', Line(e, n), n, g)) /\ Line(o, n)' = Line(o, n)
  BY <1>1, TakesLine
<1>3. Same(Line(o, n)', Line(o, n), n)
  BY <1>2, SameSelf
<1>4. \A v \in Worker : Handling(v, n)' => Handling(v, n)
  BY Ends DEF Takes, Handling
<1>5. Dialing(n)' => Dialing(n)
  BY <1>4 DEF Dialing
<1>6. Introduced(Line("agent", n)', n) => Introduced(Line("agent", n), n)
  BY <1>1, <1>2, PartKept, Ends
<1>7. Barren(n) => Barren(n)'
  BY <1>1, <1>5, <1>6, BarrenKept
<1>8. stream'[o][n] = stream[o][n] /\ Offering(o, n)' = Offering(o, n)
      /\ \A v \in Offering(o, n) : worker'[o][v].data = worker[o][v].data
  <2>1. \A d \in End : d # e => /\ Offering(d, n)' = Offering(d, n)
                                /\ \A v \in Offering(d, n) : worker'[d][v].data = worker[d][v].data
    BY <1>1, TakesFree
  <2>2. PICK d \in End : d = o
    BY <1>1
  <2>3. Offering(d, n)' = Offering(d, n) /\ \A v \in Offering(d, n) : worker'[d][v].data = worker[d][v].data
    BY <1>1, <2>1, <2>2
  <2>4. stream'[o][n] = stream[o][n]
    BY <1>1 DEF Takes
  <2> HIDE DEF o
  <2> QED BY <2>2, <2>3, <2>4
<1> HIDE DEF o
<1>9. PICK d \in End : d = o
  BY <1>1
<1>10. Arrived(d, n)' /\ Base(d, n)' = Base(d, n)
  <2>1. Arrived(d, n) /\ Offering(d, n)' = Offering(d, n)
    BY <1>1, <1>8, <1>9 DEF Conversation
  <2> QED BY <1>1, <1>8, <1>9, <2>1, ArrivedKept
<1>11. Pipeline(d, n)'
  <2>1. Deliverable(d, n)' => Deliverable(d, n)
    BY <1>2, <1>5, <1>8, <1>9 DEF Deliverable
  <2> QED BY <1>1, <1>3, <1>9, <1>10, <2>1, PipelineKept DEF Conversation
<1>12. Complete(d, n)'
  BY <1>1, <1>7, <1>8, <1>9, <1>10, CompleteKept DEF Conversation
<1>13. \A c \in End : Pipeline(c, n)' /\ Arrived(c, n)' /\ Complete(c, n)'
  BY <1>1, <1>9, <1>10, <1>11, <1>12
<1>14. \A c \in End :
         /\ \E g : Within(Line(c, n)', Line(c, n), n, g)
         /\ stream'[c][n].closed => stream[c][n].closed \/ copier[c][n].out \notin {"none", "syn"}
         /\ stream'[c][n].replied => stream[c][n].replied \/ copier[c][n].out \notin {"none", "syn"}
         /\ conn'[c].open => conn[c].open
  BY <1>1, <1>2, <1>3, <1>8 DEF Same
<1>15. stream'["agent"][n].replied => stream["agent"][n].replied
  BY <1>1, <1>8, Ends
<1> QED
  BY <1>1, <1>4, <1>13, <1>14, <1>15, LostConversation

\* A frame that is dropped.
LEMMA DropOrder ==
  ASSUME StreamInv, LibTyped', AppTyped', OrderInv, NEW e \in End, NEW w \in Worker, NEW n \in Index,
         Takes(e, w, n), UNCHANGED <<worker, stream>>, Pipeline(e, n)'
  PROVE  OrderInv'
<1>1. LibTyped /\ Conversation(n) /\ UNCHANGED <<conn, said, heard, copier>> /\ worker'[e][w].at = "idle"
  BY DEF StreamInv, OrderInv, Takes
<1>2. Arrived(e, n)' /\ Base(e, n)' = Base(e, n)
  <2>1. Arrived(e, n) /\ Offering(e, n)' = Offering(e, n)
    BY <1>1 DEF Conversation, Offering
  <2> QED BY <1>1, <2>1, ArrivedKept
<1>3. Complete(e, n)'
  <2>1. (\E g : Within(Line(e, n)', Line(e, n), n, g)) /\ Line(Other(e), n)' = Line(Other(e), n)
    BY <1>1, TakesLine
  <2>2. Introduced(Line("agent", n)', n) => Introduced(Line("agent", n), n)
    BY <2>1, PartKept, Ends
  <2>3. Dialing(n)' => Dialing(n)
    BY DEF Dialing, Handling
  <2>4. Barren(n) => Barren(n)'
    BY <1>1, <2>2, <2>3, BarrenKept
  <2> QED BY <1>1, <1>2, <2>4, CompleteKept DEF Conversation
<1>4. Conversation(n)'
  BY <1>1, <1>2, <1>3, TakesConversation
<1> QED
  BY <1>4, TakesOrder

\* The frame taken is not a message: those on their way stay there.
LEMMA TakesPipeline ==
  ASSUME LibTyped, LibTyped', AppTyped, OrderInv, NEW e \in End, NEW w \in Worker, NEW n \in Index,
         Takes(e, w, n), Head(queue[e][w]).frame.type # "data",
         Deliverable(e, n)' => Deliverable(e, n), Base(e, n)' = Base(e, n)
  PROVE  Pipeline(e, n)'
<1>1. Pipeline(e, n) /\ UNCHANGED <<conn, said, heard, copier>>
  BY DEF OrderInv, Conversation, Takes
<1> SUFFICES ASSUME Deliverable(e, n)', copier'[e][n].in # "done"
             PROVE  Good(Line(e, n)', n, Base(e, n)', said'[Other(e)][n], conn'[e].open,
                         copier'[Other(e)][n].out = "done")
  BY DEF Pipeline
<1>2. /\ Behead(Line(e, n)', Line(e, n)) /\ Line(e, n)[1].type # "data"
  BY TakesLine
<1> DEFINE L == Line(e, n)
           M == Line(e, n)'
           base == Base(e, n)
           top == said[Other(e)][n]
           full == conn[e].open
           over == copier[Other(e)][n].out = "done"
<1>3. Good(L, n, base, top, full, over)
  BY <1>1 DEF Pipeline
<1>4. base \in Nat /\ top \in Nat
  BY BaseType
<1>5. Base(e, n)' = base /\ said'[Other(e)][n] = top /\ conn'[e].open = full
      /\ (copier'[Other(e)][n].out = "done") = over
  BY <1>1
<1>6. Behead(M, L) /\ L[1].type # "data"
  BY <1>2
<1> HIDE DEF L, M, base, top, full, over
<1>7. Good(M, n, base, top, full, over)
  BY <1>3, <1>4, <1>6, GoodBehead
<1> QED
  BY <1>5, <1>7 DEF M

\* SYN_REPLY: messages that follow can be delivered.
LEMMA ReplyOrder ==
  ASSUME StreamInv, LibTyped', AppTyped', OrderInv, NEW e \in End, NEW w \in Worker, NEW n \in Index,
         Takes(e, w, n), Head(queue[e][w]).frame.type = "reply", UNCHANGED worker,
         stream' = [stream EXCEPT ![e][n].replied = @ \/ stream[e][n].known]
  PROVE  OrderInv'
<1>1. /\ LibTyped /\ AppTyped /\ Conversation(n) /\ UNCHANGED <<conn, said, heard, copier>>
      /\ worker'[e][w].at = "idle" /\ stream \in [End -> [Index -> Streams]]
  BY DEF StreamInv, OrderInv, Takes, LibTyped
<1>2. Carries(Line(e, n), n, "reply") /\ Mine(Line(e, n), n) # {}
  BY <1>1, TakesLine DEF Carries
<1>3. e = "director"
  BY <1>1, <1>2, Ends DEF Conversation, Kinds
<1>4. copier[e][n].out \notin {"none", "syn"}
  BY <1>1, <1>2, <1>3 DEF Conversation, Before
<1>5. stream'[e][n].closed = stream[e][n].closed /\ stream'[e][n].known = stream[e][n].known
  BY <1>1 DEF Streams
<1>6. Arrived(e, n)' /\ Base(e, n)' = Base(e, n)
  <2>1. Arrived(e, n) /\ Offering(e, n)' = Offering(e, n)
    BY <1>1 DEF Conversation, Offering
  <2> QED BY <1>1, <1>5, <2>1, ArrivedKept
<1>7. Pipeline(e, n)'
  <2>1. Deliverable(e, n)
    BY <1>2 DEF Deliverable, Introduced
  <2> QED BY <1>1, <1>2, <1>6, <2>1, TakesPipeline, TakesLine
<1>8. Complete(e, n)'
  <2>1. Line("agent", n)' = Line("agent", n)
    BY <1>1, <1>3, TakesLine, Ends
  <2>2. Dialing(n)' => Dialing(n)
    BY DEF Dialing, Handling
  <2>3. Barren(n) => Barren(n)'
    BY <1>1, <2>1, <2>2, BarrenKept
  <2> QED BY <1>1, <1>5, <1>6, <2>3, CompleteKept DEF Conversation
<1>9. Conversation(n)'
  BY <1>1, <1>3, <1>4, <1>6, <1>7, <1>8, TakesConversation
<1> QED
  BY <1>9, TakesOrder

\* RST_STREAM: the stream is closed, and nothing had been sent to it.
LEMMA ResetOrder ==
  ASSUME StreamInv, LibTyped', AppTyped', OrderInv, NEW e \in End, NEW w \in Worker, NEW n \in Index,
         Takes(e, w, n), Head(queue[e][w]).frame.type = "rst", worker'[e][w].at \in {"idle", "reset"},
         ~ stream'[e][n].known
  PROVE  OrderInv'
<1>1. /\ LibTyped /\ AppTyped /\ Conversation(n) /\ UNCHANGED <<conn, said, heard, copier>>
  BY DEF StreamInv, OrderInv, Takes, LibTyped
<1>2. Carries(Line(e, n), n, "rst")
  BY <1>1, TakesLine DEF Carries
<1>3. e = "director"
  BY <1>1, <1>2, Ends DEF Conversation, Kinds
<1>4. Barren(n)
  BY <1>1, <1>2, <1>3 DEF Conversation, Refused
<1>5. Barren(n)'
  <2>1. Line("agent", n)' = Line("agent", n)
    BY <1>1, <1>3, TakesLine, Ends
  <2>2. Dialing(n)' => Dialing(n)
    BY <1>3, Ends DEF Dialing, Handling, Takes
  <2> QED BY <1>1, <1>4, <2>1, <2>2, BarrenKept
<1>6. Offering(e, n) = {} /\ Offering(e, n)' = {}
  BY <1>1, TakesFree
<1>7. Arrived(e, n)' /\ Base(e, n)' = Base(e, n)
  BY <1>1, <1>6 DEF Conversation, Arrived, Base
<1>8. Pipeline(e, n)'
  <2>1. ~ Deliverable(e, n)'
    BY <1>1, TakesLine DEF Deliverable
  <2> QED BY <2>1 DEF Pipeline
<1>9. Complete(e, n)'
  <2>1. copier[e][n].in # "done" => Base(e, n) <= said["agent"][n]
    BY <1>1, <1>3, Ends DEF Conversation, Arrived
  <2>2. Base(e, n) \in Nat /\ said["agent"][n] = 0
    BY <1>1, <1>4, BaseType DEF Barren
  <2>3. copier[e][n].in # "done" => Base(e, n) = said["agent"][n]
    BY <2>1, <2>2
  <2> QED BY <1>1, <1>3, <1>5, <1>7, <2>3, Ends DEF Complete
<1>10. copier[e][n].out \notin {"none", "syn"}
  BY <1>3, <1>4 DEF Barren
<1>11. Conversation(n)'
  BY <1>1, <1>3, <1>7, <1>8, <1>9, <1>10, TakesConversation, Ends
<1> QED
  BY <1>11, TakesOrder

\* A SYN: the handler of the stream begins.
LEMMA SynOrder ==
  ASSUME StreamInv, LibTyped', AppTyped', OrderInv, NEW e \in End, NEW w \in Worker, NEW n \in Index,
         Takes(e, w, n), Head(queue[e][w]).frame.type = "syn", UNCHANGED stream,
         worker' = [worker EXCEPT ![e][w] = [at |-> "handler", n |-> n, data |-> <<>>]]
  PROVE  OrderInv'
<1>1. /\ LibTyped /\ AppTyped /\ Conversation(n) /\ UNCHANGED <<conn, said, heard, copier>>
      /\ worker[e][w].at = "idle" /\ worker \in [End -> [Worker -> Workers]]
  BY DEF StreamInv, OrderInv, Takes, LibTyped
<1>2. Carries(Line(e, n), n, "syn") /\ Introduced(Line(e, n), n) /\ Mine(Line(e, n), n) # {}
  BY <1>1, TakesLine DEF Carries, Introduced
<1>3. e = "agent" /\ Other(e) = "director"
  BY <1>1, <1>2, Ends DEF Conversation, Kinds
<1>4. /\ ~ stream["agent"][n].replied /\ ~ Dialing(n) /\ copier["agent"][n].out = "none" /\ ~ Barren(n)
      /\ copier["director"][n].out \notin {"none", "syn"}
  BY <1>1, <1>2, <1>3 DEF Conversation, Unhandled, Barren, Before
<1>5. /\ w = Home(n) /\ ~ Introduced(Line("agent", n)', n)
      /\ \E g : Within(Line("agent", n)', Line("agent", n), n, g)
      /\ Line("director", n)' = Line("director", n)
  BY <1>1, <1>3, TakesLine
<1>6. worker'[e][w].at = "handler" /\ worker'[e][w].n = n
  BY <1>1
<1>7. Arrived("agent", n)' /\ Base("agent", n)' = Base("agent", n)
  <2>1. Offering(e, n) = {} /\ Offering(e, n)' = {}
    BY <1>1, <1>6, TakesFree
  <2> QED BY <1>1, <1>3, <2>1, Ends DEF Conversation, Arrived, Base, Home, Id
<1>8. Arrived("director", n)' /\ Base("director", n)' = Base("director", n)
  <2>1. PICK d \in End : d = "director"
    BY Ends
  <2>2. /\ Offering(d, n)' = Offering(d, n) /\ Arrived(d, n)
        /\ \A v \in Offering(d, n) : worker'[d][v].data = worker[d][v].data
    BY <1>1, <1>3, <2>1, TakesFree DEF Conversation
  <2>3. Arrived(d, n)' /\ Base(d, n)' = Base(d, n)
    BY <1>1, <2>2, ArrivedKept
  <2> QED BY <2>1, <2>3
<1>9. Pipeline("agent", n)'
  <2>1. Deliverable(e, n)
    BY <1>2 DEF Deliverable
  <2>2. Base(e, n)' = Base(e, n)
    BY <1>3, <1>7
  <2>3. Pipeline(e, n)'
    BY <1>1, <2>1, <2>2, TakesPipeline
  <2> QED BY <1>3, <2>3
<1>10. Pipeline("director", n)'
  <2>1. PICK d \in End : d = "director"
    BY Ends
  <2>2. Line(d, n)' = Line(d, n)
    BY <1>5, <2>1
  <2>3. Same(Line(d, n)', Line(d, n), n)
    BY <2>2, SameSelf
  <2>4. Deliverable(d, n)' => Deliverable(d, n)
    BY <2>1, <2>2 DEF Deliverable
  <2>5. Pipeline(d, n) /\ Base(d, n)' = Base(d, n)
    BY <1>1, <1>8, <2>1 DEF Conversation
  <2>6. Pipeline(d, n)'
    BY <1>1, <2>3, <2>4, <2>5, PipelineKept
  <2> QED BY <2>1, <2>6
<1>11. Complete("agent", n)' /\ Complete("director", n)'
  <2>1. Complete("director", n)
    BY <1>1, Ends DEF Conversation
  <2>2. Complete("director", n)'
    BY <1>1, <1>4, <1>8, <2>1, CompleteKept, Ends
  <2> QED BY <1>1, <1>4, <2>2 DEF Complete
<1>12. /\ IntroFirst(Line("agent", n)', n)
       /\ \A t : Carries(Line("agent", n)', n, t) => Carries(Line("agent", n), n, t)
  BY <1>1, <1>5, PartKept DEF Conversation, Kinds
<1>13. Silent("agent", n)' /\ Silent("director", n)'
  BY <1>1, <1>5, <1>12, Ends DEF Conversation, Silent
<1>14. Kinds(n)'
  BY <1>1, <1>5, <1>12 DEF Conversation, Kinds
<1>15. Before(n)' /\ Unhandled(n)'
  BY <1>1, <1>4, <1>5 DEF Before, Unhandled
<1>16. Refused(n)'
  BY <1>1, <1>4, <1>5 DEF Conversation, Refused
<1>17. \A v \in Worker : Handling(v, n)' => v = Home(n)
  BY <1>1, <1>3, <1>5 DEF Conversation, Handling
<1>18. Conversation(n)'
  BY <1>7, <1>8, <1>9, <1>10, <1>11, <1>13, <1>14, <1>15, <1>16, <1>17, Ends DEF Conversation, Home, Id
<1> QED
  BY <1>18, TakesOrder

\* A message is handed over.
LEMMA OfferOrder ==
  ASSUME StreamInv, LibTyped', AppTyped', OrderInv, NEW e \in End, NEW w \in Worker, NEW n \in Index,
         Takes(e, w, n), Head(queue[e][w]).frame.type = "data", Head(queue[e][w]).frame.data # <<>>,
         stream[e][n].known, stream[e][n].replied, ~ stream[e][n].closed, copier[e][n].in # "done",
         worker' = [worker EXCEPT ![e][w] = [at |-> "data", n |-> n, data |-> Head(queue[e][w]).frame.data]],
         Head(queue[e][w]).frame.flags # 1 => UNCHANGED stream
  PROVE  OrderInv'
<1> DEFINE L == Line(e, n)
           M == Line(e, n)'
           base == Base(e, n)
           top == said[Other(e)][n]
           full == conn[e].open
           over == copier[Other(e)][n].out = "done"
<1>1. /\ LibTyped /\ AppTyped /\ Conversation(n) /\ UNCHANGED <<conn, said, heard, copier>>
      /\ worker \in [End -> [Worker -> Workers]] /\ Arrived(e, n) /\ Pipeline(e, n)
  BY DEF StreamInv, OrderInv, Takes, LibTyped, Conversation
<1>2. Good(L, n, base, top, full, over)
  BY <1>1 DEF Pipeline, Deliverable
<1>3. base \in Nat /\ top \in Nat /\ Len(heard[e][n]) \in Nat /\ Len(copier[e][n].held) \in Nat
  BY <1>1, BaseType
<1>4. /\ w = Home(n) /\ Behead(M, L) /\ L[1] = Head(queue[e][w]).frame /\ DataAt(L, n, 1)
      /\ ~ Introduced(M, n)
  BY <1>1, TakesLine DEF DataAt
<1>5. L[1].data = <<base + 1>> /\ L[1].flags = 0 /\ base + 1 <= top /\ Good(M, n, base + 1, top, full, over)
  <2>1. Behead(M, L) /\ DataAt(L, n, 1) /\ L[1].data # <<>>
    BY <1>4
  <2> HIDE DEF L, M, base, top, full, over
  <2> QED BY <1>2, <1>3, <2>1, GoodTaken
<1>6. UNCHANGED stream
  BY <1>4, <1>5
<1>7. worker'[e][w].at = "data" /\ worker'[e][w].n = n /\ worker'[e][w].data = <<base + 1>>
  <2>1. worker'[e][w] = [at |-> "data", n |-> n, data |-> Head(queue[e][w]).frame.data]
    BY <1>1
  <2>2. Head(queue[e][w]).frame.data = <<base + 1>>
    BY <1>4, <1>5
  <2> QED BY <2>1, <2>2
<1>8. Offering(e, n) = {} /\ Offering(e, n)' = {w}
  <2>1. Offering(e, n) = {} /\ \A v \in Worker : v # w => v \notin Offering(e, n)'
    BY <1>1, TakesFree
  <2>2. w \in Offering(e, n)'
    BY <1>7 DEF Offering
  <2>3. Offering(e, n)' \subseteq Worker
    BY DEF Offering
  <2> QED BY <2>1, <2>2, <2>3
<1>9. Base(e, n)' = base + 1 /\ base = Len(heard[e][n]) + Len(copier[e][n].held)
  <2>1. Offering(e, n)' # {}
    BY <1>8
  <2>2. Base(e, n)' = Len(heard[e][n]) + Len(copier[e][n].held) + 1
    BY <1>1, <2>1 DEF Base
  <2>3. base = Len(heard[e][n]) + Len(copier[e][n].held)
    BY <1>3, <1>8 DEF Base
  <2> QED BY <2>2, <2>3
<1>10. Arrived(e, n)'
  <2>1. Home(n)' = Home(n)
    BY DEF Home
  <2> QED BY <1>1, <1>3, <1>4, <1>5, <1>6, <1>7, <1>8, <1>9, <2>1 DEF Arrived
<1>11. Pipeline(e, n)'
  <2>1. said'[Other(e)][n] = top /\ conn'[e].open = full /\ (copier'[Other(e)][n].out = "done") = over
    BY <1>1
  <2> HIDE DEF base, top, full, over
  <2> QED BY <1>5, <1>9, <2>1 DEF Pipeline
<1>12. Complete(e, n)'
  BY <1>6 DEF Complete
<1>13. Conversation(n)'
  BY <1>6, <1>7, <1>10, <1>11, <1>12, TakesConversation
<1> QED
  BY <1>13, TakesOrder

\* A FIN: all messages had come before it.
LEMMA FinOrder ==
  ASSUME StreamInv, LibTyped', AppTyped', OrderInv, NEW e \in End, NEW w \in Worker, NEW n \in Index,
         Takes(e, w, n), Head(queue[e][w]).frame.type = "data", Head(queue[e][w]).frame.flags = 1,
         stream[e][n].known, stream[e][n].replied, UNCHANGED worker,
         stream'[e][n].closed, stream'[e][n].replied = stream[e][n].replied
  PROVE  OrderInv'
<1> DEFINE L == Line(e, n)
           base == Base(e, n)
           top == said[Other(e)][n]
           full == conn[e].open
           over == copier[Other(e)][n].out = "done"
<1>1. /\ LibTyped /\ AppTyped /\ Conversation(n) /\ UNCHANGED <<conn, said, heard, copier>>
      /\ worker'[e][w].at = "idle" /\ Arrived(e, n) /\ Pipeline(e, n) /\ Silent(e, n) /\ Complete(e, n)
  BY DEF StreamInv, OrderInv, Takes, LibTyped, Conversation
<1>2. Offering(e, n) = {} /\ Offering(e, n)' = {}
  BY <1>1, TakesFree
<1>3. Arrived(e, n)' /\ Base(e, n)' = Base(e, n)
  BY <1>1, <1>2 DEF Arrived, Base
<1>4. Pipeline(e, n)'
  <2>1. ~ Deliverable(e, n)'
    BY <1>1, TakesLine DEF Deliverable
  <2> QED BY <2>1 DEF Pipeline
<1>5. copier[e][n].out \notin {"none", "syn"}
  BY <1>1 DEF Silent
<1>6. Complete(e, n)'
  <2>1. ASSUME ~ stream[e][n].closed, copier[e][n].in # "done" PROVE base = top /\ over
    <3>1. Good(L, n, base, top, full, over)
      BY <1>1, <2>1 DEF Pipeline, Deliverable
    <3>2. base \in Nat /\ top \in Nat /\ base <= top
      BY <1>1, <2>1, BaseType DEF Arrived
    <3>3. DataAt(L, n, 1) /\ L[1].flags = 1 /\ DOMAIN L \subseteq Nat \ {0}
      BY <1>1, TakesLine DEF DataAt, Behead
    <3> HIDE DEF L, base, top, full, over
    <3>4. top <= base /\ over
      BY <3>1, <3>2, <3>3, GoodEnd
    <3> QED BY <3>2, <3>4
  <2>2. CASE stream[e][n].closed
    <3>1. (\E g : Within(Line(e, n)', Line(e, n), n, g)) /\ Line(Other(e), n)' = Line(Other(e), n)
      BY <1>1, TakesLine
    <3>2. Introduced(Line("agent", n)', n) => Introduced(Line("agent", n), n)
      BY <3>1, PartKept, Ends
    <3>3. Dialing(n)' => Dialing(n)
      BY DEF Dialing, Handling
    <3>4. Barren(n) => Barren(n)'
      BY <1>1, <3>2, <3>3, BarrenKept
    <3> QED BY <1>1, <1>3, <2>2, <3>4, CompleteKept
  <2>3. CASE ~ stream[e][n].closed
    BY <1>1, <1>3, <2>1, <2>3 DEF Complete
  <2> QED BY <2>2, <2>3
<1>7. Conversation(n)'
  BY <1>1, <1>3, <1>4, <1>5, <1>6, TakesConversation
<1> QED
  BY <1>7, TakesOrder

\* DATA that is taken after the reader has gone.
LEMMA OrphanOrder ==
  ASSUME StreamInv, LibTyped', AppTyped', OrderInv, NEW e \in End, NEW w \in Worker, NEW n \in Index,
         Takes(e, w, n), worker'[e][w].at \in {"idle", "data"}, copier[e][n].in = "done",
         stream[e][n].replied, stream'[e][n].replied = stream[e][n].replied
  PROVE  OrderInv'
<1>1. /\ LibTyped /\ AppTyped /\ Conversation(n) /\ UNCHANGED <<conn, said, heard, copier>>
      /\ Arrived(e, n) /\ Silent(e, n)
  BY DEF StreamInv, OrderInv, Takes, LibTyped, Conversation
<1>2. copier[e][n].out \notin {"none", "syn"}
  BY <1>1 DEF Silent
<1>3. Arrived(e, n)'
  <2>1. \A v \in Offering(e, n)' : v = w
    BY <1>1, TakesFree DEF Offering
  <2>2. w = Home(n) /\ Home(n)' = Home(n)
    BY <1>1, TakesLine DEF Home
  <2> QED BY <1>1, <2>1, <2>2 DEF Arrived
<1>4. Pipeline(e, n)' /\ Complete(e, n)'
  BY <1>1 DEF Pipeline, Complete
<1>5. Conversation(n)'
  BY <1>1, <1>2, <1>3, <1>4, TakesConversation
<1> QED
  BY <1>5, TakesOrder

\* DATA.
LEMMA DataOrder ==
  ASSUME StreamInv, LibTyped', AppTyped', OrderInv, NEW e \in End, NEW w \in Worker, NEW n \in Index,
         Takes(e, w, n), Head(queue[e][w]).frame.type = "data",
         HandleData(e, w, n, Head(queue[e][w]).frame)
  PROVE  OrderInv'
<1> DEFINE f == Head(queue[e][w]).frame
           s == stream[e][n]
           taken == s.known /\ s.replied
<1>1. /\ LibTyped /\ AppTyped /\ Conversation(n) /\ UNCHANGED <<conn, said, heard, copier>>
      /\ stream \in [End -> [Index -> Streams]] /\ s \in Streams
      /\ worker \in [End -> [Worker -> Workers]] /\ worker[e][w].at = "idle" /\ Pipeline(e, n)
  BY DEF StreamInv, OrderInv, Takes, LibTyped, Conversation
<1>2. f \in Frames /\ f.flags \in {0, 1}
  BY <1>1, TakesLine DEF Frames
<1>3. /\ IF taken /\ f.data # <<>> /\ ~ s.closed
         THEN worker' = [worker EXCEPT ![e][w] = [at |-> "data", n |-> n, data |-> f.data]]
         ELSE UNCHANGED worker
      /\ stream' = IF taken /\ f.flags = 1
                   THEN [stream EXCEPT ![e][n] = RemoteFinished(s)] ELSE stream
  BY DEF HandleData, Wait
<1>4. worker'[e][w].at \in {"idle", "data"}
  BY <1>1, <1>3
<1>5. stream'[e][n].replied = stream[e][n].replied
  BY <1>1, <1>3 DEF RemoteFinished, Streams
<1>6. taken /\ f.flags = 1 => stream'[e][n].closed
  BY <1>1, <1>3 DEF RemoteFinished, Streams
<1>7. CASE copier[e][n].in = "done" /\ taken
  BY <1>4, <1>5, <1>7, OrphanOrder
<1>8. CASE copier[e][n].in # "done" /\ taken /\ f.data # <<>> /\ ~ s.closed
  <2>1. f.flags # 1 => UNCHANGED stream
    BY <1>3
  <2>2. worker' = [worker EXCEPT ![e][w] = [at |-> "data", n |-> n, data |-> f.data]]
    BY <1>3, <1>8
  <2> QED BY <1>8, <2>1, <2>2, OfferOrder
<1>9. CASE taken /\ (f.data = <<>> \/ s.closed) /\ f.flags = 1
  <2>1. UNCHANGED worker
    BY <1>3, <1>9
  <2> QED BY <1>5, <1>6, <1>9, <2>1, FinOrder
<1>10. CASE copier[e][n].in # "done" /\ taken /\ (f.data = <<>> \/ s.closed) /\ f.flags # 1
  <2>1. UNCHANGED <<worker, stream>>
    BY <1>3, <1>10
  <2>2. s.closed
    <3> SUFFICES ASSUME ~ s.closed PROVE FALSE
      OBVIOUS
    <3>1. Good(Line(e, n), n, Base(e, n), said[Other(e)][n], conn[e].open, copier[Other(e)][n].out = "done")
      BY <1>1, <1>10 DEF Pipeline, Deliverable
    <3>2. DataAt(Line(e, n), n, 1) /\ 1 \in Mine(Line(e, n), n) /\ Line(e, n)[1] = f
      BY <1>1, TakesLine DEF DataAt
    <3>3. \A i \in Mine(Line(e, n), n) : DataAt(Line(e, n), n, i) =>
            \/ Line(e, n)[i].flags = 1
            \/ \E k \in Nat : Line(e, n)[i].data = <<k>>
      <4>1. Base(e, n) + 1 .. said[Other(e)][n] \subseteq Nat
        BY <1>1, BaseType
      <4> QED BY <3>1, <4>1 DEF Good
    <3>4. \E k \in Nat : f.data = <<k>>
      BY <1>10, <3>2, <3>3
    <3>5. f.data # <<>>
      <4>1. PICK k \in Nat : f.data = <<k>>
        BY <3>4
      <4>2. <<k>> # <<>>
        OBVIOUS
      <4> HIDE DEF f
      <4> QED BY <4>1, <4>2
    <3> QED BY <1>10, <3>5
  <2>3. ~ Deliverable(e, n)'
    BY <1>1, <2>1, <2>2, TakesLine DEF Deliverable
  <2> QED BY <2>1, <2>3, DropOrder DEF Pipeline
<1>11. CASE ~ taken
  <2>1. UNCHANGED <<worker, stream>>
    BY <1>3, <1>11
  <2>2. e = "agent" => ~ Dialing(n)'
    BY <1>1, <2>1, TakesFree DEF Dialing, Handling
  <2>3. ~ Deliverable(e, n)'
    BY <1>1, <1>11, <2>1, <2>2, TakesLine DEF Deliverable
  <2> QED BY <2>1, <2>3, DropOrder DEF Pipeline
<1> QED
  BY <1>2, <1>7, <1>8, <1>9, <1>10, <1>11

\* The frames that a worker handles.
LEMMA HandleOrder ==
  ASSUME StreamInv, LibTyped', AppTyped', OrderInv, NEW e \in End, NEW w \in Worker, Handle(e, w),
         UNCHANGED app
  PROVE  OrderInv'
<1> DEFINE f == Head(queue[e][w]).frame
           n == IndexOf(f.id)
<1>1. /\ LibTyped /\ Queues /\ queue[e][w] # <<>> /\ Popped(e, w) /\ worker[e][w].at = "idle"
      /\ UNCHANGED <<said, heard, copier>>
      /\ stream \in [End -> [Index -> Streams]] /\ worker \in [End -> [Worker -> Workers]]
  BY DEF StreamInv, OrderInv, Handle, app, LibTyped
<1>2. f \in Frames
  BY <1>1, PopMine
<1>3. CASE f.type = "ping" /\ HandlePing(e, f)
  BY <1>1, <1>3, HandlePingOrder
<1>4. CASE f.type = "goaway" /\ HandleGoAway(e) /\ UNCHANGED <<wire, blocks>>
  BY <1>1, <1>4, HandleGoAwayOrder
<1>5. CASE /\ \/ f.type = "syn" /\ HandleSyn(e, w, n)
              \/ f.type = "reply" /\ HandleReply(e, n)
              \/ f.type = "rst" /\ HandleReset(e, w, n)
              \/ f.type = "data" /\ HandleData(e, w, n, f)
           /\ UNCHANGED <<wire, blocks>>
  <2>1. n \in Index /\ Of(f, n)
    BY <1>2, <1>5, OfStream
  <2>2. UNCHANGED conn
    BY <1>5 DEF HandleSyn, HandleReply, HandleReset, HandleData
  <2>3. PICK m \in Index : m = n
    BY <2>1
  <2>4. \/ f.type = "syn" /\ HandleSyn(e, w, m)
        \/ f.type = "reply" /\ HandleReply(e, m)
        \/ f.type = "rst" /\ HandleReset(e, w, m)
        \/ f.type = "data" /\ HandleData(e, w, m, f)
    BY <1>5, <2>3
  <2>5. stream[e][m] \in Streams
    BY <1>1
  <2>6. Of(f, m)
    BY <2>1, <2>3
  <2> HIDE DEF f, n
  <2>7. \/ UNCHANGED worker
        \/ \E at, data : worker' = [worker EXCEPT ![e][w] = [at |-> at, n |-> m, data |-> data]]
    BY <2>4 DEF HandleSyn, HandleReply, HandleReset, HandleData, Wait
  <2>8. /\ \A d \in End, v \in Worker : d # e \/ v # w => worker'[d][v] = worker[d][v]
        /\ worker'[e][w] = worker[e][w] \/ worker'[e][w].n = m
    <3>1. CASE UNCHANGED worker
      BY <3>1
    <3>2. CASE \E at, data : worker' = [worker EXCEPT ![e][w] = [at |-> at, n |-> m, data |-> data]]
      BY <1>1, <3>2
    <3> QED BY <2>7, <3>1, <3>2
  <2>9. stream' = stream \/ \E t \in Streams : /\ stream' = [stream EXCEPT ![e][m] = t]
                                               /\ t.known => stream[e][m].known
    <3>1. CASE HandleSyn(e, w, m)
      BY <3>1 DEF HandleSyn
    <3>2. CASE HandleReply(e, m)
      <4> DEFINE t == [stream[e][m] EXCEPT !.replied = @ \/ stream[e][m].known]
      <4>1. t \in Streams /\ t.known = stream[e][m].known
        BY <2>5 DEF Streams
      <4>2. stream' = [stream EXCEPT ![e][m] = t]
        BY <1>1, <3>2 DEF HandleReply
      <4> HIDE DEF t
      <4> QED BY <4>1, <4>2
    <3>3. CASE HandleReset(e, w, m)
      <4>1. /\ [stream[e][m] EXCEPT !.known = FALSE, !.closed = TRUE, !.replied = TRUE] \in Streams
            /\ ~ [stream[e][m] EXCEPT !.known = FALSE, !.closed = TRUE, !.replied = TRUE].known
            /\ [[stream[e][m] EXCEPT !.known = FALSE, !.closed = TRUE, !.replied = TRUE]
                  EXCEPT !.finished = TRUE] \in Streams
            /\ ~ [[stream[e][m] EXCEPT !.known = FALSE, !.closed = TRUE, !.replied = TRUE]
                    EXCEPT !.finished = TRUE].known
        BY <2>5 DEF Streams
      <4> QED BY <3>3, <4>1 DEF HandleReset
    <3>4. CASE HandleData(e, w, m, f)
      <4>1. RemoteFinished(stream[e][m]) \in Streams
            /\ (RemoteFinished(stream[e][m]).known => stream[e][m].known)
        BY <2>5 DEF RemoteFinished, Streams
      <4> QED BY <3>4, <4>1 DEF HandleData
    <3> QED BY <2>4, <3>1, <3>2, <3>3, <3>4
  <2>10. /\ \A d \in End, k \in Index : d # e \/ k # m => stream'[d][k] = stream[d][k]
         /\ stream'[e][m].known => stream[e][m].known
    <3>1. CASE stream' = stream
      BY <3>1
    <3>2. CASE \E t \in Streams : stream' = [stream EXCEPT ![e][m] = t] /\ (t.known => stream[e][m].known)
      BY <1>1, <3>2
    <3> QED BY <2>9, <3>1, <3>2
  <2>11. Takes(e, w, m)
    BY <1>1, <1>5, <2>2, <2>6, <2>8, <2>10 DEF Takes, f
  <2>12. CASE f.type = "syn" /\ HandleSyn(e, w, m)
    <3>1. UNCHANGED stream
      BY <2>12 DEF HandleSyn
    <3>2. CASE stream[e][m].known
      BY <2>11, <2>12, <3>1, <3>2, SynOrder DEF HandleSyn, Wait, f
    <3>3. CASE ~ stream[e][m].known
      <4>1. UNCHANGED <<worker, stream>>
        BY <2>12, <3>1, <3>3 DEF HandleSyn
      <4>2. ~ Deliverable(e, m)'
        BY <1>1, <2>11, <3>3, <4>1, TakesLine DEF Deliverable
      <4> QED BY <2>11, <4>1, <4>2, DropOrder DEF Pipeline
    <3> QED BY <3>2, <3>3
  <2>13. CASE f.type = "reply" /\ HandleReply(e, m)
    BY <2>11, <2>13, ReplyOrder DEF HandleReply, f
  <2>14. CASE f.type = "rst" /\ HandleReset(e, w, m)
    <3>1. worker'[e][w].at \in {"idle", "reset"}
      BY <1>1, <2>14 DEF HandleReset, Wait
    <3>2. ~ stream'[e][m].known
      <4> DEFINE x == [stream[e][m] EXCEPT !.known = FALSE, !.closed = TRUE, !.replied = TRUE]
                 y == [x EXCEPT !.finished = TRUE]
      <4>1. ~ x.known /\ ~ y.known
        BY <2>5 DEF Streams
      <4>2. \/ stream' = stream /\ ~ stream[e][m].known
            \/ stream' = [stream EXCEPT ![e][m] = x]
            \/ stream' = [stream EXCEPT ![e][m] = y]
        BY <2>14 DEF HandleReset
      <4> HIDE DEF x, y
      <4> QED BY <1>1, <4>1, <4>2
    <3> QED BY <2>11, <2>14, <3>1, <3>2, ResetOrder DEF f
  <2>15. CASE f.type = "data" /\ HandleData(e, w, m, f)
    BY <2>11, <2>15, DataOrder DEF f
  <2> QED BY <2>4, <2>12, <2>13, <2>14, <2>15
<1> QED
  BY <1>1, <1>3, <1>4, <1>5 DEF Handle

-----------------------------------------------------------------------------
(* The copiers. *)

\* A step of one of the goroutines of stream n.
Works(n) ==
  /\ UNCHANGED queue
  /\ \A d \in End : conn'[d].open = conn[d].open /\ conn'[d].resets = conn[d].resets
  /\ \A d \in End, m \in Index : m # n =>
       /\ Same(Line(d, m)', Line(d, m), m)
       /\ stream'[d][m] = stream[d][m] /\ copier'[d][m] = copier[d][m]
       /\ said'[d][m] = said[d][m] /\ heard'[d][m] = heard[d][m]
  /\ \A d \in End, w \in Worker :
       worker'[d][w] = worker[d][w] \/ (worker[d][w].n = n /\ worker'[d][w].at = "idle")
  /\ \A d \in End : stream'[d][n].known => stream[d][n].known \/ Prompt(queue[d][Home(n)], n)

\* It concerns no other stream.
LEMMA WorksOrder ==
  ASSUME StreamInv, LibTyped', AppTyped', OrderInv, NEW n \in Index, Works(n), Conversation(n)'
  PROVE  OrderInv'
<1>1. /\ LibTyped /\ AppTyped /\ Queues /\ conn["director"].resets = {} /\ UNCHANGED queue
      /\ \A d \in End : conn'[d].open = conn[d].open /\ conn'[d].resets = conn[d].resets
  BY DEF StreamInv, OrderInv, Works
<1>2. Queues'
  <2>1. \A d \in End, m \in Index :
          stream'[d][m].known => stream[d][m].known \/ Prompt(queue[d][Home(m)], m)
    BY DEF Works
  <2> QED BY <1>1, <2>1, SameQueues
<1>3. ASSUME NEW m \in Index, m # n PROVE Conversation(m)'
  <2>1. ASSUME NEW d \in End
        PROVE  /\ Same(Line(d, m)', Line(d, m), m)
               /\ stream'[d][m] = stream[d][m] /\ copier'[d][m] = copier[d][m]
               /\ said'[d][m] = said[d][m] /\ heard'[d][m] = heard[d][m]
    BY <1>3 DEF Works
  <2>2. ASSUME NEW d \in End, NEW w \in Worker
        PROVE  /\ worker'[d][w].at \in {"data", "handler"} /\ worker'[d][w].n = m =>
                    worker'[d][w] = worker[d][w]
               /\ worker[d][w].at \in {"data", "handler"} /\ worker[d][w].n = m =>
                    worker'[d][w] = worker[d][w]
    <3>1. worker'[d][w] = worker[d][w] \/ (worker[d][w].n = n /\ worker'[d][w].at = "idle")
      BY DEF Works
    <3> QED BY <1>3, <3>1
  <2>3. \A d \in End : Offering(d, m)' = Offering(d, m)
                       /\ \A w \in Offering(d, m) : worker'[d][w].data = worker[d][w].data
    BY <2>2 DEF Offering
  <2>4. \A w \in Worker : Handling(w, m)' <=> Handling(w, m)
    BY <2>2, Ends DEF Handling
  <2>5. Calm(m)
    BY <1>1, <2>1, <2>3, <2>4, Ends DEF Calm
  <2> QED BY <1>1, <2>5, CalmConversation DEF OrderInv
<1>4. \A m \in Index : Conversation(m)'
  BY <1>3
<1> QED
  BY <1>1, <1>2, <1>4, Ends DEF OrderInv

\* The step brings the stream no introduction, and its copiers have begun before.
Steady(n) ==
  /\ \A d \in End :
       /\ IntroFirst(Line(d, n), n) => IntroFirst(Line(d, n)', n)
       /\ \A t : Carries(Line(d, n)', n, t) =>
            \/ Carries(Line(d, n), n, t)
            \/ t = "data" /\ copier[Other(d)][n].out \in {"copy", "finish"}
       /\ \/ copier'[d][n].out = copier[d][n].out
          \/ /\ copier[d][n].out \in {"copy", "close", "finish"}
             /\ copier'[d][n].out \in {"close", "finish", "done"}
       /\ copier[d][n].out \in {"none", "syn"} =>
            /\ said'[d][n] = said[d][n] /\ copier'[d][n].in = copier[d][n].in
            /\ (stream'[d][n].closed => stream[d][n].closed)
            /\ (stream'[d][n].replied => stream[d][n].replied)
       /\ copier[d][n].out # "copy" => said'[d][n] = said[d][n]
       /\ (conn'[d].open => conn[d].open)
  /\ stream'["agent"][n].replied => stream["agent"][n].replied
  /\ \A w \in Worker : Handling(w, n)' => Handling(w, n)
  /\ Id(n) \in conn'["agent"].resets => Id(n) \in conn["agent"].resets

\* A stream that was refused remains so.
LEMMA SteadyBarren ==
  ASSUME NEW n \in Index, Steady(n), Conversation(n)
  PROVE  Barren(n) => Barren(n)'
<1> SUFFICES ASSUME Barren(n) PROVE Barren(n)'
  OBVIOUS
<1>1. ~ Introduced(Line("agent", n)', n)
  BY Ends DEF Steady, Barren, Introduced
<1>2. ~ Dialing(n)'
  BY DEF Steady, Barren, Dialing
<1>3. /\ said'["agent"][n] = 0 /\ copier'["agent"][n].out \in {"none", "done"}
      /\ copier'["director"][n].out \notin {"none", "syn"}
  BY Ends DEF Steady, Barren
<1> QED
  BY <1>1, <1>2, <1>3 DEF Barren

\* What is left to show of a step of a copier.
LEMMA SteadyConversation ==
  ASSUME NEW n \in Index, Steady(n), Conversation(n),
         \A d \in End : Pipeline(d, n)' /\ Arrived(d, n)' /\ Complete(d, n)'
  PROVE  Conversation(n)'
<1>1. Barren(n) => Barren(n)'
  BY SteadyBarren
<1>2. Dialing(n)' => Dialing(n)
  BY DEF Steady, Dialing
<1>3. \A d \in End : Silent(d, n)'
  BY Ends DEF Conversation, Silent, Steady
<1>4. \A d \in End : Introduced(Line(d, n)', n) => Introduced(Line(d, n), n)
  BY DEF Steady, Introduced
<1>5. Kinds(n)'
  <2>1. \A d \in End : IntroFirst(Line(d, n), n) => IntroFirst(Line(d, n)', n)
    BY DEF Steady
  <2>2. \A d \in End : \A t \in {"syn", "reply", "rst"} :
          Carries(Line(d, n)', n, t) => Carries(Line(d, n), n, t)
    BY DEF Steady
  <2> QED BY <2>1, <2>2, Ends DEF Conversation, Kinds
<1>6. Before(n)'
  <2> SUFFICES ASSUME copier'["director"][n].out \in {"none", "syn"}
               PROVE  /\ Mine(Line("agent", n)', n) = {} /\ Mine(Line("director", n)', n) = {}
                      /\ ~ Dialing(n)' /\ Id(n) \notin conn'["agent"].resets
                      /\ copier'["agent"][n].out = "none" \/ ~ conn'["agent"].open
                      /\ copier'["agent"][n].out \in {"none", "done"}
    BY DEF Before, Id
  <2>1. copier["director"][n].out \in {"none", "syn"}
    BY Ends DEF Steady
  <2>2. /\ Mine(Line("agent", n), n) = {} /\ Mine(Line("director", n), n) = {}
        /\ ~ Dialing(n) /\ Id(n) \notin conn["agent"].resets
        /\ copier["agent"][n].out = "none" \/ ~ conn["agent"].open
        /\ copier["agent"][n].out \in {"none", "done"}
    BY <2>1 DEF Conversation, Before
  <2>3. \A d \in End : Mine(Line(d, n), n) = {} /\ copier[Other(d)][n].out \notin {"copy", "finish"}
    BY <2>1, <2>2, Ends
  <2>4. \A d \in End : \A t : ~ Carries(Line(d, n)', n, t)
    <3>1. \A d \in End : \A t : ~ Carries(Line(d, n), n, t)
      BY <2>3 DEF Carries
    <3> QED BY <2>3, <3>1 DEF Steady
  <2>5. \A d \in End : Mine(Line(d, n)', n) = {}
    BY <2>4 DEF Carries
  <2> QED BY <1>2, <2>2, <2>5, Ends DEF Steady
<1>7. Unhandled(n)'
  BY <1>2, <1>4, Ends DEF Conversation, Unhandled, Steady
<1>8. Refused(n)'
  <2>1. Carries(Line("director", n)', n, "rst") => Carries(Line("director", n), n, "rst")
    BY Ends DEF Steady
  <2> QED BY <1>1, <2>1 DEF Conversation, Refused, Steady
<1>9. \A w \in Worker : Handling(w, n)' => w = Home(n)
  BY DEF Conversation, Steady
<1> QED
  BY <1>3, <1>5, <1>6, <1>7, <1>8, <1>9 DEF Conversation, Home, Id

\* The lines when nothing is written or taken.
LEMMA LinesStill ==
  ASSUME LibTyped, LibTyped', UNCHANGED <<wire, queue>>, NEW d \in End, NEW n \in Index
  PROVE  Line(d, n)' = Line(d, n) /\ Same(Line(d, n)', Line(d, n), n)
<1>1. Line(d, n)' = Line(d, n)
  BY LineOfStream
<1> QED
  BY <1>1, SameSelf

\* The end of a stream that a step leaves alone.
LEMMA EndKept ==
  ASSUME LibTyped, AppTyped, LibTyped', NEW n \in Index, Conversation(n), NEW e \in End,
         Line(e, n)' = Line(e, n), stream'[e][n] = stream[e][n],
         copier'[e][n].in = copier[e][n].in, copier'[e][n].held = copier[e][n].held,
         copier'[e][n].out = "copy" => copier[e][n].out = "copy",
         said'[Other(e)][n] = said[Other(e)][n], heard'[e][n] = heard[e][n],
         Offering(e, n)' = Offering(e, n),
         \A w \in Offering(e, n) : worker'[e][w].data = worker[e][w].data,
         conn'[e].open = conn[e].open, Dialing(n)' => Dialing(n), Barren(n) => Barren(n)',
         copier[Other(e)][n].out = "done" => copier'[Other(e)][n].out = "done"
  PROVE  Pipeline(e, n)' /\ Arrived(e, n)' /\ Complete(e, n)' /\ Base(e, n)' = Base(e, n)
<1>1. Pipeline(e, n) /\ Arrived(e, n) /\ Complete(e, n)
  BY DEF Conversation
<1>2. Arrived(e, n)' /\ Base(e, n)' = Base(e, n)
  BY <1>1, ArrivedKept
<1>3. Same(Line(e, n)', Line(e, n), n)
  BY SameSelf
<1>4. Deliverable(e, n)' => Deliverable(e, n)
  BY DEF Deliverable
<1>5. Pipeline(e, n)'
  BY <1>1, <1>2, <1>3, <1>4, PipelineKept
<1>6. Complete(e, n)'
  BY <1>1, <1>2, CompleteKept
<1> QED
  BY <1>2, <1>5, <1>6

\* Stream.Close: no message is taken after it.
LEMMA CloseOutOrder ==
  ASSUME StreamInv, LibTyped', AppTyped', OrderInv, NEW e \in End, NEW n \in Index, CloseOut(e, n)
  PROVE  OrderInv'
<1>1. /\ LibTyped /\ AppTyped /\ Conversation(n) /\ Offering(e, n) = {} /\ copier[e][n].out = "close"
      /\ stream \in [End -> [Index -> Streams]] /\ copier \in [End -> [Index -> Copiers]]
      /\ UNCHANGED <<wire, conn, queue, worker, said, heard>>
  BY DEF StreamInv, OrderInv, CloseOut, CloseChan, LibTyped, AppTyped
<1>2. /\ \A d \in End, m \in Index : (d # e \/ m # n) => stream'[d][m] = stream[d][m]
      /\ stream'[e][n].closed /\ stream'[e][n].replied = stream[e][n].replied
      /\ stream'[e][n].known => stream[e][n].known
  <2>1. stream' = [stream EXCEPT ![e][n].closed = TRUE, ![e][n].known = @ /\ ~stream[e][n].closed]
    BY DEF CloseOut, CloseChan
  <2>2. stream[e][n] \in Streams
    BY <1>1
  <2> QED BY <1>1, <2>1, <2>2 DEF Streams
<1>3. /\ \A d \in End, m \in Index : (d # e \/ m # n) => copier'[d][m] = copier[d][m]
      /\ copier'[e][n].out = "finish" /\ copier'[e][n].in = copier[e][n].in
      /\ copier'[e][n].held = copier[e][n].held
  <2>1. copier' = [copier EXCEPT ![e][n].out = "finish"]
    BY DEF CloseOut
  <2>2. copier[e][n] \in Copiers
    BY <1>1
  <2> QED BY <1>1, <2>1, <2>2 DEF Copiers
<1>4. \A d \in End, m \in Index : Line(d, m)' = Line(d, m) /\ Same(Line(d, m)', Line(d, m), m)
  BY <1>1, LinesStill
<1>5. Works(n)
  <2>1. \A d \in End : stream'[d][n].known => stream[d][n].known
    BY <1>2
  <2> QED BY <1>1, <1>2, <1>3, <1>4, <2>1 DEF Works
<1>6. \A d \in End : Offering(d, n)' = Offering(d, n)
                     /\ \A w \in Offering(d, n) : worker'[d][w].data = worker[d][w].data
  BY <1>1 DEF Offering
<1>7. Dialing(n)' => Dialing(n)
  BY <1>1 DEF Dialing, Handling
<1>8. Steady(n)
  <2>1. copier["agent"][n].out # "none" \/ e = "director"
    BY <1>1, Ends
  <2>2. \A d \in End :
          /\ \/ copier'[d][n].out = copier[d][n].out
             \/ /\ copier[d][n].out \in {"copy", "close", "finish"}
                /\ copier'[d][n].out \in {"close", "finish", "done"}
          /\ copier[d][n].out \in {"none", "syn"} =>
               copier'[d][n].in = copier[d][n].in /\ stream'[d][n] = stream[d][n]
          /\ stream'[d][n].replied = stream[d][n].replied
    BY <1>1, <1>2, <1>3
  <2>3. \A w \in Worker : Handling(w, n)' => Handling(w, n)
    BY <1>1 DEF Handling
  <2> QED BY <1>1, <1>4, <2>2, <2>3, Ends DEF Steady
<1>9. Barren(n) => Barren(n)'
  BY <1>1, <1>8, SteadyBarren
<1>10. ASSUME NEW d \in End, d # e PROVE Pipeline(d, n)' /\ Arrived(d, n)' /\ Complete(d, n)'
  <2>1. /\ Line(d, n)' = Line(d, n) /\ stream'[d][n] = stream[d][n] /\ copier'[d][n] = copier[d][n]
        /\ (copier[Other(d)][n].out = "done" => copier'[Other(d)][n].out = "done")
    BY <1>1, <1>2, <1>3, <1>4, <1>10, Ends
  <2> QED BY <1>1, <1>6, <1>7, <1>9, <2>1, EndKept
<1>11. Arrived(e, n)' /\ Base(e, n)' = Base(e, n)
  <2>1. Arrived(e, n) /\ Offering(e, n)' = {}
    BY <1>1, <1>6 DEF Conversation
  <2> QED BY <1>1, <1>3, <2>1 DEF Arrived, Base
<1>12. Pipeline(e, n)'
  <2>1. Deliverable(e, n)' => Deliverable(e, n)
    BY <1>2, <1>4 DEF Deliverable
  <2>2. /\ Pipeline(e, n) /\ Same(Line(e, n)', Line(e, n), n)
        /\ (copier'[e][n].in # "done" => copier[e][n].in # "done")
        /\ (copier[Other(e)][n].out = "done" => copier'[Other(e)][n].out = "done")
    BY <1>1, <1>3, <1>4, Ends DEF Conversation
  <2> QED BY <1>1, <1>11, <2>1, <2>2, PipelineKept
<1>13. Complete(e, n)'
  BY <1>3 DEF Complete
<1>14. \A d \in End : Pipeline(d, n)' /\ Arrived(d, n)' /\ Complete(d, n)'
  BY <1>10, <1>11, <1>12, <1>13
<1>15. Conversation(n)'
  BY <1>1, <1>8, <1>14, SteadyConversation
<1> QED
  BY <1>5, <1>15, WorksOrder

\* What a step of the "in" copier of stream n at e leaves alone.
Reads(e, n) ==
  /\ UNCHANGED <<wire, conn, queue, stream, said>>
  /\ \A d \in End, m \in Index : (d # e \/ m # n) =>
       copier'[d][m] = copier[d][m] /\ heard'[d][m] = heard[d][m]
  /\ copier'[e][n].out = copier[e][n].out
  /\ \A d \in End, w \in Worker :
       \/ worker'[d][w] = worker[d][w]
       \/ d = e /\ worker[d][w].at = "data" /\ worker[d][w].n = n /\ worker'[d][w].at = "idle"
  /\ copier[e][n].in \in {"read", "write"}

\* It concerns no other stream, and not the other end.
LEMMA ReadsOrder ==
  ASSUME StreamInv, LibTyped', AppTyped', OrderInv, NEW e \in End, NEW n \in Index, Reads(e, n),
         Arrived(e, n)', copier'[e][n].in # "done" => Base(e, n)' = Base(e, n)
  PROVE  OrderInv'
<1>1. /\ LibTyped /\ AppTyped /\ Conversation(n) /\ UNCHANGED <<wire, conn, queue, stream, said>>
      /\ copier[e][n].in # "done" /\ copier[e][n].in # "none"
  BY DEF StreamInv, OrderInv, Reads
<1>2. \A d \in End, m \in Index : Line(d, m)' = Line(d, m) /\ Same(Line(d, m)', Line(d, m), m)
  BY <1>1, LinesStill
<1>3. Works(n)
  BY <1>1, <1>2 DEF Works, Reads
<1>4. \A w \in Worker : Handling(w, n)' => Handling(w, n)
  BY Ends DEF Reads, Handling
<1>5. Dialing(n)' => Dialing(n)
  BY <1>4 DEF Dialing
<1>6. Steady(n)
  <2>1. copier[e][n].out \notin {"none", "syn"}
    BY <1>1 DEF Conversation, Silent
  <2>2. \A d \in End : /\ copier'[d][n].out = copier[d][n].out
                       /\ copier[d][n].out \in {"none", "syn"} => copier'[d][n].in = copier[d][n].in
    BY <2>1 DEF Reads
  <2> QED BY <1>1, <1>2, <1>4, <2>2 DEF Steady
<1>7. Barren(n) => Barren(n)'
  BY <1>1, <1>6, SteadyBarren
<1>8. ASSUME NEW d \in End, d # e PROVE Pipeline(d, n)' /\ Arrived(d, n)' /\ Complete(d, n)'
  <2>1. /\ Offering(d, n)' = Offering(d, n) /\ copier'[d][n] = copier[d][n] /\ heard'[d][n] = heard[d][n]
        /\ \A w \in Offering(d, n) : worker'[d][w].data = worker[d][w].data
        /\ (copier[Other(d)][n].out = "done" => copier'[Other(d)][n].out = "done")
    BY <1>8, Ends DEF Reads, Offering
  <2> QED BY <1>1, <1>2, <1>5, <1>7, <2>1, EndKept
<1>9. Pipeline(e, n)'
  <2>1. CASE copier'[e][n].in = "done"
    BY <2>1 DEF Pipeline
  <2>2. CASE copier'[e][n].in # "done"
    <3>1. Deliverable(e, n)' => Deliverable(e, n)
      BY <1>1, <1>2, <1>5 DEF Deliverable
    <3>2. /\ Pipeline(e, n) /\ Same(Line(e, n)', Line(e, n), n) /\ Base(e, n)' = Base(e, n)
          /\ (copier[Other(e)][n].out = "done" => copier'[Other(e)][n].out = "done")
      BY <1>1, <1>2, <2>2, Ends DEF Conversation, Reads
    <3> QED BY <1>1, <2>2, <3>1, <3>2, PipelineKept
  <2> QED BY <2>1, <2>2
<1>10. Complete(e, n)'
  <2>1. CASE copier'[e][n].in = "done"
    BY <2>1 DEF Complete
  <2>2. CASE copier'[e][n].in # "done"
    <3>1. /\ Complete(e, n) /\ Base(e, n)' = Base(e, n) /\ copier'[e][n].out = copier[e][n].out
          /\ (copier[Other(e)][n].out = "done" => copier'[Other(e)][n].out = "done")
      BY <1>1, <2>2, Ends DEF Conversation, Reads
    <3> QED BY <1>1, <1>7, <3>1, CompleteKept
  <2> QED BY <2>1, <2>2
<1>11. \A d \in End : Pipeline(d, n)' /\ Arrived(d, n)' /\ Complete(d, n)'
  BY <1>8, <1>9, <1>10
<1>12. Conversation(n)'
  BY <1>1, <1>6, <1>11, SteadyConversation
<1> QED
  BY <1>3, <1>12, WorksOrder

\* The reader stops.
LEMMA ShutInOrder ==
  ASSUME StreamInv, LibTyped', AppTyped', OrderInv, NEW e \in End, NEW n \in Index, ShutIn(e, n),
         copier[e][n].in \in {"read", "write"}, UNCHANGED <<wire, conn, queue, stream, said, heard, worker>>
  PROVE  OrderInv'
<1>1. /\ AppTyped /\ Arrived(e, n) /\ copier \in [End -> [Index -> Copiers]]
      /\ copier[e][n] \in Copiers
      /\ copier' = [copier EXCEPT ![e][n].in = "done", ![e][n].held = <<>>]
  BY DEF StreamInv, AppTyped, OrderInv, Conversation, ShutIn
<1>2. /\ \A d \in End, m \in Index : (d # e \/ m # n) => copier'[d][m] = copier[d][m]
      /\ copier'[e][n].out = copier[e][n].out /\ copier'[e][n].in = "done"
      /\ copier'[e][n].held = <<>>
  BY <1>1 DEF Copiers
<1>3. Reads(e, n)
  BY <1>2 DEF Reads
<1>4. Arrived(e, n)'
  <2>1. Offering(e, n)' = Offering(e, n) /\ Home(n)' = Home(n)
    BY DEF Offering, Home
  <2>2. \A w \in Offering(e, n) : w = Home(n)
    BY <1>1 DEF Arrived
  <2>3. /\ heard[e][n] = [k \in 1 .. Len(heard[e][n]) |-> k]
        /\ Len(heard[e][n]) <= said[Other(e)][n]
    BY <1>1 DEF Arrived
  <2> QED BY <1>2, <2>1, <2>2, <2>3 DEF Arrived
<1> QED
  BY <1>2, <1>3, <1>4, ReadsOrder

\* Stream.Read.
LEMMA ReadInOrder ==
  ASSUME StreamInv, LibTyped', AppTyped', OrderInv, NEW e \in End, NEW n \in Index, ReadIn(e, n)
  PROVE  OrderInv'
<1>1. /\ AppTyped /\ Arrived(e, n) /\ copier \in [End -> [Index -> Copiers]]
      /\ worker \in [End -> [Worker -> Workers]] /\ copier[e][n] \in Copiers
      /\ UNCHANGED <<wire, conn, queue, stream, said, heard>> /\ copier[e][n].in = "read"
  <2>1. AppTyped /\ Arrived(e, n) /\ worker \in [End -> [Worker -> Workers]]
    BY DEF StreamInv, LibTyped, OrderInv, Conversation
  <2>2. UNCHANGED <<wire, conn, queue, stream, said, heard>> /\ copier[e][n].in = "read"
    BY DEF ReadIn
  <2> QED BY <2>1, <2>2 DEF AppTyped
<1>2. CASE \E w \in Offering(e, n) :
             /\ copier' = [copier EXCEPT ![e][n].in = "write", ![e][n].held = worker[e][w].data]
             /\ worker' = [worker EXCEPT ![e][w] = Idle]
  <2>1. PICK w \in Offering(e, n) :
             /\ copier' = [copier EXCEPT ![e][n].in = "write", ![e][n].held = worker[e][w].data]
             /\ worker' = [worker EXCEPT ![e][w] = Idle]
    BY <1>2
  <2>2. w \in Worker /\ worker[e][w].at = "data" /\ worker[e][w].n = n
    BY <2>1 DEF Offering
  <2>3. /\ \A d \in End, m \in Index : (d # e \/ m # n) => copier'[d][m] = copier[d][m]
        /\ copier'[e][n].out = copier[e][n].out /\ copier'[e][n].in = "write"
        /\ copier'[e][n].held = worker[e][w].data
    BY <1>1, <2>1 DEF Copiers
  <2>4. /\ \A d \in End, v \in Worker : (d # e \/ v # w) => worker'[d][v] = worker[d][v]
        /\ worker'[e][w].at = "idle"
    BY <1>1, <2>1, <2>2 DEF Idle
  <2>5. Reads(e, n)
    BY <1>1, <2>2, <2>3, <2>4 DEF Reads
  <2>6. Offering(e, n)' = {}
    <3>1. \A v \in Offering(e, n) : v = w
      BY <1>1, <2>1 DEF Arrived
    <3> QED BY <2>4, <3>1 DEF Offering
  <2>7. copier[e][n].held = <<>> /\ Len(heard[e][n]) \in Nat
    BY <1>1, BaseType DEF Arrived
  <2>8. worker[e][w].data = <<Len(heard[e][n]) + 1>>
    BY <1>1, <2>1, <2>7 DEF Arrived
  <2>9. Base(e, n) = Len(heard[e][n]) + 1 /\ Base(e, n)' = Len(heard[e][n]) + 1
    <3>1. Offering(e, n) # {}
      BY <2>1
    <3>2. Base(e, n) = Len(heard[e][n]) + 1
      <4>1. Len(copier[e][n].held) = 0
        BY <2>7
      <4>2. Base(e, n) = Len(heard[e][n]) + Len(copier[e][n].held) + 1
        BY <3>1 DEF Base
      <4> QED BY <2>7, <4>1, <4>2
    <3>3. copier'[e][n].held = <<Len(heard[e][n]) + 1>>
      BY <2>3, <2>8
    <3>4. Len(copier'[e][n].held) = 1
      BY <3>3
    <3>5. Base(e, n)' = Len(heard'[e][n]) + Len(copier'[e][n].held) + 0
      BY <2>6 DEF Base
    <3>6. Base(e, n)' = Len(heard[e][n]) + 1
      BY <1>1, <2>7, <3>4, <3>5
    <3> QED BY <3>2, <3>6
  <2>10. Arrived(e, n)'
    <3>1. copier'[e][n].held = <<Len(heard[e][n]) + 1>>
      BY <2>3, <2>8
    <3> QED BY <1>1, <2>3, <2>6, <2>9, <3>1 DEF Arrived
  <2> QED BY <2>5, <2>9, <2>10, ReadsOrder
<1>3. CASE ShutIn(e, n) /\ UNCHANGED worker
  BY <1>1, <1>3, ShutInOrder
<1> QED
  BY <1>2, <1>3 DEF ReadIn

\* A message that has arrived.
LEMMA HeardMore ==
  ASSUME NEW h \in Seq(Nat), h = [k \in 1 .. Len(h) |-> k]
  PROVE  /\ Len(h) \in Nat /\ Len(h \o <<Len(h) + 1>>) = Len(h) + 1
         /\ h \o <<Len(h) + 1>> = [k \in 1 .. Len(h) + 1 |-> k]
<1> DEFINE l == Len(h)
<1>1. l \in Nat
  OBVIOUS
<1>2. PICK x \in Nat : x = l + 1
  BY <1>1
<1>3. <<x>> \in Seq(Nat) /\ Len(<<x>>) = 1 /\ <<x>>[1] = x
  OBVIOUS
<1> DEFINE g == h \o <<x>>
<1>4. /\ g \in Seq(Nat) /\ Len(g) = l + 1
      /\ \A i \in 1 .. l + 1 : g[i] = IF i <= l THEN h[i] ELSE <<x>>[i - l]
  BY <1>3, ConcatProperties
<1>5. \A i \in 1 .. l : h[i] = i
  OBVIOUS
<1> HIDE DEF g, l
<1>6. \A i \in 1 .. l + 1 : g[i] = i
  <2> TAKE i \in 1 .. l + 1
  <2>1. CASE i <= l
    BY <1>1, <1>4, <1>5, <2>1
  <2>2. CASE ~ (i <= l)
    <3>1. i = l + 1 /\ i - l = 1
      BY <1>1, <2>2
    <3> QED BY <1>1, <1>2, <1>3, <1>4, <2>2, <3>1
  <2> QED BY <2>1, <2>2
<1>7. DOMAIN g = 1 .. l + 1
  BY <1>4, LenProperties
<1>8. g = [k \in 1 .. l + 1 |-> k]
  <2>1. g = [k \in DOMAIN g |-> g[k]]
    BY <1>4, LenProperties
  <2> QED BY <1>6, <1>7, <2>1
<1> QED
  BY <1>1, <1>2, <1>4, <1>8 DEF g, l

\* It is written to the socket.
LEMMA WriteInOrder ==
  ASSUME StreamInv, LibTyped', AppTyped', OrderInv, NEW e \in End, NEW n \in Index, WriteIn(e, n)
  PROVE  OrderInv'
<1>1. /\ AppTyped /\ Arrived(e, n) /\ copier \in [End -> [Index -> Copiers]]
      /\ heard \in [End -> [Index -> Seq(Nat)]] /\ copier[e][n] \in Copiers
      /\ UNCHANGED <<wire, conn, queue, worker, stream, said>> /\ copier[e][n].in = "write"
  BY DEF StreamInv, AppTyped, LibTyped, OrderInv, Conversation, WriteIn, lib
<1>2. CASE /\ heard' = [heard EXCEPT ![e][n] = @ \o copier[e][n].held]
           /\ copier' = [copier EXCEPT ![e][n].in = "read", ![e][n].held = <<>>]
  <2> DEFINE h == heard[e][n]
  <2>1. /\ \A d \in End, m \in Index : (d # e \/ m # n) => copier'[d][m] = copier[d][m]
        /\ copier'[e][n].out = copier[e][n].out /\ copier'[e][n].in = "read"
        /\ copier'[e][n].held = <<>>
    BY <1>1, <1>2 DEF Copiers
  <2>2. /\ \A d \in End, m \in Index : (d # e \/ m # n) => heard'[d][m] = heard[d][m]
        /\ heard'[e][n] = h \o copier[e][n].held
    BY <1>1, <1>2
  <2>3. /\ h \in Seq(Nat) /\ h = [k \in 1 .. Len(h) |-> k]
        /\ copier[e][n].held = <<Len(h) + 1>> /\ Len(copier[e][n].held) = 1
    BY <1>1 DEF Arrived
  <2> HIDE DEF h
  <2>4. /\ Len(h) \in Nat /\ Len(h \o <<Len(h) + 1>>) = Len(h) + 1
        /\ h \o <<Len(h) + 1>> = [k \in 1 .. Len(h) + 1 |-> k]
    BY <2>3, HeardMore
  <2>5. heard'[e][n] = [k \in 1 .. Len(h) + 1 |-> k] /\ Len(heard'[e][n]) = Len(h) + 1
    BY <2>2, <2>3, <2>4
  <2>6. Reads(e, n)
    BY <1>1, <2>1, <2>2 DEF Reads
  <2>7. Offering(e, n)' = Offering(e, n) /\ Home(n)' = Home(n)
    BY <1>1 DEF Offering, Home
  <2>8. Base(e, n) = Len(h) + 1 + (IF Offering(e, n) = {} THEN 0 ELSE 1)
    BY <2>3, <2>4 DEF Base, h
  <2>9. Base(e, n)' = Len(h) + 1 + (IF Offering(e, n) = {} THEN 0 ELSE 1)
    <3>1. Len(copier'[e][n].held) = 0
      BY <2>1
    <3> QED BY <2>4, <2>5, <2>7, <3>1 DEF Base
  <2>10. Arrived(e, n)'
    <3>1. said[Other(e)][n] \in Nat /\ Base(e, n) <= said[Other(e)][n]
      BY <1>1, BaseType DEF Arrived
    <3>2. Len(h) + 1 <= said[Other(e)][n]
      BY <2>4, <2>8, <3>1
    <3>3. \A w \in Offering(e, n) : w = Home(n) /\ worker[e][w].data = <<Len(h) + 1 + 1>>
      BY <1>1, <2>3 DEF Arrived, h
    <3>4. \A w \in Offering(e, n) :
            worker'[e][w].data = <<Len(heard'[e][n]) + Len(copier'[e][n].held) + 1>>
      <4>1. Len(copier'[e][n].held) = 0
        BY <2>1
      <4>2. Len(heard'[e][n]) + Len(copier'[e][n].held) + 1 = Len(h) + 1 + 1
        BY <2>4, <2>5, <4>1
      <4> QED BY <1>1, <3>3, <4>2
    <3>5. stream[e][n].closed => Offering(e, n) = {}
      BY <1>1 DEF Arrived
    <3> QED BY <1>1, <2>1, <2>5, <2>7, <2>8, <2>9, <3>1, <3>2, <3>3, <3>4, <3>5 DEF Arrived
  <2> QED BY <2>6, <2>8, <2>9, <2>10, ReadsOrder
<1>3. CASE ShutIn(e, n) /\ UNCHANGED heard
  BY <1>1, <1>3, ShutInOrder
<1> QED
  BY <1>2, <1>3 DEF WriteIn

\* What an end that writes to stream n changes, apart from what it writes.
Writes(e, n) ==
  /\ UNCHANGED <<conn, queue, worker, heard>>
  /\ \A d \in End, m \in Index : (d # e \/ m # n) =>
       stream'[d][m] = stream[d][m] /\ copier'[d][m] = copier[d][m] /\ said'[d][m] = said[d][m]
  /\ stream'[e][n].known = stream[e][n].known /\ stream'[e][n].closed = stream[e][n].closed
  /\ stream'[e][n].replied = stream[e][n].replied
  /\ copier'[e][n].in = copier[e][n].in /\ copier'[e][n].held = copier[e][n].held
  /\ \/ copier[e][n].out = "copy" /\ copier'[e][n].out = "copy" /\ said'[e][n] = said[e][n] + 1
     \/ copier[e][n].out = "finish" /\ copier'[e][n].out = "done" /\ said'[e][n] = said[e][n]

\* ... and the lines, when it writes DATA.
Lengthened(e, n) ==
  /\ \A d \in End, m \in Index : m # n => Same(Line(d, m)', Line(d, m), m)
  /\ Line(e, n)' = Line(e, n)
  /\ IntroFirst(Line(Other(e), n)', n)
  /\ \A t : t # "data" /\ Carries(Line(Other(e), n)', n, t) => Carries(Line(Other(e), n), n, t)

\* It is left to show that what is on its way to the other end is in order.
LEMMA WritesOrder ==
  ASSUME StreamInv, LibTyped', AppTyped', OrderInv, NEW e \in End, NEW n \in Index, Writes(e, n),
         Lengthened(e, n), NEW o \in End, o = Other(e), Pipeline(o, n)'
  PROVE  OrderInv'
<1>1. /\ LibTyped /\ AppTyped /\ Conversation(n) /\ UNCHANGED <<conn, queue, worker, heard>>
      /\ o # e /\ Other(o) = e /\ \A d \in End : d = e \/ d = o
      /\ said \in [End -> [Index -> Nat]]
  BY Ends DEF StreamInv, OrderInv, Writes, AppTyped
<1>2. \A d \in End, m \in Index : m # n =>
        stream'[d][m] = stream[d][m] /\ copier'[d][m] = copier[d][m] /\ said'[d][m] = said[d][m]
  BY DEF Writes
<1>3. /\ stream'[o][n] = stream[o][n] /\ copier'[o][n] = copier[o][n] /\ said'[o][n] = said[o][n]
  BY <1>1 DEF Writes
<1>4. /\ stream'[e][n].known = stream[e][n].known /\ stream'[e][n].closed = stream[e][n].closed
      /\ stream'[e][n].replied = stream[e][n].replied
      /\ copier'[e][n].in = copier[e][n].in /\ copier'[e][n].held = copier[e][n].held
      /\ \/ copier[e][n].out = "copy" /\ copier'[e][n].out = "copy" /\ said'[e][n] = said[e][n] + 1
         \/ copier[e][n].out = "finish" /\ copier'[e][n].out = "done" /\ said'[e][n] = said[e][n]
  BY DEF Writes
<1>5. /\ \A d \in End, m \in Index : m # n => Same(Line(d, m)', Line(d, m), m)
      /\ Line(e, n)' = Line(e, n) /\ IntroFirst(Line(o, n)', n)
      /\ \A t : t # "data" /\ Carries(Line(o, n)', n, t) => Carries(Line(o, n), n, t)
  BY DEF Lengthened
<1>6. \A d \in End : stream'[d][n].known => stream[d][n].known
  BY <1>1, <1>3, <1>4
<1>7. Works(n)
  BY <1>1, <1>2, <1>5, <1>6 DEF Works
<1>8. Steady(n)
  <2>1. \A w \in Worker : Handling(w, n)' => Handling(w, n)
    BY <1>1 DEF Handling
  <2>2. ASSUME NEW d \in End
        PROVE  /\ IntroFirst(Line(d, n), n) => IntroFirst(Line(d, n)', n)
               /\ \A t : Carries(Line(d, n)', n, t) =>
                    \/ Carries(Line(d, n), n, t)
                    \/ t = "data" /\ copier[Other(d)][n].out \in {"copy", "finish"}
    BY <1>1, <1>4, <1>5
  <2>3. ASSUME NEW d \in End
        PROVE  /\ \/ copier'[d][n].out = copier[d][n].out
                  \/ /\ copier[d][n].out \in {"copy", "close", "finish"}
                     /\ copier'[d][n].out \in {"close", "finish", "done"}
               /\ copier[d][n].out \in {"none", "syn"} =>
                    said'[d][n] = said[d][n] /\ copier'[d][n].in = copier[d][n].in
               /\ copier[d][n].out # "copy" => said'[d][n] = said[d][n]
               /\ stream'[d][n].closed = stream[d][n].closed
               /\ stream'[d][n].replied = stream[d][n].replied
    BY <1>1, <1>3, <1>4
  <2> QED BY <1>1, <2>1, <2>2, <2>3, Ends DEF Steady
<1>9. Barren(n) => Barren(n)'
  BY <1>1, <1>8, SteadyBarren
<1>10. \A d \in End : Offering(d, n)' = Offering(d, n)
                      /\ \A w \in Offering(d, n) : worker'[d][w].data = worker[d][w].data
  BY <1>1 DEF Offering
<1>11. Dialing(n)' => Dialing(n)
  BY <1>1 DEF Dialing, Handling
<1>12. Pipeline(e, n)' /\ Complete(e, n)'
  <2>1. Arrived(e, n)' /\ Base(e, n)' = Base(e, n)
    <3>1. Arrived(e, n) /\ Offering(e, n)' = Offering(e, n) /\ said'[Other(e)][n] = said[Other(e)][n]
      BY <1>1, <1>3, <1>10 DEF Conversation
    <3> QED BY <1>1, <1>4, <1>10, <3>1, ArrivedKept
  <2>2. Pipeline(e, n)'
    <3>1. Same(Line(e, n)', Line(e, n), n)
      BY <1>5, SameSelf
    <3>2. Deliverable(e, n)' => Deliverable(e, n)
      BY <1>4, <1>5, <1>11 DEF Deliverable
    <3>3. Pipeline(e, n) /\ said'[Other(e)][n] = said[Other(e)][n]
          /\ (copier[Other(e)][n].out = "done" => copier'[Other(e)][n].out = "done")
      BY <1>1, <1>3 DEF Conversation
    <3> QED BY <1>1, <1>4, <2>1, <3>1, <3>2, <3>3, PipelineKept
  <2>3. Complete(e, n)'
    <3>1. Complete(e, n) /\ said'[Other(e)][n] = said[Other(e)][n]
          /\ (copier[Other(e)][n].out = "done" => copier'[Other(e)][n].out = "done")
      BY <1>1, <1>3 DEF Conversation
    <3> QED BY <1>4, <1>9, <2>1, <3>1, CompleteKept
  <2> QED BY <2>2, <2>3
<1>13. Arrived(e, n)'
  <2>1. Arrived(e, n) /\ said'[Other(e)][n] = said[Other(e)][n]
    BY <1>1, <1>3 DEF Conversation
  <2> QED BY <1>1, <1>4, <1>10, <2>1, ArrivedKept
<1>14. Arrived(o, n)' /\ Base(o, n)' = Base(o, n)
  <2>1. Arrived(o, n) /\ Home(n)' = Home(n)
    BY <1>1 DEF Conversation, Home
  <2>2. Base(o, n)' = Base(o, n)
    BY <1>1, <1>3, <1>10 DEF Base
  <2>3. /\ said[e][n] \in Nat /\ said'[e][n] \in {said[e][n], said[e][n] + 1}
        /\ Len(heard[o][n]) \in Nat /\ Base(o, n) \in Nat
    BY <1>1, <1>4, BaseType
  <2>4. /\ Len(heard[o][n]) <= said[e][n] => Len(heard[o][n]) <= said'[e][n]
        /\ Base(o, n) <= said[e][n] => Base(o, n) <= said'[e][n]
    BY <2>3
  <2>5. heard'[o][n] = heard[o][n] /\ copier'[o][n] = copier[o][n] /\ stream'[o][n] = stream[o][n]
        /\ Other(o) = e /\ Offering(o, n)' = Offering(o, n)
        /\ \A w \in Offering(o, n) : worker'[o][w].data = worker[o][w].data
    BY <1>1, <1>3, <1>10
  <2>6. Arrived(o, n)'
    <3>1. /\ heard'[o][n] = [k \in 1 .. Len(heard'[o][n]) |-> k]
          /\ Len(heard'[o][n]) <= said'[Other(o)][n]
      BY <2>1, <2>4, <2>5 DEF Arrived
    <3>2. /\ copier'[o][n].in = "write" => copier'[o][n].held = <<Len(heard'[o][n]) + 1>>
          /\ copier'[o][n].in # "write" => copier'[o][n].held = <<>>
      BY <2>1, <2>5 DEF Arrived
    <3>3. copier'[o][n].in # "done" => Base(o, n)' <= said'[Other(o)][n]
      BY <2>1, <2>2, <2>4, <2>5 DEF Arrived
    <3>4. \A w \in Offering(o, n)' :
            /\ w = Home(n)'
            /\ copier'[o][n].in # "done" =>
                 worker'[o][w].data = <<Len(heard'[o][n]) + Len(copier'[o][n].held) + 1>>
      <4>1. \A w \in Offering(o, n) :
              /\ w = Home(n)
              /\ copier[o][n].in # "done" =>
                   worker[o][w].data = <<Len(heard[o][n]) + Len(copier[o][n].held) + 1>>
        BY <2>1 DEF Arrived
      <4>2. \A w \in Offering(o, n) : worker'[o][w].data = worker[o][w].data
        BY <2>5
      <4>3. heard'[o][n] = heard[o][n] /\ copier'[o][n] = copier[o][n]
            /\ Offering(o, n)' = Offering(o, n) /\ Home(n)' = Home(n)
        BY <2>1, <2>5
      <4> QED BY <4>1, <4>2, <4>3
    <3>5. stream'[o][n].closed /\ copier'[o][n].in # "done" => Offering(o, n)' = {}
      BY <2>1, <2>5 DEF Arrived
    <3>6. Other(o)' = Other(o) /\ said'[Other(o)'][n] = said'[Other(o)][n]
      OBVIOUS
    <3> QED BY <3>1, <3>2, <3>3, <3>4, <3>5, <3>6 DEF Arrived
  <2> QED BY <2>2, <2>6
<1>15. Complete(o, n)'
  <2>1. Complete(o, n)
    BY <1>1 DEF Conversation
  <2>2. CASE copier[e][n].out = "copy"
    <3>1. o = "director" /\ Barren(n) => e = "agent" /\ copier["agent"][n].out # "copy"
      BY <1>1, Ends DEF Barren
    <3>2. ~ (stream[o][n].closed /\ copier[o][n].out = "copy" /\ copier[o][n].in # "done")
      BY <1>1, <2>1, <2>2, <3>1 DEF Complete
    <3> QED BY <1>3, <3>2 DEF Complete
  <2>3. CASE copier[e][n].out = "finish"
    <3>1. said'[e][n] = said[e][n]
      BY <1>4, <2>3
    <3>2. said'[Other(o)][n] = said[Other(o)][n]
          /\ (copier[Other(o)][n].out = "done" => copier'[Other(o)][n].out = "done")
      BY <1>1, <2>3, <3>1
    <3> QED BY <1>3, <1>9, <1>14, <2>1, <3>2, CompleteKept
  <2> QED BY <1>4, <2>2, <2>3
<1>16. \A d \in End : Pipeline(d, n)' /\ Arrived(d, n)' /\ Complete(d, n)'
  BY <1>1, <1>12, <1>13, <1>14, <1>15
<1>17. Conversation(n)'
  BY <1>1, <1>8, <1>16, SteadyConversation
<1> QED
  BY <1>7, <1>17, WorksOrder

\* What DATA adds to the lines.
LEMMA DataSent ==
  ASSUME LibTyped, LibTyped', NEW n \in Index, Conversation(n), NEW e \in End, NEW f \in Frames,
         f.type = "data", f.id = Id(n), NEW ok \in BOOLEAN, Sent(e, f, ok), UNCHANGED queue
  PROVE  /\ Lengthened(e, n)
         /\ \E x : /\ x.type = "data" /\ x.data = f.data /\ x.flags = f.flags /\ Of(x, n)
                   /\ IF ok /\ conn[Other(e)].open
                      THEN Longer(Line(Other(e), n)', Line(Other(e), n), x)
                      ELSE Line(Other(e), n)' = Line(Other(e), n)
<1>1. PICK x : /\ x.type = f.type /\ x.data = f.data /\ x.flags = Flags(f)
               /\ Of(x, n) <=> Of(f, n)
               /\ IF ok /\ conn[Other(e)].open
                  THEN Longer(Line(Other(e), n)', Line(Other(e), n), x)
                  ELSE Line(Other(e), n)' = Line(Other(e), n)
  BY SentLines
<1>2. Flags(f) = f.flags /\ Of(f, n)
  BY DEF Flags, Of
<1>3. Line(e, n)' = Line(e, n)
  BY SentLines
<1>4. ASSUME NEW d \in End, NEW m \in Index, m # n PROVE Same(Line(d, m)', Line(d, m), m)
  <2>1. ~ Of(f, m)
    BY <1>4, Naming DEF Of
  <2> QED BY <2>1, SentSame
<1>5. /\ IntroFirst(Line(Other(e), n)', n)
      /\ \A t : t # "data" /\ Carries(Line(Other(e), n)', n, t) => Carries(Line(Other(e), n), n, t)
  <2>1. IntroFirst(Line(Other(e), n), n)
    BY Ends DEF Conversation, Kinds
  <2>2. CASE ok /\ conn[Other(e)].open
    <3>1. Longer(Line(Other(e), n)', Line(Other(e), n), x) /\ x.type = "data"
      BY <1>1, <2>2
    <3>2. /\ IntroFirst(Line(Other(e), n)', n)
          /\ \A t : Carries(Line(Other(e), n)', n, t) <=>
                      Carries(Line(Other(e), n), n, t) \/ (Of(x, n) /\ x.type = t)
      BY <2>1, <3>1, LongerKinds
    <3> QED BY <3>1, <3>2
  <2>3. CASE ~ (ok /\ conn[Other(e)].open)
    BY <1>1, <2>1, <2>3
  <2> QED BY <2>2, <2>3
<1>6. Lengthened(e, n)
  BY <1>3, <1>4, <1>5 DEF Lengthened
<1> QED
  BY <1>1, <1>2, <1>6

\* A message is written: it comes after those that are on their way.
LEMMA CopyOutOrder ==
  ASSUME StreamInv, LibTyped', AppTyped', OrderInv, NEW e \in End, NEW n \in Index, CopyOut(e, n)
  PROVE  OrderInv'
<1>1. /\ LibTyped /\ AppTyped /\ Conversation(n) /\ copier[e][n].out = "copy"
      /\ UNCHANGED <<conn, queue, worker, stream, heard>>
      /\ said \in [End -> [Index -> Nat]] /\ copier \in [End -> [Index -> Copiers]]
      /\ copier[e][n] \in Copiers
  BY DEF StreamInv, OrderInv, AppTyped, CopyOut
<1>2. PICK ok \in BOOLEAN :
        /\ Sent(e, Frame("data", Id(n), 0, 0, <<said[e][n] + 1>>), ok)
        /\ said' = [said EXCEPT ![e][n] = IF ok THEN @ + 1 ELSE @]
        /\ copier' = [copier EXCEPT ![e][n].out = IF ok THEN @ ELSE "close"]
  BY DEF CopyOut, WriteData
<1>3. CASE ~ ok
  <2>1. UNCHANGED wire
    BY <1>2, <1>3 DEF Sent
  <2>2. \A d \in End, m \in Index :
          /\ copier'[d][m].in = copier[d][m].in /\ copier'[d][m].held = copier[d][m].held
          /\ \/ copier'[d][m].out = copier[d][m].out
             \/ copier[d][m].out = "copy" /\ copier'[d][m].out = "close"
    BY <1>1, <1>2, <1>3 DEF Copiers
  <2>3. UNCHANGED said
    BY <1>1, <1>2, <1>3
  <2> QED BY <1>1, <2>1, <2>2, <2>3, StillOrder
<1>4. CASE ok
  <2> DEFINE f == Frame("data", Id(n), 0, 0, <<said[e][n] + 1>>)
  <2>1. said[e][n] \in Nat
    BY <1>1
  <2>2. <<said[e][n] + 1>> \in Seq(Nat) /\ Id(n) \in Ids /\ Id(n) \in Nat
    BY <2>1, Naming
  <2>3. f \in Frames /\ f.type = "data" /\ f.id = Id(n) /\ f.flags = 0 /\ f.data = <<said[e][n] + 1>>
        /\ Sent(e, f, ok)
    BY <1>2, <2>2 DEF Frame, Frames, Kind
  <2> HIDE DEF f
  <2>4. PICK o \in End : o = Other(e)
    BY Ends
  <2>5. o # e /\ Other(o) = e
    BY <2>4, Ends
  <2>6. Lengthened(e, n)
    BY <1>1, <2>3, DataSent
  <2>7. PICK x : /\ x.type = "data" /\ x.data = f.data /\ x.flags = f.flags /\ Of(x, n)
                 /\ IF ok /\ conn[Other(e)].open
                    THEN Longer(Line(Other(e), n)', Line(Other(e), n), x)
                    ELSE Line(Other(e), n)' = Line(Other(e), n)
    BY <1>1, <2>3, DataSent
  <2>8. /\ \A d \in End, m \in Index : (d # e \/ m # n) =>
             copier'[d][m] = copier[d][m] /\ said'[d][m] = said[d][m]
        /\ copier'[e][n] = copier[e][n] /\ said'[e][n] = said[e][n] + 1
    BY <1>1, <1>2, <1>4 DEF Copiers
  <2>9. Writes(e, n)
    BY <1>1, <2>8 DEF Writes
  <2>10. Pipeline(o, n)'
    <3> DEFINE L == Line(o, n)
               M == Line(o, n)'
               base == Base(o, n)
               top == said[e][n]
               open == conn[o].open
    <3>1. Arrived(o, n) /\ Pipeline(o, n)
      BY <1>1 DEF Conversation
    <3>2. M = Line(Other(e), n)' /\ L = Line(Other(e), n)
      BY <2>4
    <3>3. Introduced(M, n) => Introduced(L, n)
      BY <2>6, <3>2 DEF Lengthened, Introduced
    <3>4. Dialing(n)' <=> Dialing(n)
      BY <1>1 DEF Dialing, Handling
    <3>5. Deliverable(o, n)' => Deliverable(o, n)
      BY <1>1, <3>3, <3>4 DEF Deliverable
    <3>6. Base(o, n)' = base /\ said'[Other(o)][n] = top + 1 /\ conn'[o].open = open
          /\ copier'[o][n].in = copier[o][n].in /\ copier'[Other(o)][n].out # "done"
      <4>1. Offering(o, n)' = Offering(o, n)
        BY <1>1 DEF Offering
      <4> QED BY <1>1, <2>5, <2>8, <4>1 DEF Base
    <3> SUFFICES ASSUME Deliverable(o, n)', copier'[o][n].in # "done"
                 PROVE  Good(M, n, Base(o, n)', said'[Other(o)][n], conn'[o].open,
                             copier'[Other(o)][n].out = "done")
      BY DEF Pipeline
    <3>7. Good(L, n, base, top, open, FALSE) /\ base <= top
      <4>1. Good(L, n, base, top, open, copier[Other(o)][n].out = "done")
        BY <2>5, <3>1, <3>5, <3>6 DEF Pipeline
      <4>2. (copier[Other(o)][n].out = "done") = FALSE
        BY <1>1, <2>5
      <4>3. base <= top
        BY <2>5, <3>1, <3>6 DEF Arrived
      <4> HIDE DEF L, base, top, open
      <4> QED BY <4>1, <4>2, <4>3
    <3>8. base \in Nat /\ top \in Nat /\ open \in BOOLEAN
      BY <1>1, <2>1, BaseType DEF LibTyped, Connections
    <3>9. Of(x, n) /\ x.type = "data" /\ x.flags = 0 /\ x.data = <<top + 1>>
      BY <2>3, <2>7
    <3>10. (open => Longer(M, L, x)) /\ (~ open => M = L)
      BY <1>4, <2>4, <2>7
    <3> HIDE DEF L, M, base, top, open
    <3>11. Good(M, n, base, top + 1, open, FALSE)
      <4>1. CASE open = TRUE
        BY <3>7, <3>8, <3>9, <3>10, <4>1, GoodMore
      <4>2. CASE open = FALSE
        BY <3>7, <3>8, <3>10, <4>2, GoodMissed
      <4> QED BY <3>8, <4>1, <4>2
    <3>12. (copier'[Other(o)][n].out = "done") = FALSE
      BY <3>6
    <3> QED BY <3>6, <3>11, <3>12
  <2> QED BY <2>4, <2>6, <2>9, <2>10, WritesOrder
<1> QED
  BY <1>3, <1>4

\* The FIN is written, or could not be: it comes after all messages.
LEMMA FinishOutOrder ==
  ASSUME StreamInv, LibTyped', AppTyped', OrderInv, NEW e \in End, NEW n \in Index, FinishOut(e, n)
  PROVE  OrderInv'
<1> DEFINE f == Frame("data", Id(n), 0, 1, <<>>)
<1>1. /\ LibTyped /\ AppTyped /\ Conversation(n) /\ copier[e][n].out = "finish"
      /\ UNCHANGED <<conn, queue, worker, said, heard>>
      /\ stream \in [End -> [Index -> Streams]] /\ copier \in [End -> [Index -> Copiers]]
      /\ copier[e][n] \in Copiers /\ stream[e][n] \in Streams
      /\ stream' = [stream EXCEPT ![e][n].finished = TRUE]
      /\ copier' = [copier EXCEPT ![e][n].out = "done"]
  BY DEF StreamInv, OrderInv, AppTyped, LibTyped, FinishOut, MarkFinished
<1>2. UNCHANGED wire \/ \E ok \in BOOLEAN : Sent(e, f, ok)
  BY DEF FinishOut, WriteFin
<1>3. f \in Frames /\ f.type = "data" /\ f.id = Id(n) /\ f.flags = 1 /\ f.data = <<>>
  <2>1. <<>> \in Seq(Nat) /\ Id(n) \in Ids /\ Id(n) \in Nat
    BY Naming
  <2> QED BY <2>1 DEF Frame, Frames, Kind
<1> HIDE DEF f
<1>4. PICK o \in End : o = Other(e)
  BY Ends
<1>5. o # e /\ Other(o) = e
  BY <1>4, Ends
<1>6. Lengthened(e, n) /\ (\/ Line(o, n)' = Line(o, n)
                           \/ conn[o].open /\ \E x : /\ Longer(Line(o, n)', Line(o, n), x) /\ Of(x, n)
                                                     /\ x.type = "data" /\ x.flags = 1 /\ x.data = <<>>)
  <2>1. CASE UNCHANGED wire
    <3>1. \A d \in End, m \in Index : Line(d, m)' = Line(d, m) /\ Same(Line(d, m)', Line(d, m), m)
      BY <1>1, <2>1, LinesStill
    <3>2. IntroFirst(Line(o, n), n)
      BY <1>1, Ends DEF Conversation, Kinds
    <3>3. Line(Other(e), n)' = Line(Other(e), n) /\ IntroFirst(Line(Other(e), n), n)
      BY <1>4, <3>1, <3>2
    <3> QED BY <3>1, <3>3 DEF Lengthened
  <2>2. CASE \E ok \in BOOLEAN : Sent(e, f, ok)
    <3>1. PICK ok \in BOOLEAN : Sent(e, f, ok)
      BY <2>2
    <3>2. Lengthened(e, n)
      BY <1>1, <1>3, <3>1, DataSent
    <3>3. PICK x : /\ x.type = "data" /\ x.data = f.data /\ x.flags = f.flags /\ Of(x, n)
                   /\ IF ok /\ conn[Other(e)].open
                      THEN Longer(Line(Other(e), n)', Line(Other(e), n), x)
                      ELSE Line(Other(e), n)' = Line(Other(e), n)
      BY <1>1, <1>3, <3>1, DataSent
    <3> QED BY <1>3, <1>4, <3>2, <3>3
  <2> QED BY <1>2, <2>1, <2>2
<1>7. /\ \A d \in End, m \in Index : (d # e \/ m # n) =>
           stream'[d][m] = stream[d][m] /\ copier'[d][m] = copier[d][m]
      /\ copier'[e][n].out = "done" /\ copier'[e][n].in = copier[e][n].in
      /\ copier'[e][n].held = copier[e][n].held
      /\ stream'[e][n].known = stream[e][n].known /\ stream'[e][n].closed = stream[e][n].closed
      /\ stream'[e][n].replied = stream[e][n].replied
  BY <1>1 DEF Copiers, Streams
<1>8. Writes(e, n)
  BY <1>1, <1>7 DEF Writes
<1>9. Pipeline(o, n)'
  <2> DEFINE L == Line(o, n)
             M == Line(o, n)'
             base == Base(o, n)
             top == said[e][n]
             open == conn[o].open
  <2>1. Pipeline(o, n)
    BY <1>1 DEF Conversation
  <2>2. Introduced(M, n) => Introduced(L, n)
    BY <1>4, <1>6 DEF Lengthened, Introduced
  <2>3. Dialing(n)' <=> Dialing(n)
    BY <1>1 DEF Dialing, Handling
  <2>4. stream'[o][n] = stream[o][n] /\ copier'[o][n] = copier[o][n] /\ copier'[e][n].out = "done"
    BY <1>5, <1>7
  <2>5. Deliverable(o, n)' => Deliverable(o, n)
    BY <2>2, <2>3, <2>4 DEF Deliverable
  <2>6. Base(o, n)' = base /\ said'[Other(o)][n] = top /\ conn'[o].open = open
        /\ (copier'[Other(o)][n].out = "done") = TRUE
    <3>1. Offering(o, n)' = Offering(o, n)
      BY <1>1 DEF Offering
    <3> QED BY <1>1, <1>5, <2>4, <3>1 DEF Base
  <2> SUFFICES ASSUME Deliverable(o, n)', copier'[o][n].in # "done"
               PROVE  Good(M, n, Base(o, n)', said'[Other(o)][n], conn'[o].open,
                           copier'[Other(o)][n].out = "done")
    BY DEF Pipeline
  <2>7. Good(L, n, base, top, open, FALSE)
    <3>1. Good(L, n, base, top, open, copier[Other(o)][n].out = "done")
      BY <1>5, <2>1, <2>4, <2>5 DEF Pipeline
    <3>2. (copier[Other(o)][n].out = "done") = FALSE
      BY <1>1, <1>5
    <3> HIDE DEF L, base, top, open
    <3> QED BY <3>1, <3>2
  <2>8. base \in Nat /\ top \in Nat /\ open \in BOOLEAN /\ DOMAIN L \subseteq Nat /\ Same(L, L, n)
    BY <1>1, BaseType, LineOfStream, SameSelf DEF LibTyped, Connections
  <2>9. \/ M = L
        \/ open /\ \E x : /\ Longer(M, L, x) /\ Of(x, n)
                          /\ x.type = "data" /\ x.flags = 1 /\ x.data = <<>>
    BY <1>6
  <2> HIDE DEF L, M, base, top, open
  <2>10. Good(M, n, base, top, open, TRUE)
    <3>1. CASE M = L
      <4>1. Good(L, n, base, top, open, TRUE)
        BY <2>7 DEF Good
      <4> QED BY <3>1, <4>1
    <3>2. CASE open /\ \E x : Longer(M, L, x) /\ Of(x, n) /\ x.type = "data" /\ x.flags = 1 /\ x.data = <<>>
      <4>1. open = TRUE
        BY <2>8, <3>2
      <4> QED BY <2>7, <2>8, <3>2, <4>1, GoodFin
    <3> QED BY <2>9, <3>1, <3>2
  <2> QED BY <2>6, <2>10
<1> QED
  BY <1>4, <1>6, <1>8, <1>9, WritesOrder

-----------------------------------------------------------------------------
(* The beginning and the end of a stream. *)

\* A stream of which nothing is on its way has nothing in its queue.
LEMMA EmptyPrompt ==
  ASSUME LibTyped, NEW e \in End, NEW n \in Index, Mine(Line(e, n), n) = {}
  PROVE  Prompt(queue[e][Home(n)], n)
<1> DEFINE q == queue[e][Home(n)]
           w == wire[e]
<1>1. q \in Seq(Queued) /\ w \in Seq(Written) /\ Line(e, n) = LineOf(q, w)
  <2>1. Home(n) \in Worker
    BY Naming, Numbered DEF Home
  <2> QED BY <2>1 DEF Line, LibTyped
<1> HIDE DEF q, w
<1>2. /\ Len(q) \in Nat /\ Len(w) \in Nat /\ DOMAIN LineOf(q, w) = 1 .. Len(q) + Len(w)
      /\ \A i \in 1 .. Len(q) : LineOf(q, w)[i] = q[i].frame
  BY <1>1, LineType
<1>3. DOMAIN q = 1 .. Len(q) /\ \A i \in 1 .. Len(q) : i \in 1 .. Len(q) + Len(w)
  BY <1>1, <1>2, LenProperties
<1>4. \A i \in DOMAIN q : ~ Of(q[i].frame, n)
  BY <1>1, <1>2, <1>3 DEF Mine
<1> QED
  BY <1>4 DEF Prompt, q

\* A client is forwarded: the stream is new.
LEMMA ForwardOrder ==
  ASSUME StreamInv, LibTyped', AppTyped', OrderInv, NEW n \in Index, Forward(n)
  PROVE  OrderInv'
<1>1. /\ LibTyped /\ AppTyped /\ Conversation(n)
      /\ UNCHANGED <<wire, queue, worker, said, heard>> /\ "director" \in End /\ "agent" \in End
      /\ conn \in [End -> Connections] /\ stream \in [End -> [Index -> Streams]]
      /\ copier \in [End -> [Index -> Copiers]] /\ copier["director"][n] \in Copiers
  BY Ends DEF StreamInv, OrderInv, Forward, AppTyped, LibTyped
<1>2. copier["director"][n].out = "none"
  <2>1. tunnel # "dead" /\ conn["director"].next = Id(n)
    BY DEF Forward, CreateStream, NextStreamId
  <2>2. Id(n) >= conn["director"].next
    BY <2>1, Naming
  <2> QED BY <2>1, <2>2 DEF StreamInv, Sparing
<1>3. \A d \in End : conn'[d].open = conn[d].open /\ conn'[d].resets = conn[d].resets
  <2>1. conn' = [conn EXCEPT !["director"].next = @ + 2]
    BY DEF Forward, CreateStream, NextStreamId
  <2> QED BY <1>1, <2>1 DEF Connections
<1>4. /\ \A d \in End, m \in Index : (d # "director" \/ m # n) => stream'[d][m] = stream[d][m]
      /\ ~ stream'["director"][n].replied /\ ~ stream'["director"][n].closed
  <2>1. stream' = [stream EXCEPT !["director"][n] = [NoStream EXCEPT !.known = TRUE]]
    BY DEF Forward, CreateStream
  <2> QED BY <1>1, <2>1 DEF NoStream
<1>5. /\ \A d \in End, m \in Index : (d # "director" \/ m # n) => copier'[d][m] = copier[d][m]
      /\ copier'["director"][n].out = "syn" /\ copier'["director"][n].in = copier["director"][n].in
      /\ copier'["director"][n].held = copier["director"][n].held
  <2>1. copier' = [copier EXCEPT !["director"][n].out = "syn"]
    BY DEF Forward
  <2> QED BY <1>1, <2>1 DEF Copiers
<1>6. \A d \in End, m \in Index : Line(d, m)' = Line(d, m) /\ Same(Line(d, m)', Line(d, m), m)
  BY <1>1, LinesStill
<1>7. /\ Mine(Line("agent", n), n) = {} /\ Mine(Line("director", n), n) = {}
      /\ ~ Dialing(n) /\ Id(n) \notin conn["agent"].resets
      /\ copier["agent"][n].out = "none" \/ ~ conn["agent"].open
      /\ copier["agent"][n].out \in {"none", "done"}
  BY <1>1, <1>2 DEF Conversation, Before
<1>8. Works(n)
  <2>1. Prompt(queue["director"][Home(n)], n)
    BY <1>1, <1>7, EmptyPrompt
  <2>2. \A d \in End : stream'[d][n].known => stream[d][n].known \/ Prompt(queue[d][Home(n)], n)
    BY <1>4, <2>1, Ends
  <2> QED BY <1>1, <1>3, <1>4, <1>5, <1>6, <2>2 DEF Works
<1>9. Dialing(n)' <=> Dialing(n)
  BY <1>1 DEF Dialing, Handling
<1>10. \A d \in End : Offering(d, n)' = Offering(d, n)
                      /\ \A w \in Offering(d, n) : worker'[d][w].data = worker[d][w].data
  BY <1>1 DEF Offering
<1>11. Arrived("director", n)' /\ Pipeline("director", n)' /\ Complete("director", n)'
  <2>1. PICK d \in End : d = "director"
    BY <1>1
  <2>2. Arrived(d, n) /\ copier'[d][n].in = copier[d][n].in /\ copier'[d][n].held = copier[d][n].held
        /\ (stream'[d][n].closed => stream[d][n].closed)
    BY <1>1, <1>4, <1>5, <2>1 DEF Conversation
  <2>3. Arrived(d, n)'
    BY <1>1, <1>10, <2>2, ArrivedKept
  <2>4. ~ Deliverable("director", n)'
    <3>1. Line("director", n)' = Line("director", n)
      BY <1>1, <1>6
    <3>2. ~ Introduced(Line("director", n)', n)
      BY <1>7, <3>1 DEF Introduced, Carries
    <3>3. ~ stream["director"][n].replied' /\ "director" # "agent"
      BY <1>4
    <3> QED BY <3>2, <3>3 DEF Deliverable
  <2> QED BY <1>5, <2>1, <2>3, <2>4 DEF Pipeline, Complete
<1>12. Arrived("agent", n)' /\ Pipeline("agent", n)' /\ Complete("agent", n)'
  <2>1. PICK d \in End : d = "agent"
    BY <1>1
  <2>2. ~ Barren(n)
    BY <1>2 DEF Barren
  <2>3. /\ stream'[d][n] = stream[d][n] /\ copier'[d][n] = copier[d][n]
        /\ copier[Other(d)][n].out # "done" /\ Line(d, n)' = Line(d, n)
    BY <1>2, <1>4, <1>5, <1>6, <2>1, Ends
  <2>4. Pipeline(d, n)' /\ Arrived(d, n)' /\ Complete(d, n)'
    BY <1>1, <1>3, <1>9, <1>10, <2>2, <2>3, EndKept
  <2> QED BY <2>1, <2>4
<1>13. Silent("director", n)' /\ Silent("agent", n)'
  <2>1. Silent("director", n) /\ Silent("agent", n)
    BY <1>1 DEF Conversation
  <2>2. Silent("director", n)'
    BY <1>1, <1>2, <1>4, <1>5, <1>6, <2>1, Ends DEF Silent
  <2>3. copier'["agent"][n] = copier["agent"][n] /\ stream'["agent"][n] = stream["agent"][n]
    BY <1>1, <1>4, <1>5
  <2>4. Silent("agent", n)'
    BY <1>1, <1>6, <2>1, <2>3, Ends DEF Silent
  <2> QED BY <2>2, <2>4
<1>14. Kinds(n)' /\ Before(n)'
  <2>1. copier'["agent"][n] = copier["agent"][n]
    BY <1>1, <1>5
  <2> QED BY <1>1, <1>3, <1>6, <1>7, <1>9, <2>1 DEF Conversation, Kinds, Before, Id
<1>15. Unhandled(n)' /\ Refused(n)'
  <2>1. ~ Introduced(Line("agent", n)', n)
    BY <1>1, <1>6, <1>7 DEF Introduced, Carries
  <2>2. ~ Carries(Line("director", n)', n, "rst")
    BY <1>1, <1>6, <1>7 DEF Carries
  <2> QED BY <1>1, <1>3, <1>7, <2>1, <2>2 DEF Unhandled, Refused, Id
<1>16. \A w \in Worker : Handling(w, n)' => w = Home(n)
  BY <1>1 DEF Conversation, Handling
<1>17. Conversation(n)'
  BY <1>11, <1>12, <1>13, <1>14, <1>15, <1>16, Ends DEF Conversation, Home, Id
<1> QED
  BY <1>8, <1>17, WorksOrder

\* What an introduction adds to the lines, when nothing was on its way to that end.
LEMMA IntroSent ==
  ASSUME LibTyped, LibTyped', NEW n \in Index, NEW e \in End, NEW f \in Frames,
         f.type \in {"syn", "reply"}, f.id = Id(n), NEW ok \in BOOLEAN, Sent(e, f, ok),
         UNCHANGED queue, NEW o \in End, o = Other(e), Mine(Line(o, n), n) = {}
  PROVE  /\ \A d \in End, m \in Index : m # n => Same(Line(d, m)', Line(d, m), m)
         /\ Line(e, n)' = Line(e, n) /\ IntroFirst(Line(o, n)', n)
         /\ \A t : Carries(Line(o, n)', n, t) => t = f.type /\ ok /\ conn[o].open
<1>1. PICK x : /\ x.type = f.type
               /\ IF ok /\ conn[Other(e)].open
                  THEN Longer(Line(Other(e), n)', Line(Other(e), n), x)
                  ELSE Line(Other(e), n)' = Line(Other(e), n)
  BY SentLines
<1>2. Line(e, n)' = Line(e, n)
  BY SentLines
<1>3. ASSUME NEW d \in End, NEW m \in Index, m # n PROVE Same(Line(d, m)', Line(d, m), m)
  <2>1. ~ Of(f, m)
    BY <1>3, Naming DEF Of
  <2> QED BY <2>1, SentSame
<1>4. IntroFirst(Line(o, n), n) /\ \A t : ~ Carries(Line(o, n), n, t)
  BY DEF IntroFirst, Carries
<1>5. CASE ok /\ conn[o].open
  <2>1. Longer(Line(o, n)', Line(o, n), x)
    BY <1>1, <1>5
  <2>2. /\ IntroFirst(Line(o, n)', n)
        /\ \A t : Carries(Line(o, n)', n, t) <=> Carries(Line(o, n), n, t) \/ (Of(x, n) /\ x.type = t)
    BY <1>4, <2>1, LongerKinds
  <2> QED BY <1>1, <1>2, <1>3, <1>4, <1>5, <2>2
<1>6. CASE ~ (ok /\ conn[o].open)
  <2>1. Line(o, n)' = Line(o, n)
    BY <1>1, <1>6
  <2> QED BY <1>2, <1>3, <1>4, <2>1
<1> QED
  BY <1>5, <1>6

\* The SYN is sent, or the client is served over TCP.
LEMMA ForwardedOrder ==
  ASSUME StreamInv, LibTyped', AppTyped', OrderInv, NEW n \in Index, Forwarded(n)
  PROVE  OrderInv'
<1> DEFINE f == Frame("syn", Id(n), 0, 0, <<>>)
<1>1. /\ LibTyped /\ AppTyped /\ Conversation(n) /\ copier["director"][n].out = "syn"
      /\ UNCHANGED <<conn, queue, worker, stream, said, heard>>
      /\ "director" \in End /\ "agent" \in End /\ Other("director") = "agent"
      /\ copier \in [End -> [Index -> Copiers]]
  BY Ends DEF StreamInv, OrderInv, AppTyped, Forwarded
<1>2. PICK ok \in BOOLEAN :
        /\ Sent("director", f, ok)
        /\ copier' = [copier EXCEPT !["director"][n] = IF ok THEN Copying ELSE Stopped]
  BY DEF Forwarded, SendStream
<1>3. f \in Frames /\ f.type = "syn" /\ f.id = Id(n)
  BY Naming DEF Frames, Frame, Kind
<1> HIDE DEF f
<1>4. /\ Mine(Line("agent", n), n) = {} /\ Mine(Line("director", n), n) = {}
      /\ ~ Dialing(n) /\ Id(n) \notin conn["agent"].resets
      /\ copier["agent"][n].out = "none" \/ ~ conn["agent"].open
      /\ copier["agent"][n].out \in {"none", "done"}
  BY <1>1 DEF Conversation, Before
<1>5. /\ said["director"][n] = 0 /\ copier["director"][n].in = "none"
      /\ ~ stream["director"][n].closed /\ ~ stream["director"][n].replied
  BY <1>1 DEF Conversation, Silent
<1>6. /\ \A d \in End, m \in Index : m # n => Same(Line(d, m)', Line(d, m), m)
      /\ Line("director", n)' = Line("director", n) /\ IntroFirst(Line("agent", n)', n)
      /\ \A t : Carries(Line("agent", n)', n, t) => t = "syn" /\ ok /\ conn["agent"].open
  BY <1>1, <1>2, <1>3, <1>4, IntroSent
<1>7. /\ \A d \in End, m \in Index : (d # "director" \/ m # n) => copier'[d][m] = copier[d][m]
      /\ copier'["director"][n].held = <<>>
      /\ IF ok THEN copier'["director"][n].out = "copy" /\ copier'["director"][n].in = "read"
         ELSE copier'["director"][n].out = "done" /\ copier'["director"][n].in = "done"
  <2>1. /\ Copying.out = "copy" /\ Copying.in = "read" /\ Copying.held = <<>>
        /\ Stopped.out = "done" /\ Stopped.in = "done" /\ Stopped.held = <<>>
    BY DEF Copying, Stopped, NoCopier
  <2> QED BY <1>1, <1>2, <2>1
<1>8. Works(n)
  <2>1. \A d \in End, m \in Index : m # n => copier'[d][m] = copier[d][m]
    BY <1>7
  <2> QED BY <1>1, <1>6, <2>1 DEF Works
<1>9. ~ Dialing(n)'
  BY <1>1, <1>4 DEF Dialing, Handling
<1>10. \A d \in End : Offering(d, n)' = Offering(d, n)
  BY <1>1 DEF Offering
<1>11. Arrived("director", n)'
  <2>1. PICK d \in End : d = "director"
    BY <1>1
  <2>2. Arrived(d, n) /\ copier[d][n].in = "none" /\ copier'[d][n].in \in {"read", "done"}
        /\ copier'[d][n].held = <<>> /\ ~ stream'[d][n].closed
    BY <1>1, <1>5, <1>7, <2>1 DEF Conversation
  <2>3. copier[d][n].held = <<>>
    BY <2>2 DEF Arrived
  <2>4. Base(d, n)' = Base(d, n) /\ Home(n)' = Home(n)
    BY <1>1, <1>10, <2>2, <2>3 DEF Base, Home
  <2>5. Arrived(d, n)'
    BY <1>1, <1>10, <2>2, <2>3, <2>4 DEF Arrived
  <2> QED BY <2>1, <2>5
<1>12. Pipeline("director", n)' /\ Complete("director", n)'
  <2>1. ~ Introduced(Line("director", n)', n)
    BY <1>4, <1>6 DEF Introduced, Carries
  <2>2. ~ stream["director"][n].replied' /\ ~ stream["director"][n].closed' /\ "director" # "agent"
    BY <1>1, <1>5
  <2>3. ~ Deliverable("director", n)'
    BY <2>1, <2>2 DEF Deliverable
  <2> QED BY <2>2, <2>3 DEF Pipeline, Complete
<1>13. Pipeline("agent", n)'
  <2>1. PICK d \in End : d = "agent"
    BY <1>1
  <2>2. \A i \in Mine(Line(d, n)', n) : Line(d, n)'[i].type # "data"
    BY <1>6, <2>1 DEF Carries
  <2>3. said'[Other(d)][n] = 0
    BY <1>1, <1>5, <2>1, Ends
  <2>4. Base(d, n)' \in Nat
    <3>1. copier'[d][n] = copier[d][n]
      BY <1>7, <2>1
    <3>2. Base(d, n)' = Base(d, n)
      BY <1>1, <1>10, <3>1 DEF Base
    <3> QED BY <1>1, <3>2, BaseType
  <2> DEFINE L == Line(d, n)'
             base == Base(d, n)'
             full == conn'[d].open
             over == copier'[Other(d)][n].out = "done"
  <2>5. Good(L, n, base, 0, full, over)
    <3>1. base \in Nat /\ 0 \in Nat /\ 0 <= base
      BY <2>4
    <3>2. \A i \in Mine(L, n) : L[i].type # "data"
      BY <2>2
    <3> HIDE DEF L, base, full, over
    <3> QED BY <3>1, <3>2, GoodNone
  <2>6. Pipeline(d, n)'
    BY <2>3, <2>5 DEF Pipeline
  <2> QED BY <2>1, <2>6
<1>14. Arrived("agent", n)' /\ Complete("agent", n)' /\ Silent("agent", n)'
  <2>1. copier'["agent"][n] = copier["agent"][n] /\ stream'["agent"][n] = stream["agent"][n]
    BY <1>1, <1>7
  <2>2. PICK d \in End : d = "agent"
    BY <1>1
  <2>3. Arrived(d, n)'
    BY <1>1, <1>10, <2>1, <2>2, ArrivedKept DEF Conversation, Offering
  <2>4. Complete("agent", n)'
    BY <1>4, <2>1 DEF Complete
  <2>5. Silent("agent", n)'
    BY <1>1, <1>6, <2>1, Ends DEF Conversation, Silent
  <2> QED BY <2>2, <2>3, <2>4, <2>5
<1>15. Silent("director", n)' /\ Before(n)'
  <2>1. copier'["director"][n].out \notin {"none", "syn"}
    BY <1>7
  <2> QED BY <2>1 DEF Silent, Before
<1>16. Kinds(n)' /\ Refused(n)'
  <2>1. \A t : ~ Carries(Line("director", n)', n, t)
    BY <1>4, <1>6 DEF Carries
  <2>2. IntroFirst(Line("director", n)', n)
    BY <1>4, <1>6 DEF IntroFirst
  <2>3. ~ Carries(Line("agent", n)', n, "reply") /\ ~ Carries(Line("agent", n)', n, "rst")
    BY <1>6
  <2> QED BY <1>1, <1>4, <1>6, <2>1, <2>2, <2>3 DEF Kinds, Refused, Id
<1>17. Unhandled(n)'
  <2> SUFFICES ASSUME Introduced(Line("agent", n)', n)
               PROVE  /\ ~ stream'["agent"][n].replied /\ ~ Dialing(n)'
                      /\ copier'["agent"][n].out = "none"
    BY DEF Unhandled
  <2>1. conn["agent"].open
    BY <1>6 DEF Introduced
  <2>2. copier["agent"][n].out = "none"
    BY <1>4, <2>1
  <2>3. ~ stream["agent"][n].replied
    BY <1>1, <2>2 DEF Conversation, Silent
  <2> QED BY <1>1, <1>7, <1>9, <2>2, <2>3
<1>18. \A w \in Worker : Handling(w, n)' => w = Home(n)
  BY <1>1 DEF Conversation, Handling
<1>19. Conversation(n)'
  BY <1>11, <1>12, <1>13, <1>14, <1>15, <1>16, <1>17, <1>18, Ends DEF Conversation, Home, Id
<1> QED
  BY <1>8, <1>19, WorksOrder

\* What a handler changes: the reply is sent, or it is not.
LEMMA HandlerChanges ==
  ASSUME StreamInv, LibTyped', AppTyped', OrderInv, NEW w \in Worker, NEW n \in Index, Handler(w, n)
  PROVE  /\ \A d \in End, m \in Index : m # n => Same(Line(d, m)', Line(d, m), m)
         /\ Line("agent", n)' = Line("agent", n) /\ IntroFirst(Line("director", n)', n)
         /\ \A t : Carries(Line("director", n)', n, t) => t = "reply" /\ copier'["agent"][n].out = "copy"
         /\ \A d \in End, m \in Index : (d # "agent" \/ m # n) =>
              copier'[d][m] = copier[d][m] /\ stream'[d][m] = stream[d][m]
         /\ copier'["agent"][n] \in {copier["agent"][n], Copying}
         /\ stream'["agent"][n].known = stream["agent"][n].known
         /\ stream'["agent"][n].closed = stream["agent"][n].closed
         /\ stream'["agent"][n].replied => copier'["agent"][n].out = "copy"
<1> DEFINE f == Frame("reply", Id(n), 0, 0, <<>>)
<1>1. /\ LibTyped /\ Conversation(n) /\ UNCHANGED <<conn, queue, said, heard>> /\ Handling(w, n)
      /\ "director" \in End /\ "agent" \in End /\ Other("agent") = "director"
      /\ copier \in [End -> [Index -> Copiers]] /\ stream \in [End -> [Index -> Streams]]
  BY Ends DEF StreamInv, OrderInv, AppTyped, LibTyped, Handler, Handling
<1>2. copier["agent"][n].out = "none" /\ Dialing(n)
  BY <1>1 DEF StreamInv, Once, Pending, Dialing
<1>3. /\ ~ stream["agent"][n].replied
      /\ ~ Carries(Line("director", n), n, "data") /\ ~ Carries(Line("director", n), n, "reply")
  BY <1>1, <1>2, Ends DEF Conversation, Silent
<1>4. ~ Carries(Line("director", n), n, "syn") /\ ~ Carries(Line("director", n), n, "rst")
  BY <1>1, <1>2 DEF Conversation, Kinds, Refused, Barren
<1>5. Mine(Line("director", n), n) = {}
  <2>1. \A i \in DOMAIN Line("director", n) : Line("director", n)[i] \in Frames
    BY <1>1, LineOfStream, LineType
  <2>2. \A i \in Mine(Line("director", n), n) :
          Line("director", n)[i].type \in {"syn", "reply", "data", "rst"}
    BY <2>1 DEF Mine, Of, Frames, Kind
  <2> QED BY <1>3, <1>4, <2>2 DEF Carries
<1>6. CASE UNCHANGED <<wire, stream, copier>>
  <2>1. \A d \in End, m \in Index : Line(d, m)' = Line(d, m) /\ Same(Line(d, m)', Line(d, m), m)
    BY <1>1, <1>6, LinesStill
  <2>2. IntroFirst(Line("director", n)', n) /\ \A t : ~ Carries(Line("director", n)', n, t)
    BY <1>1, <1>5, <2>1 DEF IntroFirst, Carries
  <2> QED BY <1>1, <1>3, <1>6, <2>1, <2>2
<1>7. ASSUME NEW ok \in BOOLEAN, SendReply(n, ok),
             copier' = [copier EXCEPT !["agent"][n] = IF ok THEN Copying ELSE @], ok
      PROVE  /\ \A d \in End, m \in Index : m # n => Same(Line(d, m)', Line(d, m), m)
             /\ Line("agent", n)' = Line("agent", n) /\ IntroFirst(Line("director", n)', n)
             /\ \A t : Carries(Line("director", n)', n, t) => t = "reply"
             /\ \A d \in End, m \in Index : (d # "agent" \/ m # n) =>
                  copier'[d][m] = copier[d][m] /\ stream'[d][m] = stream[d][m]
             /\ copier'["agent"][n] = Copying
             /\ stream'["agent"][n].known = stream["agent"][n].known
             /\ stream'["agent"][n].closed = stream["agent"][n].closed
  <2>1. f \in Frames /\ f.type = "reply" /\ f.id = Id(n)
    BY Naming DEF Frames, Frame, Kind
  <2>2. Sent("agent", f, ok) /\ stream' = [stream EXCEPT !["agent"][n].replied = @ \/ ok]
    BY <1>7 DEF SendReply
  <2> HIDE DEF f
  <2>3. /\ \A d \in End, m \in Index : m # n => Same(Line(d, m)', Line(d, m), m)
        /\ Line("agent", n)' = Line("agent", n) /\ IntroFirst(Line("director", n)', n)
        /\ \A t : Carries(Line("director", n)', n, t) => t = "reply"
    BY <1>1, <1>5, <2>1, <2>2, IntroSent
  <2>4. /\ \A d \in End, m \in Index : (d # "agent" \/ m # n) => stream'[d][m] = stream[d][m]
        /\ stream'["agent"][n].known = stream["agent"][n].known
        /\ stream'["agent"][n].closed = stream["agent"][n].closed
    BY <1>1, <2>2 DEF Streams
  <2>5. /\ \A d \in End, m \in Index : (d # "agent" \/ m # n) => copier'[d][m] = copier[d][m]
        /\ copier'["agent"][n] = Copying
    BY <1>1, <1>7
  <2> QED BY <2>3, <2>4, <2>5
<1>8. ASSUME NEW ok \in BOOLEAN, SendReply(n, ok),
             copier' = [copier EXCEPT !["agent"][n] = IF ok THEN Copying ELSE @], ~ ok
      PROVE  UNCHANGED <<wire, stream, copier>>
  <2>1. UNCHANGED wire
    BY <1>8 DEF SendReply, Sent
  <2>2. UNCHANGED copier
    BY <1>1, <1>8
  <2>3. stream'= [stream EXCEPT !["agent"][n].replied = @ \/ ok]
    BY <1>8 DEF SendReply
  <2>4. stream["agent"][n] \in Streams
    BY <1>1
  <2>5. [stream["agent"][n] EXCEPT !.replied = @ \/ ok] = stream["agent"][n]
    BY <1>8, <2>4 DEF Streams
  <2>6. UNCHANGED stream
    BY <1>1, <2>3, <2>5
  <2> QED BY <2>1, <2>2, <2>6
<1>9. Copying.out = "copy"
  BY Copies
<1>10. \/ UNCHANGED <<wire, stream, copier>>
       \/ \E ok \in BOOLEAN : /\ SendReply(n, ok)
                              /\ copier' = [copier EXCEPT !["agent"][n] = IF ok THEN Copying ELSE @]
  BY DEF Handler
<1> QED
  BY <1>6, <1>7, <1>8, <1>9, <1>10

\* The handler of a stream ends: from here on the agent answers for the stream, or never.
LEMMA HandlerOrder ==
  ASSUME StreamInv, LibTyped', AppTyped', OrderInv, NEW w \in Worker, NEW n \in Index, Handler(w, n)
  PROVE  OrderInv'
<1>1. /\ LibTyped /\ AppTyped /\ Conversation(n) /\ UNCHANGED <<conn, queue, said, heard>>
      /\ Handling(w, n) /\ worker' = [worker EXCEPT !["agent"][w] = Idle]
      /\ "director" \in End /\ "agent" \in End /\ Other("agent") = "director"
      /\ Other("director") = "agent"
      /\ worker \in [End -> [Worker -> Workers]]
  BY Ends DEF StreamInv, OrderInv, LibTyped, Handler, Handling
<1>2. copier["agent"][n].out = "none" /\ Dialing(n)
  BY <1>1 DEF StreamInv, Once, Pending, Dialing
<1>3. /\ copier["director"][n].out \notin {"none", "syn"} /\ ~ Introduced(Line("agent", n), n)
      /\ ~ Barren(n) /\ Id(n) \notin conn["agent"].resets
  BY <1>1, <1>2 DEF Conversation, Before, Unhandled, Refused, Barren
<1>4. /\ said["agent"][n] = 0 /\ copier["agent"][n].in = "none" /\ copier["agent"][n].held = <<>>
      /\ ~ stream["agent"][n].closed
  BY <1>1, <1>2, Ends DEF Conversation, Silent, Arrived
<1>5. /\ \A d \in End, m \in Index : m # n => Same(Line(d, m)', Line(d, m), m)
      /\ Line("agent", n)' = Line("agent", n) /\ IntroFirst(Line("director", n)', n)
      /\ \A t : Carries(Line("director", n)', n, t) => t = "reply" /\ copier'["agent"][n].out = "copy"
      /\ \A d \in End, m \in Index : (d # "agent" \/ m # n) =>
           copier'[d][m] = copier[d][m] /\ stream'[d][m] = stream[d][m]
      /\ copier'["agent"][n] \in {copier["agent"][n], Copying}
      /\ stream'["agent"][n].known = stream["agent"][n].known
      /\ stream'["agent"][n].closed = stream["agent"][n].closed
      /\ stream'["agent"][n].replied => copier'["agent"][n].out = "copy"
  BY HandlerChanges
<1>6. /\ \A d \in End, v \in Worker : (d # "agent" \/ v # w) => worker'[d][v] = worker[d][v]
      /\ worker["agent"][w].at = "handler" /\ worker["agent"][w].n = n
      /\ worker'["agent"][w].at = "idle"
  BY <1>1 DEF Handling, Idle
<1>7. \A d \in End : Offering(d, n)' = Offering(d, n)
                     /\ \A v \in Offering(d, n) : worker'[d][v].data = worker[d][v].data
  BY <1>6 DEF Offering
<1>8. \A v \in Worker : ~ Handling(v, n)'
  <2>1. \A v \in Worker : Handling(v, n) => v = w
    BY <1>1 DEF Conversation
  <2> QED BY <1>1, <1>6, <2>1 DEF Handling
<1>9. Works(n)
  <2>1. \A d \in End, m \in Index : m # n => /\ Same(Line(d, m)', Line(d, m), m)
                                              /\ stream'[d][m] = stream[d][m] /\ copier'[d][m] = copier[d][m]
    BY <1>5
  <2>2. \A d \in End : stream'[d][n].known => stream[d][n].known
    BY <1>5, Ends
  <2> QED BY <1>1, <1>6, <2>1, <2>2 DEF Works
<1>10. copier'["agent"][n].in \in {"none", "read"} /\ copier'["agent"][n].held = <<>>
       /\ (copier'["agent"][n].out = "none" => copier'["agent"][n].in = "none")
  <2>1. Copying.in = "read" /\ Copying.held = <<>> /\ Copying.out = "copy"
    BY DEF Copying, NoCopier
  <2> QED BY <1>4, <1>5, <2>1
<1>11. Pipeline("agent", n)' /\ Arrived("agent", n)' /\ Complete("agent", n)'
  <2>1. PICK d \in End : d = "agent"
    BY <1>1
  <2>2. /\ Pipeline(d, n) /\ Arrived(d, n) /\ Line(d, n)' = Line(d, n)
        /\ copier'[d][n].in \in {"none", "read"} /\ copier'[d][n].held = <<>>
        /\ copier[d][n].in = "none" /\ copier[d][n].held = <<>> /\ ~ stream'[d][n].closed
        /\ copier'[Other(d)][n] = copier[Other(d)][n]
    BY <1>1, <1>4, <1>5, <1>10, <2>1 DEF Conversation
  <2>3. Base(d, n)' = Base(d, n) /\ Home(n)' = Home(n)
    BY <1>1, <1>7, <2>2 DEF Base, Home
  <2>4. Deliverable(d, n)' => Deliverable(d, n)
    BY <1>2, <1>5, <2>1, <2>2, <1>4 DEF Deliverable
  <2>5. Same(Line(d, n)', Line(d, n), n)
    BY <2>2, SameSelf
  <2>6. Pipeline(d, n)'
    BY <1>1, <2>2, <2>3, <2>4, <2>5, PipelineKept
  <2>7. Arrived(d, n)'
    BY <1>1, <1>7, <2>2, <2>3 DEF Arrived
  <2>8. Complete(d, n)'
    BY <2>2 DEF Complete
  <2> QED BY <2>1, <2>6, <2>7, <2>8
<1>12. Pipeline("director", n)' /\ Arrived("director", n)' /\ Complete("director", n)'
  <2>1. PICK d \in End : d = "director"
    BY <1>1
  <2>2. /\ Arrived(d, n) /\ Complete(d, n) /\ copier'[d][n] = copier[d][n] /\ stream'[d][n] = stream[d][n]
    BY <1>1, <1>5, <2>1 DEF Conversation
  <2>3. Arrived(d, n)' /\ Base(d, n)' = Base(d, n)
    BY <1>1, <1>7, <2>2, ArrivedKept
  <2>4. copier[Other(d)][n].out # "done"
    BY <1>1, <1>2, <2>1
  <2>5. Complete(d, n)'
    BY <1>1, <1>3, <2>2, <2>3, <2>4, CompleteKept
  <2>6. \A i \in Mine(Line(d, n)', n) : Line(d, n)'[i].type # "data"
    BY <1>5, <2>1 DEF Carries
  <2>7. said'[Other(d)][n] = 0 /\ Base(d, n)' \in Nat
    BY <1>1, <1>4, <2>1, <2>3, BaseType
  <2> DEFINE L == Line(d, n)'
             base == Base(d, n)'
             full == conn'[d].open
             over == copier'[Other(d)][n].out = "done"
  <2>8. Good(L, n, base, 0, full, over)
    <3>1. base \in Nat /\ 0 \in Nat /\ 0 <= base
      BY <2>7
    <3>2. \A i \in Mine(L, n) : L[i].type # "data"
      BY <2>6
    <3> HIDE DEF L, base, full, over
    <3> QED BY <3>1, <3>2, GoodNone
  <2>9. Pipeline(d, n)'
    BY <2>7, <2>8 DEF Pipeline
  <2> QED BY <2>1, <2>3, <2>5, <2>9
<1>13. Silent("agent", n)' /\ Silent("director", n)'
  <2>1. Silent("agent", n)'
    <3> SUFFICES ASSUME copier'["agent"][n].out \in {"none", "syn"}
                 PROVE  /\ said'["agent"][n] = 0 /\ copier'["agent"][n].in = "none"
                        /\ ~ stream'["agent"][n].closed /\ ~ stream'["agent"][n].replied
                        /\ \A t : ~ Carries(Line("director", n)', n, t)
      BY <1>1 DEF Silent
    <3>1. copier'["agent"][n].out # "copy"
      OBVIOUS
    <3>2. copier'["agent"][n] = copier["agent"][n]
      BY <1>5, <3>1, Copies
    <3> QED BY <1>1, <1>4, <1>5, <3>1, <3>2
  <2>2. Silent("director", n)'
    BY <1>1, <1>3, <1>5 DEF Silent
  <2> QED BY <2>1, <2>2
<1>14. Kinds(n)' /\ Before(n)'
  <2>1. Kinds(n)'
    BY <1>1, <1>5 DEF Conversation, Kinds
  <2>2. copier'["director"][n].out \notin {"none", "syn"}
    BY <1>1, <1>3, <1>5
  <2> QED BY <2>1, <2>2 DEF Before
<1>15. Unhandled(n)' /\ Refused(n)'
  <2>1. ~ Introduced(Line("agent", n)', n)
    BY <1>3, <1>5
  <2>2. ~ Carries(Line("director", n)', n, "rst") /\ Id(n) \notin conn'["agent"].resets
    BY <1>1, <1>3, <1>5
  <2> QED BY <2>1, <2>2 DEF Unhandled, Refused, Id
<1>16. Conversation(n)'
  BY <1>8, <1>11, <1>12, <1>13, <1>14, <1>15, Ends DEF Conversation
<1> QED
  BY <1>9, <1>16, WorksOrder

\* A program ends: it hears and says no more.
LEMMA DiesOrder ==
  ASSUME StreamInv, LibTyped', AppTyped', OrderInv, NEW e \in End, Dies(e)
  PROVE  OrderInv'
<1>1. /\ LibTyped /\ AppTyped /\ Queues /\ conn["director"].resets = {} /\ UNCHANGED <<said, heard>>
      /\ conn \in [End -> Connections] /\ "director" \in End /\ "agent" \in End
  BY Ends DEF StreamInv, OrderInv, LibTyped, Dies
<1>2. PICK o \in End : o = Other(e)
  BY Ends
<1>3. o # e /\ Other(o) = e /\ Other(e) = o /\ (\A d \in End : d = e \/ d = o)
      /\ \/ e = "agent" /\ o = "director"
         \/ e = "director" /\ o = "agent"
  <2>1. o # e /\ Other(o) = e /\ Other(e) = o
    BY <1>2, Ends
  <2>2. e = "director" \/ e = "agent"
    BY Ends
  <2>3. o = "director" \/ o = "agent"
    BY Ends
  <2> QED BY <2>1, <2>2, <2>3, Ends
<1>4. /\ conn'[e].open = FALSE /\ conn'[e].resets = {} /\ conn'[o] = conn[o]
  <2>1. conn' = [conn EXCEPT ![e] = [NewConnection EXCEPT !.open = FALSE, !.serving = FALSE]]
    BY DEF Dies
  <2> QED BY <1>1, <1>3, <2>1 DEF NewConnection
<1>5. /\ wire'[e] = <<>> /\ wire'[o] = wire[o]
      /\ \A w \in Worker : queue'[e][w] = <<>> /\ worker'[e][w].at = "idle"
      /\ queue'[o] = queue[o] /\ worker'[o] = worker[o]
  <2>1. /\ wire' = [wire EXCEPT ![e] = <<>>]
        /\ queue' = [queue EXCEPT ![e] = [w \in Worker |-> <<>>]]
        /\ worker' = [worker EXCEPT ![e] = [w \in Worker |-> Idle]]
    BY DEF Dies
  <2> QED BY <1>1, <1>3, <2>1 DEF LibTyped, Idle
<1>6. /\ \A n \in Index : ~ stream'[e][n].known /\ ~ stream'[e][n].closed /\ ~ stream'[e][n].replied
      /\ stream'[o] = stream[o]
  <2>1. stream' = [stream EXCEPT ![e] = [n \in Index |-> NoStream]]
    BY DEF Dies
  <2> QED BY <1>1, <1>3, <2>1 DEF LibTyped, NoStream
<1>7. /\ \A n \in Index : copier'[e][n].out = "done" /\ copier'[e][n].in = "done" /\ copier'[e][n].held = <<>>
      /\ copier'[o] = copier[o]
  <2>1. copier' = [copier EXCEPT ![e] = [n \in Index |-> Stopped]]
    BY DEF Dies
  <2>2. Stopped.out = "done" /\ Stopped.in = "done" /\ Stopped.held = <<>>
    BY DEF Stopped, NoCopier
  <2> QED BY <1>1, <1>3, <2>1, <2>2 DEF AppTyped
<1>8. Queues'
  <2>1. \A w \in Worker : Sorted(queue'[e][w]) /\ DOMAIN queue'[e][w] = {}
    BY <1>5 DEF Sorted
  <2>2. \A n \in Index : Home(n)' = Home(n)
    BY DEF Home
  <2>3. ASSUME NEW d \in End, NEW w \in Worker
        PROVE  /\ Sorted(queue'[d][w])
               /\ \A i \in DOMAIN queue'[d][w] :
                    /\ queue'[d][w][i].priority <= 7
                    /\ \A n \in Index : Of(queue'[d][w][i].frame, n) => w = Home(n)
    BY <1>1, <1>3, <1>5, <2>1 DEF Queues
  <2>4. ASSUME NEW d \in End, NEW n \in Index, stream'[d][n].known
        PROVE  Prompt(queue'[d][Home(n)], n)
    BY <1>1, <1>3, <1>5, <1>6, <2>4 DEF Queues
  <2> QED BY <2>2, <2>3, <2>4 DEF Queues
<1>9. ASSUME NEW n \in Index PROVE Conversation(n)'
  <2>1. Conversation(n)
    BY DEF OrderInv
  <2>2. Mine(Line(e, n)', n) = {}
    <3>1. Line(e, n)' = LineOf(<<>>, <<>>)
      BY <1>1, <1>5, LineOfStream
    <3>2. DOMAIN LineOf(<<>>, <<>>) = {}
      BY DEF LineOf
    <3> QED BY <3>1, <3>2 DEF Mine
  <2>3. Line(o, n)' = Line(o, n)
    BY <1>1, <1>5, LineOfStream
  <2>4. /\ IntroFirst(Line(e, n)', n) /\ \A t : ~ Carries(Line(e, n)', n, t)
        /\ ~ Introduced(Line(e, n)', n)
    BY <2>2 DEF IntroFirst, Carries, Introduced
  <2>5. /\ Offering(e, n)' = {} /\ Offering(o, n)' = Offering(o, n)
        /\ \A w \in Offering(o, n) : worker'[o][w].data = worker[o][w].data
    BY <1>5 DEF Offering
  <2>6. \A w \in Worker : Handling(w, n)' => e = "director" /\ Handling(w, n)
    BY <1>3, <1>5 DEF Handling
  <2>7. Dialing(n)' => e = "director" /\ Dialing(n)
    BY <2>6 DEF Dialing
  <2>8. Barren(n) => Barren(n)'
    BY <1>1, <1>3, <1>7, <2>3, <2>4, <2>7 DEF Barren
  <2>9. Pipeline(o, n)' /\ Arrived(o, n)' /\ Complete(o, n)'
    BY <1>1, <1>3, <1>4, <1>6, <1>7, <2>1, <2>3, <2>5, <2>7, <2>8, EndKept
  <2>10. Pipeline(e, n)' /\ Complete(e, n)'
    BY <1>7 DEF Pipeline, Complete
  <2>11. Arrived(e, n)'
    <3>1. Arrived(e, n)
      BY <2>1 DEF Conversation
    <3> QED BY <1>1, <1>7, <2>5, <3>1 DEF Arrived
  <2>12. Silent(e, n)' /\ Silent(o, n)'
    <3>1. Silent(o, n)
      BY <2>1 DEF Conversation
    <3>2. Silent(o, n)'
      BY <1>1, <1>3, <1>6, <1>7, <2>4, <3>1 DEF Silent
    <3> QED BY <1>7, <3>2 DEF Silent
  <2>13. Kinds(n)'
    BY <1>3, <2>1, <2>3, <2>4 DEF Conversation, Kinds
  <2>14. Before(n)'
    <3> SUFFICES ASSUME copier'["director"][n].out \in {"none", "syn"}
                 PROVE  /\ Mine(Line("agent", n)', n) = {} /\ Mine(Line("director", n)', n) = {}
                        /\ ~ Dialing(n)' /\ Id(n) \notin conn'["agent"].resets
                        /\ copier'["agent"][n].out = "none" \/ ~ conn'["agent"].open
                        /\ copier'["agent"][n].out \in {"none", "done"}
      BY DEF Before, Id
    <3>1. e = "agent" /\ o = "director"
      BY <1>3, <1>7
    <3>2. Mine(Line("director", n), n) = {}
      BY <1>7, <2>1, <3>1 DEF Conversation, Before
    <3> QED BY <1>4, <1>7, <2>2, <2>3, <2>7, <3>1, <3>2
  <2>15. Unhandled(n)'
    <3>1. CASE e = "agent"
      BY <2>4, <3>1 DEF Unhandled
    <3>2. CASE e = "director"
      BY <1>3, <1>6, <1>7, <2>1, <2>3, <2>7, <3>2 DEF Conversation, Unhandled
    <3> QED BY <1>3, <3>1, <3>2
  <2>16. Refused(n)'
    <3>1. Id(n) \in conn'["agent"].resets => Id(n) \in conn["agent"].resets
      BY <1>3, <1>4
    <3>2. Carries(Line("director", n)', n, "rst") => Carries(Line("director", n), n, "rst")
      BY <1>3, <2>3, <2>4
    <3> QED BY <2>1, <2>8, <3>1, <3>2 DEF Conversation, Refused, Id
  <2>17. \A w \in Worker : Handling(w, n)' => w = Home(n)
    BY <2>1, <2>6 DEF Conversation
  <2> QED
    BY <1>3, <2>9, <2>10, <2>11, <2>12, <2>13, <2>14, <2>15, <2>16, <2>17 DEF Conversation, Home
<1>10. conn'["director"].resets = {}
  BY <1>1, <1>3, <1>4
<1> QED
  BY <1>8, <1>9, <1>10 DEF OrderInv

-----------------------------------------------------------------------------
(* The theorems about the order. *)

\* Nothing was said yet.
LEMMA OrderInit == SInit => OrderInv
<1> SUFFICES ASSUME SInit PROVE OrderInv
  OBVIOUS
<1>1. /\ \A e \in End : wire[e] = <<>> /\ conn[e].resets = {}
      /\ \A e \in End, w \in Worker : queue[e][w] = <<>> /\ worker[e][w].at = "idle"
      /\ \A e \in End, n \in Index : ~ stream[e][n].known /\ ~ stream[e][n].closed /\ ~ stream[e][n].replied
  BY DEF SInit, LibInit, NewConnection, Idle, NoStream
<1>2. \A e \in End, n \in Index :
        /\ said[e][n] = 0 /\ heard[e][n] = <<>>
        /\ copier[e][n].out = "none" /\ copier[e][n].in = "none" /\ copier[e][n].held = <<>>
  BY DEF SInit, NoCopier
<1>3. Queues
  BY <1>1 DEF Queues, Sorted
<1>4. ASSUME NEW n \in Index PROVE Conversation(n)
  <2>1. Home(n) \in Worker
    BY Naming, Numbered DEF Home
  <2>2. \A e \in End : Mine(Line(e, n), n) = {}
    <3>1. \A e \in End : Line(e, n) = LineOf(<<>>, <<>>)
      BY <1>1, <2>1 DEF Line
    <3>2. DOMAIN LineOf(<<>>, <<>>) = {}
      BY DEF LineOf
    <3> QED BY <3>1, <3>2 DEF Mine
  <2>3. \A e \in End : /\ IntroFirst(Line(e, n), n) /\ \A t : ~ Carries(Line(e, n), n, t)
                       /\ ~ Introduced(Line(e, n), n)
    BY <2>2 DEF IntroFirst, Carries, Introduced
  <2>4. \A w \in Worker : ~ Handling(w, n)
    BY <1>1, Ends DEF Handling
  <2>5. ~ Dialing(n) /\ \A e \in End : Offering(e, n) = {}
    BY <1>1, <2>4 DEF Dialing, Offering
  <2>6. \A e \in End : Pipeline(e, n) /\ Silent(e, n) /\ Complete(e, n)
    BY <1>1, <1>2, <2>3, <2>5, Ends DEF Pipeline, Deliverable, Silent, Complete
  <2>7. \A e \in End : Arrived(e, n)
    <3>1. Len(<<>>) = 0 /\ <<>> = [k \in 1 .. 0 |-> k]
      OBVIOUS
    <3>2. ASSUME NEW e \in End PROVE Arrived(e, n)
      <4>1. /\ heard[e][n] = <<>> /\ copier[e][n].held = <<>> /\ copier[e][n].in = "none"
            /\ Offering(e, n) = {}
        BY <1>2, <2>5
      <4>2. said[Other(e)][n] = 0
        BY <1>2, Ends
      <4>3. Base(e, n) = 0
        BY <3>1, <4>1 DEF Base
      <4>4. heard[e][n] = [k \in 1 .. Len(heard[e][n]) |-> k]
        BY <3>1, <4>1
      <4> QED BY <3>1, <4>1, <4>2, <4>3, <4>4 DEF Arrived
    <3> QED BY <3>2
  <2>8. Kinds(n) /\ Before(n) /\ Unhandled(n) /\ Refused(n)
    BY <1>1, <1>2, <2>2, <2>3, <2>5, Ends DEF Kinds, Before, Unhandled, Refused
  <2> QED BY <2>4, <2>6, <2>7, <2>8 DEF Conversation
<1> QED
  BY <1>1, <1>3, <1>4, Ends DEF OrderInv

\* The steps of the library together.
LEMMA LibOrder ==
  ASSUME StreamInv, LibTyped', AppTyped', OrderInv, Lib
  PROVE  OrderInv'
<1>1. UNCHANGED app /\ \E e \in End : \/ Serve(e) \/ Resets(e) \/ Goes(e)
                                      \/ \E w \in Worker : Handle(e, w)
  BY DEF Lib
<1>2. PICK e \in End : \/ Serve(e) \/ Resets(e) \/ Goes(e)
                       \/ \E w \in Worker : Handle(e, w)
  BY <1>1
<1>3. CASE Serve(e)
  BY <1>1, <1>3, ServeOrder, ServeEndOrder DEF Serve
<1>4. CASE Resets(e)
  BY <1>1, <1>4, SendResetOrder DEF Resets
<1>5. CASE Goes(e)
  BY <1>1, <1>5, SendGoAwayOrder, ShutdownOrder DEF Goes
<1>6. CASE \E w \in Worker : Handle(e, w)
  BY <1>1, <1>6, HandleOrder
<1> QED
  BY <1>2, <1>3, <1>4, <1>5, <1>6

\* The second inductive invariant: what is on its way to a stream that can still be
\* delivered to is, after what was delivered, all that was said in its order, and what a
\* stream that its other end has closed had been given is all of it.
THEOREM OrderInductive == SSpec => []OrderInv
<1>1. SInit => OrderInv
  BY OrderInit
<1>2. StreamInv /\ StreamInv' /\ OrderInv /\ [SNext]_svars => OrderInv'
  <2> SUFFICES ASSUME StreamInv, StreamInv', OrderInv, [SNext]_svars PROVE OrderInv'
    OBVIOUS
  <2>1. LibTyped' /\ AppTyped'
    BY DEF StreamInv
  <2>2. CASE Lib
    BY <2>1, <2>2, LibOrder
  <2>3. CASE Session
    BY <2>1, <2>3, PingOrder, PingedOrder DEF Session
  <2>4. ASSUME NEW w \in Worker, NEW n \in Index, Handler(w, n) PROVE OrderInv'
    BY <2>1, <2>4, HandlerOrder
  <2>5. ASSUME NEW n \in Index, Forwarded(n) \/ Forward(n) PROVE OrderInv'
    BY <2>1, <2>5, ForwardedOrder, ForwardOrder
  <2>6. ASSUME NEW e \in End, NEW n \in Index, Out(e, n) \/ In(e, n) PROVE OrderInv'
    BY <2>1, <2>6, EndOutOrder, CloseOutOrder, FinishOutOrder, ReadInOrder, WriteInOrder DEF Out, In
  <2>7. CASE Switched
    BY <2>1, <2>7, Ends, CloseConnOrder DEF Switched
  <2>8. ASSUME NEW e \in End, NEW n \in Index, CopyOut(e, n) \/ Gone(e, n) PROVE OrderInv'
    BY <2>1, <2>8, CopyOutOrder, GoneOrder
  <2>9. ASSUME NEW e \in End, Dies(e) PROVE OrderInv'
    BY <2>1, <2>9, DiesOrder
  <2>10. CASE UNCHANGED svars
    <3>1. UNCHANGED <<wire, queue, worker, stream, conn, said, heard, copier>>
      BY <2>10 DEF svars
    <3> QED BY <2>1, <3>1, StillOrder
  <2> QED
    BY <2>2, <2>3, <2>4, <2>5, <2>6, <2>7, <2>8, <2>9, <2>10 DEF SNext, Program, Environment
<1> QED
  BY <1>1, <1>2, StreamInductive, PTL DEF SSpec

\* The messages of a stream come out in the order they went in, and an end whose reader has
\* taken all there is of a stream the other end has closed has been given all that was said.
THEOREM MessagesInOrder == SSpec => []InOrder
<1>1. StreamInv /\ OrderInv => InOrder
  <2> SUFFICES ASSUME StreamInv, OrderInv, NEW e \in End, NEW n \in Index
               PROVE  /\ heard[e][n] = [k \in 1 .. Len(heard[e][n]) |-> k]
                      /\ Len(heard[e][n]) <= said[Other(e)][n]
                      /\ (copier[e][n].in = "read" /\ copier[e][n].out = "copy" /\ stream[e][n].closed)
                           => Len(heard[e][n]) = said[Other(e)][n]
    BY DEF InOrder
  <2>1. Arrived(e, n) /\ Complete(e, n)
    BY DEF OrderInv, Conversation
  <2>2. ASSUME copier[e][n].in = "read", copier[e][n].out = "copy", stream[e][n].closed
        PROVE  Len(heard[e][n]) = said[Other(e)][n]
    <3>1. Base(e, n) = said[Other(e)][n]
      BY <2>1, <2>2 DEF Complete
    <3>2. Offering(e, n) = {} /\ copier[e][n].held = <<>>
      BY <2>1, <2>2 DEF Arrived
    <3>3. Len(heard[e][n]) \in Nat /\ Len(<<>>) = 0
      BY BaseType DEF StreamInv
    <3> QED BY <3>1, <3>2, <3>3 DEF Base
  <2> QED BY <2>1, <2>2 DEF Arrived
<1> QED
  BY <1>1, StreamInductive, OrderInductive, PTL
=============================================================================
