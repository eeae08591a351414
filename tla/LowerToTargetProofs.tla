------------------------ MODULE LowerToTargetProofs -------------------------
(***************************************************************************)
(* The calls that cim-lower-to-target emits meet only buffers that are     *)
(* allocated, and leave only what the source leaves: for functions of any  *)
(* length, with reductions of any number of operands and loops of any trip *)
(* counts.                                                                 *)
(*                                                                         *)
(* A sequence of calls is judged by the buffers it needs, creates and      *)
(* frees: Neat(K, A, s, B, N) says that s can run where those of A are     *)
(* allocated, creates N and leaves B.  Neat calls compose, and what each   *)
(* op emits is neat.  Emit tears an op's calls apart: the allocations of   *)
(* an op of the nest go before it and its frees after it, and what remains *)
(* in the body creates and frees nothing (PickedParts), so one iteration   *)
(* or many are the same to it.  Placed says this of the whole code; it is  *)
(* the heart of the inductive invariant IInv, from which a run for any     *)
(* number of iterations (Runs) meets only buffers that are allocated       *)
(* (Well).                                                                 *)
(***************************************************************************)
EXTENDS LowerToTarget, FiniteSetTheorems, TLAPS

\* Its lemmas on induction are cited, in which NoWeight does not occur.
Induction == INSTANCE SchedulesProofs WITH NoWeight <- 0

\* FlattenSeq is the same operator there and here.
LEMMA SameFlatten == \A seqs : Induction!FlattenSeq(seqs) = FlattenSeq(seqs)
BY DEF FlattenSeq, Induction!FlattenSeq
-----------------------------------------------------------------------------
(* Calls, and what they do to the buffers that are allocated.              *)

Roles == {"input", "tile", "host", "staged", "out", "sum", "contiguous", "copy", "sliced"}
Locs  == Nat \X Roles \X Nat
Works == {"move", "garbled", "mvm", "add", "max", "requantize", "head", "rest", "misplaced"}
Steps ==
  [op : {"alloc", "free", "freeHere"}, dst : Locs]
    \cup [op : {"set"}, dst : Locs, f : Works, args : Seq(Locs)]
    \cup [op : {"done"}, dst : Locs, value : Nat]

\* Those of the nest, where no operand is materialized.
Prompt == {c \in Steps : c.op # "freeHere"}

\* The buffers that a call needs, creates and frees.
Needs(c) ==
  {x \in (IF c.op \in {"free", "freeHere"} THEN {c.dst} ELSE {})
           \cup (IF c.op = "set" THEN {c.dst} \cup ToSet(c.args) ELSE {}) : IsBuffer(x)}
Gets(c)  == IF c.op = "alloc" THEN {c.dst} ELSE {}
Drops(c) == IF c.op \in {"free", "freeHere"} THEN {c.dst} ELSE {}
AllGets(s)  == UNION {Gets(s[i]) : i \in DOMAIN s}
AllDrops(s) == UNION {Drops(s[i]) : i \in DOMAIN s}

\* The calls s, of K, create the buffers N, each once and none that is in A; where the
\* buffers of A are allocated they find all they need; B is what they leave.
Neat(K, A, s, B, N) ==
  /\ s \in Seq(K) /\ N \cap A = {} /\ N = AllGets(s) /\ B = (A \cup N) \ AllDrops(s)
  /\ \A i \in DOMAIN s : Drops(s[i]) \subseteq Needs(s[i])
  /\ \A i, j \in DOMAIN s : i < j => Gets(s[i]) \cap Gets(s[j]) = {}
  /\ \A i \in DOMAIN s : \A x \in Needs(s[i]) :
       /\ x \in A \/ \E j \in DOMAIN s : j < i /\ x \in Gets(s[j])
       /\ \A j \in DOMAIN s : j < i => x \notin Drops(s[j])
-----------------------------------------------------------------------------
LEMMA ConcatFields ==
  ASSUME NEW X, NEW s \in Seq(X), NEW t \in Seq(X)
  PROVE  /\ s \o t \in Seq(X)
         /\ \A i \in DOMAIN s : i \in DOMAIN (s \o t) /\ (s \o t)[i] = s[i] /\ i \in Nat /\ i <= Len(s)
         /\ \A i \in DOMAIN t : Len(s) + i \in DOMAIN (s \o t) /\ (s \o t)[Len(s) + i] = t[i] /\ i \in Nat /\ 0 < i
         /\ \A i \in DOMAIN (s \o t) : i \in DOMAIN s \/ \E j \in DOMAIN t : i = Len(s) + j
         /\ Len(s) \in Nat
<1>1. s \o t \in Seq(X) /\ Len(s) \in Nat /\ DOMAIN (s \o t) = 1 .. Len(s) + Len(t) /\ Len(t) \in Nat
      /\ DOMAIN s = 1 .. Len(s) /\ DOMAIN t = 1 .. Len(t)
  OBVIOUS
<1>2. \A i \in DOMAIN s : i \in DOMAIN (s \o t) /\ (s \o t)[i] = s[i] /\ i \in Nat /\ i <= Len(s)
  OBVIOUS
<1>3. \A i \in DOMAIN t : Len(s) + i \in DOMAIN (s \o t) /\ (s \o t)[Len(s) + i] = t[i] /\ i \in Nat /\ 0 < i
  OBVIOUS
<1>4. ASSUME NEW i \in DOMAIN (s \o t), i \notin DOMAIN s PROVE \E j \in DOMAIN t : i = Len(s) + j
  <2>1. i - Len(s) \in DOMAIN t /\ i = Len(s) + (i - Len(s))
    BY <1>1, <1>4
  <2> QED BY <2>1
<1> QED BY <1>1, <1>2, <1>3, <1>4

\* What calls in a row create and free.
LEMMA AllConcat ==
  ASSUME NEW X, NEW s \in Seq(X), NEW t \in Seq(X)
  PROVE  AllGets(s \o t) = AllGets(s) \cup AllGets(t) /\ AllDrops(s \o t) = AllDrops(s) \cup AllDrops(t)
<1>1. \A i \in DOMAIN s : i \in DOMAIN (s \o t) /\ (s \o t)[i] = s[i]
  BY ConcatFields
<1>2. \A i \in DOMAIN t : \E k \in DOMAIN (s \o t) : (s \o t)[k] = t[i]
  BY ConcatFields
<1>3. \A k \in DOMAIN (s \o t) : (\E i \in DOMAIN s : (s \o t)[k] = s[i]) \/ \E i \in DOMAIN t : (s \o t)[k] = t[i]
  <2> SUFFICES ASSUME NEW k \in DOMAIN (s \o t)
               PROVE (\E i \in DOMAIN s : (s \o t)[k] = s[i]) \/ \E i \in DOMAIN t : (s \o t)[k] = t[i]
    OBVIOUS
  <2>1. k \in DOMAIN s \/ \E j \in DOMAIN t : k = Len(s) + j
    BY ConcatFields
  <2>2. \A i \in DOMAIN s : (s \o t)[i] = s[i]
    BY ConcatFields
  <2>3. \A i \in DOMAIN t : (s \o t)[Len(s) + i] = t[i]
    OBVIOUS
  <2> QED BY <2>1, <2>2, <2>3
<1> DEFINE c == s \o t
<1> HIDE DEF c
<1>4. \A x : (\E k \in DOMAIN c : x \in Gets(c[k])) <=> (\E i \in DOMAIN s : x \in Gets(s[i])) \/ \E i \in DOMAIN t : x \in Gets(t[i])
  BY <1>1, <1>2, <1>3 DEF c
<1>5. \A x : (\E k \in DOMAIN c : x \in Drops(c[k])) <=> (\E i \in DOMAIN s : x \in Drops(s[i])) \/ \E i \in DOMAIN t : x \in Drops(t[i])
  BY <1>1, <1>2, <1>3 DEF c
<1>6. \A x : x \in AllGets(c) <=> x \in AllGets(s) \cup AllGets(t)
  BY <1>4 DEF AllGets
<1>7. \A x : x \in AllDrops(c) <=> x \in AllDrops(s) \cup AllDrops(t)
  BY <1>5 DEF AllDrops
<1> QED BY <1>6, <1>7 DEF c

\* Neat calls in a row are neat, if the later ones create other buffers.
LEMMA NeatConcat ==
  ASSUME NEW K, NEW A, NEW s, NEW B, NEW N, NEW t, NEW C, NEW M,
         Neat(K, A, s, B, N), Neat(K, B, t, C, M), M \cap (A \cup N) = {}
  PROVE  Neat(K, A, s \o t, C, N \cup M)
<1> DEFINE u == s \o t
           n == Len(s)
<1>1. s \in Seq(K) /\ t \in Seq(K) /\ N = AllGets(s) /\ M = AllGets(t)
  BY DEF Neat
<1>2. /\ u \in Seq(K) /\ n \in Nat
      /\ \A i \in DOMAIN s : i \in DOMAIN u /\ u[i] = s[i] /\ i \in Nat /\ i <= n
      /\ \A i \in DOMAIN t : n + i \in DOMAIN u /\ u[n + i] = t[i] /\ i \in Nat /\ 0 < i
      /\ \A i \in DOMAIN u : i \in DOMAIN s \/ \E j \in DOMAIN t : i = n + j
  BY <1>1, ConcatFields
<1>3. AllGets(u) = N \cup M /\ AllDrops(u) = AllDrops(s) \cup AllDrops(t)
  BY <1>1, AllConcat
<1> HIDE DEF u, n
<1>4. \A i \in DOMAIN s : Gets(s[i]) \subseteq N /\ Drops(s[i]) \subseteq AllDrops(s)
  BY <1>1 DEF AllGets, AllDrops
<1>5. \A i \in DOMAIN t : Gets(t[i]) \subseteq M /\ Drops(t[i]) \subseteq AllDrops(t)
  BY <1>1 DEF AllGets, AllDrops
<1>6. \A i \in DOMAIN s : Needs(s[i]) \subseteq A \cup N /\ Drops(s[i]) \subseteq Needs(s[i])
  BY <1>4 DEF Neat
<1>7. AllDrops(s) \subseteq A \cup N
  BY <1>6 DEF AllDrops
<1>8. \A i \in DOMAIN t : Needs(t[i]) \subseteq B \cup M
  BY <1>5 DEF Neat
<1>9. B = (A \cup N) \ AllDrops(s) /\ C = (B \cup M) \ AllDrops(t)
  BY DEF Neat
<1>10. \A i \in DOMAIN u : Drops(u[i]) \subseteq Needs(u[i])
  <2> SUFFICES ASSUME NEW i \in DOMAIN u PROVE Drops(u[i]) \subseteq Needs(u[i])
    OBVIOUS
  <2>1. CASE i \in DOMAIN s
    BY <1>2, <1>6, <2>1
  <2>2. CASE \E j \in DOMAIN t : i = n + j
    BY <1>2, <2>2 DEF Neat
  <2> QED BY <1>2, <2>1, <2>2
<1>11. \A i, j \in DOMAIN u : i < j => Gets(u[i]) \cap Gets(u[j]) = {}
  <2> SUFFICES ASSUME NEW i \in DOMAIN u, NEW j \in DOMAIN u, i < j PROVE Gets(u[i]) \cap Gets(u[j]) = {}
    OBVIOUS
  <2>1. CASE i \in DOMAIN s /\ j \in DOMAIN s
    BY <1>2, <2>1 DEF Neat
  <2>2. CASE i \in DOMAIN s /\ \E l \in DOMAIN t : j = n + l
    <3>1. PICK l \in DOMAIN t : j = n + l
      BY <2>2
    <3>2. Gets(u[i]) \subseteq N /\ Gets(u[j]) \subseteq M
      BY <1>2, <1>4, <1>5, <2>2, <3>1
    <3> QED BY <3>2
  <2>3. CASE (\E k \in DOMAIN t : i = n + k) /\ j \in DOMAIN s
    BY <1>2, <2>3
  <2>4. CASE (\E k \in DOMAIN t : i = n + k) /\ \E l \in DOMAIN t : j = n + l
    <3>1. PICK k \in DOMAIN t, l \in DOMAIN t : i = n + k /\ j = n + l
      BY <2>4
    <3>2. k < l /\ u[i] = t[k] /\ u[j] = t[l]
      BY <1>2, <3>1
    <3> QED BY <3>2 DEF Neat
  <2> QED BY <1>2, <2>1, <2>2, <2>3, <2>4
<1>12. ASSUME NEW i \in DOMAIN u, NEW x \in Needs(u[i])
       PROVE  /\ x \in A \/ \E j \in DOMAIN u : j < i /\ x \in Gets(u[j])
              /\ \A j \in DOMAIN u : j < i => x \notin Drops(u[j])
  <2>1. CASE i \in DOMAIN s
    <3>1. x \in Needs(s[i])
      BY <1>2, <2>1
    <3>2. /\ x \in A \/ \E j \in DOMAIN s : j < i /\ x \in Gets(s[j])
          /\ \A j \in DOMAIN s : j < i => x \notin Drops(s[j])
      BY <2>1, <3>1 DEF Neat
    <3>3. \A j \in DOMAIN u : j < i => j \in DOMAIN s
      BY <1>2, <2>1
    <3> QED BY <1>2, <3>2, <3>3
  <2>2. CASE \E k \in DOMAIN t : i = n + k
    <3>1. PICK k \in DOMAIN t : i = n + k
      BY <2>2
    <3>2. x \in Needs(t[k])
      BY <1>2, <3>1
    <3>3. /\ x \in B \/ \E j \in DOMAIN t : j < k /\ x \in Gets(t[j])
          /\ \A j \in DOMAIN t : j < k => x \notin Drops(t[j])
      BY <3>2 DEF Neat
    <3>4. x \notin AllDrops(s)
      <4>1. CASE x \in B
        BY <1>9, <4>1
      <4>2. CASE x \in M
        BY <1>7, <4>2
      <4> QED BY <1>8, <3>2, <4>1, <4>2
    <3>5. \A j \in DOMAIN u : j < i => x \notin Drops(u[j])
      <4> SUFFICES ASSUME NEW j \in DOMAIN u, j < i, x \in Drops(u[j]) PROVE FALSE
        OBVIOUS
      <4>1. CASE j \in DOMAIN s
        BY <1>2, <1>4, <3>4, <4>1
      <4>2. CASE \E l \in DOMAIN t : j = n + l
        BY <1>2, <3>1, <3>3, <4>2
      <4> QED BY <1>2, <4>1, <4>2
    <3>6. x \in A \/ \E j \in DOMAIN u : j < i /\ x \in Gets(u[j])
      <4>1. CASE x \in B
        <5>1. x \in A \/ \E j \in DOMAIN s : x \in Gets(s[j])
          BY <1>1, <1>9, <4>1 DEF AllGets
        <5>2. \A j \in DOMAIN s : j < i
          BY <1>2, <3>1
        <5> QED BY <1>2, <5>1, <5>2
      <4>2. CASE \E j \in DOMAIN t : j < k /\ x \in Gets(t[j])
        <5>1. PICK j \in DOMAIN t : j < k /\ x \in Gets(t[j])
          BY <4>2
        <5>2. n + j \in DOMAIN u /\ n + j < i /\ u[n + j] = t[j]
          BY <1>2, <3>1, <5>1
        <5> QED BY <5>1, <5>2
      <4> QED BY <3>3, <4>1, <4>2
    <3> QED BY <3>5, <3>6
  <2> QED BY <1>2, <2>1, <2>2
<1>13. C = (A \cup (N \cup M)) \ AllDrops(u)
  BY <1>3, <1>7, <1>9
<1>14. (N \cup M) \cap A = {}
  BY DEF Neat
<1> QED BY <1>2, <1>3, <1>10, <1>11, <1>12, <1>13, <1>14 DEF Neat, u
-----------------------------------------------------------------------------
LEMMA NeatNone == ASSUME NEW K, NEW A PROVE Neat(K, A, <<>>, A, {})
<1>1. AllGets(<<>>) = {} /\ AllDrops(<<>>) = {} /\ <<>> \in Seq(K) /\ DOMAIN <<>> = {}
  BY DEF AllGets, AllDrops
<1> QED BY <1>1 DEF Neat

LEMMA NeatOne ==
  ASSUME NEW K, NEW A, NEW c \in K, Needs(c) \subseteq A, Gets(c) \cap A = {}, Drops(c) \subseteq Needs(c)
  PROVE  Neat(K, A, <<c>>, (A \cup Gets(c)) \ Drops(c), Gets(c))
<1> DEFINE s == <<c>>
<1>1. s \in Seq(K) /\ DOMAIN s = {1} /\ s[1] = c
  OBVIOUS
<1> HIDE DEF s
<1>2. AllGets(s) = Gets(c) /\ AllDrops(s) = Drops(c)
  BY <1>1 DEF AllGets, AllDrops
<1>3. \A i, j \in DOMAIN s : ~ (i < j)
  BY <1>1
<1> QED BY <1>1, <1>2, <1>3 DEF Neat, s

LEMMA AllocFields ==
  ASSUME NEW x \in Locs
  PROVE  Alloc(x) \in Steps /\ Needs(Alloc(x)) = {} /\ Gets(Alloc(x)) = {x} /\ Drops(Alloc(x)) = {}
<1>1. Alloc(x) \in Steps
  BY DEF Steps, Alloc
<1> QED BY <1>1 DEF Needs, Gets, Drops, Alloc
LEMMA FreeFields ==
  ASSUME NEW x \in Locs, IsBuffer(x)
  PROVE  Free(x) \in Steps /\ Needs(Free(x)) = {x} /\ Gets(Free(x)) = {} /\ Drops(Free(x)) = {x}
<1>1. Free(x) \in Steps
  BY DEF Steps, Free
<1> QED BY <1>1 DEF Needs, Gets, Drops, Free
LEMMA FreeHereFields ==
  ASSUME NEW x \in Locs, IsBuffer(x)
  PROVE  /\ FreeHere(x) \in Steps /\ Needs(FreeHere(x)) = {x} /\ Gets(FreeHere(x)) = {}
         /\ Drops(FreeHere(x)) = {x}
<1>1. FreeHere(x) \in Steps
  BY DEF Steps, FreeHere
<1> QED BY <1>1 DEF Needs, Gets, Drops, FreeHere
LEMMA SetFields ==
  ASSUME NEW x \in Locs, NEW f \in Works, NEW args \in Seq(Locs)
  PROVE  /\ Set(x, f, args) \in Steps /\ Gets(Set(x, f, args)) = {} /\ Drops(Set(x, f, args)) = {}
         /\ Needs(Set(x, f, args)) = {y \in {x} \cup ToSet(args) : IsBuffer(y)}
<1>1. Set(x, f, args) \in Steps
  BY DEF Steps, Set
<1> QED BY <1>1 DEF Needs, Gets, Drops, Set
LEMMA DoneFields ==
  ASSUME NEW x \in Locs, NEW v \in Nat
  PROVE  Done(x, v) \in Steps /\ Needs(Done(x, v)) = {} /\ Gets(Done(x, v)) = {} /\ Drops(Done(x, v)) = {}
<1>1. Done(x, v) \in Steps
  BY DEF Steps, Done
<1> QED BY <1>1 DEF Needs, Gets, Drops, Done

LEMMA NeatAlloc ==
  ASSUME NEW K \in {Steps, Prompt}, NEW A, NEW x \in Locs, x \notin A
  PROVE  Neat(K, A, <<Alloc(x)>>, A \cup {x}, {x})
<1> DEFINE c == Alloc(x)
<1>1. c \in K /\ Needs(c) = {} /\ Gets(c) = {x} /\ Drops(c) = {}
  BY AllocFields DEF Prompt, Alloc
<1> HIDE DEF c
<1>2. Neat(K, A, <<c>>, (A \cup Gets(c)) \ Drops(c), Gets(c))
  BY <1>1, NeatOne
<1>3. (A \cup Gets(c)) \ Drops(c) = A \cup {x}
  BY <1>1
<1> QED BY <1>1, <1>2, <1>3 DEF c
LEMMA NeatFree ==
  ASSUME NEW K \in {Steps, Prompt}, NEW A, NEW x \in Locs, IsBuffer(x), x \in A
  PROVE  Neat(K, A, <<Free(x)>>, A \ {x}, {}) /\ Neat(Steps, A, <<FreeHere(x)>>, A \ {x}, {})
<1>1. ASSUME NEW M, NEW c \in M, Needs(c) = {x}, Gets(c) = {}, Drops(c) = {x}
      PROVE  Neat(M, A, <<c>>, A \ {x}, {})
  <2>1. Neat(M, A, <<c>>, (A \cup Gets(c)) \ Drops(c), Gets(c))
    BY <1>1, NeatOne
  <2>2. (A \cup Gets(c)) \ Drops(c) = A \ {x}
    BY <1>1
  <2> QED BY <1>1, <2>1, <2>2
<1>2. Free(x) \in K
  BY FreeFields DEF Prompt, Free
<1>3. Neat(K, A, <<Free(x)>>, A \ {x}, {})
  BY <1>1, <1>2, FreeFields
<1>4. Neat(Steps, A, <<FreeHere(x)>>, A \ {x}, {})
  BY <1>1, FreeHereFields
<1> QED BY <1>3, <1>4
LEMMA NeatSet ==
  ASSUME NEW K \in {Steps, Prompt}, NEW A, NEW x \in Locs, NEW f \in Works, NEW args \in Seq(Locs),
         \A y \in {x} \cup ToSet(args) : IsBuffer(y) => y \in A
  PROVE  Neat(K, A, <<Set(x, f, args)>>, A, {})
<1> DEFINE c == Set(x, f, args)
<1>1. c \in K /\ Gets(c) = {} /\ Drops(c) = {} /\ Needs(c) \subseteq A
  <2>1. /\ c \in K /\ Gets(c) = {} /\ Drops(c) = {}
        /\ Needs(c) = {y \in {x} \cup ToSet(args) : IsBuffer(y)}
    <3>1. /\ c \in Steps /\ Gets(c) = {} /\ Drops(c) = {}
          /\ Needs(c) = {y \in {x} \cup ToSet(args) : IsBuffer(y)}
      BY SetFields
    <3>2. c.op # "freeHere"
      BY DEF Set
    <3> HIDE DEF c
    <3> QED BY <3>1, <3>2 DEF Prompt
  <2> HIDE DEF c
  <2> QED BY <2>1
<1> HIDE DEF c
<1>2. Neat(K, A, <<c>>, (A \cup Gets(c)) \ Drops(c), Gets(c))
  BY <1>1, NeatOne
<1>3. (A \cup Gets(c)) \ Drops(c) = A
  BY <1>1
<1> QED BY <1>1, <1>2, <1>3 DEF c
LEMMA NeatDone ==
  ASSUME NEW K \in {Steps, Prompt}, NEW A, NEW x \in Locs, NEW v \in Nat
  PROVE  Neat(K, A, <<Done(x, v)>>, A, {})
<1> DEFINE c == Done(x, v)
<1>1. c \in K /\ Gets(c) = {} /\ Drops(c) = {} /\ Needs(c) \subseteq A
  BY DoneFields DEF Prompt, Done
<1> HIDE DEF c
<1>2. Neat(K, A, <<c>>, (A \cup Gets(c)) \ Drops(c), Gets(c))
  BY <1>1, NeatOne
<1>3. (A \cup Gets(c)) \ Drops(c) = A
  BY <1>1
<1> QED BY <1>1, <1>2, <1>3 DEF c
-----------------------------------------------------------------------------
(* Among: the calls that are in a set, in order.                           *)

Picked(u, s, T, n, at) ==
  /\ at \in [DOMAIN u -> 1 .. n]
  /\ \A i, j \in DOMAIN u : i < j => at[i] < at[j]
  /\ \A i \in DOMAIN u : u[i] = s[at[i]] /\ u[i] \in T
  /\ \A k \in 1 .. n : s[k] \in T => \E i \in DOMAIN u : at[i] = k

LEMMA PickOneMore ==
  ASSUME NEW X, NEW s \in Seq(X), NEW T, NEW n \in Nat, n + 1 \in DOMAIN s,
         NEW u \in Seq(X), NEW at, Picked(u, s, T, n, at),
         NEW v, v = u \o (IF s[n + 1] \in T THEN <<s[n + 1]>> ELSE <<>>)
  PROVE  v \in Seq(X) /\ \E to : Picked(v, s, T, n + 1, to)
<1>1. CASE s[n + 1] \notin T
  <2>1. v = u
    BY <1>1
  <2>2. /\ at \in [DOMAIN u -> 1 .. n + 1]
        /\ \A i, j \in DOMAIN u : i < j => at[i] < at[j]
        /\ \A i \in DOMAIN u : u[i] = s[at[i]] /\ u[i] \in T
    BY DEF Picked
  <2>3. \A k \in 1 .. n + 1 : s[k] \in T => k \in 1 .. n
    BY <1>1
  <2>4. \A k \in 1 .. n + 1 : s[k] \in T => \E i \in DOMAIN u : at[i] = k
    BY <2>3 DEF Picked
  <2>5. Picked(u, s, T, n + 1, at)
    BY <2>2, <2>4 DEF Picked
  <2> QED BY <2>1, <2>5
<1>2. CASE s[n + 1] \in T
  <2> DEFINE m == Len(u)
             to == [i \in DOMAIN v |-> IF i \in DOMAIN u THEN at[i] ELSE n + 1]
  <2>1. v = Append(u, s[n + 1]) /\ v \in Seq(X)
    BY <1>2
  <2>2. /\ m \in Nat /\ DOMAIN u = 1 .. m /\ DOMAIN v = 1 .. m + 1 /\ v[m + 1] = s[n + 1]
        /\ \A i \in DOMAIN u : v[i] = u[i]
    BY <2>1
  <2>3. \A i \in DOMAIN v : to[i] = IF i \in DOMAIN u THEN at[i] ELSE n + 1
    OBVIOUS
  <2>4. to \in [DOMAIN v -> 1 .. n + 1]
    <3>1. \A i \in DOMAIN v : (IF i \in DOMAIN u THEN at[i] ELSE n + 1) \in 1 .. n + 1
      BY DEF Picked
    <3> QED BY <3>1
  <2> HIDE DEF to, m
  <2>5. \A i, j \in DOMAIN v : i < j => to[i] < to[j]
    <3> SUFFICES ASSUME NEW i \in DOMAIN v, NEW j \in DOMAIN v, i < j PROVE to[i] < to[j]
      OBVIOUS
    <3>1. i \in DOMAIN u /\ to[i] = at[i] /\ at[i] \in 1 .. n
      BY <2>2, <2>3 DEF Picked
    <3>2. CASE j \in DOMAIN u
      BY <2>3, <3>1, <3>2 DEF Picked
    <3>3. CASE j \notin DOMAIN u
      BY <2>3, <3>1, <3>3
    <3> QED BY <3>2, <3>3
  <2>6. \A i \in DOMAIN v : v[i] = s[to[i]] /\ v[i] \in T
    <3> SUFFICES ASSUME NEW i \in DOMAIN v PROVE v[i] = s[to[i]] /\ v[i] \in T
      OBVIOUS
    <3>1. CASE i \in DOMAIN u
      BY <2>2, <2>3, <3>1 DEF Picked
    <3>2. CASE i \notin DOMAIN u
      BY <1>2, <2>2, <2>3, <3>2
    <3> QED BY <3>1, <3>2
  <2>7. \A k \in 1 .. n + 1 : s[k] \in T => \E i \in DOMAIN v : to[i] = k
    <3> SUFFICES ASSUME NEW k \in 1 .. n + 1, s[k] \in T PROVE \E i \in DOMAIN v : to[i] = k
      OBVIOUS
    <3>1. CASE k \in 1 .. n
      <4>1. PICK i \in DOMAIN u : at[i] = k
        BY <3>1 DEF Picked
      <4>2. i \in DOMAIN v /\ to[i] = k
        BY <2>2, <2>3, <4>1
      <4> QED BY <4>2
    <3>2. CASE k = n + 1
      BY <2>2, <2>3, <3>2
    <3> QED BY <3>1, <3>2
  <2> QED BY <2>1, <2>4, <2>5, <2>6, <2>7 DEF Picked
<1> QED BY <1>1, <1>2

LEMMA AmongIs ==
  ASSUME NEW X, NEW s \in Seq(X), NEW T, NEW t, t = Among(s, T)
  PROVE  t \in Seq(X) /\ \E at : Picked(t, s, T, Len(s), at)
<1> DEFINE n == Len(s)
           seqs == [i \in DOMAIN s |-> IF s[i] \in T THEN <<s[i]>> ELSE <<>>]
<1>1. n \in Nat /\ DOMAIN s = 1 .. n /\ \A i \in 1 .. n : s[i] \in X
  OBVIOUS
<1>2. \A i \in 1 .. n : seqs[i] = IF s[i] \in T THEN <<s[i]>> ELSE <<>>
  BY <1>1
<1>3. seqs \in Seq(Seq(X)) /\ Len(seqs) = n
  <2>1. \A i \in 1 .. n : (IF s[i] \in T THEN <<s[i]>> ELSE <<>>) \in Seq(X)
    BY <1>1
  <2>2. seqs = [i \in 1 .. n |-> IF s[i] \in T THEN <<s[i]>> ELSE <<>>]
    BY <1>1
  <2>3. seqs \in [1 .. n -> Seq(X)]
    BY <2>1, <2>2
  <2> HIDE DEF seqs
  <2> QED BY <1>1, <2>3
<1>4. t = FlattenSeq(seqs)
  BY DEF Among
<1> HIDE DEF seqs
<1>5. CASE n = 0
  <2>1. t = <<>>
    BY <1>3, <1>4, <1>5 DEF FlattenSeq
  <2>2. DOMAIN t = {} /\ t \in Seq(X) /\ 1 .. n = {}
    BY <1>5, <2>1
  <2>3. Picked(t, s, T, n, <<>>)
    BY <2>2 DEF Picked
  <2> QED BY <2>2, <2>3
<1>6. CASE n # 0
  <2>1. PICK parts : Induction!IsFlattening(parts, seqs, X) /\ FlattenSeq(seqs) = parts[n]
    BY <1>3, <1>6, Induction!Flattening, SameFlatten
  <2> DEFINE R == {i \in Nat : i + 1 \in 1 .. n =>
                     parts[i + 1] \in Seq(X) /\ \E at : Picked(parts[i + 1], s, T, i + 1, at)}
  <2>2. parts[1] = seqs[1] /\ \A i \in 2 .. n : parts[i] = parts[i - 1] \o seqs[i]
    BY <1>3, <2>1 DEF Induction!IsFlattening
  <2>3. 0 \in R
    <3>1. 1 \in DOMAIN s /\ <<>> \in Seq(X) /\ parts[1] = <<>> \o seqs[1]
      <4>1. 1 \in 1 .. n
        BY <1>1, <1>6
      <4>2. seqs[1] \in Seq(X)
        BY <1>3, <4>1
      <4> QED BY <1>1, <2>2, <4>1, <4>2
    <3>2. parts[0 + 1] = <<>> \o (IF s[0 + 1] \in T THEN <<s[0 + 1]>> ELSE <<>>)
      BY <1>1, <1>2, <3>1
    <3>3. Picked(<<>>, s, T, 0, <<>>)
      BY DEF Picked
    <3> HIDE DEF R
    <3>4. 0 \in Nat /\ 0 + 1 \in DOMAIN s
      BY <3>1
    <3>5. parts[0 + 1] \in Seq(X) /\ \E at : Picked(parts[0 + 1], s, T, 0 + 1, at)
      BY <3>1, <3>2, <3>3, <3>4, PickOneMore
    <3> QED BY <3>5 DEF R
  <2>4. ASSUME NEW i \in Nat, i \in R PROVE i + 1 \in R
    <3> SUFFICES ASSUME (i + 1) + 1 \in 1 .. n
                 PROVE  parts[(i + 1) + 1] \in Seq(X) /\ \E at : Picked(parts[(i + 1) + 1], s, T, (i + 1) + 1, at)
      OBVIOUS
    <3>1. i + 1 \in 1 .. n /\ i + 1 \in Nat /\ (i + 1) + 1 \in DOMAIN s /\ (i + 1) + 1 \in 2 .. n
      BY <1>1
    <3>2. parts[i + 1] \in Seq(X) /\ \E at : Picked(parts[i + 1], s, T, i + 1, at)
      BY <2>4, <3>1
    <3>3. parts[(i + 1) + 1] = parts[i + 1] \o (IF s[(i + 1) + 1] \in T THEN <<s[(i + 1) + 1]>> ELSE <<>>)
      <4>1. parts[(i + 1) + 1] = parts[((i + 1) + 1) - 1] \o seqs[(i + 1) + 1]
        BY <2>2, <3>1
      <4>2. ((i + 1) + 1) - 1 = i + 1 /\ seqs[(i + 1) + 1] = IF s[(i + 1) + 1] \in T THEN <<s[(i + 1) + 1]>> ELSE <<>>
        BY <1>2, <3>1
      <4> QED BY <4>1, <4>2
    <3> HIDE DEF R
    <3>4. PICK at : Picked(parts[i + 1], s, T, i + 1, at)
      BY <3>2
    <3> QED BY <3>1, <3>2, <3>3, <3>4, PickOneMore
  <2>5. \A i \in Nat : i \in R
    BY <2>3, <2>4, Induction!SetInduction
  <2> HIDE DEF R
  <2>6. n - 1 \in Nat /\ n - 1 \in R /\ (n - 1) + 1 = n /\ n \in 1 .. n
    <3>1. n - 1 \in Nat /\ (n - 1) + 1 = n /\ n \in 1 .. n
      BY <1>1, <1>6
    <3> QED BY <2>5, <3>1
  <2> QED BY <1>4, <2>1, <2>6 DEF R
<1> QED BY <1>5, <1>6
-----------------------------------------------------------------------------
(* Calls that only create buffers, that only free them, that do neither.   *)

OnlyAllocs(s) ==
  /\ \A i \in DOMAIN s : Needs(s[i]) = {} /\ Drops(s[i]) = {}
  /\ \A i, j \in DOMAIN s : i # j => Gets(s[i]) \cap Gets(s[j]) = {}
OnlyFrees(s) ==
  /\ \A i \in DOMAIN s : Gets(s[i]) = {} /\ Needs(s[i]) = Drops(s[i])
  /\ \A i, j \in DOMAIN s : i # j => Drops(s[i]) \cap Drops(s[j]) = {}
Calm(s, A) == \A i \in DOMAIN s : Gets(s[i]) = {} /\ Drops(s[i]) = {} /\ Needs(s[i]) \subseteq A

LEMMA OnlyConcat ==
  ASSUME NEW X, NEW s \in Seq(X), NEW t \in Seq(X)
  PROVE  /\ OnlyAllocs(s) /\ OnlyAllocs(t) /\ AllGets(s) \cap AllGets(t) = {} => OnlyAllocs(s \o t)
         /\ OnlyFrees(s) /\ OnlyFrees(t) /\ AllDrops(s) \cap AllDrops(t) = {} => OnlyFrees(s \o t)
         /\ \A A : Calm(s, A) /\ Calm(t, A) => Calm(s \o t, A)
<1> DEFINE u == s \o t
           n == Len(s)
<1>1. /\ n \in Nat
      /\ \A i \in DOMAIN s : u[i] = s[i] /\ i \in Nat
      /\ \A i \in DOMAIN t : u[n + i] = t[i] /\ i \in Nat
      /\ \A i \in DOMAIN u : i \in DOMAIN s \/ \E j \in DOMAIN t : i = n + j
  BY ConcatFields
<1> HIDE DEF u, n
<1>2. \A i \in DOMAIN u : (\E k \in DOMAIN s : u[i] = s[k]) \/ \E k \in DOMAIN t : u[i] = t[k]
  BY <1>1
<1>3. \A i, j \in DOMAIN u : i # j =>
        \/ \E k, l \in DOMAIN s : k # l /\ u[i] = s[k] /\ u[j] = s[l]
        \/ \E k, l \in DOMAIN t : k # l /\ u[i] = t[k] /\ u[j] = t[l]
        \/ \E k \in DOMAIN s, l \in DOMAIN t : u[i] = s[k] /\ u[j] = t[l]
        \/ \E k \in DOMAIN t, l \in DOMAIN s : u[i] = t[k] /\ u[j] = s[l]
  <2> SUFFICES ASSUME NEW i \in DOMAIN u, NEW j \in DOMAIN u, i # j
               PROVE  \/ \E k, l \in DOMAIN s : k # l /\ u[i] = s[k] /\ u[j] = s[l]
                      \/ \E k, l \in DOMAIN t : k # l /\ u[i] = t[k] /\ u[j] = t[l]
                      \/ \E k \in DOMAIN s, l \in DOMAIN t : u[i] = s[k] /\ u[j] = t[l]
                      \/ \E k \in DOMAIN t, l \in DOMAIN s : u[i] = t[k] /\ u[j] = s[l]
    OBVIOUS
  <2>1. CASE i \in DOMAIN s /\ j \in DOMAIN s
    BY <1>1, <2>1
  <2>2. CASE i \in DOMAIN s /\ j \notin DOMAIN s
    BY <1>1, <2>2
  <2>3. CASE i \notin DOMAIN s /\ j \in DOMAIN s
    BY <1>1, <2>3
  <2>4. CASE i \notin DOMAIN s /\ j \notin DOMAIN s
    <3>1. PICK k \in DOMAIN t, l \in DOMAIN t : i = n + k /\ j = n + l
      BY <1>1, <2>4
    <3>2. k # l /\ u[i] = t[k] /\ u[j] = t[l]
      BY <1>1, <3>1
    <3> QED BY <3>2
  <2> QED BY <2>1, <2>2, <2>3, <2>4
<1>4. \A k \in DOMAIN s : Gets(s[k]) \subseteq AllGets(s) /\ Drops(s[k]) \subseteq AllDrops(s)
  BY DEF AllGets, AllDrops
<1>5. \A k \in DOMAIN t : Gets(t[k]) \subseteq AllGets(t) /\ Drops(t[k]) \subseteq AllDrops(t)
  BY DEF AllGets, AllDrops
<1>6. ASSUME OnlyAllocs(s), OnlyAllocs(t), AllGets(s) \cap AllGets(t) = {} PROVE OnlyAllocs(u)
  <2>1. \A i \in DOMAIN u : Needs(u[i]) = {} /\ Drops(u[i]) = {}
    BY <1>2, <1>6 DEF OnlyAllocs
  <2>2. \A i, j \in DOMAIN u : i # j => Gets(u[i]) \cap Gets(u[j]) = {}
    <3> SUFFICES ASSUME NEW i \in DOMAIN u, NEW j \in DOMAIN u, i # j PROVE Gets(u[i]) \cap Gets(u[j]) = {}
      OBVIOUS
    <3> QED BY <1>3, <1>4, <1>5, <1>6 DEF OnlyAllocs
  <2> QED BY <2>1, <2>2 DEF OnlyAllocs
<1>7. ASSUME OnlyFrees(s), OnlyFrees(t), AllDrops(s) \cap AllDrops(t) = {} PROVE OnlyFrees(u)
  <2>1. \A i \in DOMAIN u : Gets(u[i]) = {} /\ Needs(u[i]) = Drops(u[i])
    BY <1>2, <1>7 DEF OnlyFrees
  <2>2. \A i, j \in DOMAIN u : i # j => Drops(u[i]) \cap Drops(u[j]) = {}
    <3> SUFFICES ASSUME NEW i \in DOMAIN u, NEW j \in DOMAIN u, i # j PROVE Drops(u[i]) \cap Drops(u[j]) = {}
      OBVIOUS
    <3> QED BY <1>3, <1>4, <1>5, <1>7 DEF OnlyFrees
  <2> QED BY <2>1, <2>2 DEF OnlyFrees
<1>8. ASSUME NEW A, Calm(s, A), Calm(t, A) PROVE Calm(u, A)
  BY <1>2, <1>8 DEF Calm
<1> QED BY <1>6, <1>7, <1>8 DEF u

LEMMA Reversed ==
  ASSUME NEW X, NEW s \in Seq(X), OnlyFrees(s)
  PROVE  /\ Reverse(s) \in Seq(X) /\ OnlyFrees(Reverse(s)) /\ AllGets(Reverse(s)) = {}
         /\ AllDrops(Reverse(s)) = AllDrops(s)
<1> DEFINE t == Reverse(s)
           n == Len(s)
<1>1. n \in Nat /\ DOMAIN s = 1 .. n /\ \A i \in 1 .. n : s[i] \in X /\ (n - i) + 1 \in 1 .. n
  OBVIOUS
<1>2. t = [i \in 1 .. n |-> s[(n - i) + 1]]
  BY DEF Reverse
<1>3. t \in Seq(X) /\ DOMAIN t = 1 .. n /\ \A i \in 1 .. n : t[i] = s[(n - i) + 1]
  <2>1. t \in [1 .. n -> X]
    BY <1>1, <1>2
  <2> QED BY <1>1, <1>2, <2>1
<1> HIDE DEF t, n
<1>4. \A i, j \in 1 .. n : i # j => (n - i) + 1 # (n - j) + 1
  BY <1>1
<1>5. \A i \in 1 .. n : \E j \in 1 .. n : t[j] = s[i]
  <2> SUFFICES ASSUME NEW i \in 1 .. n PROVE \E j \in 1 .. n : t[j] = s[i]
    OBVIOUS
  <2>1. (n - i) + 1 \in 1 .. n /\ (n - ((n - i) + 1)) + 1 = i
    BY <1>1
  <2> QED BY <1>3, <2>1
<1>6. OnlyFrees(t)
  BY <1>1, <1>3, <1>4 DEF OnlyFrees
<1>7. \A x : x \in AllDrops(t) <=> x \in AllDrops(s)
  <2>1. \A x : (\E i \in 1 .. n : x \in Drops(t[i])) <=> \E i \in 1 .. n : x \in Drops(s[i])
    BY <1>1, <1>3, <1>5
  <2> QED BY <1>1, <1>3, <2>1 DEF AllDrops
<1>8. AllGets(t) = {}
  BY <1>6 DEF AllGets, OnlyFrees
<1> QED BY <1>3, <1>6, <1>7, <1>8 DEF t

\* Where they can run.
LEMMA OnlyNeat ==
  ASSUME NEW K, NEW s \in Seq(K), NEW A
  PROVE  /\ OnlyAllocs(s) /\ AllGets(s) \cap A = {} => Neat(K, A, s, A \cup AllGets(s), AllGets(s))
         /\ OnlyFrees(s) /\ AllDrops(s) \subseteq A => Neat(K, A, s, A \ AllDrops(s), {})
         /\ Calm(s, A) => Neat(K, A, s, A, {})
<1>1. DOMAIN s = 1 .. Len(s) /\ Len(s) \in Nat
  OBVIOUS
<1>2. \A i, j \in DOMAIN s : i < j => i # j
  BY <1>1
<1>3. ASSUME OnlyAllocs(s), AllGets(s) \cap A = {} PROVE Neat(K, A, s, A \cup AllGets(s), AllGets(s))
  <2>1. AllDrops(s) = {}
    BY <1>3 DEF OnlyAllocs, AllDrops
  <2> QED BY <1>2, <1>3, <2>1 DEF Neat, OnlyAllocs
<1>4. ASSUME OnlyFrees(s), AllDrops(s) \subseteq A PROVE Neat(K, A, s, A \ AllDrops(s), {})
  <2>1. AllGets(s) = {} /\ \A i \in DOMAIN s : Drops(s[i]) \subseteq A
    BY <1>4 DEF OnlyFrees, AllGets, AllDrops
  <2>2. \A i \in DOMAIN s : \A x \in Needs(s[i]) : x \in A /\ \A j \in DOMAIN s : j < i => x \notin Drops(s[j])
    BY <1>2, <1>4, <2>1 DEF OnlyFrees
  <2> QED BY <1>4, <2>1, <2>2 DEF Neat, OnlyFrees
<1>5. ASSUME Calm(s, A) PROVE Neat(K, A, s, A, {})
  <2>1. AllGets(s) = {} /\ AllDrops(s) = {}
    BY <1>5 DEF Calm, AllGets, AllDrops
  <2> QED BY <1>5, <2>1 DEF Neat, Calm
<1> QED BY <1>3, <1>4, <1>5

LEMMA StepKinds ==
  ASSUME NEW c \in Steps
  PROVE  /\ c.op = "alloc" => Needs(c) = {} /\ Drops(c) = {} /\ Gets(c) = {c.dst}
         /\ c.op \in {"free", "freeHere"} =>
              Gets(c) = {} /\ Drops(c) = {c.dst} /\ Needs(c) \subseteq {c.dst}
         /\ c.op \notin {"alloc", "free", "freeHere"} => Gets(c) = {} /\ Drops(c) = {}
BY DEF Needs, Gets, Drops

\* The parts of neat calls that are moved, and the part that is left.
AllocsLeft(s, t, T, N) == T = {c \in ToSet(s) : c.op = "alloc"} => OnlyAllocs(t) /\ AllGets(t) = N
FreesLeft(s, t, T) ==
  \A M : T = {c \in ToSet(s) : c.op = "free" /\ c.dst \in M} /\ AllDrops(s) \subseteq M =>
    OnlyFrees(t) /\ AllDrops(t) = AllDrops(s) /\ AllGets(t) = {}
LEMMA PickedParts ==
  ASSUME NEW K, K \subseteq Steps, NEW A, NEW s, NEW B, NEW N, Neat(K, A, s, B, N),
         NEW T, NEW t \in Seq(Steps), NEW at, Picked(t, s, T, Len(s), at)
  PROVE  /\ AllocsLeft(s, t, T, N)
         /\ K = Prompt => FreesLeft(s, t, T)
         /\ (\A c \in T : c.op \notin {"alloc", "free", "freeHere"}) => Calm(t, A \cup N)
         /\ ToSet(s) \subseteq T /\ t \in Seq(K) => Neat(K, A, t, B, N)
<1> DEFINE n == Len(s)
<1>1. n \in Nat /\ DOMAIN s = 1 .. n /\ ToSet(s) = {s[k] : k \in 1 .. n} /\ s \in Seq(K)
      /\ \A k \in 1 .. n : s[k] \in Steps /\ s[k] \in K
  BY DEF Neat, ToSet
<1>2. /\ \A i \in DOMAIN t : at[i] \in 1 .. n /\ t[i] = s[at[i]] /\ t[i] \in T
      /\ \A i, j \in DOMAIN t : i < j => at[i] < at[j]
      /\ \A k \in 1 .. n : s[k] \in T => \E i \in DOMAIN t : at[i] = k
  BY DEF Picked
<1> HIDE DEF n
<1>3. /\ \A k, l \in 1 .. n : k < l => Gets(s[k]) \cap Gets(s[l]) = {}
      /\ \A k \in 1 .. n : Drops(s[k]) \subseteq Needs(s[k])
      /\ \A k \in 1 .. n : \A x \in Needs(s[k]) :
           /\ x \in A \/ \E j \in 1 .. n : j < k /\ x \in Gets(s[j])
           /\ \A j \in 1 .. n : j < k => x \notin Drops(s[j])
      /\ N = AllGets(s) /\ N \cap A = {} /\ B = (A \cup N) \ AllDrops(s)
  BY <1>1 DEF Neat
<1>4. \A i \in DOMAIN t : i \in Nat
  OBVIOUS
<1>6. \A k, l \in 1 .. n : k < l => Drops(s[k]) \cap Drops(s[l]) = {}
  BY <1>3
<1>7. \A k \in 1 .. n : s[k] \in ToSet(s)
  BY <1>1
<1>12. \A i, j \in DOMAIN t : i < j => Gets(t[i]) \cap Gets(t[j]) = {} /\ Drops(t[i]) \cap Drops(t[j]) = {}
  <2> SUFFICES ASSUME NEW i \in DOMAIN t, NEW j \in DOMAIN t, i < j
               PROVE  Gets(t[i]) \cap Gets(t[j]) = {} /\ Drops(t[i]) \cap Drops(t[j]) = {}
    OBVIOUS
  <2>1. at[i] \in 1 .. n /\ at[j] \in 1 .. n /\ at[i] < at[j] /\ t[i] = s[at[i]] /\ t[j] = s[at[j]]
    BY <1>2
  <2>2. Gets(s[at[i]]) \cap Gets(s[at[j]]) = {} /\ Drops(s[at[i]]) \cap Drops(s[at[j]]) = {}
    BY <1>3, <1>6, <2>1
  <2> QED BY <2>1, <2>2
<1>13. \A i, j \in DOMAIN t : i # j => Gets(t[i]) \cap Gets(t[j]) = {} /\ Drops(t[i]) \cap Drops(t[j]) = {}
  <2>1. \A i, j \in DOMAIN t : i # j => i < j \/ j < i
    BY <1>4
  <2> QED BY <1>12, <2>1
<1>8. ASSUME T = {c \in ToSet(s) : c.op = "alloc"} PROVE OnlyAllocs(t) /\ AllGets(t) = N
  <2>1. \A i \in DOMAIN t : t[i].op = "alloc" /\ t[i] \in Steps
    BY <1>1, <1>2, <1>8
  <2>2. \A i \in DOMAIN t : Needs(t[i]) = {} /\ Drops(t[i]) = {}
    BY <2>1, StepKinds
  <2>3. \A i, j \in DOMAIN t : i # j => Gets(t[i]) \cap Gets(t[j]) = {}
    BY <1>13
  <2>4. \A x : x \in N => x \in AllGets(t)
    <3> SUFFICES ASSUME NEW x \in N PROVE x \in AllGets(t)
      OBVIOUS
    <3>1. PICK k \in 1 .. n : x \in Gets(s[k])
      BY <1>1, <1>3 DEF AllGets
    <3>2. s[k] \in T
      BY <1>7, <1>8, <3>1 DEF Gets
    <3>3. PICK i \in DOMAIN t : at[i] = k
      BY <1>2, <3>2
    <3>4. x \in Gets(t[i])
      BY <1>2, <3>1, <3>3
    <3> QED BY <3>4 DEF AllGets
  <2>5. \A i \in DOMAIN t : Gets(t[i]) \subseteq N
    BY <1>1, <1>2, <1>3 DEF AllGets
  <2>6. \A x : x \in AllGets(t) => x \in N
    BY <2>5 DEF AllGets
  <2>7. AllGets(t) = N
    BY <2>4, <2>6
  <2> QED BY <2>2, <2>3, <2>7 DEF OnlyAllocs
<1>9. ASSUME NEW M, T = {c \in ToSet(s) : c.op = "free" /\ c.dst \in M}, AllDrops(s) \subseteq M, K = Prompt
      PROVE  OnlyFrees(t) /\ AllDrops(t) = AllDrops(s) /\ AllGets(t) = {}
  <2>1. \A i \in DOMAIN t : t[i].op = "free" /\ t[i] \in Steps
    BY <1>1, <1>2, <1>9
  <2>2. \A i \in DOMAIN t : Gets(t[i]) = {} /\ Drops(t[i]) = {t[i].dst} /\ Needs(t[i]) \subseteq {t[i].dst}
    BY <2>1, StepKinds
  <2>3. \A i \in DOMAIN t : Drops(t[i]) \subseteq Needs(t[i])
    BY <1>2, <1>3
  <2>4. \A i, j \in DOMAIN t : i # j => Drops(t[i]) \cap Drops(t[j]) = {}
    BY <1>13
  <2>5. \A x : x \in AllDrops(s) => x \in AllDrops(t)
    <3> SUFFICES ASSUME NEW x \in AllDrops(s) PROVE x \in AllDrops(t)
      OBVIOUS
    <3>1. PICK k \in 1 .. n : x \in Drops(s[k])
      BY <1>1 DEF AllDrops
    <3>2. s[k].op \in {"free", "freeHere"} /\ s[k].op # "freeHere" /\ s[k].dst = x
      BY <1>1, <1>9, <3>1 DEF Drops, Prompt
    <3>3. s[k] \in T
      BY <1>7, <1>9, <3>1, <3>2
    <3>4. PICK i \in DOMAIN t : at[i] = k
      BY <1>2, <3>3
    <3>5. x \in Drops(t[i])
      BY <1>2, <3>1, <3>4
    <3> QED BY <3>5 DEF AllDrops
  <2>6. \A i \in DOMAIN t : Drops(t[i]) \subseteq AllDrops(s)
    BY <1>1, <1>2 DEF AllDrops
  <2>7. \A x : x \in AllDrops(t) => x \in AllDrops(s)
    BY <2>6 DEF AllDrops
  <2>8. AllGets(t) = {}
    BY <2>2 DEF AllGets
  <2> QED BY <2>2, <2>3, <2>4, <2>5, <2>7, <2>8 DEF OnlyFrees
<1>10. ASSUME \A c \in T : c.op \notin {"alloc", "free", "freeHere"} PROVE Calm(t, A \cup N)
  <2>1. \A k \in 1 .. n : Gets(s[k]) \subseteq N
    BY <1>1, <1>3 DEF AllGets
  <2>2. \A k \in 1 .. n : Needs(s[k]) \subseteq A \cup N
    BY <1>3, <2>1
  <2>3. \A i \in DOMAIN t : t[i] \in Steps /\ t[i].op \notin {"alloc", "free", "freeHere"}
    BY <1>1, <1>2, <1>10
  <2>4. \A i \in DOMAIN t : Gets(t[i]) = {} /\ Drops(t[i]) = {}
    BY <2>3, StepKinds
  <2>5. \A i \in DOMAIN t : Needs(t[i]) \subseteq A \cup N
    BY <1>2, <2>2
  <2> QED BY <2>4, <2>5 DEF Calm
<1>11. ASSUME ToSet(s) \subseteq T, t \in Seq(K) PROVE Neat(K, A, t, B, N)
  <2>1. \A k \in 1 .. n : \E i \in DOMAIN t : at[i] = k
    BY <1>2, <1>7, <1>11
  <2>2. \A i, j \in DOMAIN t : at[i] < at[j] => i < j
    <3> SUFFICES ASSUME NEW i \in DOMAIN t, NEW j \in DOMAIN t, at[i] < at[j], ~ (i < j) PROVE FALSE
      OBVIOUS
    <3>1. at[i] \in Int /\ at[j] \in Int /\ i \in Nat /\ j \in Nat
      BY <1>2, <1>4
    <3>2. CASE i = j
      BY <3>1, <3>2
    <3>3. CASE j < i
      <4>1. at[j] < at[i]
        BY <1>2, <3>3
      <4> QED BY <3>1, <4>1
    <3> QED BY <3>1, <3>2, <3>3
  <2>3. AllGets(t) = N /\ AllDrops(t) = AllDrops(s)
    <3>1. \A k \in 1 .. n : \E i \in DOMAIN t : t[i] = s[k]
      BY <1>2, <2>1
    <3>2. \A i \in DOMAIN t : \E k \in 1 .. n : t[i] = s[k]
      BY <1>2
    <3>3. \A x : (\E i \in DOMAIN t : x \in Gets(t[i])) <=> \E k \in 1 .. n : x \in Gets(s[k])
      BY <3>1, <3>2
    <3>4. \A x : (\E i \in DOMAIN t : x \in Drops(t[i])) <=> \E k \in 1 .. n : x \in Drops(s[k])
      BY <3>1, <3>2
    <3>5. \A x : x \in AllGets(t) <=> x \in AllGets(s)
      BY <1>1, <3>3 DEF AllGets
    <3>6. \A x : x \in AllDrops(t) <=> x \in AllDrops(s)
      BY <1>1, <3>4 DEF AllDrops
    <3> QED BY <1>3, <3>5, <3>6
  <2>4. \A i, j \in DOMAIN t : i < j => Gets(t[i]) \cap Gets(t[j]) = {}
    BY <1>12
  <2>5. ASSUME NEW i \in DOMAIN t, NEW x \in Needs(t[i])
        PROVE  /\ x \in A \/ \E j \in DOMAIN t : j < i /\ x \in Gets(t[j])
               /\ \A j \in DOMAIN t : j < i => x \notin Drops(t[j])
    <3> DEFINE k == at[i]
    <3>1. k \in 1 .. n /\ t[i] = s[k] /\ \A j \in DOMAIN t : j < i => at[j] \in 1 .. n /\ at[j] < k /\ t[j] = s[at[j]]
      BY <1>2
    <3> HIDE DEF k
    <3>2. /\ x \in A \/ \E j \in 1 .. n : j < k /\ x \in Gets(s[j])
          /\ \A j \in 1 .. n : j < k => x \notin Drops(s[j])
      BY <1>3, <2>5, <3>1
    <3>3. \A j \in DOMAIN t : j < i => x \notin Drops(t[j])
      BY <3>1, <3>2
    <3>4. ASSUME NEW j \in 1 .. n, j < k, x \in Gets(s[j]) PROVE \E l \in DOMAIN t : l < i /\ x \in Gets(t[l])
      <4>1. PICK l \in DOMAIN t : at[l] = j
        BY <2>1
      <4>2. l < i /\ t[l] = s[j]
        BY <1>2, <2>2, <3>4, <4>1 DEF k
      <4> QED BY <3>4, <4>2
    <3> QED BY <3>2, <3>3, <3>4
  <2>6. \A i \in DOMAIN t : Drops(t[i]) \subseteq Needs(t[i])
    BY <1>2, <1>3
  <2> QED BY <1>3, <1>11, <2>3, <2>4, <2>5, <2>6 DEF Neat
<1>14. K = Prompt => FreesLeft(s, t, T)
  BY <1>9 DEF FreesLeft
<1>15. AllocsLeft(s, t, T, N)
  BY <1>8 DEF AllocsLeft
<1> QED BY <1>10, <1>11, <1>14, <1>15

LEMMA PickedAllocs ==
  ASSUME NEW A, NEW s, NEW B, NEW N, Neat(Prompt, A, s, B, N),
         NEW t \in Seq(Steps), NEW T, T = {c \in ToSet(s) : c.op = "alloc"}, NEW at, Picked(t, s, T, Len(s), at)
  PROVE  OnlyAllocs(t) /\ AllGets(t) = N
<1>1. Prompt \subseteq Steps
  BY DEF Prompt
<1>2. AllocsLeft(s, t, T, N)
  BY <1>1, PickedParts
<1> QED BY <1>2 DEF AllocsLeft
LEMMA PickedFrees ==
  ASSUME NEW A, NEW s, NEW B, NEW N, Neat(Prompt, A, s, B, N), NEW M, AllDrops(s) \subseteq M,
         NEW t \in Seq(Steps), NEW T, T = {c \in ToSet(s) : c.op = "free" /\ c.dst \in M},
         NEW at, Picked(t, s, T, Len(s), at)
  PROVE  OnlyFrees(t) /\ AllDrops(t) = AllDrops(s) /\ AllGets(t) = {}
<1>1. Prompt \subseteq Steps
  BY DEF Prompt
<1>2. FreesLeft(s, t, T)
  BY <1>1, PickedParts
<1> QED BY <1>2 DEF FreesLeft
-----------------------------------------------------------------------------
(* The emitted code.                                                       *)

Buffers(n)  == {x \in Locs : IsBuffer(x) /\ x[1] <= n}
Before(c)   == AllGets(c["entry"]) \ AllDrops(c["entry"])
Created(c)  == AllGets(c["preheader"])
Deferred(c) == AllDrops(c["postloop"])

\* The code c leaves the buffers owned allocated: the straight parts are neat,
\* and no iteration of the nest creates or frees a buffer.
Placed(c, owned, n) ==
  /\ c \in [Places -> Seq(Steps)]
  /\ \A p \in Places : AllGets(c[p]) \subseteq Buffers(n)
  /\ Neat(Steps, {}, c["entry"], Before(c), AllGets(c["entry"]))
  /\ OnlyAllocs(c["preheader"]) /\ Created(c) \cap Before(c) = {}
  /\ \A p \in LoopNest : Calm(c[p], Before(c) \cup Created(c))
  /\ OnlyFrees(c["postloop"]) /\ Deferred(c) \subseteq Created(c)
  /\ Neat(Steps, (Before(c) \cup Created(c)) \ Deferred(c), c["exit"], owned, AllGets(c["exit"]))

\* What the walk has not reached yet, and hoistedThisLoop.
Walked(c) ==
  /\ section = "entry" => \A p \in Places \ {"entry"} : c[p] = <<>>
  /\ InLoop => c["exit"] = <<>> /\ hoisted = Created(c)

LEMMA NoneAmong ==
  ASSUME NEW X, NEW s \in Seq(X), NEW T, \A i \in DOMAIN s : s[i] \notin T
  PROVE  Among(s, T) = <<>>
<1> DEFINE t == Among(s, T)
<1>1. PICK at : t \in Seq(X) /\ Picked(t, s, T, Len(s), at)
  BY AmongIs
<1> HIDE DEF t
<1>2. DOMAIN t = {}
  <2>1. DOMAIN s = 1 .. Len(s)
    OBVIOUS
  <2>2. \A i \in DOMAIN t : at[i] \in DOMAIN s /\ t[i] = s[at[i]] /\ t[i] \in T
    BY <1>1, <2>1 DEF Picked
  <2> QED BY <2>2
<1>3. t = <<>>
  BY <1>1, <1>2
<1> QED BY <1>3 DEF t

\* hoistedThisLoop after an op of the nest.
LEMMA Made ==
  ASSUME NEW s \in Seq(Steps)
  PROVE  {c.dst : c \in {d \in ToSet(s) : Hoists(d)}} = AllGets(s)
<1>1. \A i \in DOMAIN s : s[i] \in Steps
  OBVIOUS
<1>2. \A x : x \in AllGets(s) <=> \E i \in DOMAIN s : s[i].op = "alloc" /\ x = s[i].dst
  BY DEF AllGets, Gets
<1>3. \A x : x \in {c.dst : c \in {d \in ToSet(s) : Hoists(d)}} <=> \E i \in DOMAIN s : s[i].op = "alloc" /\ x = s[i].dst
  BY DEF ToSet, Hoists
<1> QED BY <1>2, <1>3

LEMMA EmitStraight ==
  ASSUME section \in {"entry", "exit"}, code \in [Places -> Seq(Steps)],
         NEW calls \in Seq(Steps), Emit(calls)
  PROVE  /\ hoisted' = {}
         /\ \E here \in Seq(Steps) : \E at :
              /\ Picked(here, calls, ToSet(calls), Len(calls), at)
              /\ code' \in [Places -> Seq(Steps)] /\ code'[section] = code[section] \o here
              /\ \A p \in Places \ {section} : code'[p] = code[p]
<1>1. ~ InLoop
  BY DEF InLoop, LoopNest
<1> DEFINE here == Among(calls, ToSet(calls))
<1>2. /\ hoisted' = {}
      /\ code' = [code EXCEPT ![section] = @ \o Among(calls, ToSet(calls) \ ({} \cup {})),
                              !["preheader"] = @ \o Among(calls, {}),
                              !["postloop"] = Reverse(Among(calls, {})) \o @]
  <2> DEFINE made == {c.dst : c \in {d \in ToSet(calls) : Hoists(d)}}
  <2>1. (IF InLoop THEN hoisted \cup made ELSE {}) = {}
    BY <1>1
  <2>2. {c \in ToSet(calls) : InLoop /\ Hoists(c)} = {} /\ {c \in ToSet(calls) : Defers(c, {})} = {}
    BY <1>1 DEF Defers
  <2> QED BY <2>1, <2>2 DEF Emit
<1>3. Among(calls, {}) = <<>> /\ ToSet(calls) \ ({} \cup {}) = ToSet(calls)
  BY NoneAmong
<1>4. PICK at : here \in Seq(Steps) /\ Picked(here, calls, ToSet(calls), Len(calls), at)
  BY AmongIs
<1> HIDE DEF here
<1>5. code' = [code EXCEPT ![section] = @ \o here, !["preheader"] = @ \o <<>>, !["postloop"] = Reverse(<<>>) \o @]
  BY <1>2, <1>3 DEF here
<1>6. Reverse(<<>>) = <<>>
  BY DEF Reverse
<1>7. code["preheader"] \o <<>> = code["preheader"] /\ <<>> \o code["postloop"] = code["postloop"]
  BY DEF Places
<1>8. code[section] \o here \in Seq(Steps)
  BY <1>4 DEF Places
<1>9. code' = [code EXCEPT ![section] = code[section] \o here]
  BY <1>5, <1>6, <1>7 DEF Places
<1>10. section \in Places
  BY DEF Places
<1>11. /\ code' \in [Places -> Seq(Steps)] /\ code'[section] = code[section] \o here
       /\ \A p \in Places \ {section} : code'[p] = code[p]
  BY <1>8, <1>9, <1>10
<1> QED BY <1>2, <1>4, <1>11

LEMMA EmitNest ==
  ASSUME section \in LoopNest, code \in [Places -> Seq(Steps)],
         NEW calls \in Seq(Steps), Emit(calls)
  PROVE  LET known == hoisted \cup AllGets(calls)
             early == {c \in ToSet(calls) : c.op = "alloc"}
             late  == {c \in ToSet(calls) : c.op = "free" /\ c.dst \in known}
         IN /\ hoisted' = known
            /\ \E s, t, u \in Seq(Steps) : \E as, at, au :
                 /\ Picked(s, calls, early, Len(calls), as) /\ Picked(t, calls, late, Len(calls), at)
                 /\ Picked(u, calls, ToSet(calls) \ (early \cup late), Len(calls), au)
                 /\ code' = [code EXCEPT ![section] = code[section] \o u,
                                         !["preheader"] = code["preheader"] \o s,
                                         !["postloop"] = Reverse(t) \o code["postloop"]]
<1> DEFINE known == hoisted \cup AllGets(calls)
           early == {c \in ToSet(calls) : c.op = "alloc"}
           late  == {c \in ToSet(calls) : c.op = "free" /\ c.dst \in known}
<1>1. InLoop
  BY DEF InLoop
<1>2. /\ hoisted' = known
      /\ code' = [code EXCEPT ![section] = @ \o Among(calls, ToSet(calls) \ (early \cup late)),
                              !["preheader"] = @ \o Among(calls, early),
                              !["postloop"] = Reverse(Among(calls, late)) \o @]
  <2> DEFINE made == {c.dst : c \in {d \in ToSet(calls) : Hoists(d)}}
  <2>1. made = AllGets(calls)
    BY Made
  <2> HIDE DEF made
  <2>2. (IF InLoop THEN hoisted \cup made ELSE {}) = known
    BY <1>1, <2>1
  <2> HIDE DEF known
  <2>3. early = {c \in ToSet(calls) : InLoop /\ Hoists(c)} /\ late = {c \in ToSet(calls) : Defers(c, known)}
    BY <1>1 DEF Hoists, Defers
  <2> HIDE DEF early, late
  <2> QED BY <2>2, <2>3, Zenon DEF Emit, made
<1> HIDE DEF known, early, late
<1>3. PICK as, at, au :
        /\ Among(calls, early) \in Seq(Steps) /\ Picked(Among(calls, early), calls, early, Len(calls), as)
        /\ Among(calls, late) \in Seq(Steps) /\ Picked(Among(calls, late), calls, late, Len(calls), at)
        /\ Among(calls, ToSet(calls) \ (early \cup late)) \in Seq(Steps)
        /\ Picked(Among(calls, ToSet(calls) \ (early \cup late)), calls, ToSet(calls) \ (early \cup late), Len(calls), au)
  BY AmongIs
<1>4. code' = [code EXCEPT ![section] = code[section] \o Among(calls, ToSet(calls) \ (early \cup late)),
                           !["preheader"] = code["preheader"] \o Among(calls, early),
                           !["postloop"] = Reverse(Among(calls, late)) \o code["postloop"]]
  BY <1>2 DEF LoopNest, Places
<1>5. \E s, t, u \in Seq(Steps) : \E ms, mt, mu :
        /\ Picked(s, calls, early, Len(calls), ms) /\ Picked(t, calls, late, Len(calls), mt)
        /\ Picked(u, calls, ToSet(calls) \ (early \cup late), Len(calls), mu)
        /\ code' = [code EXCEPT ![section] = code[section] \o u,
                                !["preheader"] = code["preheader"] \o s,
                                !["postloop"] = Reverse(t) \o code["postloop"]]
  BY <1>3, <1>4, Zenon
<1> QED BY <1>2, <1>5, Zenon DEF known, early, late
-----------------------------------------------------------------------------
(* One more op is lowered.                                                 *)

LEMMA PlacedBuffers ==
  ASSUME NEW c, NEW W, NEW n, Placed(c, W, n)
  PROVE  /\ Before(c) \cup Created(c) \subseteq Buffers(n) /\ W \subseteq Buffers(n)
         /\ c["exit"] = <<>> => W = (Before(c) \cup Created(c)) \ Deferred(c)
<1>1. /\ AllGets(c["entry"]) \subseteq Buffers(n) /\ AllGets(c["preheader"]) \subseteq Buffers(n)
      /\ AllGets(c["exit"]) \subseteq Buffers(n)
  BY DEF Placed, Places
<1>2. Before(c) \cup Created(c) \subseteq Buffers(n)
  BY <1>1 DEF Before, Created
<1>3. W = (((Before(c) \cup Created(c)) \ Deferred(c)) \cup AllGets(c["exit"])) \ AllDrops(c["exit"])
  BY DEF Placed, Neat
<1>4. AllGets(<<>>) = {} /\ AllDrops(<<>>) = {}
  BY NeatNone DEF AllGets, AllDrops
<1> QED BY <1>1, <1>2, <1>3, <1>4

LEMMA WalkEntry ==
  ASSUME NEW c, NEW W, NEW n, Placed(c, W, n), \A p \in Places \ {"entry"} : c[p] = <<>>,
         NEW here \in Seq(Steps), NEW V, NEW N, Neat(Steps, W, here, V, N),
         NEW m, Buffers(n) \subseteq Buffers(m), N \subseteq Buffers(m), N \cap Buffers(n) = {},
         NEW d \in [Places -> Seq(Steps)], d["entry"] = c["entry"] \o here,
         \A p \in Places \ {"entry"} : d[p] = c[p]
  PROVE  Placed(d, V, m)
<1> DEFINE s == c["entry"]
<1>1. AllGets(<<>>) = {} /\ AllDrops(<<>>) = {} /\ DOMAIN <<>> = {}
  BY DEF AllGets, AllDrops
<1>2. \A p \in Places \ {"entry"} : d[p] = <<>> /\ c[p] = <<>>
  OBVIOUS
<1>3. /\ "entry" \in Places /\ "preheader" \in Places \ {"entry"} /\ "postloop" \in Places \ {"entry"}
      /\ "exit" \in Places \ {"entry"} /\ LoopNest \subseteq Places \ {"entry"}
  BY DEF Places, LoopNest
<1>4. Created(c) = {} /\ Deferred(c) = {} /\ Created(d) = {} /\ Deferred(d) = {}
  BY <1>1, <1>2, <1>3 DEF Created, Deferred
<1>5. W = Before(c)
  <2>1. W = (Before(c) \cup Created(c)) \ Deferred(c)
    BY <1>2, <1>3, PlacedBuffers
  <2> QED BY <1>4, <2>1
<1>6. Neat(Steps, {}, s, W, AllGets(s)) /\ AllGets(s) \subseteq Buffers(n) /\ s \in Seq(Steps)
  BY <1>3, <1>5 DEF Placed
<1> HIDE DEF s
<1>7. N \cap ({} \cup AllGets(s)) = {}
  BY <1>6
<1>8. Neat(Steps, {}, s \o here, V, AllGets(s) \cup N)
  BY <1>6, <1>7, NeatConcat
<1>9. Neat(Steps, {}, d["entry"], V, AllGets(s) \cup N)
  BY <1>8 DEF s
<1>10. AllGets(d["entry"]) = AllGets(s) \cup N /\ V = Before(d)
  BY <1>9 DEF Neat, Before
<1>11. \A p \in Places : AllGets(d[p]) \subseteq Buffers(m)
  BY <1>1, <1>2, <1>6, <1>10
<1>12. OnlyAllocs(<<>>) /\ OnlyFrees(<<>>) /\ \A A : Calm(<<>>, A)
  BY <1>1 DEF OnlyAllocs, OnlyFrees, Calm
<1>13. (Before(d) \cup Created(d)) \ Deferred(d) = V
  BY <1>4, <1>10
<1>14. Neat(Steps, V, d["exit"], V, AllGets(d["exit"]))
  <2>1. Neat(Steps, V, <<>>, V, {})
    BY NeatNone
  <2> QED BY <1>1, <1>2, <1>3, <2>1
<1> QED BY <1>2, <1>3, <1>4, <1>9, <1>10, <1>11, <1>12, <1>13, <1>14 DEF Placed

LEMMA WalkExit ==
  ASSUME NEW c, NEW W, NEW n, Placed(c, W, n),
         NEW here \in Seq(Steps), NEW V, NEW N, Neat(Steps, W, here, V, N),
         NEW m, Buffers(n) \subseteq Buffers(m), N \subseteq Buffers(m), N \cap Buffers(n) = {},
         NEW d \in [Places -> Seq(Steps)], d["exit"] = c["exit"] \o here,
         \A p \in Places \ {"exit"} : d[p] = c[p]
  PROVE  Placed(d, V, m)
<1> DEFINE s == c["exit"]
           A == (Before(c) \cup Created(c)) \ Deferred(c)
<1>1. /\ "exit" \in Places /\ "entry" \in Places \ {"exit"} /\ "preheader" \in Places \ {"exit"}
      /\ "postloop" \in Places \ {"exit"} /\ LoopNest \subseteq Places \ {"exit"}
  BY DEF Places, LoopNest
<1>2. Before(d) = Before(c) /\ Created(d) = Created(c) /\ Deferred(d) = Deferred(c)
  BY <1>1 DEF Before, Created, Deferred
<1>3. Neat(Steps, A, s, W, AllGets(s)) /\ AllGets(s) \subseteq Buffers(n) /\ s \in Seq(Steps)
  BY <1>1 DEF Placed
<1>4. A \subseteq Buffers(n)
  BY PlacedBuffers
<1> HIDE DEF s, A
<1>5. N \cap (A \cup AllGets(s)) = {}
  BY <1>3, <1>4
<1>6. Neat(Steps, A, s \o here, V, AllGets(s) \cup N)
  BY <1>3, <1>5, NeatConcat
<1>7. Neat(Steps, A, d["exit"], V, AllGets(s) \cup N)
  BY <1>6 DEF s
<1>8. AllGets(d["exit"]) = AllGets(s) \cup N
  BY <1>7 DEF Neat
<1>9. \A p \in Places : AllGets(d[p]) \subseteq Buffers(m)
  <2>1. \A p \in Places \ {"exit"} : AllGets(d[p]) \subseteq Buffers(n)
    BY DEF Placed
  <2> QED BY <1>3, <1>8, <2>1
<1>10. A = (Before(d) \cup Created(d)) \ Deferred(d)
  BY <1>2 DEF A
<1> QED BY <1>1, <1>2, <1>7, <1>8, <1>9, <1>10 DEF Placed

\* The allocs s, the frees t and the rest u of an op are added at place q.
Split(c, q, s, t, u, d) ==
  d = [c EXCEPT ![q] = c[q] \o u, !["preheader"] = c["preheader"] \o s,
                !["postloop"] = Reverse(t) \o c["postloop"]]

\* Calls, their allocs s, their frees t and the rest u.
NestOp(W, calls, V, N, s, t, u) ==
  /\ Neat(Prompt, W, calls, V, N)
  /\ s \in Seq(Steps) /\ t \in Seq(Steps) /\ u \in Seq(Steps)
  /\ OnlyAllocs(s) /\ AllGets(s) = N
  /\ OnlyFrees(t) /\ AllDrops(t) = AllDrops(calls) /\ AllGets(t) = {}
  /\ Calm(u, W \cup N)
\* The new buffers N have new names.
Grows(n, m, N) == Buffers(n) \subseteq Buffers(m) /\ N \subseteq Buffers(m) /\ N \cap Buffers(n) = {}

LEMMA WalkNest ==
  ASSUME NEW c, NEW W, NEW n, Placed(c, W, n), c["exit"] = <<>>,
         NEW calls, NEW V, NEW N, NEW s, NEW t, NEW u, NestOp(W, calls, V, N, s, t, u),
         AllDrops(calls) \subseteq Created(c) \cup N,
         NEW m, Grows(n, m, N), NEW q \in LoopNest, NEW d, Split(c, q, s, t, u, d)
  PROVE  Placed(d, V, m) /\ d["exit"] = <<>> /\ Created(d) = Created(c) \cup N
<1> USE DEF NestOp, Grows
<1> DEFINE B == Before(c)
           H == Created(c)
           D == Deferred(c)
           r == Reverse(t)
<1>1. /\ {"entry", "preheader", "postloop", "exit"} \subseteq Places \ LoopNest /\ LoopNest \subseteq Places
      /\ Places = {"entry", "preheader", "postloop", "exit"} \cup LoopNest
  BY DEF Places, LoopNest
<1>2. /\ c \in [Places -> Seq(Steps)] /\ \A p \in Places : AllGets(c[p]) \subseteq Buffers(n)
      /\ Neat(Steps, {}, c["entry"], B, AllGets(c["entry"]))
      /\ OnlyAllocs(c["preheader"]) /\ H \cap B = {}
      /\ \A p \in LoopNest : Calm(c[p], B \cup H)
      /\ OnlyFrees(c["postloop"]) /\ D \subseteq H
  BY DEF Placed
<1>3. W = (B \cup H) \ D /\ B \cup H \subseteq Buffers(n)
  BY PlacedBuffers
<1>4. r \in Seq(Steps) /\ OnlyFrees(r) /\ AllGets(r) = {} /\ AllDrops(r) = AllDrops(calls)
  BY Reversed
<1> HIDE DEF r
<1>5. /\ c[q] \o u \in Seq(Steps) /\ c["preheader"] \o s \in Seq(Steps) /\ r \o c["postloop"] \in Seq(Steps)
  BY <1>1, <1>2, <1>4
<1>6. /\ d \in [Places -> Seq(Steps)] /\ d["entry"] = c["entry"] /\ d["exit"] = <<>>
      /\ d["preheader"] = c["preheader"] \o s /\ d["postloop"] = r \o c["postloop"] /\ d[q] = c[q] \o u
      /\ \A p \in LoopNest \ {q} : d[p] = c[p]
  <2>1. d = [c EXCEPT ![q] = c[q] \o u, !["preheader"] = c["preheader"] \o s, !["postloop"] = r \o c["postloop"]]
    BY DEF r, Split
  <2>2. /\ q \in Places /\ "preheader" \in Places /\ "postloop" \in Places
        /\ "entry" \in Places \ {q, "preheader", "postloop"} /\ "exit" \in Places \ {q, "preheader", "postloop"}
        /\ q # "preheader" /\ q # "postloop" /\ \A p \in LoopNest \ {q} : p \in Places \ {q, "preheader", "postloop"}
    BY <1>1
  <2>3. d \in [Places -> Seq(Steps)]
    BY <1>2, <1>5, <2>1
  <2>4. \A p \in Places \ {q, "preheader", "postloop"} : d[p] = c[p]
    BY <1>2, <2>1
  <2>5. d["preheader"] = c["preheader"] \o s /\ d["postloop"] = r \o c["postloop"] /\ d[q] = c[q] \o u
    BY <1>2, <2>1, <2>2
  <2> QED BY <2>2, <2>3, <2>4, <2>5
<1>7. Before(d) = B
  BY <1>6 DEF Before
<1>8. c[q] \in Seq(Steps) /\ c["preheader"] \in Seq(Steps) /\ c["postloop"] \in Seq(Steps)
  BY <1>1, <1>2
<1>9. Created(d) = H \cup N
  <2>1. AllGets(c["preheader"] \o s) = AllGets(c["preheader"]) \cup AllGets(s)
    BY <1>8, AllConcat
  <2> QED BY <1>6, <2>1 DEF Created
<1>10. Deferred(d) = D \cup AllDrops(calls)
  <2>1. AllDrops(r \o c["postloop"]) = AllDrops(r) \cup AllDrops(c["postloop"])
    BY <1>4, <1>8, AllConcat
  <2> QED BY <1>4, <1>6, <2>1 DEF Deferred
<1> HIDE DEF B, H, D
<1>11. AllDrops(calls) \subseteq W \cup N /\ V = (W \cup N) \ AllDrops(calls)
  <2>1. \A i \in DOMAIN calls : Drops(calls[i]) \subseteq Needs(calls[i])
    BY DEF Neat
  <2>2. \A i \in DOMAIN calls : Needs(calls[i]) \subseteq W \cup N
    BY DEF Neat, AllGets
  <2> QED BY <2>1, <2>2 DEF Neat, AllDrops
<1>12. \A p \in Places : AllGets(d[p]) \subseteq Buffers(m)
  <2> SUFFICES ASSUME NEW p \in Places PROVE AllGets(d[p]) \subseteq Buffers(m)
    OBVIOUS
  <2>1. AllGets(c[p]) \subseteq Buffers(m)
    BY <1>2
  <2>2. CASE p = "preheader"
    BY <1>3, <1>9, <2>2 DEF Created, H
  <2>3. CASE p = "postloop"
    <3>1. AllGets(r \o c["postloop"]) = AllGets(r) \cup AllGets(c["postloop"])
      <4>1. r \in Seq(Steps) /\ c["postloop"] \in Seq(Steps)
        BY <1>4, <1>8
      <4> QED BY <4>1, AllConcat
    <3> QED BY <1>4, <1>6, <2>1, <2>3, <3>1
  <2>4. CASE p = q
    <3>1. AllGets(c[q] \o u) = AllGets(c[q]) \cup AllGets(u)
      BY <1>8, AllConcat
    <3>2. AllGets(u) = {}
      BY DEF Calm, AllGets
    <3> QED BY <1>6, <2>1, <2>4, <3>1, <3>2
  <2>5. CASE p \notin {"preheader", "postloop", q}
    <3>1. d[p] = c[p]
      <4>1. c["exit"] = <<>> /\ (p \in {"entry", "exit"} \/ p \in LoopNest \ {q})
        BY <1>1, <2>5
      <4> QED BY <1>6, <4>1
    <3> QED BY <2>1, <3>1
  <2> QED BY <2>2, <2>3, <2>4, <2>5
<1>13. OnlyAllocs(d["preheader"]) /\ (H \cup N) \cap B = {}
  <2>1. AllGets(c["preheader"]) = H
    BY DEF H, Created
  <2>2. OnlyAllocs(c["preheader"] \o s)
    BY <1>2, <1>3, <1>8, <2>1, OnlyConcat
  <2> QED BY <1>2, <1>3, <1>6, <2>2
<1>14. \A p \in LoopNest : Calm(d[p], B \cup (H \cup N))
  <2>1. \A p \in LoopNest : Calm(c[p], B \cup (H \cup N))
    BY <1>2 DEF Calm
  <2>2. Calm(u, B \cup (H \cup N))
    BY <1>3 DEF Calm
  <2>3. Calm(c[q] \o u, B \cup (H \cup N))
    BY <1>8, <2>1, <2>2, OnlyConcat
  <2> QED BY <1>6, <2>1, <2>3
<1>15. OnlyFrees(d["postloop"]) /\ D \cup AllDrops(calls) \subseteq H \cup N
  <2>1. AllDrops(c["postloop"]) = D
    BY DEF D, Deferred
  <2>2. OnlyFrees(r \o c["postloop"])
    <3>1. AllDrops(r) \cap D = {}
      BY <1>2, <1>3, <1>4, <1>11
    <3> QED BY <1>2, <1>4, <1>8, <2>1, <3>1, OnlyConcat
  <2>3. AllDrops(calls) \subseteq H \cup N
    BY DEF H
  <2> QED BY <1>2, <1>6, <2>2, <2>3
<1>16. Neat(Steps, V, d["exit"], V, AllGets(d["exit"]))
  <2>1. AllGets(<<>>) = {}
    BY DEF AllGets
  <2>2. Neat(Steps, V, <<>>, V, {})
    BY NeatNone
  <2> QED BY <1>6, <2>1, <2>2
<1>17. (B \cup (H \cup N)) \ (D \cup AllDrops(calls)) = V
  BY <1>2, <1>3, <1>11
<1>18. Neat(Steps, {}, d["entry"], B, AllGets(d["entry"]))
  BY <1>2, <1>6
<1>19. Placed(d, V, m)
  BY <1>6, <1>7, <1>9, <1>10, <1>12, <1>13, <1>14, <1>15, <1>16, <1>17, <1>18 DEF Placed
<1> QED BY <1>6, <1>9, <1>19 DEF H
-----------------------------------------------------------------------------
(* The invariant of the walk.                                              *)

Calls == IF InLoop THEN Prompt ELSE Steps
Fresh == {x \in Locs : IsBuffer(x) /\ x[1] = Len(values) + 1}

\* The buffers of the values that nothing has freed.
OwnedBy(vs, fs) == {x \in {vs[v].loc : v \in DOMAIN vs} : IsBuffer(x)} \ {vs[v].loc : v \in fs}

\* A value has a buffer of its own, or shares the one of a value whose slice it is.
ValueSound(v) ==
  LET r == values[v] IN
  /\ r.space \in {"host", "device", "resident"} /\ r.home \in ToSet(Order)
  /\ r.base \in 0 .. v - 1 /\ (r.base # 0 => values[r.base].base = 0)
  /\ r.loc \in Locs /\ r.loc[1] \in 1 .. v /\ (IsBuffer(r.loc) <=> r.space # "resident")
  /\ r.base = 0 => r.loc[1] = v
  /\ r.loc[1] = v \/ r.base = r.loc[1] \/ values[r.loc[1]].base # 0
  /\ section = "entry" => r.home = "entry"
  /\ InLoop /\ r.home \in LoopNest /\ r.base = 0 /\ IsBuffer(r.loc) => r.loc \in hoisted

ValuesSound ==
  /\ \E S : values \in Seq(S)
  /\ \A v \in DOMAIN values : ValueSound(v)
  /\ freed \subseteq DOMAIN values /\ \A v \in freed : values[v].base = 0

IInv ==
  /\ section \in ToSet(Order) \cup {"refused", "ran"} /\ opened \in BOOLEAN
  /\ ValuesSound
  /\ Placed(code, OwnedBy(values, freed), Len(values))
  /\ section \in ToSet(Order) => Walked(code)
  /\ hoisted \subseteq Created(code) /\ (section \in {"entry", "exit", "ran"} => hoisted = {})
  /\ section # "ran" => outcome = Pristine
  /\ outcome.faults \subseteq {"wrong"}
  /\ section = "ran" => outcome.allocated = OwnedBy(values, freed)

LEMMA Sections ==
  /\ ToSet(Order) = {"entry", "outer", "inner", "tail", "exit"}
  /\ \A s \in ToSet(Order) : s \in LoopNest <=> s \notin {"entry", "exit"}
BY DEF ToSet, Order, LoopNest

LEMMA EmitKeeps ==
  ASSUME section \in ToSet(Order), section' = section,
         NEW W, NEW n, Placed(code, W, n), Walked(code),
         NEW m, Buffers(n) \subseteq Buffers(m),
         NEW calls, NEW V, NEW N, Neat(Calls, W, calls, V, N), N \subseteq Buffers(m), N \cap Buffers(n) = {},
         InLoop => AllDrops(calls) \subseteq hoisted \cup N, Emit(calls)
  PROVE  /\ Placed(code', V, m) /\ Walked(code)'
         /\ hoisted' = IF InLoop THEN hoisted \cup N ELSE {}
         /\ hoisted \subseteq Created(code) => hoisted' \subseteq Created(code')
<1>1. calls \in Seq(Steps) /\ N = AllGets(calls) /\ code \in [Places -> Seq(Steps)] /\ Calls \subseteq Steps
  BY DEF Neat, Placed, Calls, Prompt
<1>2. CASE section \in {"entry", "exit"}
  <2>1. ~ InLoop /\ Calls = Steps /\ ~ InLoop'
    BY <1>2 DEF InLoop, LoopNest, Calls
  <2>2. PICK here, at :
          /\ here \in Seq(Steps)
          /\ Picked(here, calls, ToSet(calls), Len(calls), at)
          /\ code' \in [Places -> Seq(Steps)] /\ code'[section] = code[section] \o here
          /\ \A p \in Places \ {section} : code'[p] = code[p]
    BY <1>1, <1>2, EmitStraight
  <2>3. hoisted' = {}
    BY <1>1, <1>2, EmitStraight
  <2>4. Neat(Steps, W, here, V, N)
    BY <2>1, <2>2, PickedParts
  <2>5. CASE section = "entry"
    <3>1. \A p \in Places \ {"entry"} : code[p] = <<>>
      BY <2>5 DEF Walked
    <3> DEFINE d == code'
    <3>2. /\ d \in [Places -> Seq(Steps)] /\ d["entry"] = code["entry"] \o here
          /\ \A p \in Places \ {"entry"} : d[p] = code[p]
      BY <2>2, <2>5
    <3> HIDE DEF d
    <3>5. here \in Seq(Steps)
      BY <2>2
    <3>3. Placed(d, V, m)
      BY <2>4, <3>1, <3>2, <3>5, WalkEntry
    <3>4. \A p \in Places \ {"entry"} : d[p] = <<>>
      BY <3>1, <3>2
    <3> QED BY <2>1, <2>3, <3>3, <3>4 DEF d, Walked
  <2>6. CASE section = "exit"
    <3> DEFINE d == code'
    <3>2. /\ d \in [Places -> Seq(Steps)] /\ d["exit"] = code["exit"] \o here
          /\ \A p \in Places \ {"exit"} : d[p] = code[p]
      BY <2>2, <2>6
    <3> HIDE DEF d
    <3>3. Placed(d, V, m)
      BY <2>2, <2>4, <3>2, WalkExit
    <3> QED BY <2>1, <2>3, <2>6, <3>3 DEF d, Walked
  <2> QED BY <1>2, <2>5, <2>6
<1>3. CASE section \in LoopNest
  <2>1. InLoop /\ InLoop' /\ Calls = Prompt /\ code["exit"] = <<>> /\ hoisted = Created(code) /\ section # "entry"
    BY <1>3 DEF InLoop, LoopNest, Calls, Walked
  <2> DEFINE known == hoisted \cup AllGets(calls)
             early == {c \in ToSet(calls) : c.op = "alloc"}
             late  == {c \in ToSet(calls) : c.op = "free" /\ c.dst \in known}
             here  == ToSet(calls) \ (early \cup late)
  <2>2. /\ hoisted' = known
        /\ \E s, t, u \in Seq(Steps) : \E as, at, au :
             /\ Picked(s, calls, early, Len(calls), as) /\ Picked(t, calls, late, Len(calls), at)
             /\ Picked(u, calls, here, Len(calls), au)
             /\ code' = [code EXCEPT ![section] = code[section] \o u,
                                     !["preheader"] = code["preheader"] \o s,
                                     !["postloop"] = Reverse(t) \o code["postloop"]]
    BY <1>1, <1>3, EmitNest
  <2>3. early = {c \in ToSet(calls) : c.op = "alloc"} /\ late = {c \in ToSet(calls) : c.op = "free" /\ c.dst \in known}
        /\ here = ToSet(calls) \ (early \cup late) /\ known = hoisted \cup N
    BY <1>1
  <2>4. AllDrops(calls) \subseteq known
    BY <1>1, <2>1
  <2>5. \A c \in here : c.op \notin {"alloc", "free", "freeHere"}
    <3> SUFFICES ASSUME NEW c \in here PROVE c.op \notin {"alloc", "free", "freeHere"}
      OBVIOUS
    <3>1. PICK i \in DOMAIN calls : c = calls[i]
      BY DEF ToSet
    <3>2. c \in Prompt
      BY <2>1, <3>1 DEF Neat
    <3>3. c.op # "freeHere" /\ c.op # "alloc"
      BY <3>2 DEF Prompt
    <3>4. c.op = "free" => c.dst \in AllDrops(calls)
      BY <3>1 DEF AllDrops, Drops
    <3> QED BY <2>4, <3>3, <3>4
  <2> HIDE DEF known, early, late, here
  <2>6. PICK s, t, u, as, at, au :
          /\ s \in Seq(Steps) /\ t \in Seq(Steps) /\ u \in Seq(Steps)
          /\ Picked(s, calls, early, Len(calls), as) /\ Picked(t, calls, late, Len(calls), at)
          /\ Picked(u, calls, here, Len(calls), au)
          /\ code' = [code EXCEPT ![section] = code[section] \o u,
                                  !["preheader"] = code["preheader"] \o s,
                                  !["postloop"] = Reverse(t) \o code["postloop"]]
    BY <2>2
  <2>7. Prompt \subseteq Steps /\ Neat(Prompt, W, calls, V, N)
    BY <2>1 DEF Prompt
  <2>8. OnlyAllocs(s) /\ AllGets(s) = N
    BY <2>3, <2>6, <2>7, PickedAllocs
  <2>9. OnlyFrees(t) /\ AllDrops(t) = AllDrops(calls) /\ AllGets(t) = {}
    BY <2>3, <2>4, <2>6, <2>7, PickedFrees
  <2>10. Calm(u, W \cup N)
    BY <2>5, <2>6, <2>7, PickedParts
  <2>11. AllDrops(calls) \subseteq Created(code) \cup N
    BY <2>1, <2>3, <2>4
  <2> DEFINE d == code'
  <2>12. d = [code EXCEPT ![section] = code[section] \o u, !["preheader"] = code["preheader"] \o s,
                          !["postloop"] = Reverse(t) \o code["postloop"]]
    BY <2>6
  <2> HIDE DEF d
  <2> DEFINE c == code
             q == section
  <2>15. Split(c, q, s, t, u, d)
    BY <2>12 DEF Split
  <2>16. q \in LoopNest /\ Placed(c, W, n) /\ c["exit"] = <<>> /\ AllDrops(calls) \subseteq Created(c) \cup N
    BY <1>3, <2>1, <2>11
  <2> HIDE DEF c, q
  <2>13. Placed(d, V, m) /\ d["exit"] = <<>> /\ Created(d) = Created(c) \cup N
    <3>1. NestOp(W, calls, V, N, s, t, u) /\ Grows(n, m, N)
      BY <2>6, <2>7, <2>8, <2>9, <2>10 DEF NestOp, Grows
    <3> QED BY <2>15, <2>16, <3>1, WalkNest
  <2>14. hoisted' = hoisted \cup N /\ hoisted' = Created(d)
    BY <2>1, <2>2, <2>3, <2>13 DEF c
  <2> QED BY <2>1, <2>13, <2>14 DEF d, Walked
<1> QED BY <1>2, <1>3, Sections
-----------------------------------------------------------------------------
(* Its steps.                                                              *)

LEMMA LocParts == \A x \in Locs : x[1] \in Nat
BY DEF Locs

LEMMA FreshBuffers ==
  ASSUME NEW n \in Nat, n = Len(values), NEW N, N \subseteq Fresh
  PROVE  Grows(n, n + 1, N)
<1>1. \A x \in Locs : x[1] \in Nat
  BY LocParts
<1>2. Buffers(n) \subseteq Buffers(n + 1) /\ N \subseteq Buffers(n + 1)
  BY <1>1 DEF Buffers, Fresh
<1>3. N \cap Buffers(n) = {}
  <2> SUFFICES ASSUME NEW x \in N, x \in Buffers(n) PROVE FALSE
    OBVIOUS
  <2> QED BY <1>1 DEF Buffers, Fresh
<1> QED BY <1>2, <1>3 DEF Grows

LEMMA OneMoreValue ==
  ASSUME NEW r, \E S : values \in Seq(S), values' = Append(values, r)
  PROVE  /\ Len(values) \in Nat /\ DOMAIN values = 1 .. Len(values)
         /\ Len(values') = Len(values) + 1 /\ DOMAIN values' = 1 .. Len(values) + 1
         /\ \A v \in DOMAIN values : values'[v] = values[v]
         /\ values'[Len(values) + 1] = r /\ \E S : values' \in Seq(S)
<1>1. PICK S : values \in Seq(S)
  OBVIOUS
<1> DEFINE T == S \cup {r}
<1>2. values \in Seq(T) /\ r \in T
  <2>1. \A v \in 1 .. Len(values) : values[v] \in T
    BY <1>1
  <2>2. Len(values) \in Nat /\ values = [v \in 1 .. Len(values) |-> values[v]]
    BY <1>1
  <2> QED BY <2>1, <2>2
<1> HIDE DEF T
<1>3. values' \in Seq(T)
  BY <1>2
<1>4. \E S1 : values' \in Seq(S1)
  BY <1>3
<1>5. /\ Len(values) \in Nat /\ DOMAIN values = 1 .. Len(values)
      /\ Len(values') = Len(values) + 1 /\ DOMAIN values' = 1 .. Len(values) + 1
      /\ \A v \in DOMAIN values : values'[v] = values[v]
      /\ values'[Len(values) + 1] = r
  BY <1>2
<1> QED BY <1>4, <1>5

\* What an op may give: a buffer or a tile of its own, or another's buffer.
Result(space, x, base, X, N) ==
  /\ x \in Locs /\ space \in {"host", "device", "resident"} /\ (IsBuffer(x) <=> space # "resident")
  /\ base \in 0 .. Len(values) /\ (base # 0 => values[base].base = 0)
  /\ \/ x[1] = Len(values) + 1 /\ X = {y \in {x} : IsBuffer(y)} /\ X \subseteq N
     \/ /\ x \in OwnedBy(values, freed) /\ X = {}
        /\ \E v \in DOMAIN values :
             x = values[v].loc /\ base = IF values[v].base = 0 THEN v ELSE values[v].base

\* Who owns what after the op.
LEMMA OwnedAfter ==
  ASSUME IInv, NEW r, NEW X, NEW N, Result(r.space, r.loc, r.base, X, N),
         values' = Append(values, r), freed' = freed
  PROVE  OwnedBy(values', freed') = OwnedBy(values, freed) \cup X
<1> DEFINE n == Len(values)
           x == r.loc
<1>1. /\ n \in Nat /\ DOMAIN values = 1 .. n /\ DOMAIN values' = 1 .. n + 1
      /\ \A v \in DOMAIN values : values'[v] = values[v]
      /\ values'[n + 1] = r
  BY OneMoreValue DEF IInv, ValuesSound
<1> HIDE DEF n
<1>2. freed \subseteq 1 .. n
  BY <1>1 DEF IInv, ValuesSound
<1>3. \A v \in freed : values[v].loc[1] # n + 1
  <2> SUFFICES ASSUME NEW v \in freed PROVE values[v].loc[1] # n + 1
    OBVIOUS
  <2>1. v \in DOMAIN values /\ values[v].loc[1] \in 1 .. v /\ v \in 1 .. n
    BY <1>1, <1>2 DEF IInv, ValuesSound, ValueSound
  <2> QED BY <1>1, <2>1
<1>4. {values'[v].loc : v \in freed'} = {values[v].loc : v \in freed}
  BY <1>1, <1>2
<1>5. {values'[v].loc : v \in DOMAIN values'} = {values[v].loc : v \in DOMAIN values} \cup {x}
  BY <1>1
<1> DEFINE L == {values[v].loc : v \in DOMAIN values}
           F == {values[v].loc : v \in freed}
<1>6. OwnedBy(values', freed') = {y \in L \cup {x} : IsBuffer(y)} \ F /\ OwnedBy(values, freed) = {y \in L : IsBuffer(y)} \ F
  BY <1>4, <1>5 DEF OwnedBy
<1> HIDE DEF L, x
<1>7. CASE x[1] = n + 1 /\ X = {y \in {x} : IsBuffer(y)}
  <2>1. x \notin F
    BY <1>3, <1>7
  <2> HIDE DEF F
  <2> QED BY <1>6, <1>7, <2>1
<1>8. CASE x \in OwnedBy(values, freed) /\ X = {}
  <2> HIDE DEF F
  <2> QED BY <1>6, <1>8
<1> QED BY <1>7, <1>8 DEF Result, x, n

\* The values stay sound.
LEMMA SoundAfter ==
  ASSUME IInv, NEW n, n = Len(values), NEW r, NEW X, NEW N, Result(r.space, r.loc, r.base, X, N),
         values' = Append(values, r), freed' = freed, section' = section,
         section \in ToSet(Order), r.home = section,
         InLoop => hoisted' = hoisted \cup N
  PROVE  ValuesSound'
<1> DEFINE x == r.loc
<1>1. /\ n \in Nat /\ DOMAIN values = 1 .. n /\ DOMAIN values' = 1 .. n + 1
      /\ \A v \in DOMAIN values : values'[v] = values[v]
      /\ values'[n + 1] = r /\ \E S : values' \in Seq(S)
  BY OneMoreValue DEF IInv, ValuesSound
<1>2. InLoop' = InLoop
  BY DEF InLoop
<1>3. freed' \subseteq DOMAIN values' /\ \A v \in freed' : values'[v].base = 0
  BY <1>1 DEF IInv, ValuesSound
<1> HIDE DEF x
<1>4. ASSUME NEW v \in DOMAIN values PROVE ValueSound(v)'
  <2>1. v \in 1 .. n /\ ValueSound(v) /\ values'[v] = values[v]
    BY <1>1 DEF IInv, ValuesSound
  <2>2. /\ values[v].space \in {"host", "device", "resident"} /\ values[v].home \in ToSet(Order)
        /\ values[v].base \in 0 .. v - 1 /\ (values[v].base # 0 => values[values[v].base].base = 0)
        /\ values[v].loc \in Locs /\ values[v].loc[1] \in 1 .. v
        /\ (IsBuffer(values[v].loc) <=> values[v].space # "resident")
        /\ values[v].base = 0 => values[v].loc[1] = v
        /\ values[v].loc[1] = v \/ values[v].base = values[v].loc[1] \/ values[values[v].loc[1]].base # 0
        /\ section = "entry" => values[v].home = "entry"
        /\ InLoop /\ values[v].home \in LoopNest /\ values[v].base = 0 /\ IsBuffer(values[v].loc)
             => values[v].loc \in hoisted
    BY <2>1 DEF ValueSound
  <2>3. values[v].base # 0 => values[v].base \in DOMAIN values /\ values'[values[v].base] = values[values[v].base]
    BY <1>1, <2>1, <2>2
  <2>4. values[v].loc[1] \in DOMAIN values /\ values'[values[v].loc[1]] = values[values[v].loc[1]]
    BY <1>1, <2>1, <2>2
  <2>5. InLoop => hoisted \subseteq hoisted'
    OBVIOUS
  <2>6. ValueSound(v)' <=>
        /\ values'[v].space \in {"host", "device", "resident"} /\ values'[v].home \in ToSet(Order)
        /\ values'[v].base \in 0 .. v - 1 /\ (values'[v].base # 0 => values'[values'[v].base].base = 0)
        /\ values'[v].loc \in Locs /\ values'[v].loc[1] \in 1 .. v
        /\ (IsBuffer(values'[v].loc) <=> values'[v].space # "resident")
        /\ values'[v].base = 0 => values'[v].loc[1] = v
        /\ values'[v].loc[1] = v \/ values'[v].base = values'[v].loc[1] \/ values'[values'[v].loc[1]].base # 0
        /\ section = "entry" => values'[v].home = "entry"
        /\ InLoop /\ values'[v].home \in LoopNest /\ values'[v].base = 0 /\ IsBuffer(values'[v].loc)
             => values'[v].loc \in hoisted'
    BY <1>2 DEF ValueSound
  <2>7. values'[v] = values[v]
    BY <2>1
  <2> QED BY <2>2, <2>3, <2>4, <2>5, <2>6, <2>7
<1>5. ValueSound(n + 1)'
  <2>1. /\ x \in Locs /\ r.space \in {"host", "device", "resident"} /\ (IsBuffer(x) <=> r.space # "resident")
        /\ r.base \in 0 .. n /\ (r.base # 0 => values[r.base].base = 0)
        /\ \/ x[1] = n + 1 /\ X = {y \in {x} : IsBuffer(y)} /\ X \subseteq N
           \/ \E v \in DOMAIN values : x = values[v].loc /\ r.base = IF values[v].base = 0 THEN v ELSE values[v].base
    BY DEF Result, x
  <2>2. r.base # 0 => values'[r.base].base = 0
    BY <1>1, <2>1
  <2>3. r.base \in 0 .. (n + 1) - 1 /\ n + 1 \in Nat
    BY <1>1, <2>1
  <2>4. x[1] \in 1 .. n + 1 /\ (r.base = 0 => x[1] = n + 1)
        /\ (x[1] = n + 1 \/ r.base = x[1] \/ values'[x[1]].base # 0)
    <3>1. CASE x[1] = n + 1
      BY <1>1, <3>1
    <3>2. CASE \E v \in DOMAIN values : x = values[v].loc /\ r.base = IF values[v].base = 0 THEN v ELSE values[v].base
      <4>1. PICK v \in DOMAIN values : x = values[v].loc /\ r.base = IF values[v].base = 0 THEN v ELSE values[v].base
        BY <3>2
      <4>2. /\ v \in 1 .. n /\ x[1] \in 1 .. v /\ values[v].base \in 0 .. v - 1 /\ (values[v].base = 0 => x[1] = v)
            /\ (x[1] = v \/ values[v].base = x[1] \/ values[x[1]].base # 0)
        BY <1>1, <4>1 DEF IInv, ValuesSound, ValueSound
      <4>3. r.base # 0 /\ x[1] \in DOMAIN values /\ values'[x[1]] = values[x[1]]
        BY <1>1, <4>1, <4>2
      <4>4. r.base = x[1] \/ values[x[1]].base # 0
        BY <4>1, <4>2
      <4> QED BY <1>1, <4>2, <4>3, <4>4
    <3> QED BY <2>1, <3>1, <3>2
  <2>5. InLoop /\ r.base = 0 /\ IsBuffer(x) => x \in hoisted'
    <3> SUFFICES ASSUME InLoop, r.base = 0, IsBuffer(x) PROVE x \in hoisted'
      OBVIOUS
    <3>1. X = {y \in {x} : IsBuffer(y)} /\ X \subseteq N
      <4>1. ~ \E v \in DOMAIN values : r.base = IF values[v].base = 0 THEN v ELSE values[v].base
        BY <1>1
      <4> QED BY <2>1, <4>1
    <3> QED BY <3>1
  <2>6. ValueSound(n + 1)' <=>
          /\ r.space \in {"host", "device", "resident"} /\ r.home \in ToSet(Order)
          /\ r.base \in 0 .. (n + 1) - 1 /\ (r.base # 0 => values'[r.base].base = 0)
          /\ x \in Locs /\ x[1] \in 1 .. n + 1 /\ (IsBuffer(x) <=> r.space # "resident")
          /\ r.base = 0 => x[1] = n + 1
          /\ x[1] = n + 1 \/ r.base = x[1] \/ values'[x[1]].base # 0
          /\ section = "entry" => r.home = "entry"
          /\ InLoop /\ r.home \in LoopNest /\ r.base = 0 /\ IsBuffer(x) => x \in hoisted'
    BY <1>1, <1>2 DEF ValueSound, x
  <2>7. r.home \in ToSet(Order) /\ (section = "entry" => r.home = "entry")
    OBVIOUS
  <2> QED BY <2>1, <2>2, <2>3, <2>4, <2>5, <2>6, <2>7, Zenon
<1>6. \A v \in DOMAIN values' : v \in DOMAIN values \/ v = n + 1
  BY <1>1
<1>7. \A v \in DOMAIN values' : ValueSound(v)'
  BY <1>4, <1>5, <1>6
<1>8. \E S : values' \in Seq(S)
  BY <1>1
<1> QED BY <1>3, <1>7, <1>8, Zenon DEF ValuesSound
LEMMA GiveKeeps ==
  ASSUME IInv, section \in ToSet(Order), NEW calls, NEW X, NEW N,
         Neat(Calls, OwnedBy(values, freed), calls, OwnedBy(values, freed) \cup X, N), N \subseteq Fresh,
         NEW space, NEW x, NEW base, NEW means, Result(space, x, base, X, N), Give(calls, space, x, base, means)
  PROVE  IInv'
<1> DEFINE O == OwnedBy(values, freed)
           s == Append(calls, Done(x, Len(values) + 1))
           r == [space |-> space, loc |-> x, base |-> base, home |-> section, means |-> means]
           c == code
<1>1. /\ Emit(s) /\ values' = Append(values, r) /\ section' = section /\ opened' = opened
      /\ freed' = freed /\ outcome' = outcome
  BY DEF Give
<1>2. PICK n \in Nat : n = Len(values) /\ Len(values') = n + 1
  BY <1>1, OneMoreValue DEF IInv, ValuesSound
<1>3. r.space = space /\ r.loc = x /\ r.base = base /\ r.home = section
  OBVIOUS
<1>4. Neat(Calls, O, s, O \cup X, N)
  <2> DEFINE d == Done(x, Len(values) + 1)
  <2>1. calls \in Seq(Calls) /\ Calls \in {Steps, Prompt}
    BY DEF Neat, Calls
  <2>2. x \in Locs /\ Len(values) + 1 \in Nat
    BY <1>2 DEF Result
  <2>3. Neat(Calls, O \cup X, <<d>>, O \cup X, {})
    BY <2>1, <2>2, NeatDone
  <2>4. d \in Calls
    BY <2>3 DEF Neat
  <2> HIDE DEF d, O
  <2>5. {} \cap (O \cup N) = {} /\ Neat(Calls, O, calls, O \cup X, N)
    BY DEF O
  <2>6. Neat(Calls, O, calls \o <<d>>, O \cup X, N \cup {})
    BY <2>3, <2>5, NeatConcat
  <2>7. Append(calls, d) = calls \o <<d>> /\ N \cup {} = N
    BY <2>1, <2>4
  <2> QED BY <2>6, <2>7 DEF d
<1>5. Grows(n, n + 1, N)
  BY <1>2, FreshBuffers
<1>6. Placed(c, O, n) /\ Walked(c)
  BY <1>2 DEF IInv
<1>7. InLoop => AllDrops(s) \subseteq hoisted \cup N
  <2>1. AllDrops(s) \subseteq O \cup N /\ O \cup X = (O \cup N) \ AllDrops(s)
    <3>1. \A i \in DOMAIN s : Drops(s[i]) \subseteq Needs(s[i]) /\ Needs(s[i]) \subseteq O \cup N
      BY <1>4 DEF Neat, AllGets
    <3> HIDE DEF s, O
    <3> QED BY <1>4, <3>1 DEF Neat, AllDrops
  <2> HIDE DEF s, O
  <2> QED BY <2>1
<1> HIDE DEF O, s, r, c
<1>8. /\ Placed(code', O \cup X, n + 1) /\ Walked(code)'
      /\ hoisted' = IF InLoop THEN hoisted \cup N ELSE {}
      /\ hoisted \subseteq Created(code) => hoisted' \subseteq Created(code')
  BY <1>1, <1>4, <1>5, <1>6, <1>7, EmitKeeps DEF Grows, c
<1>9. Result(r.space, r.loc, r.base, X, N)
  BY <1>3
<1>10. OwnedBy(values', freed') = O \cup X
  BY <1>1, <1>9, OwnedAfter DEF O
<1>11. ValuesSound'
  BY <1>1, <1>2, <1>3, <1>8, <1>9, SoundAfter
<1>12. /\ section \in ToSet(Order) \cup {"refused", "ran"} /\ opened \in BOOLEAN /\ hoisted \subseteq Created(code)
       /\ section # "ran" => outcome = Pristine
       /\ outcome.faults \subseteq {"wrong"} /\ section # "ran"
  BY Sections DEF IInv
<1>13. section \in {"entry", "exit", "ran"} => hoisted' = {}
  BY <1>8, <1>12 DEF InLoop, LoopNest
<1>14. Placed(code', OwnedBy(values', freed'), Len(values'))
  BY <1>2, <1>8, <1>10
<1>15. /\ section' \in ToSet(Order) \cup {"refused", "ran"} /\ opened' \in BOOLEAN /\ hoisted' \subseteq Created(code')
       /\ section' # "ran" /\ outcome' = Pristine /\ outcome'.faults \subseteq {"wrong"}
       /\ section' \in {"entry", "exit", "ran"} => hoisted' = {}
  BY <1>1, <1>8, <1>12, <1>13
<1> QED BY <1>8, <1>11, <1>14, <1>15 DEF IInv

LEMMA DeallocKeeps == ASSUME IInv, LowerDealloc PROVE IInv'
<1>1. PICK v \in Those("host") \cup Those("device") :
        /\ values[v].base = 0 /\ At(section, <<1, 2>>) = At(values[v].home, <<1, 2>>)
        /\ Emit(<<Free(values[v].loc)>>) /\ freed' = freed \cup {v}
  BY DEF LowerDealloc
<1> DEFINE x == values[v].loc
           O == OwnedBy(values, freed)
           s == <<Free(x)>>
<1>2. UNCHANGED <<section, opened, values, outcome>> /\ section \in ToSet(Order)
  BY Sections DEF LowerDealloc, MayAdd, LoopNest
<1>3. v \in DOMAIN values /\ values[v].space \in {"host", "device"} /\ Usable(v)
  BY <1>1 DEF Those
<1>4. ValueSound(v) /\ v \notin freed
  BY <1>3 DEF IInv, ValuesSound, Usable
<1>5. x \in Locs /\ x[1] = v /\ IsBuffer(x)
  BY <1>1, <1>3, <1>4 DEF ValueSound
<1>6. \A w \in freed : values[w].loc # x
  <2> SUFFICES ASSUME NEW w \in freed PROVE values[w].loc # x
    OBVIOUS
  <2>1. values[w].base = 0 /\ ValueSound(w)
    BY DEF IInv, ValuesSound
  <2>2. values[w].loc[1] = w /\ w # v
    BY <1>4, <2>1 DEF ValueSound
  <2> QED BY <1>5, <2>2
<1>7. x \in O
  BY <1>3, <1>5, <1>6 DEF OwnedBy
<1>8. OwnedBy(values', freed') = O \ {x}
  BY <1>1, <1>2 DEF OwnedBy
<1>9. PICK n \in Nat : n = Len(values)
  BY DEF IInv, ValuesSound
<1> HIDE DEF x, O
<1>10. Calls \in {Steps, Prompt} /\ Neat(Calls, O, s, O \ {x}, {})
  <2>1. Calls \in {Steps, Prompt}
    BY DEF Calls
  <2> QED BY <1>5, <1>7, <2>1, NeatFree
<1>11. AllDrops(s) = {x}
  <2>1. DOMAIN s = {1} /\ s[1] = Free(x) /\ Drops(Free(x)) = {x}
    BY <1>5, FreeFields
  <2> HIDE DEF s
  <2> QED BY <2>1 DEF AllDrops
<1>12. InLoop => x \in hoisted
  <2> SUFFICES ASSUME InLoop PROVE x \in hoisted
    OBVIOUS
  <2>1. section \in LoopNest /\ values[v].home \in ToSet(Order)
    BY <1>4 DEF InLoop, ValueSound
  <2>2. values[v].home \notin {"entry", "exit"}
    <3>1. At(section, <<1, 2>>) # <<0, 0>>
      BY <2>1 DEF At, LoopNest
    <3>2. At("entry", <<1, 2>>) = <<0, 0>> /\ At("exit", <<1, 2>>) = <<0, 0>>
      BY DEF At
    <3> QED BY <1>1, <3>1, <3>2
  <2>3. values[v].home \in LoopNest
    BY <2>1, <2>2, Sections
  <2> QED BY <1>1, <1>4, <1>5, <2>3 DEF ValueSound, x
<1>13. Placed(code, O, n) /\ Walked(code) /\ Emit(s)
  BY <1>1, <1>2, <1>9 DEF IInv, O, x
<1> HIDE DEF s
<1>14. /\ Placed(code', O \ {x}, n) /\ Walked(code)'
       /\ hoisted' = IF InLoop THEN hoisted \cup {} ELSE {}
       /\ hoisted \subseteq Created(code) => hoisted' \subseteq Created(code')
  <2>1. Buffers(n) \subseteq Buffers(n) /\ {} \subseteq Buffers(n) /\ {} \cap Buffers(n) = {} /\ section' = section
        /\ (InLoop => AllDrops(s) \subseteq hoisted \cup {})
    BY <1>2, <1>11, <1>12
  <2> QED BY <1>2, <1>10, <1>13, <2>1, EmitKeeps
<1>15. /\ opened \in BOOLEAN /\ hoisted \subseteq Created(code) /\ outcome = Pristine
       /\ outcome.faults \subseteq {"wrong"} /\ section # "ran" /\ (section \in {"entry", "exit"} => hoisted = {})
  BY <1>2, Sections DEF IInv
<1>16. hoisted' = hoisted
  <2>1. ~ InLoop => section \in {"entry", "exit"}
    BY <1>2, Sections DEF InLoop
  <2> QED BY <1>14, <1>15, <2>1
<1>17. ValuesSound'
  <2>1. /\ \E S : values \in Seq(S)
        /\ freed \subseteq DOMAIN values /\ \A w \in freed : values[w].base = 0
    BY DEF IInv, ValuesSound
  <2>2. InLoop' = InLoop
    BY <1>2 DEF InLoop
  <2>3. \A w \in DOMAIN values : ValueSound(w)'
    BY <1>2, <1>16, <2>2 DEF IInv, ValuesSound, ValueSound
  <2>4. freed' \subseteq DOMAIN values /\ \A w \in freed' : values[w].base = 0
    BY <1>1, <1>3, <2>1
  <2> QED BY <1>2, <2>1, <2>3, <2>4 DEF ValuesSound
<1>18. Placed(code', OwnedBy(values', freed'), Len(values'))
  BY <1>2, <1>8, <1>9, <1>14
<1> QED BY <1>2, <1>14, <1>15, <1>16, <1>17, <1>18 DEF IInv
LEMMA WalkInit == Init => IInv
<1> SUFFICES ASSUME Init PROVE IInv
  OBVIOUS
<1>1. /\ section = "entry" /\ opened = FALSE /\ values = <<>> /\ freed = {} /\ hoisted = {}
      /\ code = [p \in Places |-> <<>>] /\ outcome = Pristine
  BY DEF Init
<1>2. ValuesSound
  <2>1. values \in Seq({}) /\ DOMAIN values = {}
    BY <1>1
  <2> QED BY <1>1, <2>1 DEF ValuesSound
<1>3. OwnedBy(values, freed) = {}
  BY <1>1 DEF OwnedBy
<1>4. AllGets(<<>>) = {} /\ AllDrops(<<>>) = {} /\ DOMAIN <<>> = {} /\ <<>> \in Seq(Steps)
  BY DEF AllGets, AllDrops
<1>5. /\ "entry" \in Places /\ "preheader" \in Places /\ "postloop" \in Places /\ "exit" \in Places
      /\ LoopNest \subseteq Places
  BY DEF Places, LoopNest
<1>6. \A p \in Places : code[p] = <<>>
  BY <1>1
<1>7. Before(code) = {} /\ Created(code) = {} /\ Deferred(code) = {}
  BY <1>4, <1>5, <1>6 DEF Before, Created, Deferred
<1>8. OnlyAllocs(<<>>) /\ OnlyFrees(<<>>) /\ \A A : Calm(<<>>, A)
  BY <1>4 DEF OnlyAllocs, OnlyFrees, Calm
<1>9. Neat(Steps, {}, <<>>, {}, {})
  BY NeatNone
<1>10. code \in [Places -> Seq(Steps)]
  BY <1>1, <1>4
<1>11. ASSUME NEW n PROVE Placed(code, {}, n)
  <2>1. ({} \cup {}) \ {} = {}
    OBVIOUS
  <2>2. Neat(Steps, {}, code["entry"], Before(code), AllGets(code["entry"]))
    BY <1>4, <1>5, <1>6, <1>7, <1>9
  <2>3. Neat(Steps, (Before(code) \cup Created(code)) \ Deferred(code), code["exit"], {}, AllGets(code["exit"]))
    BY <1>4, <1>5, <1>6, <1>7, <1>9, <2>1
  <2> QED BY <1>4, <1>5, <1>6, <1>7, <1>8, <1>10, <2>2, <2>3 DEF Placed
<1>12. ~ InLoop /\ Walked(code)
  BY <1>1, <1>6 DEF InLoop, LoopNest, Walked
<1>13. outcome.faults = {}
  BY <1>1 DEF Pristine
<1> QED BY <1>1, <1>2, <1>3, <1>7, <1>11, <1>12, <1>13, Sections DEF IInv

LEMMA QuietKeeps ==
  ASSUME IInv, LowerDeviceOpen \/ Refuse \/ UNCHANGED vars
  PROVE  IInv'
<1>1. CASE LowerDeviceOpen
  <2>1. section = "entry" /\ opened' = TRUE /\ UNCHANGED <<section, values, freed, hoisted, code,
       outcome>>
    BY <1>1 DEF LowerDeviceOpen
  <2> QED BY <2>1 DEF IInv, ValuesSound, ValueSound, Walked, InLoop
<1>2. CASE Refuse
  <2>1. section \in ToSet(Order) /\ section' = "refused" /\ UNCHANGED <<opened, values, freed,
       hoisted, code, outcome>>
    BY <1>2, Sections DEF Refuse, MayAdd, LoopNest
  <2>2. section # "ran" /\ section' \notin ToSet(Order) /\ ~ InLoop'
    BY <2>1, Sections DEF InLoop, LoopNest
  <2>3. ValuesSound'
    <3>1. \A v \in DOMAIN values : ValueSound(v)'
      BY <2>1, <2>2 DEF IInv, ValuesSound, ValueSound
    <3> QED BY <2>1, <3>1 DEF IInv, ValuesSound
  <2> QED BY <2>1, <2>2, <2>3 DEF IInv
<1>3. CASE UNCHANGED vars
  <2>1. UNCHANGED <<section, opened, values, freed, hoisted, code, outcome>>
    BY <1>3 DEF vars
  <2> QED BY <2>1 DEF IInv, ValuesSound, ValueSound, Walked, InLoop
<1> QED BY <1>1, <1>2, <1>3

LEMMA Following ==
  ASSUME NextSection
  PROVE  \/ section = "entry" /\ section' = "outer"
         \/ section = "outer" /\ section' = "inner"
         \/ section = "inner" /\ section' = "tail"
         \/ section = "tail" /\ section' = "exit"
<1> DEFINE k == CHOOSE i \in DOMAIN Order : Order[i] = section
<1>1. DOMAIN Order = 1 .. 5 /\ Order[1] = "entry" /\ Order[2] = "outer" /\ Order[3] = "inner"
      /\ Order[4] = "tail" /\ Order[5] = "exit"
  BY DEF Order
<1>2. section \in {"entry", "outer", "inner", "tail"}
  BY Sections DEF NextSection
<1>3. \E i \in DOMAIN Order : Order[i] = section
  BY <1>1, <1>2
<1>4. k \in DOMAIN Order /\ Order[k] = section
  BY <1>3
<1>5. section' = Order[1 + k]
  BY DEF NextSection
<1> HIDE DEF k
<1>6. k \in 1 .. 5 /\ k # 5
  BY <1>1, <1>2, <1>4
<1>7. k \in {1, 2, 3, 4}
  BY <1>6
<1> QED BY <1>1, <1>4, <1>5, <1>7

LEMMA SectionKeeps == ASSUME IInv, NextSection PROVE IInv'
<1>1. /\ hoisted' = IF section \in {"entry", "tail"} THEN {} ELSE hoisted
      /\ UNCHANGED <<opened, values, freed, code, outcome>>
  BY DEF NextSection
<1>2. /\ section \in ToSet(Order) /\ section' \in ToSet(Order) /\ section # "ran" /\ section' # "ran" /\ section' # "entry"
      /\ Walked(code)
  BY Following, Sections DEF IInv
<1>3. section = "entry" => Created(code) = {} /\ code["exit"] = <<>>
  <2> SUFFICES ASSUME section = "entry" PROVE Created(code) = {} /\ code["exit"] = <<>>
    OBVIOUS
  <2>1. code["preheader"] = <<>> /\ code["exit"] = <<>>
    BY <1>2 DEF Walked, Places
  <2> QED BY <2>1 DEF Created, AllGets
<1>4. Walked(code)'
  <2>1. CASE section = "entry"
    BY <1>1, <1>2, <1>3, <2>1 DEF Walked
  <2>2. CASE section \in {"outer", "inner"}
    <3>1. InLoop /\ code["exit"] = <<>> /\ hoisted = Created(code)
      BY <1>2, <2>2 DEF InLoop, LoopNest, Walked
    <3> QED BY <1>1, <1>2, <2>2, <3>1 DEF Walked
  <2>3. CASE section = "tail"
    <3>1. ~ InLoop'
      BY <2>3, Following DEF InLoop, LoopNest
    <3> QED BY <1>2, <3>1 DEF Walked
  <2> QED BY <2>1, <2>2, <2>3, Following
<1>5. ValuesSound'
  <2>1. \A v \in DOMAIN values : ValueSound(v)'
    <3> SUFFICES ASSUME NEW v \in DOMAIN values PROVE ValueSound(v)'
      OBVIOUS
    <3>1. ValueSound(v)
      BY DEF IInv, ValuesSound
    <3>2. InLoop' /\ values[v].home \in LoopNest => InLoop /\ hoisted' = hoisted
      <4>1. CASE section = "entry"
        BY <3>1, <4>1 DEF ValueSound, LoopNest
      <4>2. CASE section \in {"outer", "inner"}
        BY <1>1, <4>2 DEF InLoop, LoopNest
      <4>3. CASE section = "tail"
        BY <4>3, Following DEF InLoop, LoopNest
      <4> QED BY <4>1, <4>2, <4>3, Following
    <3> QED BY <1>1, <1>2, <3>1, <3>2 DEF ValueSound
  <2> QED BY <1>1, <2>1 DEF IInv, ValuesSound
<1>6. hoisted' \subseteq Created(code') /\ (section' \in {"entry", "exit", "ran"} => hoisted' = {})
  BY <1>1, <1>2, Following DEF IInv
<1> QED BY <1>1, <1>2, <1>4, <1>5, <1>6 DEF IInv
-----------------------------------------------------------------------------
(* The calls of an op.                                                     *)

Kinds == {Steps, Prompt}
\* What can be read while the buffers A are allocated.
Readable(x, A) == x \in Locs /\ (IsBuffer(x) => x \in A)
OperandOk(o, A) ==
  /\ Readable(o.loc, A) /\ o.device \in BOOLEAN /\ o.strided \in BOOLEAN
  /\ o.device => IsBuffer(o.loc) /\ ~ o.strided
Temporaries == {"host", "staged", "out", "sum", "contiguous", "copy", "sliced"}
StagedFor(o, i) == IF o.device THEN {} ELSE {New("staged", i)}

LEMMA SeqSame ==
  ASSUME NEW X, NEW s \in Seq(X), NEW t \in Seq(X), Len(s) = Len(t), \A i \in 1 .. Len(s) : s[i] = t[i]
  PROVE  s = t
OBVIOUS
LEMMA Pair == ASSUME NEW X, NEW a \in X, NEW b \in X PROVE <<a>> \o <<b>> = <<a, b>>
<1> DEFINE s == <<a>> \o <<b>>
           t == <<a, b>>
<1>1. s \in Seq(X) /\ Len(s) = 2 /\ s[1] = a /\ s[2] = b
  OBVIOUS
<1>2. t \in Seq(X) /\ Len(t) = 2 /\ t[1] = a /\ t[2] = b
  OBVIOUS
<1> HIDE DEF s, t
<1>3. s = t
  BY <1>1, <1>2, SeqSame
<1> QED BY <1>3 DEF s, t

LEMMA TwoPairs ==
  ASSUME NEW X, NEW a \in X, NEW b \in X, NEW c \in X, NEW d \in X
  PROVE  <<a, b>> \o <<c, d>> = <<a, b, c, d>>
<1> DEFINE s == <<a, b>> \o <<c, d>>
           t == <<a, b, c, d>>
<1>1. s \in Seq(X) /\ Len(s) = 4 /\ s[1] = a /\ s[2] = b /\ s[3] = c /\ s[4] = d
  OBVIOUS
<1>2. t \in Seq(X) /\ Len(t) = 4 /\ t[1] = a /\ t[2] = b /\ t[3] = c /\ t[4] = d
  OBVIOUS
<1> HIDE DEF s, t
<1>3. \A i \in 1 .. 4 : s[i] = t[i]
  <2>1. \A i \in 1 .. 4 : i = 1 \/ i = 2 \/ i = 3 \/ i = 4
    OBVIOUS
  <2> QED BY <1>1, <1>2, <2>1
<1>4. s = t
  BY <1>1, <1>2, <1>3, SeqSame
<1> QED BY <1>4 DEF s, t

LEMMA NewNames ==
  ASSUME NEW n \in Nat, n = Len(values)
  PROVE  /\ \A r \in Temporaries, i \in Nat :
              New(r, i) \in Fresh /\ New(r, i) \in Locs /\ IsBuffer(New(r, i)) /\ New(r, i)[1] = n + 1
         /\ \A i \in Nat : New("tile", i) \in Locs /\ ~ IsBuffer(New("tile", i)) /\ New("tile", i)[1] = n + 1
         /\ \A r, s \in Temporaries, i, j \in Nat : New(r, i) = New(s, j) <=> r = s /\ i = j
<1>1. \A r, i : New(r, i)[1] = n + 1 /\ New(r, i)[2] = r /\ New(r, i)[3] = i
  BY DEF New
<1>2. \A r \in Temporaries \cup {"tile"}, i \in Nat : New(r, i) \in Locs
  BY DEF New, Locs, Roles, Temporaries
<1>3. \A r \in Temporaries, i \in Nat : IsBuffer(New(r, i))
  BY <1>1 DEF IsBuffer, Temporaries
<1>4. \A i \in Nat : ~ IsBuffer(New("tile", i))
  BY <1>1 DEF IsBuffer
<1>5. \A r \in Temporaries, i \in Nat : New(r, i) \in Fresh
  BY <1>1, <1>2, <1>3 DEF Fresh
<1>6. \A r, s \in Temporaries, i, j \in Nat : New(r, i) = New(s, j) <=> r = s /\ i = j
  BY <1>1
<1> QED BY <1>1, <1>2, <1>3, <1>4, <1>5, <1>6

\* Two calls, the second of which creates nothing.
LEMMA NeatPair ==
  ASSUME NEW K, NEW A, NEW B, NEW C, NEW N, NEW c, NEW d, Neat(K, A, <<c>>, B, N), Neat(K, B, <<d>>, C, {})
  PROVE  Neat(K, A, <<c, d>>, C, N)
<1>1. c \in K /\ d \in K
  <2>1. <<c>> \in Seq(K) /\ <<d>> \in Seq(K)
    BY DEF Neat
  <2>2. \A i \in DOMAIN <<c>> : <<c>>[i] \in K
    BY <2>1
  <2>3. \A i \in DOMAIN <<d>> : <<d>>[i] \in K
    BY <2>1
  <2> QED BY <2>2, <2>3
<1>2. {} \cap (A \cup N) = {} /\ N \cup {} = N
  OBVIOUS
<1>3. Neat(K, A, <<c>> \o <<d>>, C, N \cup {})
  BY <1>2, NeatConcat
<1> QED BY <1>1, <1>2, <1>3, Pair

LEMMA NeatStage ==
  ASSUME NEW K \in Kinds, NEW A, NEW o, OperandOk(o, A), NEW i \in Nat, Len(values) \in Nat,
         StagedFor(o, i) \cap A = {}
  PROVE  /\ Neat(K, A, Stage(o, i), A \cup StagedFor(o, i), StagedFor(o, i))
         /\ Readable(Staged(o, i), A \cup StagedFor(o, i)) /\ IsBuffer(Staged(o, i))
<1>1. CASE o.device
  <2>1. Stage(o, i) = <<>> /\ StagedFor(o, i) = {} /\ Staged(o, i) = o.loc
    BY <1>1 DEF Stage, StagedFor, Staged
  <2>2. Neat(K, A, <<>>, A, {}) /\ A \cup {} = A
    BY NeatNone
  <2> QED BY <1>1, <2>1, <2>2 DEF OperandOk
<1>2. CASE ~ o.device
  <2> DEFINE x == New("staged", i)
             c == Set(x, Bytes(o), <<o.loc>>)
  <2>1. Stage(o, i) = <<Alloc(x), c>> /\ StagedFor(o, i) = {x} /\ Staged(o, i) = x
    BY <1>2 DEF Stage, StagedFor, Staged
  <2>2. x \in Locs /\ IsBuffer(x) /\ x \notin A
    BY <2>1, NewNames DEF Temporaries
  <2>3. Neat(K, A, <<Alloc(x)>>, A \cup {x}, {x})
    BY <2>2, NeatAlloc DEF Kinds
  <2>4. Neat(K, A \cup {x}, <<c>>, A \cup {x}, {})
    <3>1. Bytes(o) \in Works
      BY DEF Bytes, Works
    <3>2. o.loc \in Locs /\ (IsBuffer(o.loc) => o.loc \in A)
      BY DEF OperandOk, Readable
    <3>3. <<o.loc>> \in Seq(Locs) /\ ToSet(<<o.loc>>) = {o.loc}
      BY <3>2 DEF ToSet
    <3>4. \A y \in {x} \cup ToSet(<<o.loc>>) : IsBuffer(y) => y \in A \cup {x}
      BY <3>2, <3>3
    <3> HIDE DEF x
    <3> QED BY <2>2, <3>1, <3>3, <3>4, NeatSet DEF Kinds
  <2> HIDE DEF c, x
  <2>5. Neat(K, A, <<Alloc(x), c>>, A \cup {x}, {x})
    BY <2>3, <2>4, NeatPair
  <2> QED BY <2>1, <2>2, <2>5 DEF Readable
<1> QED BY <1>1, <1>2 DEF OperandOk

LEMMA NeatUnstage ==
  ASSUME NEW K \in Kinds, NEW A, NEW o, NEW i \in Nat, Len(values) \in Nat, o.device \in BOOLEAN,
         StagedFor(o, i) \subseteq A
  PROVE  Neat(K, A, Unstage(o, i), A \ StagedFor(o, i), {})
<1>1. CASE o.device
  <2>1. Unstage(o, i) = <<>> /\ StagedFor(o, i) = {} /\ A \ {} = A
    BY <1>1 DEF Unstage, StagedFor
  <2> QED BY <2>1, NeatNone
<1>2. CASE ~ o.device
  <2> DEFINE x == New("staged", i)
  <2>1. Unstage(o, i) = <<Free(x)>> /\ StagedFor(o, i) = {x} /\ x \in A
    BY <1>2 DEF Unstage, StagedFor
  <2>2. x \in Locs /\ IsBuffer(x)
    BY NewNames DEF Temporaries
  <2> HIDE DEF x
  <2> QED BY <2>1, <2>2, NeatFree DEF Kinds
<1> QED BY <1>1, <1>2

\* A new buffer that is filled with f of args.
LEMMA NeatFill ==
  ASSUME NEW K \in Kinds, NEW A, NEW x \in Locs, IsBuffer(x), x \notin A,
         NEW f \in Works, NEW args \in Seq(Locs), \A i \in DOMAIN args : Readable(args[i], A \cup {x})
  PROVE  Neat(K, A, <<Alloc(x), Set(x, f, args)>>, A \cup {x}, {x})
<1> DEFINE c == Set(x, f, args)
<1>1. Neat(K, A, <<Alloc(x)>>, A \cup {x}, {x})
  BY NeatAlloc DEF Kinds
<1>2. \A y \in {x} \cup ToSet(args) : IsBuffer(y) => y \in A \cup {x}
  BY DEF ToSet, Readable
<1>3. Neat(K, A \cup {x}, <<c>>, A \cup {x}, {})
  BY <1>2, NeatSet DEF Kinds
<1> HIDE DEF c
<1>4. Neat(K, A, <<Alloc(x), c>>, A \cup {x}, {x})
  BY <1>1, <1>3, NeatPair
<1> QED BY <1>4 DEF c

\* Stage an operand, compute out from it, drop what was staged.
LEMMA NeatUnary ==
  ASSUME NEW K \in Kinds, NEW A, NEW o, OperandOk(o, A), Len(values) \in Nat, A \cap Fresh = {},
         NEW x, x = New("out", 0), NEW f \in Works, NEW args \in Seq(Locs),
         \A i \in DOMAIN args : Readable(args[i], (A \cup StagedFor(o, 1)) \cup {x})
  PROVE  Neat(K, A, Stage(o, 1) \o <<Alloc(x), Set(x, f, args)>> \o Unstage(o, 1), A \cup {x},
              StagedFor(o, 1) \cup {x})
<1> DEFINE G == StagedFor(o, 1)
           s == Stage(o, 1)
           t == <<Alloc(x), Set(x, f, args)>>
           u == Unstage(o, 1)
<1>1. /\ x \in Locs /\ x \in Fresh /\ IsBuffer(x) /\ x \notin G /\ G \subseteq Fresh
  BY NewNames DEF Temporaries, StagedFor
<1>2. G \cap A = {} /\ x \notin A
  BY <1>1
<1>3. Neat(K, A, s, A \cup G, G)
  BY <1>2, NeatStage
<1>4. Neat(K, A \cup G, t, (A \cup G) \cup {x}, {x})
  BY <1>1, <1>2, NeatFill
<1>5. Neat(K, (A \cup G) \cup {x}, u, ((A \cup G) \cup {x}) \ G, {})
  BY NeatUnstage DEF OperandOk
<1> HIDE DEF G, s, t, u
<1>6. Neat(K, A, s \o t, (A \cup G) \cup {x}, G \cup {x})
  BY <1>1, <1>2, <1>3, <1>4, NeatConcat
<1>7. Neat(K, A, (s \o t) \o u, ((A \cup G) \cup {x}) \ G, (G \cup {x}) \cup {})
  BY <1>5, <1>6, NeatConcat
<1>8. ((A \cup G) \cup {x}) \ G = A \cup {x} /\ (G \cup {x}) \cup {} = G \cup {x}
  BY <1>1, <1>2
<1> QED BY <1>7, <1>8 DEF G, s, t, u
-----------------------------------------------------------------------------
(* Calls that are flattened.                                               *)

\* FlattenSeq, one sequence after another.
InParts(parts, seqs, n) ==
  /\ parts[0] = <<>> /\ parts[n] = FlattenSeq(seqs)
  /\ \A i \in 1 .. n : parts[i] = parts[i - 1] \o seqs[i]
LEMMA FlattenParts ==
  ASSUME NEW X, NEW n \in Nat, NEW seqs \in Seq(Seq(X)), Len(seqs) = n
  PROVE  \E parts : InParts(parts, seqs, n)
<1>1. CASE n = 0
  <2> DEFINE parts == [i \in {0} |-> <<>>]
  <2>1. FlattenSeq(seqs) = <<>>
    BY <1>1 DEF FlattenSeq
  <2>2. parts[0] = <<>> /\ parts[n] = FlattenSeq(seqs) /\ 1 .. n = {}
    BY <1>1, <2>1
  <2> HIDE DEF parts
  <2> QED BY <2>2 DEF InParts
<1>2. CASE n # 0
  <2>1. PICK f : Induction!IsFlattening(f, seqs, X) /\ FlattenSeq(seqs) = f[n]
    BY <1>2, Induction!Flattening, SameFlatten
  <2>2. f[1] = seqs[1] /\ \A i \in 2 .. n : f[i] = f[i - 1] \o seqs[i]
    BY <2>1 DEF Induction!IsFlattening
  <2> DEFINE parts == [i \in 0 .. n |-> IF i = 0 THEN <<>> ELSE f[i]]
  <2>3. parts[0] = <<>> /\ \A i \in 1 .. n : parts[i] = f[i]
    OBVIOUS
  <2> HIDE DEF parts
  <2>4. n \in 1 .. n /\ seqs[1] \in Seq(X) /\ 1 \in 1 .. n
    BY <1>2
  <2>5. \A i \in 1 .. n : parts[i] = parts[i - 1] \o seqs[i]
    <3> SUFFICES ASSUME NEW i \in 1 .. n PROVE parts[i] = parts[i - 1] \o seqs[i]
      OBVIOUS
    <3>1. CASE i = 1
      <4>1. <<>> \o seqs[1] = seqs[1]
        BY <2>4
      <4> QED BY <2>2, <2>3, <2>4, <3>1, <4>1
    <3>2. CASE i # 1
      <4>1. i \in 2 .. n /\ i - 1 \in 1 .. n
        BY <3>2
      <4> QED BY <2>2, <2>3, <4>1
    <3> QED BY <3>1, <3>2
  <2>6. parts[n] = FlattenSeq(seqs)
    BY <2>1, <2>3, <2>4
  <2> QED BY <2>3, <2>5, <2>6 DEF InParts
<1> QED BY <1>1, <1>2

\* The i-th of the calls takes the buffers held[i - 1] to held[i], and creates news[i].
InTurn(K, n, held, seqs, news) ==
  /\ seqs = [i \in 1 .. n |-> seqs[i]]
  /\ \A i \in 1 .. n : Neat(K, held[i - 1], seqs[i], held[i], news[i]) /\ news[i] \cap held[0] = {}
  /\ \A i, j \in 1 .. n : j < i => news[i] \cap news[j] = {}
AllNews(news, n) == UNION {news[i] : i \in 1 .. n}

LEMMA NeatFlatten ==
  ASSUME NEW K, NEW n \in Nat, NEW held, NEW seqs, NEW news, InTurn(K, n, held, seqs, news)
  PROVE  Neat(K, held[0], FlattenSeq(seqs), held[n], AllNews(news, n))
<1>9. /\ seqs = [i \in 1 .. n |-> seqs[i]]
      /\ \A i \in 1 .. n : Neat(K, held[i - 1], seqs[i], held[i], news[i]) /\ news[i] \cap held[0] = {}
      /\ \A i, j \in 1 .. n : j < i => news[i] \cap news[j] = {}
  BY DEF InTurn
<1>1. seqs \in Seq(Seq(K)) /\ Len(seqs) = n
  <2>1. \A i \in 1 .. n : seqs[i] \in Seq(K)
    BY <1>9 DEF Neat
  <2>2. seqs \in [1 .. n -> Seq(K)]
    BY <1>9, <2>1
  <2> QED BY <2>2
<1>8. PICK parts : InParts(parts, seqs, n)
  BY <1>1, FlattenParts
<1>2. /\ parts[0] = <<>> /\ parts[n] = FlattenSeq(seqs)
      /\ \A i \in 1 .. n : parts[i] = parts[i - 1] \o seqs[i]
  BY <1>8 DEF InParts
<1> DEFINE G(i) == UNION {news[j] : j \in 1 .. i}
           R == {i \in Nat : i <= n => Neat(K, held[0], parts[i], held[i], G(i))}
<1>3. G(0) = {}
  OBVIOUS
<1>4. \A i \in 0 .. n - 1 : G(i + 1) = G(i) \cup news[i + 1] /\ news[i + 1] \cap (held[0] \cup G(i)) = {}
  <2> SUFFICES ASSUME NEW i \in 0 .. n - 1
               PROVE  G(i + 1) = G(i) \cup news[i + 1] /\ news[i + 1] \cap (held[0] \cup G(i)) = {}
    OBVIOUS
  <2>1. 1 .. i + 1 = (1 .. i) \cup {i + 1}
    OBVIOUS
  <2>2. G(i + 1) = G(i) \cup news[i + 1]
    BY <2>1
  <2>3. i + 1 \in 1 .. n /\ \A j \in 1 .. i : j \in 1 .. n /\ j < i + 1
    OBVIOUS
  <2>4. \A j \in 1 .. i : news[i + 1] \cap news[j] = {}
    BY <1>9, <2>3
  <2>5. news[i + 1] \cap held[0] = {}
    BY <1>9, <2>3
  <2>6. news[i + 1] \cap G(i) = {}
    BY <2>4
  <2> QED BY <2>2, <2>5, <2>6
<1> HIDE DEF G
<1>5. 0 \in R
  <2>1. Neat(K, held[0], <<>>, held[0], {})
    BY NeatNone
  <2>2. Neat(K, held[0], parts[0], held[0], G(0))
    BY <1>2, <1>3, <2>1
  <2>3. 0 \in Nat
    OBVIOUS
  <2> QED BY <2>2, <2>3
<1>6. \A i \in Nat : i \in R => i + 1 \in R
  <2> SUFFICES ASSUME NEW i \in Nat, i \in R, i + 1 <= n PROVE Neat(K, held[0], parts[i + 1], held[i + 1], G(i + 1))
    OBVIOUS
  <2>1. i \in 0 .. n - 1 /\ i + 1 \in 1 .. n /\ (i + 1) - 1 = i
    OBVIOUS
  <2>2. Neat(K, held[0], parts[i], held[i], G(i))
    BY <2>1
  <2>3. Neat(K, held[i], seqs[i + 1], held[i + 1], news[i + 1])
    BY <1>9, <2>1
  <2>4. parts[i + 1] = parts[i] \o seqs[i + 1]
    BY <1>2, <2>1
  <2>5. G(i + 1) = G(i) \cup news[i + 1] /\ news[i + 1] \cap (held[0] \cup G(i)) = {}
    BY <1>4, <2>1
  <2>6. Neat(K, held[0], parts[i] \o seqs[i + 1], held[i + 1], G(i) \cup news[i + 1])
    BY <2>2, <2>3, <2>5, NeatConcat
  <2> QED BY <2>4, <2>5, <2>6
<1> HIDE DEF R
<1>7. n \in R
  BY <1>5, <1>6, Induction!SetInduction
<1> QED BY <1>2, <1>7 DEF R, G, AllNews
-----------------------------------------------------------------------------
(* The ops.                                                                *)

\* No reduction in a loop has a strided operand, whose hoisted copy would be deallocated
\* by the op that made it (a finding), and every reduction has a second operand.
Tame ==
  /\ MaxOperands \in Nat /\ Trips \subseteq Nat
  /\ Features \cap {"stridedTapInLoop", "oneOperand"} = {}

\* A value that can still be used has its buffer.
LEMMA UsableOwned ==
  ASSUME IInv, NEW v \in DOMAIN values, Usable(v)
  PROVE  Readable(values[v].loc, OwnedBy(values, freed))
<1>1. ValueSound(v) /\ v \notin freed /\ values[v].base \notin freed
  BY DEF IInv, ValuesSound, Usable
<1>2. values[v].loc \in Locs
  BY <1>1 DEF ValueSound
<1>3. \A w \in freed : values[w].loc # values[v].loc
  <2> SUFFICES ASSUME NEW w \in freed, values[w].loc = values[v].loc PROVE FALSE
    OBVIOUS
  <2>1. values[w].base = 0 /\ ValueSound(w)
    BY DEF IInv, ValuesSound
  <2>2. values[v].loc[1] = w
    BY <2>1 DEF ValueSound
  <2>3. w = v \/ values[v].base = w \/ values[w].base # 0
    BY <1>1, <2>2 DEF ValueSound
  <2> QED BY <1>1, <2>1, <2>3
<1>4. IsBuffer(values[v].loc) => values[v].loc \in OwnedBy(values, freed)
  BY <1>3 DEF OwnedBy
<1> QED BY <1>2, <1>4 DEF Readable

\* An op's own buffers are new.
LEMMA OwnedOld == ASSUME IInv PROVE OwnedBy(values, freed) \cap Fresh = {} /\ Len(values) \in Nat
<1>1. PICK n \in Nat : n = Len(values) /\ DOMAIN values = 1 .. n
  BY DEF IInv, ValuesSound
<1>2. \A v \in DOMAIN values : values[v].loc[1] \in 1 .. v
  BY DEF IInv, ValuesSound, ValueSound
<1>3. \A x \in OwnedBy(values, freed) : x \notin Fresh
  <2> SUFFICES ASSUME NEW x \in OwnedBy(values, freed), x \in Fresh PROVE FALSE
    OBVIOUS
  <2>1. PICK v \in DOMAIN values : x = values[v].loc
    BY DEF OwnedBy
  <2>2. x[1] \in 1 .. v /\ v \in 1 .. n /\ x[1] = n + 1
    BY <1>1, <1>2, <2>1 DEF Fresh
  <2> QED BY <2>2
<1> QED BY <1>1, <1>3

LEMMA OperandsOk ==
  ASSUME IInv
  PROVE  /\ \A strided \in BOOLEAN : OperandOk(HostInput(strided), OwnedBy(values, freed))
         /\ \A o \in Operands : OperandOk(o, OwnedBy(values, freed)) /\ ~ o.strided
         /\ \A o \in Taps : o \in Operands \/ o = HostInput(TRUE)
         /\ Tame /\ InLoop => \A o \in Taps : o \in Operands
<1>1. Memory \in Locs /\ ~ IsBuffer(Memory)
  BY DEF Memory, Locs, Roles, IsBuffer
<1>2. ASSUME NEW strided \in BOOLEAN PROVE OperandOk(HostInput(strided), OwnedBy(values, freed))
  <2>1. /\ HostInput(strided).loc = Memory /\ HostInput(strided).device = FALSE
        /\ HostInput(strided).strided = strided
    BY DEF HostInput
  <2> HIDE DEF HostInput
  <2> QED BY <1>1, <2>1 DEF OperandOk, Readable
<1>3. ~ HostInput(FALSE).strided
  BY DEF HostInput
<1>4. ASSUME NEW v \in Those("device") \cup Those("host")
      PROVE  OperandOk(Operand(v), OwnedBy(values, freed)) /\ ~ Operand(v).strided
  <2>1. v \in DOMAIN values /\ values[v].space \in {"host", "device"} /\ Usable(v)
    BY DEF Those
  <2>2. ValueSound(v)
    BY <2>1 DEF IInv, ValuesSound
  <2>3. IsBuffer(values[v].loc)
    BY <2>1, <2>2 DEF ValueSound
  <2>4. Readable(values[v].loc, OwnedBy(values, freed))
    BY <2>1, UsableOwned
  <2>5. /\ Operand(v).loc = values[v].loc /\ Operand(v).strided = FALSE
        /\ Operand(v).device = (values[v].space = "device")
    BY DEF Operand
  <2>6. Operand(v).device \in BOOLEAN
    BY <2>5
  <2> QED BY <2>3, <2>4, <2>5, <2>6 DEF OperandOk
<1>5. \A o \in Operands : OperandOk(o, OwnedBy(values, freed)) /\ ~ o.strided
  BY <1>2, <1>3, <1>4 DEF Operands
<1>6. \A o \in Taps : o \in Operands \/ o = HostInput(TRUE)
  BY DEF Taps, StridedTaps
<1>7. Tame /\ InLoop => StridedTaps = {}
  <2> SUFFICES ASSUME Tame, InLoop PROVE StridedTaps = {}
    OBVIOUS
  <2>1. section # "entry" /\ section # "exit" /\ Features \cap {"stridedTapInLoop"} = {}
    BY DEF Tame, InLoop, LoopNest
  <2> QED BY <2>1 DEF StridedTaps
<1>8. Tame /\ InLoop => \A o \in Taps : o \in Operands
  BY <1>7 DEF Taps
<1> QED BY <1>2, <1>5, <1>6, <1>8

LEMMA CallKinds == Calls \in Kinds
BY DEF Calls, Kinds

\* A result of the op's own.
LEMMA OwnResult ==
  ASSUME NEW n \in Nat, n = Len(values), NEW space \in {"host", "device"}, NEW x \in Fresh, NEW N, x \in N,
         NEW base, base \in 0 .. n, base # 0 => values[base].base = 0
  PROVE  Result(space, x, base, {x}, N)
<1>1. x \in Locs /\ IsBuffer(x) /\ x[1] = Len(values) + 1
  BY DEF Fresh
<1>2. {x} = {y \in {x} : IsBuffer(y)} /\ {x} \subseteq N
  BY <1>1
<1> QED BY <1>1, <1>2 DEF Result

LEMMA MayAddSection == ASSUME MayAdd PROVE section \in ToSet(Order)
BY Sections DEF MayAdd, LoopNest
LEMMA CopyKeeps == ASSUME IInv, LowerCopy PROVE IInv'
<1> DEFINE A == OwnedBy(values, freed)
           x == New("copy", 0)
<1>1. PICK o \in Operands, space \in {"host", "device"} :
        Give(<<Alloc(x), Move(x, o.loc)>>, space, x, 0, o.means)
  BY DEF LowerCopy
<1>2. section \in ToSet(Order) /\ A \cap Fresh = {} /\ Calls \in Kinds
  BY MayAddSection, OwnedOld, CallKinds DEF LowerCopy
<1>3. PICK n \in Nat : n = Len(values)
  BY OwnedOld
<1>4. x \in Fresh /\ x \in Locs /\ IsBuffer(x)
  BY <1>3, NewNames DEF Temporaries
<1>5. Readable(o.loc, A)
  BY OperandsOk DEF OperandOk
<1> DEFINE calls == <<Alloc(x), Set(x, "move", <<o.loc>>)>>
<1>6. Neat(Calls, A, calls, A \cup {x}, {x})
  <2>1. <<o.loc>> \in Seq(Locs) /\ \A i \in DOMAIN <<o.loc>> : Readable(<<o.loc>>[i], A \cup {x})
    BY <1>5 DEF Readable
  <2>2. "move" \in Works
    BY DEF Works
  <2>3. x \notin A
    BY <1>2, <1>4
  <2> HIDE DEF x, A
  <2> QED BY <1>2, <1>4, <2>1, <2>2, <2>3, NeatFill
<1>7. Result(space, x, 0, {x}, {x})
  BY <1>3, <1>4, OwnResult
<1>8. Give(calls, space, x, 0, o.means)
  BY <1>1 DEF Move
<1>9. {x} \subseteq Fresh
  BY <1>4
<1> HIDE DEF x, calls, A
<1> QED BY <1>2, <1>6, <1>7, <1>8, <1>9, GiveKeeps DEF A

LEMMA SubviewKeeps == ASSUME IInv, LowerSubview PROVE IInv'
<1> DEFINE A == OwnedBy(values, freed)
<1>1. section \in ToSet(Order) /\ A \cap Fresh = {} /\ Calls \in Kinds
  BY MayAddSection, OwnedOld, CallKinds DEF LowerSubview
<1>2. PICK n \in Nat : n = Len(values) /\ DOMAIN values = 1 .. n
  BY DEF IInv, ValuesSound
<1> DEFINE base(v)     == IF values[v].base = 0 THEN v ELSE values[v].base
           Name(v, f)  == New("sliced", IF f = "rest" THEN 1 ELSE Offset(values[v].loc))
           Means(v, f) == IF f = "whole" THEN values[v].means ELSE Applied(f, <<values[v].means>>)
           Part(v, f)  == <<Alloc(Name(v, f)),
                            Set(Name(v, f), CopiedRange(f, values[v].loc), <<values[v].loc>>)>>
<1>3. PICK v \in Those("device"), f \in Slices :
        \/ Give(<<>>, "device", values[v].loc, base(v), Means(v, f))
        \/ f # "whole" /\ Give(Part(v, f), "device", Name(v, f), base(v), Means(v, f))
  BY DEF LowerSubview
<1> DEFINE x == Name(v, f)
           g == CopiedRange(f, values[v].loc)
<1> HIDE DEF Means
<1>4. v \in DOMAIN values /\ values[v].space = "device" /\ Usable(v)
  BY DEF Those
<1>5. ValueSound(v) /\ Readable(values[v].loc, A)
  BY <1>4, UsableOwned DEF IInv, ValuesSound
<1>6. x \in Fresh /\ x \in Locs /\ IsBuffer(x)
  <2>1. values[v].loc \in Nat \X Roles \X Nat
    BY <1>4, <1>5 DEF ValueSound, Locs
  <2>2. \A y \in Nat \X Roles \X Nat : Offset(y) \in Nat
    BY DEF Offset
  <2>3. (IF f = "rest" THEN 1 ELSE Offset(values[v].loc)) \in Nat
    BY <2>1, <2>2
  <2>4. \A k \in Nat : New("sliced", k) \in Fresh /\ New("sliced", k) \in Locs /\ IsBuffer(New("sliced", k))
    BY <1>2, NewNames DEF Temporaries
  <2> QED BY <2>3, <2>4
<1>7. values[v].loc \in A
  BY <1>4, <1>5 DEF ValueSound, Readable
<1>8. base(v) \in 0 .. n /\ (base(v) # 0 => values[base(v)].base = 0)
  <2>1. values[v].base \in 0 .. v - 1 /\ (values[v].base # 0 => values[values[v].base].base = 0) /\ v \in 1 .. n
    BY <1>2, <1>4, <1>5 DEF ValueSound
  <2> QED BY <2>1
<1>9. CASE Give(<<>>, "device", values[v].loc, base(v), Means(v, f))
  <2> DEFINE y == values[v].loc
             b == base(v)
  <2>1. y \in Locs /\ IsBuffer(y)
    BY <1>4, <1>5 DEF ValueSound
  <2>2. b = IF values[v].base = 0 THEN v ELSE values[v].base
    OBVIOUS
  <2>3. b \in 0 .. Len(values) /\ (b # 0 => values[b].base = 0)
    BY <1>2, <1>8
  <2> HIDE DEF y, b
  <2>4. \E w \in DOMAIN values : y = values[w].loc /\ b = IF values[w].base = 0 THEN w ELSE values[w].base
    BY <1>4, <2>2 DEF y
  <2>5. y \in OwnedBy(values, freed)
    BY <1>7 DEF y
  <2>6. Result("device", y, b, {}, {})
    BY <2>1, <2>3, <2>4, <2>5 DEF Result
  <2>7. Neat(Calls, A, <<>>, A \cup {}, {})
    <3>1. Neat(Calls, A, <<>>, A, {}) /\ A \cup {} = A
      BY NeatNone
    <3> QED BY <3>1
  <2>8. Give(<<>>, "device", y, b, Means(v, f)) /\ {} \subseteq Fresh
    BY <1>9 DEF y, b
  <2> HIDE DEF A
  <2> QED BY <1>1, <2>6, <2>7, <2>8, GiveKeeps DEF A
<1>10. CASE f # "whole" /\ Give(Part(v, f), "device", x, base(v), Means(v, f))
  <2> DEFINE y == values[v].loc
             b == base(v)
             calls == <<Alloc(x), Set(x, g, <<y>>)>>
             means == Means(v, f)
  <2>1. Readable(y, A)
    BY <1>5
  <2>2. b \in 0 .. n /\ (b # 0 => values[b].base = 0)
    BY <1>8
  <2>3. Give(calls, "device", x, b, means)
    BY <1>10
  <2> HIDE DEF y, b, means
  <2>4. Result("device", x, b, {x}, {x})
    BY <1>2, <1>6, <2>2, OwnResult
  <2>5. Neat(Calls, A, calls, A \cup {x}, {x})
    <3>1. <<y>> \in Seq(Locs) /\ \A i \in DOMAIN <<y>> : Readable(<<y>>[i], A \cup {x})
      BY <2>1 DEF Readable
    <3>2. g \in Works
      BY <1>3, <1>10 DEF Works, Slices, CopiedRange
    <3>3. x \notin A
      BY <1>1, <1>6
    <3> HIDE DEF x, g, A
    <3> QED BY <1>1, <1>6, <3>1, <3>2, <3>3, NeatFill
  <2>6. {x} \subseteq Fresh
    BY <1>6
  <2> HIDE DEF calls, x, A
  <2> QED BY <1>1, <2>3, <2>4, <2>5, <2>6, GiveKeeps DEF A
<1> QED BY <1>3, <1>9, <1>10

LEMMA ProgramKeeps == ASSUME IInv, LowerProgram PROVE IInv'
<1> DEFINE A == OwnedBy(values, freed)
           x == New("staged", 1)
           y == New("tile", 0)
<1>1. PICK w \in WeightBlocks :
        Give(<<Alloc(x), Set(x, Bytes(w), <<w.loc>>), Move(y, x), Free(x)>>, "resident", y, 0, w.means)
  BY DEF LowerProgram
<1>2. section \in ToSet(Order) /\ A \cap Fresh = {} /\ Calls \in Kinds
  BY MayAddSection, OwnedOld, CallKinds DEF LowerProgram
<1>3. PICK n \in Nat : n = Len(values)
  BY OwnedOld
<1>4. x \in Fresh /\ x \in Locs /\ IsBuffer(x) /\ y \in Locs /\ ~ IsBuffer(y) /\ y[1] = n + 1
  BY <1>3, NewNames DEF Temporaries
<1>5. Readable(w.loc, A)
  BY OperandsOk DEF WeightBlocks, OperandOk
<1> DEFINE c == Alloc(x)
           d == Set(x, Bytes(w), <<w.loc>>)
           e == Set(y, "move", <<x>>)
           f == Free(x)
<1>6. x \notin A
  BY <1>2, <1>4
<1>7. Neat(Calls, A, <<c, d>>, A \cup {x}, {x})
  <2>1. <<w.loc>> \in Seq(Locs) /\ \A i \in DOMAIN <<w.loc>> : Readable(<<w.loc>>[i], A \cup {x})
    BY <1>5 DEF Readable
  <2>2. Bytes(w) \in Works
    BY DEF Works, Bytes
  <2> HIDE DEF x, A
  <2> QED BY <1>2, <1>4, <1>6, <2>1, <2>2, NeatFill
<1>8. Neat(Calls, A \cup {x}, <<e>>, A \cup {x}, {})
  <2>1. <<x>> \in Seq(Locs) /\ \A z \in {y} \cup ToSet(<<x>>) : IsBuffer(z) => z \in A \cup {x}
    BY <1>4 DEF ToSet
  <2>2. "move" \in Works
    BY DEF Works
  <2> HIDE DEF x, y, A
  <2> QED BY <1>2, <1>4, <2>1, <2>2, NeatSet DEF Kinds
<1>9. Neat(Calls, A \cup {x}, <<f>>, A, {})
  <2> DEFINE B == A \cup {x}
  <2>1. x \in B /\ B \ {x} = A
    BY <1>6
  <2> HIDE DEF x, A, B
  <2>2. Neat(Calls, B, <<Free(x)>>, B \ {x}, {})
    BY <1>2, <1>4, <2>1, NeatFree DEF Kinds
  <2> QED BY <2>1, <2>2 DEF B
<1> HIDE DEF c, d, e, f, x, y, A
<1>10. Neat(Calls, A \cup {x}, <<e, f>>, A, {})
  BY <1>8, <1>9, NeatPair
<1>11. Neat(Calls, A, <<c, d>> \o <<e, f>>, A, {x} \cup {})
  BY <1>7, <1>10, NeatConcat
<1>12. <<c, d>> \o <<e, f>> = <<c, d, e, f>>
  <2>1. <<c, d>> \in Seq(Calls) /\ <<e, f>> \in Seq(Calls)
    BY <1>7, <1>10 DEF Neat
  <2>2. c \in Calls /\ d \in Calls /\ e \in Calls /\ f \in Calls
    <3>1. \A i \in DOMAIN <<c, d>> : <<c, d>>[i] \in Calls
      BY <2>1
    <3>2. \A i \in DOMAIN <<e, f>> : <<e, f>>[i] \in Calls
      BY <2>1
    <3> QED BY <3>1, <3>2
  <2> QED BY <2>2, TwoPairs
<1>13. Neat(Calls, A, <<c, d, e, f>>, A \cup {}, {x})
  <2>1. {x} \cup {} = {x} /\ A \cup {} = A
    OBVIOUS
  <2> QED BY <1>11, <1>12, <2>1
<1>14. Result("resident", y, 0, {}, {x})
  <2>1. {} = {z \in {y} : IsBuffer(z)} /\ {} \subseteq {x} /\ 0 \in 0 .. Len(values)
    BY <1>3, <1>4
  <2> QED BY <1>3, <1>4, <2>1 DEF Result
<1>15. Give(<<c, d, e, f>>, "resident", y, 0, w.means) /\ {x} \subseteq Fresh
  BY <1>1, <1>4 DEF c, d, e, f, x, y, Move
<1> QED BY <1>2, <1>13, <1>14, <1>15, GiveKeeps DEF A
\* An op whose result is its scratch x, read back into a host buffer where the op's
\* type says so.
LEMMA FinishKeeps ==
  ASSUME IInv, section \in ToSet(Order), NEW A, A = OwnedBy(values, freed),
         NEW calls, NEW x, NEW N, Neat(Calls, A, calls, A \cup {x}, N), x \in N,
         N \subseteq Fresh, New("host", 0) \notin N,
         NEW space \in {"host", "device"}, NEW means, Finish(calls, space, x, TRUE, means)
  PROVE  IInv'
<1> DEFINE h == New("host", 0)
<1>1. A \cap Fresh = {} /\ Calls \in Kinds
  BY OwnedOld, CallKinds
<1>2. PICK n \in Nat : n = Len(values)
  BY OwnedOld
<1>3. h \in Fresh /\ h \in Locs /\ IsBuffer(h) /\ h # x /\ h \notin A
  BY <1>1, <1>2, NewNames DEF Temporaries
<1>4. x \in Fresh /\ x \in Locs /\ IsBuffer(x) /\ x \notin A
  BY <1>1 DEF Fresh
<1>5. CASE space = "device"
  <2>1. Give(calls, space, x, 0, means)
    BY <1>5 DEF Finish
  <2>2. Result(space, x, 0, {x}, N)
    BY <1>2, <1>4, OwnResult
  <2> QED BY <2>1, <2>2, GiveKeeps
<1>6. CASE space = "host"
  <2> DEFINE t == <<Alloc(h), Set(h, "move", <<x>>)>>
             u == <<Free(x)>>
             B == A \cup {x}
             C == B \cup {h}
  <2>1. Give(calls \o t \o u, space, h, 0, means)
    BY <1>6 DEF Finish, Move
  <2>2. Neat(Calls, B, t, C, {h})
    <3>1. x \in C /\ h \notin B
      BY <1>3
    <3>2. <<x>> \in Seq(Locs) /\ \A i \in DOMAIN <<x>> : Readable(<<x>>[i], B \cup {h})
      BY <1>4, <3>1 DEF Readable
    <3>3. "move" \in Works
      BY DEF Works
    <3> HIDE DEF h, B
    <3> QED BY <1>1, <1>3, <3>1, <3>2, <3>3, NeatFill
  <2>3. Neat(Calls, C, u, C \ {x}, {})
    <3>1. x \in C
      OBVIOUS
    <3> HIDE DEF C
    <3> QED BY <1>1, <1>4, <3>1, NeatFree DEF Kinds
  <2>4. C \ {x} = A \cup {h} /\ {h} \cap (A \cup N) = {} /\ {} \cap (A \cup (N \cup {h})) = {}
        /\ (N \cup {h}) \cup {} = N \cup {h}
    BY <1>3, <1>4
  <2>5. Neat(Calls, A, calls, B, N)
    OBVIOUS
  <2> HIDE DEF h, t, u, B, C
  <2>6. Neat(Calls, A, calls \o t, C, N \cup {h})
    BY <2>2, <2>4, <2>5, NeatConcat
  <2>7. Neat(Calls, A, (calls \o t) \o u, C \ {x}, (N \cup {h}) \cup {})
    BY <2>3, <2>4, <2>6, NeatConcat
  <2>8. Neat(Calls, A, (calls \o t) \o u, A \cup {h}, N \cup {h})
    BY <2>4, <2>7
  <2>9. Result(space, h, 0, {h}, N \cup {h})
    <3>1. h \in N \cup {h} /\ 0 \in 0 .. n
      OBVIOUS
    <3> QED BY <1>2, <1>3, <3>1, OwnResult
  <2>10. N \cup {h} \subseteq Fresh
    BY <1>3
  <2> QED BY <2>1, <2>8, <2>9, <2>10, GiveKeeps
<1> QED BY <1>5, <1>6

\* Those that stage one operand and compute from it.
LEMMA UnaryKeeps ==
  ASSUME IInv, section \in ToSet(Order), NEW o \in Operands, NEW f \in Works, NEW args \in Seq(Locs),
         NEW x, x = New("out", 0),
         \A i \in DOMAIN args : Readable(args[i], (OwnedBy(values, freed) \cup StagedFor(o, 1)) \cup {x}),
         NEW space \in {"host", "device"}, NEW means,
         Finish(Stage(o, 1) \o <<Alloc(x), Set(x, f, args)>> \o Unstage(o, 1), space, x, TRUE, means)
  PROVE  IInv'
<1> DEFINE A == OwnedBy(values, freed)
           calls == Stage(o, 1) \o <<Alloc(x), Set(x, f, args)>> \o Unstage(o, 1)
           N == StagedFor(o, 1) \cup {x}
<1>1. A \cap Fresh = {} /\ Calls \in Kinds /\ Len(values) \in Nat
  BY OwnedOld, CallKinds
<1>2. OperandOk(o, A)
  BY OperandsOk
<1>3. Neat(Calls, A, calls, A \cup {x}, N)
  <2> HIDE DEF A
  <2>1. \A i \in DOMAIN args : Readable(args[i], (A \cup StagedFor(o, 1)) \cup {x})
    BY DEF A
  <2> QED BY <1>1, <1>2, <2>1, NeatUnary
<1>4. N \subseteq Fresh /\ New("host", 0) \notin N /\ x \in N
  BY <1>1, NewNames DEF Temporaries, StagedFor
<1>5. Finish(calls, space, x, TRUE, means)
  OBVIOUS
<1> HIDE DEF A, calls, N
<1> QED BY <1>3, <1>4, <1>5, FinishKeeps DEF A

LEMMA StagedReadable ==
  ASSUME IInv, NEW o \in Operands
  PROVE  Readable(Staged(o, 1), OwnedBy(values, freed) \cup StagedFor(o, 1))
<1>1. OwnedBy(values, freed) \cap Fresh = {} /\ Calls \in Kinds /\ Len(values) \in Nat
  BY OwnedOld, CallKinds
<1>2. StagedFor(o, 1) \subseteq Fresh
  BY <1>1, NewNames DEF Temporaries, StagedFor
<1>3. OperandOk(o, OwnedBy(values, freed)) /\ StagedFor(o, 1) \cap OwnedBy(values, freed) = {}
  BY <1>1, <1>2, OperandsOk
<1> QED BY <1>1, <1>3, NeatStage

LEMMA RequantizeKeeps == ASSUME IInv, LowerRequantize PROVE IInv'
<1> DEFINE x == New("out", 0)
<1>1. PICK o \in Operands, space \in {"host", "device"} :
        Finish(Stage(o, 1) \o <<Alloc(x), Set(x, "requantize", <<Staged(o, 1)>>)>> \o Unstage(o, 1),
               space, x, TRUE, Applied("requantize", <<o.means>>))
  BY DEF LowerRequantize
<1> DEFINE args == <<Staged(o, 1)>>
           means == Applied("requantize", <<o.means>>)
<1>2. section \in ToSet(Order)
  BY MayAddSection DEF LowerRequantize
<1>3. Readable(Staged(o, 1), OwnedBy(values, freed) \cup StagedFor(o, 1))
  BY StagedReadable
<1>4. args \in Seq(Locs)
      /\ \A i \in DOMAIN args : Readable(args[i], (OwnedBy(values, freed) \cup StagedFor(o, 1)) \cup {x})
  BY <1>3 DEF Readable
<1>5. "requantize" \in Works
  BY DEF Works
<1>6. x = New("out", 0)
  OBVIOUS
<1>7. Finish(Stage(o, 1) \o <<Alloc(x), Set(x, "requantize", args)>> \o Unstage(o, 1), space, x, TRUE, means)
  BY <1>1
<1> HIDE DEF x, args, means
<1> QED BY <1>2, <1>4, <1>5, <1>6, <1>7, UnaryKeeps

LEMMA MvmKeeps == ASSUME IInv, LowerMvm PROVE IInv'
<1> DEFINE x == New("out", 0)
           read(r, o) == <<values[r].means, o.means>>
           args(r, o) == <<values[r].loc, Staged(o, 1)>>
           means(r, o, accumulate) ==
             IF accumulate THEN Applied("add", <<Zero>> \o read(r, o)) ELSE Applied("mvm", read(r, o))
           call(r, o, accumulate) ==
             IF accumulate THEN Set(x, "add", <<x>> \o args(r, o)) ELSE Set(x, "mvm", args(r, o))
<1>1. PICK r \in Those("resident"), o \in Operands, space \in {"host", "device"}, accumulate \in Accumulates :
        Finish(Stage(o, 1) \o <<Alloc(x), call(r, o, accumulate)>> \o Unstage(o, 1), space, x, TRUE,
               means(r, o, accumulate))
  BY DEF LowerMvm
<1>2. section \in ToSet(Order)
  BY MayAddSection DEF LowerMvm
<1> DEFINE B == (OwnedBy(values, freed) \cup StagedFor(o, 1)) \cup {x}
<1>3. Readable(Staged(o, 1), B)
  BY StagedReadable DEF Readable
<1>4. Readable(values[r].loc, B)
  <2>1. r \in DOMAIN values /\ Usable(r)
    BY DEF Those
  <2>2. Readable(values[r].loc, OwnedBy(values, freed))
    BY <2>1, UsableOwned
  <2> QED BY <2>2 DEF Readable
<1>5. x = New("out", 0) /\ Readable(x, B)
  <2>1. x \in Locs
    BY OwnedOld, NewNames DEF Temporaries
  <2> QED BY <2>1 DEF Readable
<1> DEFINE y == values[r].loc
           z == Staged(o, 1)
           w == means(r, o, accumulate)
           mvm == <<y, z>>
           sum == <<x>> \o mvm
<1>6. CASE accumulate
  <2>1. Finish(Stage(o, 1) \o <<Alloc(x), Set(x, "add", sum)>> \o Unstage(o, 1), space, x, TRUE, w)
    BY <1>1, <1>6
  <2> HIDE DEF x, y, z, w, B
  <2>2. sum \in Seq(Locs) /\ \A i \in DOMAIN sum : Readable(sum[i], B)
    <3>1. x \in Locs /\ y \in Locs /\ z \in Locs
      BY <1>3, <1>4, <1>5 DEF Readable, y, z
    <3>2. sum \in Seq(Locs) /\ Len(sum) = 3 /\ sum[1] = x /\ sum[2] = y /\ sum[3] = z
      BY <3>1
    <3> HIDE DEF sum
    <3>3. \A i \in DOMAIN sum : i = 1 \/ i = 2 \/ i = 3
      BY <3>2
    <3> QED BY <1>3, <1>4, <1>5, <3>2, <3>3 DEF y, z
  <2>3. "add" \in Works
    BY DEF Works
  <2> HIDE DEF sum
  <2> QED BY <1>2, <1>5, <2>1, <2>2, <2>3, UnaryKeeps DEF B
<1>7. CASE ~ accumulate
  <2>1. Finish(Stage(o, 1) \o <<Alloc(x), Set(x, "mvm", mvm)>> \o Unstage(o, 1), space, x, TRUE, w)
    BY <1>1, <1>7
  <2> HIDE DEF x, y, z, w, B
  <2>2. mvm \in Seq(Locs) /\ \A i \in DOMAIN mvm : Readable(mvm[i], B)
    BY <1>3, <1>4 DEF Readable, y, z
  <2>3. "mvm" \in Works
    BY DEF Works
  <2> HIDE DEF mvm
  <2> QED BY <1>2, <1>5, <2>1, <2>2, <2>3, UnaryKeeps DEF B
<1> QED BY <1>6, <1>7
-----------------------------------------------------------------------------
(* Reductions.                                                             *)

\* The op's own buffers in the roles given.
Own(roles) == {New(r, i) : r \in roles, i \in Nat}
CopyOf(o, i) == IF o.strided THEN {New("contiguous", i)} ELSE {}

\* The calls st stage operand o, the i-th, and free the copy made of it.
Staging(K, A, o, i, st) ==
  /\ o.device \in BOOLEAN /\ Readable(Staged(o, i), A \cup StagedFor(o, i))
  /\ \A P : A \subseteq P /\ P \cap (CopyOf(o, i) \cup StagedFor(o, i)) = {} =>
       Neat(K, P \cup CopyOf(o, i), st, P \cup StagedFor(o, i), StagedFor(o, i))

LEMMA OwnNew ==
  ASSUME NEW n \in Nat, n = Len(values)
  PROVE  /\ \A roles : roles \subseteq Temporaries => Own(roles) \subseteq Fresh
         /\ \A roles, more : roles \subseteq Temporaries /\ more \subseteq Temporaries /\ roles \cap more = {} =>
              Own(roles) \cap Own(more) = {}
         /\ \A o, i : i \in Nat => StagedFor(o, i) \subseteq Own({"staged"}) /\ CopyOf(o, i) \subseteq Own({"contiguous"})
         /\ \A o, i, p, j : i \in Nat /\ j \in Nat /\ i # j =>
              StagedFor(o, i) \cap StagedFor(p, j) = {} /\ CopyOf(o, i) \cap CopyOf(p, j) = {}
<1>1. \A roles : roles \subseteq Temporaries => Own(roles) \subseteq Fresh
  BY NewNames DEF Own
<1>2. \A roles, more : roles \subseteq Temporaries /\ more \subseteq Temporaries /\ roles \cap more = {} =>
        Own(roles) \cap Own(more) = {}
  <2> SUFFICES ASSUME NEW roles, NEW more, roles \subseteq Temporaries, more \subseteq Temporaries, roles \cap more = {},
                      NEW x \in Own(roles), x \in Own(more)
               PROVE FALSE
    OBVIOUS
  <2>1. PICK r \in roles, i \in Nat : x = New(r, i)
    BY DEF Own
  <2>2. PICK s \in more, j \in Nat : x = New(s, j)
    BY DEF Own
  <2>3. r \in Temporaries /\ s \in Temporaries /\ r # s
    OBVIOUS
  <2>4. New(r, i) # New(s, j)
    BY <2>3, NewNames
  <2> QED BY <2>1, <2>2, <2>4
<1>3. \A o, i : i \in Nat => StagedFor(o, i) \subseteq Own({"staged"}) /\ CopyOf(o, i) \subseteq Own({"contiguous"})
  BY DEF Own, StagedFor, CopyOf
<1>4. \A o, i, p, j : i \in Nat /\ j \in Nat /\ i # j =>
        StagedFor(o, i) \cap StagedFor(p, j) = {} /\ CopyOf(o, i) \cap CopyOf(p, j) = {}
  BY NewNames DEF StagedFor, CopyOf, Temporaries
<1> QED BY <1>1, <1>2, <1>3, <1>4

LEMMA StagingPlain ==
  ASSUME NEW K \in Kinds, NEW A, A \cap Fresh = {}, NEW n \in Nat, n = Len(values),
         NEW o, OperandOk(o, A), ~ o.strided, NEW i \in Nat
  PROVE  Staging(K, A, o, i, Stage(o, i))
<1>1. CopyOf(o, i) = {} /\ StagedFor(o, i) \subseteq Fresh
  <2>1. StagedFor(o, i) \subseteq Own({"staged"}) /\ Own({"staged"}) \subseteq Fresh
    BY OwnNew DEF Temporaries
  <2> QED BY <2>1 DEF CopyOf
<1>2. Readable(Staged(o, i), A \cup StagedFor(o, i))
  <2>1. StagedFor(o, i) \cap A = {}
    BY <1>1
  <2> QED BY <2>1, NeatStage
<1>3. ASSUME NEW P, A \subseteq P, P \cap (CopyOf(o, i) \cup StagedFor(o, i)) = {}
      PROVE  Neat(K, P \cup CopyOf(o, i), Stage(o, i), P \cup StagedFor(o, i), StagedFor(o, i))
  <2>1. OperandOk(o, P) /\ StagedFor(o, i) \cap P = {}
    BY <1>3 DEF OperandOk, Readable
  <2>2. Neat(K, P, Stage(o, i), P \cup StagedFor(o, i), StagedFor(o, i))
    BY <2>1, NeatStage
  <2>3. P \cup CopyOf(o, i) = P
    BY <1>1
  <2> QED BY <2>2, <2>3
<1>4. o.device \in BOOLEAN
  BY DEF OperandOk
<1> QED BY <1>2, <1>3, <1>4 DEF Staging

\* A strided operand is staged from its copy, which is deallocated then.
LEMMA StagingCopy ==
  ASSUME NEW A, A \cap Fresh = {}, NEW n \in Nat, n = Len(values), NEW i \in Nat,
         NEW o, o = HostInput(TRUE)
  PROVE  Staging(Steps, A, o, i, StageOperand(o, i))
<1> DEFINE x == New("contiguous", i)
           y == New("staged", i)
           p == Contiguous(o, i)
<1>1. o.strided = TRUE /\ o.device = FALSE /\ o.loc = Memory
  BY DEF HostInput
<1>2. p.loc = x /\ p.strided = FALSE /\ p.device = FALSE
  BY DEF HostInput, Contiguous
<1>3. x \in Locs /\ IsBuffer(x) /\ y \in Locs /\ IsBuffer(y) /\ x # y
  BY NewNames DEF Temporaries
<1>4. CopyOf(o, i) = {x} /\ StagedFor(o, i) = {y} /\ StagedFor(p, i) = {y} /\ Staged(o, i) = y
  BY <1>1, <1>2 DEF CopyOf, StagedFor, Staged
<1>5. StageOperand(o, i) = Stage(p, i) \o <<FreeHere(x)>>
  BY <1>1 DEF StageOperand
<1> HIDE DEF x, y, p
<1>6. ASSUME NEW P, A \subseteq P, P \cap ({x} \cup {y}) = {}
      PROVE  Neat(Steps, P \cup {x}, Stage(p, i) \o <<FreeHere(x)>>, P \cup {y}, {y})
  <2> DEFINE B == P \cup {x}
             C == B \cup {y}
  <2>1. OperandOk(p, B)
    BY <1>2, <1>3 DEF OperandOk, Readable
  <2>2. Neat(Steps, B, Stage(p, i), C, {y})
    <3>1. Steps \in Kinds /\ Len(values) \in Nat
      BY DEF Kinds
    <3>2. StagedFor(p, i) \cap B = {}
      BY <1>3, <1>4, <1>6
    <3> HIDE DEF B
    <3>3. Neat(Steps, B, Stage(p, i), B \cup StagedFor(p, i), StagedFor(p, i))
      BY <2>1, <3>1, <3>2, NeatStage
    <3> QED BY <1>4, <3>3
  <2>3. x \in C /\ C \ {x} = P \cup {y} /\ {} \cap (B \cup {y}) = {} /\ {y} \cup {} = {y}
    BY <1>3, <1>6
  <2> HIDE DEF B, C
  <2>4. Neat(Steps, C, <<FreeHere(x)>>, C \ {x}, {})
    <3>1. Steps \in {Steps, Prompt}
      OBVIOUS
    <3> QED BY <1>3, <2>3, <3>1, NeatFree
  <2>5. Neat(Steps, B, Stage(p, i) \o <<FreeHere(x)>>, C \ {x}, {y} \cup {})
    BY <2>2, <2>3, <2>4, NeatConcat
  <2> QED BY <2>3, <2>5 DEF B
<1>7. Readable(y, A \cup {y})
  BY <1>3 DEF Readable
<1> QED BY <1>1, <1>4, <1>5, <1>6, <1>7 DEF Staging

\* How the pass stages the taps of a reduction.
LEMMA StagingTap ==
  ASSUME IInv, Tame, NEW A, A = OwnedBy(values, freed), NEW o \in Taps, NEW i \in Nat
  PROVE  Staging(Calls, A, o, i, StageOperand(o, i))
<1>1. A \cap Fresh = {} /\ Calls \in Kinds /\ Len(values) \in Nat
  BY OwnedOld, CallKinds
<1>2. CASE o \in Operands
  <2>1. OperandOk(o, A) /\ ~ o.strided
    BY <1>2, OperandsOk
  <2>2. Staging(Calls, A, o, i, Stage(o, i))
    BY <1>1, <2>1, StagingPlain
  <2>3. StageOperand(o, i) = Stage(o, i) \o <<>>
    BY <2>1 DEF StageOperand, Contiguous
  <2>4. Stage(o, i) \in Seq(Calls)
    <3>1. StagedFor(o, i) \cap A = {}
      BY <1>1, OwnNew DEF Temporaries
    <3>2. Neat(Calls, A, Stage(o, i), A \cup StagedFor(o, i), StagedFor(o, i))
      BY <1>1, <2>1, <3>1, NeatStage
    <3> QED BY <3>2 DEF Neat
  <2>5. Stage(o, i) \o <<>> = Stage(o, i)
    BY <2>4
  <2> QED BY <2>2, <2>3, <2>5
<1>3. CASE o \notin Operands
  <2>1. o = HostInput(TRUE) /\ ~ InLoop
    BY <1>3, OperandsOk
  <2>2. Calls = Steps
    BY <2>1 DEF Calls
  <2> QED BY <1>1, <2>1, <2>2, StagingCopy
<1> QED BY <1>2, <1>3
\* One step of a chain: stage, add into x, drop the previous sum and what was staged.
LEMMA ChainStep ==
  ASSUME NEW K \in Kinds, NEW P, NEW C, NEW G, NEW S, S \subseteq P, NEW x \in Locs, IsBuffer(x),
         P \cap (C \cup G) = {}, x \notin P \cup C \cup G,
         NEW st, Neat(K, P \cup C, st, P \cup G, G),
         NEW f \in Works, NEW y, NEW z, Readable(y, P), Readable(z, P \cup G),
         NEW d, \A Q : S \subseteq Q => Neat(K, Q, d, Q \ S, {}),
         NEW u, \A Q : G \subseteq Q => Neat(K, Q, u, Q \ G, {})
  PROVE  Neat(K, P \cup C, st \o <<Alloc(x), Set(x, f, <<y, z>>)>> \o d \o u, (P \ S) \cup {x}, G \cup {x})
<1> DEFINE t == <<Alloc(x), Set(x, f, <<y, z>>)>>
           Q0 == P \cup C
           Q1 == P \cup G
           Q2 == Q1 \cup {x}
           Q3 == Q2 \ S
           Q4 == Q3 \ G
<1>1. /\ x \notin Q1 /\ {x} \cap (Q0 \cup G) = {} /\ S \subseteq Q2 /\ G \subseteq Q3 /\ Q4 = (P \ S) \cup {x}
      /\ {} \cap (Q0 \cup (G \cup {x})) = {} /\ (G \cup {x}) \cup {} = G \cup {x}
  OBVIOUS
<1>2. Readable(y, Q2) /\ Readable(z, Q2)
  BY DEF Readable
<1>3. Neat(K, Q0, st, Q1, G)
  OBVIOUS
<1> HIDE DEF Q1
<1>4. Neat(K, Q1, t, Q2, {x})
  <2>1. <<y, z>> \in Seq(Locs) /\ \A i \in DOMAIN <<y, z>> : Readable(<<y, z>>[i], Q1 \cup {x})
    BY <1>2 DEF Readable
  <2> QED BY <1>1, <2>1, NeatFill
<1> HIDE DEF Q0, Q2, t
<1>5. Neat(K, Q2, d, Q3, {})
  BY <1>1
<1> HIDE DEF Q3
<1>6. Neat(K, Q3, u, Q4, {})
  BY <1>1
<1> HIDE DEF Q4
<1>7. Neat(K, Q0, st \o t, Q2, G \cup {x})
  BY <1>1, <1>3, <1>4, NeatConcat
<1>8. Neat(K, Q0, (st \o t) \o d, Q3, (G \cup {x}) \cup {})
  BY <1>1, <1>5, <1>7, NeatConcat
<1>9. Neat(K, Q0, (st \o t) \o d, Q3, G \cup {x})
  BY <1>1, <1>8
<1>10. Neat(K, Q0, ((st \o t) \o d) \o u, Q4, (G \cup {x}) \cup {})
  BY <1>1, <1>6, <1>9, NeatConcat
<1> QED BY <1>1, <1>10 DEF Q0, t

\* The copies that steps i + 1 .. n have to stage.
Rest(os, n, i) == UNION {CopyOf(os[j], j) : j \in i + 1 .. n}

LEMMA RestSteps ==
  ASSUME NEW m \in Nat, m = Len(values), NEW n \in Nat, NEW os
  PROVE  /\ Rest(os, n, n) = {}
         /\ \A i \in 0 .. n : Rest(os, n, i) \subseteq Own({"contiguous"})
         /\ \A i \in 1 .. n : Rest(os, n, i - 1) = Rest(os, n, i) \cup CopyOf(os[i], i)
                              /\ Rest(os, n, i) \cap CopyOf(os[i], i) = {}
<1>1. n + 1 .. n = {}
  OBVIOUS
<1>2. Rest(os, n, n) = {}
  BY <1>1 DEF Rest
<1>3. \A i \in 0 .. n : Rest(os, n, i) \subseteq Own({"contiguous"})
  <2> SUFFICES ASSUME NEW i \in 0 .. n, NEW x \in Rest(os, n, i) PROVE x \in Own({"contiguous"})
    OBVIOUS
  <2>1. PICK j \in i + 1 .. n : x \in CopyOf(os[j], j)
    BY DEF Rest
  <2>2. j \in Nat
    OBVIOUS
  <2> QED BY <2>1, <2>2, OwnNew
<1>4. ASSUME NEW i \in 1 .. n
      PROVE  Rest(os, n, i - 1) = Rest(os, n, i) \cup CopyOf(os[i], i) /\ Rest(os, n, i) \cap CopyOf(os[i], i) = {}
  <2>1. (i - 1) + 1 .. n = (i + 1 .. n) \cup {i}
    OBVIOUS
  <2>2. Rest(os, n, i - 1) = Rest(os, n, i) \cup CopyOf(os[i], i)
    BY <2>1 DEF Rest
  <2>3. \A j \in i + 1 .. n : CopyOf(os[j], j) \cap CopyOf(os[i], i) = {}
    <3>1. \A j \in i + 1 .. n : j \in Nat /\ i \in Nat /\ j # i
      OBVIOUS
    <3> QED BY <3>1, OwnNew
  <2>4. Rest(os, n, i) \cap CopyOf(os[i], i) = {}
    BY <2>3 DEF Rest
  <2> QED BY <2>2, <2>4
<1> QED BY <1>2, <1>3, <1>4

LEMMA ChainNeat ==
  ASSUME NEW K \in Kinds, NEW A, A \cap Fresh = {}, NEW m \in Nat, m = Len(values), NEW n \in Nat, n >= 2,
         NEW os, Len(os) = n, NEW stages, NEW f \in Works, \A i \in 1 .. n : Staging(K, A, os[i], i, stages[i])
  PROVE  \E N : /\ Neat(K, A \cup Rest(os, n, 0), Chain(f, os, stages), A \cup {New("sum", n)}, N)
                /\ N \subseteq Own({"staged", "sum"}) /\ New("sum", n) \in N
<1> DEFINE sum(i) == IF i = 1 THEN Staged(os[1], 1) ELSE New("sum", i)
           step(i) == stages[i] \o <<Alloc(sum(i)), Set(sum(i), f, <<sum(i - 1), Staged(os[i], i)>>)>>
                        \o (IF i = 2 THEN Unstage(os[1], 1) ELSE <<Free(sum(i - 1))>>)
                        \o Unstage(os[i], i)
           S(i) == IF i = 1 THEN StagedFor(os[1], 1) ELSE {New("sum", i)}
           R(i) == Rest(os, n, i)
           H(i) == (A \cup S(i)) \cup R(i)
           G(i) == StagedFor(os[i], i)
           C(i) == CopyOf(os[i], i)
           seqs == [k \in 1 .. n - 1 |-> step(k + 1)]
           held == [k \in 0 .. n - 1 |-> H(k + 1)]
           news == [k \in 1 .. n - 1 |-> G(k + 1) \cup {New("sum", k + 1)}]
<1>1. Chain(f, os, stages) = stages[1] \o FlattenSeq(seqs)
  BY DEF Chain
<1>2. /\ R(n) = {}
      /\ \A i \in 0 .. n : R(i) \subseteq Own({"contiguous"})
      /\ \A i \in 1 .. n : R(i - 1) = R(i) \cup C(i) /\ R(i) \cap C(i) = {}
  BY RestSteps
<1>3. /\ Own({"contiguous"}) \cap A = {} /\ Own({"staged", "sum"}) \cap A = {}
      /\ Own({"contiguous"}) \cap Own({"staged", "sum"}) = {}
  <2>1. Own({"contiguous"}) \subseteq Fresh /\ Own({"staged", "sum"}) \subseteq Fresh
    BY OwnNew DEF Temporaries
  <2>2. Own({"contiguous"}) \cap Own({"staged", "sum"}) = {}
    BY OwnNew DEF Temporaries
  <2> QED BY <2>1, <2>2
<1>4. /\ \A i \in 1 .. n : G(i) \subseteq Own({"staged", "sum"}) /\ C(i) \subseteq Own({"contiguous"})
      /\ \A i, j \in 1 .. n : i # j => G(i) \cap G(j) = {}
  <2>1. \A i \in 1 .. n : G(i) \subseteq Own({"staged"}) /\ C(i) \subseteq Own({"contiguous"})
    BY OwnNew
  <2>2. Own({"staged"}) \subseteq Own({"staged", "sum"})
    BY DEF Own
  <2>3. \A i, j \in 1 .. n : i \in Nat /\ j \in Nat
    OBVIOUS
  <2>4. \A i, j \in 1 .. n : i # j => G(i) \cap G(j) = {}
    BY <2>3, OwnNew
  <2> QED BY <2>1, <2>2, <2>4
<1>5. /\ \A i \in 1 .. n : New("sum", i) \in Own({"staged", "sum"}) /\ New("sum", i) \in Locs /\ IsBuffer(New("sum", i))
      /\ \A i, j \in 1 .. n : New("sum", i) \notin G(j) /\ (i # j => New("sum", i) # New("sum", j))
  <2>1. \A i \in 1 .. n : New("sum", i) \in Own({"staged", "sum"})
    BY DEF Own
  <2>2. \A i \in 1 .. n : New("sum", i) \in Locs /\ IsBuffer(New("sum", i))
    BY NewNames DEF Temporaries
  <2>3. \A i, j \in 1 .. n : New("sum", i) # New("staged", j) /\ (i # j => New("sum", i) # New("sum", j))
    BY NewNames DEF Temporaries
  <2> QED BY <2>1, <2>2, <2>3 DEF StagedFor
<1>6. \A i \in 1 .. n : os[i].device \in BOOLEAN /\ Readable(Staged(os[i], i), A \cup G(i))
  BY DEF Staging
<1>7. \A i \in 1 .. n : \A P : A \subseteq P /\ P \cap (C(i) \cup G(i)) = {} =>
        Neat(K, P \cup C(i), stages[i], P \cup G(i), G(i))
  BY DEF Staging
<1>8. \A i \in 1 .. n : \A Q : G(i) \subseteq Q => Neat(K, Q, Unstage(os[i], i), Q \ G(i), {})
  <2> SUFFICES ASSUME NEW i \in 1 .. n, NEW Q, G(i) \subseteq Q PROVE Neat(K, Q, Unstage(os[i], i), Q \ G(i), {})
    OBVIOUS
  <2>1. i \in Nat
    OBVIOUS
  <2>2. os[i].device \in BOOLEAN
    BY <1>6
  <2> DEFINE o == os[i]
  <2>3. StagedFor(o, i) \subseteq Q
    OBVIOUS
  <2> HIDE DEF o
  <2>4. Neat(K, Q, Unstage(o, i), Q \ StagedFor(o, i), {})
    BY <2>1, <2>2, <2>3, NeatUnstage DEF o
  <2> QED BY <2>4 DEF o
<1>9. \A i \in 1 .. n : \A Q : New("sum", i) \in Q => Neat(K, Q, <<Free(New("sum", i))>>, Q \ {New("sum", i)}, {})
  <2>1. K \in {Steps, Prompt}
    BY DEF Kinds
  <2> QED BY <1>5, <2>1, NeatFree
<1>10. \A i \in 1 .. n : S(i) = (IF i = 1 THEN G(1) ELSE {New("sum", i)}) /\ S(i) \subseteq Own({"staged", "sum"})
  BY <1>4, <1>5
<1>11. \A i \in 1 .. n : Readable(sum(i), A \cup S(i)) /\ (i # 1 => sum(i) = New("sum", i))
  BY <1>5, <1>6 DEF Readable
<1> DEFINE drop(i) == IF i = 2 THEN Unstage(os[1], 1) ELSE <<Free(sum(i - 1))>>
<1>12. \A i \in 2 .. n : \A Q : S(i - 1) \subseteq Q => Neat(K, Q, drop(i), Q \ S(i - 1), {})
  <2> SUFFICES ASSUME NEW i \in 2 .. n, NEW Q, S(i - 1) \subseteq Q PROVE Neat(K, Q, drop(i), Q \ S(i - 1), {})
    OBVIOUS
  <2>1. CASE i = 2
    <3>1. S(i - 1) = G(1) /\ drop(i) = Unstage(os[1], 1) /\ 1 \in 1 .. n
      BY <2>1
    <3> QED BY <1>8, <3>1
  <2>2. CASE i # 2
    <3>1. i - 1 \in 1 .. n /\ i - 1 # 1
      BY <2>2
    <3>2. S(i - 1) = {New("sum", i - 1)} /\ drop(i) = <<Free(New("sum", i - 1))>>
      BY <2>2, <3>1
    <3> QED BY <1>9, <3>1, <3>2
  <2> QED BY <2>1, <2>2
<1>13. \A i \in 2 .. n : step(i) = stages[i] \o <<Alloc(New("sum", i)), Set(New("sum", i), f, <<sum(i - 1), Staged(os[i], i)>>)>>
                                     \o drop(i) \o Unstage(os[i], i)
  <2> SUFFICES ASSUME NEW i \in 2 .. n
               PROVE  step(i) = stages[i] \o <<Alloc(New("sum", i)), Set(New("sum", i), f, <<sum(i - 1), Staged(os[i], i)>>)>>
                                  \o drop(i) \o Unstage(os[i], i)
    OBVIOUS
  <2>1. sum(i) = New("sum", i)
    BY <1>11
  <2>2. step(i) = stages[i] \o <<Alloc(sum(i)), Set(sum(i), f, <<sum(i - 1), Staged(os[i], i)>>)>>
                    \o drop(i) \o Unstage(os[i], i)
    BY Zenon
  <2> HIDE DEF step, drop, sum
  <2> QED BY <2>1, <2>2
<1> HIDE DEF S, R, G, C, sum, drop, step
<1>14. ASSUME NEW i \in 2 .. n
       PROVE  /\ Neat(K, H(i - 1), step(i), H(i), G(i) \cup {New("sum", i)})
              /\ (G(i) \cup {New("sum", i)}) \cap H(1) = {}
  <2> DEFINE P == (A \cup S(i - 1)) \cup R(i)
             x == New("sum", i)
             y == sum(i - 1)
             z == Staged(os[i], i)
  <2>1. i \in 1 .. n /\ i - 1 \in 1 .. n /\ 1 \in 1 .. n /\ i # i - 1 /\ i # 1 /\ i \in 0 .. n /\ i - 1 \in 0 .. n
        /\ 1 \in 0 .. n
    OBVIOUS
  <2>2. x \notin S(i - 1) /\ S(i - 1) \cap G(i) = {} /\ x \notin S(1) /\ S(1) \cap G(i) = {}
    BY <1>4, <1>5, <1>10, <2>1
  <2>3. /\ S(i - 1) \subseteq Own({"staged", "sum"}) /\ S(1) \subseteq Own({"staged", "sum"})
        /\ x \in Own({"staged", "sum"}) /\ G(i) \subseteq Own({"staged", "sum"}) /\ C(i) \subseteq Own({"contiguous"})
        /\ R(i) \subseteq Own({"contiguous"}) /\ R(1) \subseteq Own({"contiguous"})
        /\ R(i - 1) = R(i) \cup C(i) /\ R(i) \cap C(i) = {} /\ x \notin G(i)
    BY <1>2, <1>4, <1>5, <1>10, <2>1
  <2>4. /\ P \cap (C(i) \cup G(i)) = {} /\ x \notin P \cup C(i) \cup G(i) /\ S(i - 1) \subseteq P /\ A \subseteq P
        /\ P \cup C(i) = H(i - 1)
        /\ (P \ S(i - 1)) \cup {x} = (A \cup {x}) \cup R(i) /\ (G(i) \cup {x}) \cap H(1) = {}
    <3> HIDE DEF x
    <3> QED BY <1>3, <2>2, <2>3
  <2>5. H(i) = (A \cup {x}) \cup R(i)
    BY <1>10, <2>1
  <2>6. Neat(K, P \cup C(i), stages[i], P \cup G(i), G(i))
    BY <1>7, <2>1, <2>4
  <2>7. x \in Locs /\ IsBuffer(x)
    BY <1>5, <2>1
  <2>8. Readable(y, P) /\ Readable(z, P \cup G(i))
    <3>1. Readable(sum(i - 1), A \cup S(i - 1)) /\ Readable(z, A \cup G(i))
      BY <1>6, <1>11, <2>1
    <3> QED BY <3>1, <2>4 DEF Readable
  <2>9. \A Q : S(i - 1) \subseteq Q => Neat(K, Q, drop(i), Q \ S(i - 1), {})
    BY <1>12
  <2>10. \A Q : G(i) \subseteq Q => Neat(K, Q, Unstage(os[i], i), Q \ G(i), {})
    BY <1>8, <2>1
  <2>11. step(i) = stages[i] \o <<Alloc(x), Set(x, f, <<y, z>>)>> \o drop(i) \o Unstage(os[i], i)
    BY <1>13
  <2> HIDE DEF P, x, y, z, H
  <2>12. Neat(K, P \cup C(i), stages[i] \o <<Alloc(x), Set(x, f, <<y, z>>)>> \o drop(i) \o Unstage(os[i], i),
              (P \ S(i - 1)) \cup {x}, G(i) \cup {x})
    BY <2>4, <2>6, <2>7, <2>8, <2>9, <2>10, ChainStep
  <2>13. Neat(K, H(i - 1), step(i), H(i), G(i) \cup {x})
    BY <2>4, <2>5, <2>11, <2>12
  <2> QED BY <2>4, <2>13 DEF x
<1>15. \A k \in 1 .. n - 1 : Neat(K, held[k - 1], seqs[k], held[k], news[k]) /\ news[k] \cap held[0] = {}
  <2> SUFFICES ASSUME NEW k \in 1 .. n - 1
               PROVE  Neat(K, held[k - 1], seqs[k], held[k], news[k]) /\ news[k] \cap held[0] = {}
    OBVIOUS
  <2>1. k + 1 \in 2 .. n /\ (k + 1) - 1 = k /\ k - 1 \in 0 .. n - 1 /\ k \in 0 .. n - 1 /\ (k - 1) + 1 = k
        /\ 0 \in 0 .. n - 1 /\ 0 + 1 = 1
    OBVIOUS
  <2> HIDE DEF H
  <2>2. held[k - 1] = H(k) /\ held[k] = H(k + 1) /\ held[0] = H(1)
    BY <2>1
  <2>3. seqs[k] = step(k + 1) /\ news[k] = G(k + 1) \cup {New("sum", k + 1)}
    OBVIOUS
  <2> HIDE DEF held, seqs, news
  <2>4. Neat(K, H((k + 1) - 1), step(k + 1), H(k + 1), G(k + 1) \cup {New("sum", k + 1)})
        /\ (G(k + 1) \cup {New("sum", k + 1)}) \cap H(1) = {}
    BY <1>14, <2>1
  <2> QED BY <2>1, <2>2, <2>3, <2>4
<1>16. \A k, l \in 1 .. n - 1 : l < k => news[k] \cap news[l] = {}
  <2> SUFFICES ASSUME NEW k \in 1 .. n - 1, NEW l \in 1 .. n - 1, l < k PROVE news[k] \cap news[l] = {}
    OBVIOUS
  <2>1. k + 1 \in 1 .. n /\ l + 1 \in 1 .. n /\ k + 1 # l + 1
    OBVIOUS
  <2>2. news[k] = G(k + 1) \cup {New("sum", k + 1)} /\ news[l] = G(l + 1) \cup {New("sum", l + 1)}
    OBVIOUS
  <2>3. /\ G(k + 1) \cap G(l + 1) = {} /\ New("sum", k + 1) \notin G(l + 1) /\ New("sum", l + 1) \notin G(k + 1)
        /\ New("sum", k + 1) # New("sum", l + 1)
    BY <1>4, <1>5, <2>1
  <2> HIDE DEF news
  <2> QED BY <2>2, <2>3
<1> DEFINE M == AllNews(news, n - 1)
<1>17. Neat(K, held[0], FlattenSeq(seqs), held[n - 1], M)
  <2>1. n - 1 \in Nat /\ seqs = [k \in 1 .. n - 1 |-> seqs[k]]
    OBVIOUS
  <2> HIDE DEF seqs, held, news
  <2> DEFINE q == n - 1
  <2>2. q \in Nat /\ seqs = [k \in 1 .. q |-> seqs[k]]
    BY <2>1
  <2>3. \A k \in 1 .. q : Neat(K, held[k - 1], seqs[k], held[k], news[k]) /\ news[k] \cap held[0] = {}
    BY <1>15
  <2>4. \A k, l \in 1 .. q : l < k => news[k] \cap news[l] = {}
    BY <1>16
  <2> HIDE DEF q
  <2>5. InTurn(K, q, held, seqs, news)
    BY <2>2, <2>3, <2>4 DEF InTurn
  <2>6. Neat(K, held[0], FlattenSeq(seqs), held[q], AllNews(news, q))
    BY <2>2, <2>5, NeatFlatten
  <2> QED BY <2>6 DEF q
<1>18. \A k \in 1 .. n - 1 : news[k] \subseteq Own({"staged", "sum"})
  <2>1. \A k \in 1 .. n - 1 : k + 1 \in 1 .. n
    OBVIOUS
  <2> QED BY <1>4, <1>5, <2>1
<1>19. M \subseteq Own({"staged", "sum"}) /\ New("sum", n) \in M
  <2>1. n - 1 \in 1 .. n - 1 /\ news[n - 1] = G(n) \cup {New("sum", n)}
    OBVIOUS
  <2> HIDE DEF news
  <2> QED BY <1>18, <2>1 DEF AllNews
<1>20. held[0] = H(1) /\ held[n - 1] = H(n)
  <2>1. 0 \in 0 .. n - 1 /\ n - 1 \in 0 .. n - 1 /\ 0 + 1 = 1 /\ (n - 1) + 1 = n
    OBVIOUS
  <2> HIDE DEF H
  <2> QED BY <2>1
<1>21. H(n) = A \cup {New("sum", n)}
  <2>1. n \in 1 .. n /\ n # 1
    OBVIOUS
  <2> QED BY <1>2, <1>10, <2>1
<1>22. Neat(K, A \cup R(0), stages[1], H(1), G(1)) /\ M \cap ((A \cup R(0)) \cup G(1)) = {}
  <2> DEFINE P == A \cup R(1)
  <2>1. 1 \in 1 .. n /\ 1 \in 0 .. n /\ 0 \in 0 .. n /\ 1 - 1 = 0
    OBVIOUS
  <2>2. R(0) = R(1) \cup C(1) /\ R(1) \cap C(1) = {} /\ R(1) \subseteq Own({"contiguous"})
        /\ C(1) \subseteq Own({"contiguous"}) /\ G(1) \subseteq Own({"staged", "sum"}) /\ S(1) = G(1)
    BY <1>2, <1>4, <1>10, <2>1
  <2>3. A \subseteq P /\ P \cap (C(1) \cup G(1)) = {} /\ P \cup C(1) = A \cup R(0) /\ P \cup G(1) = H(1)
    BY <1>3, <2>2
  <2>4. Neat(K, P \cup C(1), stages[1], P \cup G(1), G(1))
    BY <1>7, <2>1, <2>3
  <2>5. \A k \in 1 .. n - 1 : news[k] \cap ((A \cup R(0)) \cup G(1)) = {}
    <3> SUFFICES ASSUME NEW k \in 1 .. n - 1 PROVE news[k] \cap ((A \cup R(0)) \cup G(1)) = {}
      OBVIOUS
    <3>1. news[k] \subseteq Own({"staged", "sum"}) /\ news[k] = G(k + 1) \cup {New("sum", k + 1)} /\ k + 1 \in 1 .. n /\ k + 1 # 1
      BY <1>18
    <3>2. news[k] \cap G(1) = {}
      BY <1>4, <1>5, <2>1, <3>1
    <3> HIDE DEF news
    <3> QED BY <1>3, <2>2, <3>1, <3>2
  <2> DEFINE X == (A \cup R(0)) \cup G(1)
  <2>6. \A k \in 1 .. n - 1 : news[k] \cap X = {}
    BY <2>5
  <2> HIDE DEF news, P, H, X
  <2>7. M \cap X = {}
    BY <2>6 DEF AllNews
  <2> QED BY <2>3, <2>4, <2>7 DEF X
<1> HIDE DEF H, M, seqs, held, news
<1>23. Neat(K, A \cup R(0), stages[1] \o FlattenSeq(seqs), A \cup {New("sum", n)}, G(1) \cup M)
  BY <1>17, <1>20, <1>21, <1>22, NeatConcat
<1>24. G(1) \cup M \subseteq Own({"staged", "sum"}) /\ New("sum", n) \in G(1) \cup M
  <2>1. 1 \in 1 .. n
    OBVIOUS
  <2> QED BY <1>4, <1>19, <2>1
<1> QED BY <1>1, <1>23, <1>24 DEF R
LEMMA Associative ==
  ASSUME NEW X, NEW s \in Seq(X), NEW t \in Seq(X), NEW u \in Seq(X)
  PROVE  s \o (t \o u) = (s \o t) \o u
OBVIOUS

\* One step of an in-place chain: stage, add into x, drop what was staged.
LEMMA InPlaceStep ==
  ASSUME NEW K \in Kinds, NEW P, NEW C, NEW G, NEW x \in P, x \in Locs,
         P \cap (C \cup G) = {}, NEW st, Neat(K, P \cup C, st, P \cup G, G),
         NEW f \in Works, NEW args \in Seq(Locs), \A i \in DOMAIN args : Readable(args[i], P \cup G),
         NEW u, \A Q : G \subseteq Q => Neat(K, Q, u, Q \ G, {})
  PROVE  Neat(K, P \cup C, st \o <<Set(x, f, args)>> \o u, P, G)
<1> DEFINE t == <<Set(x, f, args)>>
           Q0 == P \cup C
           Q1 == P \cup G
<1>1. Q1 \ G = P /\ {} \cap (Q0 \cup G) = {} /\ G \cup {} = G /\ G \subseteq Q1 /\ x \in Q1
  OBVIOUS
<1>2. Neat(K, Q0, st, Q1, G)
  OBVIOUS
<1>3. \A i \in DOMAIN args : Readable(args[i], Q1)
  OBVIOUS
<1> HIDE DEF Q0, Q1
<1>4. Neat(K, Q1, t, Q1, {})
  <2>1. \A y \in {x} \cup ToSet(args) : IsBuffer(y) => y \in Q1
    BY <1>1, <1>3 DEF ToSet, Readable
  <2> QED BY <2>1, NeatSet DEF Kinds
<1>5. Neat(K, Q1, u, Q1 \ G, {})
  BY <1>1
<1> HIDE DEF t
<1>6. Neat(K, Q0, st \o t, Q1, G \cup {})
  BY <1>1, <1>2, <1>4, NeatConcat
<1>7. Neat(K, Q0, st \o t, Q1, G)
  BY <1>1, <1>6
<1>8. Neat(K, Q0, (st \o t) \o u, Q1 \ G, G \cup {})
  BY <1>1, <1>5, <1>7, NeatConcat
<1> QED BY <1>1, <1>8 DEF Q0, t

LEMMA ChainInPlaceNeat ==
  ASSUME NEW K \in Kinds, NEW A, A \cap Fresh = {}, NEW m \in Nat, m = Len(values), NEW n \in Nat, n >= 2,
         NEW os, Len(os) = n, NEW stages, NEW f \in Works, \A i \in 1 .. n : Staging(K, A, os[i], i, stages[i])
  PROVE  \E N : /\ Neat(K, A \cup Rest(os, n, 0), ChainInPlace(f, os, stages), A \cup {New("sum", n)}, N)
                /\ N \subseteq Own({"staged", "sum"}) /\ New("sum", n) \in N
<1> DEFINE x == New("sum", n)
           z(i) == Staged(os[i], i)
           step(i) == stages[i] \o <<Set(x, f, <<x, z(i)>>)>> \o Unstage(os[i], i)
           R(i) == Rest(os, n, i)
           G(i) == StagedFor(os[i], i)
           C(i) == CopyOf(os[i], i)
           H(i) == (A \cup {x}) \cup R(i)
           seqs == [k \in 1 .. n - 1 |-> step(k + 1)]
           held == [k \in 0 .. n - 1 |-> H(k + 1)]
           news == [k \in 1 .. n - 1 |-> G(k + 1)]
<1>1. ChainInPlace(f, os, stages) =
        <<Alloc(x)>> \o stages[1] \o <<Set(x, "move", <<z(1)>>)>> \o Unstage(os[1], 1) \o FlattenSeq(seqs)
  BY DEF ChainInPlace, Move
<1>2. /\ R(n) = {}
      /\ \A i \in 0 .. n : R(i) \subseteq Own({"contiguous"})
      /\ \A i \in 1 .. n : R(i - 1) = R(i) \cup C(i) /\ R(i) \cap C(i) = {}
  BY RestSteps
<1>3. /\ Own({"contiguous"}) \cap A = {} /\ Own({"staged", "sum"}) \cap A = {}
      /\ Own({"contiguous"}) \cap Own({"staged", "sum"}) = {}
  <2>1. Own({"contiguous"}) \subseteq Fresh /\ Own({"staged", "sum"}) \subseteq Fresh
    BY OwnNew DEF Temporaries
  <2>2. Own({"contiguous"}) \cap Own({"staged", "sum"}) = {}
    BY OwnNew DEF Temporaries
  <2> QED BY <2>1, <2>2
<1>4. /\ \A i \in 1 .. n : G(i) \subseteq Own({"staged", "sum"}) /\ C(i) \subseteq Own({"contiguous"})
      /\ \A i, j \in 1 .. n : i # j => G(i) \cap G(j) = {}
  <2>1. \A i \in 1 .. n : G(i) \subseteq Own({"staged"}) /\ C(i) \subseteq Own({"contiguous"})
    BY OwnNew
  <2>2. Own({"staged"}) \subseteq Own({"staged", "sum"})
    BY DEF Own
  <2>3. \A i, j \in 1 .. n : i \in Nat /\ j \in Nat
    OBVIOUS
  <2>4. \A i, j \in 1 .. n : i # j => G(i) \cap G(j) = {}
    BY <2>3, OwnNew
  <2> QED BY <2>1, <2>2, <2>4
<1>5. /\ \A i \in 1 .. n : New("sum", i) \in Own({"staged", "sum"}) /\ New("sum", i) \in Locs /\ IsBuffer(New("sum", i))
      /\ \A i, j \in 1 .. n : New("sum", i) \notin G(j) /\ (i # j => New("sum", i) # New("sum", j))
  <2>1. \A i \in 1 .. n : New("sum", i) \in Own({"staged", "sum"})
    BY DEF Own
  <2>2. \A i \in 1 .. n : New("sum", i) \in Locs /\ IsBuffer(New("sum", i))
    BY NewNames DEF Temporaries
  <2>3. \A i, j \in 1 .. n : New("sum", i) # New("staged", j) /\ (i # j => New("sum", i) # New("sum", j))
    BY NewNames DEF Temporaries
  <2> QED BY <2>1, <2>2, <2>3 DEF StagedFor
<1>6. \A i \in 1 .. n : os[i].device \in BOOLEAN /\ Readable(Staged(os[i], i), A \cup G(i))
  BY DEF Staging
<1>7. \A i \in 1 .. n : \A P : A \subseteq P /\ P \cap (C(i) \cup G(i)) = {} =>
        Neat(K, P \cup C(i), stages[i], P \cup G(i), G(i))
  BY DEF Staging
<1>8. \A i \in 1 .. n : \A Q : G(i) \subseteq Q => Neat(K, Q, Unstage(os[i], i), Q \ G(i), {})
  <2> SUFFICES ASSUME NEW i \in 1 .. n, NEW Q, G(i) \subseteq Q PROVE Neat(K, Q, Unstage(os[i], i), Q \ G(i), {})
    OBVIOUS
  <2>1. i \in Nat
    OBVIOUS
  <2>2. os[i].device \in BOOLEAN
    BY <1>6
  <2> DEFINE o == os[i]
  <2>3. StagedFor(o, i) \subseteq Q
    OBVIOUS
  <2> HIDE DEF o
  <2>4. Neat(K, Q, Unstage(o, i), Q \ StagedFor(o, i), {})
    BY <2>1, <2>2, <2>3, NeatUnstage DEF o
  <2> QED BY <2>4 DEF o
<1>9. x \in Locs /\ IsBuffer(x) /\ x \in Own({"staged", "sum"}) /\ \A i \in 1 .. n : x \notin G(i)
  <2>1. n \in 1 .. n
    OBVIOUS
  <2> QED BY <1>5, <2>1
<1>10. \A i \in 1 .. n : \A P : Readable(z(i), (A \cup P) \cup G(i)) /\ (x \in P => Readable(x, P)) /\ z(i) \in Locs
  BY <1>6, <1>9 DEF Readable
<1> HIDE DEF R, G, C, z, step, x
<1>11. ASSUME NEW i \in 1 .. n, NEW g \in Works, NEW args \in Seq(Locs),
              \A j \in DOMAIN args : Readable(args[j], H(i) \cup G(i))
       PROVE  /\ Neat(K, H(i) \cup C(i), stages[i] \o <<Set(x, g, args)>> \o Unstage(os[i], i), H(i), G(i))
              /\ H(i) \cup C(i) = (A \cup {x}) \cup R(i - 1)
              /\ \A j \in 0 .. n : G(i) \cap H(j) = {}
  <2>1. i \in 0 .. n
    OBVIOUS
  <2>2. /\ G(i) \subseteq Own({"staged", "sum"}) /\ C(i) \subseteq Own({"contiguous"})
        /\ R(i - 1) = R(i) \cup C(i) /\ R(i) \cap C(i) = {} /\ x \notin G(i)
        /\ \A j \in 0 .. n : R(j) \subseteq Own({"contiguous"})
    BY <1>2, <1>4, <1>9, <2>1
  <2>3. /\ H(i) \cap (C(i) \cup G(i)) = {} /\ A \subseteq H(i) /\ x \in H(i)
        /\ H(i) \cup C(i) = (A \cup {x}) \cup R(i - 1)
    BY <1>3, <1>9, <2>1, <2>2
  <2>4. \A j \in 0 .. n : G(i) \cap H(j) = {}
    BY <1>3, <2>2
  <2> HIDE DEF H
  <2>5. Neat(K, H(i) \cup C(i), stages[i], H(i) \cup G(i), G(i))
    BY <1>7, <2>3
  <2>6. \A Q : G(i) \subseteq Q => Neat(K, Q, Unstage(os[i], i), Q \ G(i), {})
    BY <1>8
  <2>7. Neat(K, H(i) \cup C(i), stages[i] \o <<Set(x, g, args)>> \o Unstage(os[i], i), H(i), G(i))
    BY <1>9, <1>11, <2>3, <2>5, <2>6, InPlaceStep
  <2> QED BY <2>3, <2>4, <2>7
<1>12. ASSUME NEW i \in 2 .. n
       PROVE  Neat(K, H(i - 1), step(i), H(i), G(i)) /\ G(i) \cap H(1) = {}
  <2> DEFINE args == <<x, z(i)>>
  <2>1. i \in 1 .. n /\ 1 \in 0 .. n
    OBVIOUS
  <2>2. Readable(z(i), (A \cup ({x} \cup R(i))) \cup G(i)) /\ Readable(x, H(i)) /\ z(i) \in Locs
    BY <1>10, <2>1
  <2>3. args \in Seq(Locs) /\ \A j \in DOMAIN args : Readable(args[j], H(i) \cup G(i))
    <3>1. Readable(x, H(i) \cup G(i)) /\ Readable(z(i), H(i) \cup G(i))
      BY <2>2 DEF Readable
    <3> QED BY <1>9, <2>2, <3>1
  <2>4. step(i) = stages[i] \o <<Set(x, f, args)>> \o Unstage(os[i], i)
    BY DEF step
  <2>5. H(i - 1) = (A \cup {x}) \cup R(i - 1)
    OBVIOUS
  <2> HIDE DEF args, H
  <2>6. /\ Neat(K, H(i) \cup C(i), stages[i] \o <<Set(x, f, args)>> \o Unstage(os[i], i), H(i), G(i))
        /\ H(i) \cup C(i) = (A \cup {x}) \cup R(i - 1)
        /\ \A j \in 0 .. n : G(i) \cap H(j) = {}
    BY <1>11, <2>1, <2>3
  <2> QED BY <2>1, <2>4, <2>5, <2>6
<1> DEFINE q == n - 1
           M == AllNews(news, q)
<1>13. Neat(K, H(1), FlattenSeq(seqs), H(n), M)
  <2>1. q \in Nat /\ seqs = [k \in 1 .. q |-> seqs[k]] /\ held[0] = H(1) /\ held[q] = H(n)
    <3>1. 0 \in 0 .. n - 1 /\ n - 1 \in 0 .. n - 1 /\ 0 + 1 = 1 /\ (n - 1) + 1 = n
      OBVIOUS
    <3> HIDE DEF H
    <3> QED BY <3>1
  <2>2. \A k \in 1 .. q : Neat(K, held[k - 1], seqs[k], held[k], news[k]) /\ news[k] \cap held[0] = {}
    <3> SUFFICES ASSUME NEW k \in 1 .. n - 1
                 PROVE  Neat(K, held[k - 1], seqs[k], held[k], news[k]) /\ news[k] \cap held[0] = {}
      OBVIOUS
    <3>1. k + 1 \in 2 .. n /\ (k + 1) - 1 = k /\ k - 1 \in 0 .. n - 1 /\ k \in 0 .. n - 1 /\ (k - 1) + 1 = k
      OBVIOUS
    <3> HIDE DEF H
    <3>2. held[k - 1] = H(k) /\ held[k] = H(k + 1)
      BY <3>1
    <3>3. seqs[k] = step(k + 1) /\ news[k] = G(k + 1)
      OBVIOUS
    <3> HIDE DEF held, seqs, news
    <3>4. Neat(K, H((k + 1) - 1), step(k + 1), H(k + 1), G(k + 1)) /\ G(k + 1) \cap H(1) = {}
      BY <1>12, <3>1
    <3> QED BY <2>1, <3>1, <3>2, <3>3, <3>4
  <2>3. \A k, l \in 1 .. q : l < k => news[k] \cap news[l] = {}
    <3> SUFFICES ASSUME NEW k \in 1 .. n - 1, NEW l \in 1 .. n - 1, l < k PROVE news[k] \cap news[l] = {}
      OBVIOUS
    <3>1. k + 1 \in 1 .. n /\ l + 1 \in 1 .. n /\ k + 1 # l + 1
      OBVIOUS
    <3>2. news[k] = G(k + 1) /\ news[l] = G(l + 1)
      OBVIOUS
    <3> HIDE DEF news
    <3> QED BY <1>4, <3>1, <3>2
  <2> HIDE DEF q, H, seqs, held, news
  <2>4. InTurn(K, q, held, seqs, news)
    BY <2>1, <2>2, <2>3 DEF InTurn
  <2>5. Neat(K, held[0], FlattenSeq(seqs), held[q], AllNews(news, q))
    BY <2>1, <2>4, NeatFlatten
  <2> QED BY <2>1, <2>5
<1>14. M \subseteq Own({"staged", "sum"}) /\ M \cap H(0) = {} /\ M \cap G(1) = {} /\ H(1) \subseteq H(0)
  <2>1. 1 \in 1 .. n /\ 1 \in 0 .. n /\ 0 \in 0 .. n /\ 1 - 1 = 0
    OBVIOUS
  <2>2. \A k \in 1 .. q : news[k] \subseteq Own({"staged", "sum"}) /\ news[k] \cap G(1) = {} /\ news[k] \cap H(0) = {}
    <3> SUFFICES ASSUME NEW k \in 1 .. q
                 PROVE news[k] \subseteq Own({"staged", "sum"}) /\ news[k] \cap G(1) = {} /\ news[k] \cap H(0) = {}
      OBVIOUS
    <3>1. news[k] = G(k + 1) /\ k + 1 \in 1 .. n /\ k + 1 # 1
      OBVIOUS
    <3> HIDE DEF news, q
    <3>2. G(k + 1) \subseteq Own({"staged", "sum"}) /\ x \notin G(k + 1) /\ R(0) \subseteq Own({"contiguous"})
      BY <1>2, <1>4, <1>9, <2>1, <3>1
    <3>3. G(k + 1) \cap G(1) = {}
      BY <1>4, <2>1, <3>1
    <3>4. G(k + 1) \cap H(0) = {}
      BY <1>3, <3>2
    <3> QED BY <3>1, <3>2, <3>3, <3>4
  <2>3. R(0) = R(1) \cup C(1)
    BY <1>2, <2>1
  <2>4. H(1) \subseteq H(0)
    BY <2>3
  <2> HIDE DEF news, q, H
  <2> QED BY <2>2, <2>4 DEF AllNews
<1>15. Neat(K, H(0), stages[1] \o <<Set(x, "move", <<z(1)>>)>> \o Unstage(os[1], 1), H(1), G(1)) /\ G(1) \cap H(0) = {}
  <2> DEFINE args == <<z(1)>>
  <2>1. 1 \in 1 .. n /\ 0 \in 0 .. n /\ 1 - 1 = 0 /\ "move" \in Works
    BY DEF Works
  <2>2. Readable(z(1), (A \cup ({x} \cup R(1))) \cup G(1)) /\ z(1) \in Locs
    BY <1>10, <2>1
  <2>3. args \in Seq(Locs) /\ \A j \in DOMAIN args : Readable(args[j], H(1) \cup G(1))
    <3>1. Readable(z(1), H(1) \cup G(1))
      BY <2>2 DEF Readable
    <3> QED BY <2>2, <3>1
  <2>4. H(0) = (A \cup {x}) \cup R(0)
    OBVIOUS
  <2> HIDE DEF args, H
  <2>6. /\ Neat(K, H(1) \cup C(1), stages[1] \o <<Set(x, "move", args)>> \o Unstage(os[1], 1), H(1), G(1))
        /\ H(1) \cup C(1) = (A \cup {x}) \cup R(1 - 1)
        /\ \A j \in 0 .. n : G(1) \cap H(j) = {}
    BY <1>11, <2>1, <2>3
  <2> QED BY <2>1, <2>4, <2>6 DEF args
<1>16. Neat(K, A \cup R(0), <<Alloc(x)>>, H(0), {x}) /\ x \notin A \cup R(0)
  <2>1. 0 \in 0 .. n
    OBVIOUS
  <2>2. x \notin A \cup R(0)
    BY <1>2, <1>3, <1>9, <2>1
  <2> DEFINE B == A \cup R(0)
  <2>3. x \notin B /\ B \cup {x} = H(0)
    BY <2>2
  <2> HIDE DEF B, H
  <2>4. Neat(K, B, <<Alloc(x)>>, B \cup {x}, {x})
    BY <1>9, <2>3, NeatAlloc DEF Kinds
  <2> QED BY <2>2, <2>3, <2>4 DEF B
<1> DEFINE s1 == stages[1]
           s2 == <<Set(x, "move", <<z(1)>>)>>
           s3 == Unstage(os[1], 1)
           s4 == FlattenSeq(seqs)
           N == ({x} \cup G(1)) \cup M
<1>17. G(1) \subseteq Own({"staged", "sum"}) /\ x \notin G(1)
  <2>1. 1 \in 1 .. n
    OBVIOUS
  <2> QED BY <1>4, <1>9, <2>1
<1>18. x \in H(0)
  OBVIOUS
<1> DEFINE B == A \cup R(0)
<1>19. H(0) = B \cup {x}
  OBVIOUS
<1> HIDE DEF s1, s2, s3, s4, H, M, seqs, held, news, q
<1>20. Neat(K, B, <<Alloc(x)>> \o ((s1 \o s2) \o s3), H(1), {x} \cup G(1))
  <2>1. G(1) \cap (B \cup {x}) = {}
    BY <1>15, <1>19
  <2>2. Neat(K, B, <<Alloc(x)>>, H(0), {x}) /\ Neat(K, H(0), (s1 \o s2) \o s3, H(1), G(1))
    BY <1>15, <1>16 DEF s1, s2, s3
  <2> HIDE DEF B
  <2> QED BY <2>1, <2>2, NeatConcat
<1>21. Neat(K, B, (<<Alloc(x)>> \o ((s1 \o s2) \o s3)) \o s4, H(n), N)
  <2>1. M \cap (B \cup ({x} \cup G(1))) = {}
    BY <1>14, <1>19
  <2>2. Neat(K, H(1), s4, H(n), M)
    BY <1>13 DEF s4
  <2> HIDE DEF B
  <2> QED BY <1>20, <2>1, <2>2, NeatConcat
<1>22. <<Alloc(x)>> \o ((s1 \o s2) \o s3) = ((<<Alloc(x)>> \o s1) \o s2) \o s3
  <2> DEFINE s0 == <<Alloc(x)>>
  <2>1. s0 \in Seq(Steps) /\ s1 \in Seq(Steps) /\ s2 \in Seq(Steps) /\ s3 \in Seq(Steps)
    <3>1. K \subseteq Steps
      BY DEF Kinds, Prompt
    <3>2. \A P, s, Q, L : Neat(K, P, s, Q, L) => s \in Seq(Steps)
      BY <3>1 DEF Neat
    <3>3. s0 \in Seq(Steps)
      BY <1>16, <3>2
    <3>4. 1 \in 1 .. n /\ (\E P : A \subseteq P /\ P \cap (C(1) \cup G(1)) = {}) /\ \E Q : G(1) \subseteq Q
      <4>1. 1 \in 1 .. n
        OBVIOUS
      <4>2. A \subseteq A /\ A \cap (C(1) \cup G(1)) = {} /\ G(1) \subseteq G(1)
        BY <1>3, <1>4, <4>1
      <4> QED BY <4>1, <4>2
    <3>5. s1 \in Seq(Steps)
      BY <1>7, <3>2, <3>4 DEF s1
    <3>6. s3 \in Seq(Steps)
      BY <1>8, <3>2, <3>4 DEF s3
    <3>7. s2 \in Seq(Steps)
      <4>1. z(1) \in Locs /\ "move" \in Works
        BY <1>10, <3>4 DEF Works
      <4>2. <<z(1)>> \in Seq(Locs)
        BY <4>1
      <4>3. Set(x, "move", <<z(1)>>) \in Steps
        BY <1>9, <4>1, <4>2, SetFields
      <4> QED BY <4>3 DEF s2
    <3> QED BY <3>3, <3>5, <3>6, <3>7
  <2> HIDE DEF s0
  <2>2. \A a, b, c \in Seq(Steps) : a \o (b \o c) = (a \o b) \o c
    BY Associative
  <2>3. s0 \o ((s1 \o s2) \o s3) = (s0 \o (s1 \o s2)) \o s3
    <3> DEFINE t == s1 \o s2
    <3>1. t \in Seq(Steps)
      BY <2>1
    <3> HIDE DEF t
    <3>2. s0 \o (t \o s3) = (s0 \o t) \o s3
      BY <2>1, <2>2, <3>1
    <3> QED BY <3>2 DEF t
  <2>4. s0 \o (s1 \o s2) = (s0 \o s1) \o s2
    BY <2>1, <2>2
  <2> QED BY <2>3, <2>4 DEF s0
<1>23. ChainInPlace(f, os, stages) = (((<<Alloc(x)>> \o s1) \o s2) \o s3) \o s4
  BY <1>1 DEF s1, s2, s3, s4
<1>24. H(n) = A \cup {x}
  BY <1>2 DEF H
<1>25. N \subseteq Own({"staged", "sum"}) /\ x \in N
  BY <1>9, <1>14, <1>17
<1> QED BY <1>21, <1>22, <1>23, <1>24, <1>25 DEF R, x
\* The copies of the strided operands.
LEMMA MaterializeNeat ==
  ASSUME NEW K \in Kinds, NEW A, A \cap Fresh = {}, NEW m \in Nat, m = Len(values), NEW n \in Nat, NEW os,
         \A i \in 1 .. n : os[i].strided => Readable(os[i].loc, A)
  PROVE  Neat(K, A, FlattenSeq([i \in 1 .. n |-> Materialize(os[i], i)]), A \cup Rest(os, n, 0), Rest(os, n, 0))
<1> DEFINE C(i) == CopyOf(os[i], i)
           G(i) == UNION {C(j) : j \in 1 .. i}
           seqs == [i \in 1 .. n |-> Materialize(os[i], i)]
           held == [i \in 0 .. n |-> A \cup G(i)]
           news == [i \in 1 .. n |-> C(i)]
<1>1. \A i \in 1 .. n : C(i) \subseteq Own({"contiguous"})
  <2>1. \A i \in 1 .. n : i \in Nat
    OBVIOUS
  <2> QED BY <2>1, OwnNew
<1>2. Own({"contiguous"}) \cap A = {}
  BY OwnNew DEF Temporaries
<1>3. \A i, j \in 1 .. n : j < i => C(i) \cap C(j) = {}
  <2>1. \A i, j \in 1 .. n : j < i => i \in Nat /\ j \in Nat /\ i # j
    OBVIOUS
  <2> QED BY <2>1, OwnNew
<1>4. \A i \in 1 .. n : \A Q : A \subseteq Q /\ Q \cap C(i) = {} => Neat(K, Q, Materialize(os[i], i), Q \cup C(i), C(i))
  <2> SUFFICES ASSUME NEW i \in 1 .. n, NEW Q, A \subseteq Q, Q \cap C(i) = {}
               PROVE  Neat(K, Q, Materialize(os[i], i), Q \cup C(i), C(i))
    OBVIOUS
  <2> DEFINE o == os[i]
             x == New("contiguous", i)
  <2>1. CASE o.strided
    <3>1. Materialize(o, i) = <<Alloc(x), Set(x, "move", <<o.loc>>)>> /\ C(i) = {x} /\ x \notin Q
      BY <2>1 DEF Materialize, Move, CopyOf
    <3>2. x \in Locs /\ IsBuffer(x)
      BY NewNames DEF Temporaries
    <3>3. Readable(o.loc, A)
      BY <2>1
    <3> HIDE DEF o, x
    <3>4. <<o.loc>> \in Seq(Locs) /\ \A k \in DOMAIN <<o.loc>> : Readable(<<o.loc>>[k], Q \cup {x})
      BY <3>3 DEF Readable
    <3>5. "move" \in Works
      BY DEF Works
    <3>6. Neat(K, Q, <<Alloc(x), Set(x, "move", <<o.loc>>)>>, Q \cup {x}, {x})
      BY <3>1, <3>2, <3>4, <3>5, NeatFill
    <3> QED BY <3>1, <3>6 DEF o
  <2>2. CASE ~ o.strided
    <3>1. Materialize(o, i) = <<>> /\ C(i) = {} /\ Q \cup {} = Q
      BY <2>2 DEF Materialize, CopyOf
    <3>2. Neat(K, Q, <<>>, Q, {})
      BY NeatNone
    <3> QED BY <3>1, <3>2
  <2> QED BY <2>1, <2>2
<1>5. \A i \in 1 .. n : G(i) = G(i - 1) \cup C(i) /\ C(i) \cap G(i - 1) = {}
  <2> SUFFICES ASSUME NEW i \in 1 .. n PROVE G(i) = G(i - 1) \cup C(i) /\ C(i) \cap G(i - 1) = {}
    OBVIOUS
  <2>1. 1 .. i = (1 .. i - 1) \cup {i} /\ \A j \in 1 .. i - 1 : j \in 1 .. n /\ j < i
    OBVIOUS
  <2>2. \A j \in 1 .. i - 1 : C(i) \cap C(j) = {}
    BY <1>3, <2>1
  <2> HIDE DEF C
  <2> QED BY <2>1, <2>2
<1>6. G(0) = {} /\ G(n) = Rest(os, n, 0) /\ AllNews(news, n) = Rest(os, n, 0)
  <2>1. 0 + 1 .. n = 1 .. n /\ 1 .. 0 = {}
    OBVIOUS
  <2>2. G(n) = Rest(os, n, 0)
    BY <2>1 DEF Rest
  <2>3. \A i \in 1 .. n : news[i] = C(i)
    OBVIOUS
  <2> HIDE DEF news, C
  <2>4. AllNews(news, n) = G(n)
    BY <2>3 DEF AllNews
  <2> QED BY <2>1, <2>2, <2>4
<1> HIDE DEF C, G
<1>7. InTurn(K, n, held, seqs, news)
  <2>1. seqs = [i \in 1 .. n |-> seqs[i]]
    OBVIOUS
  <2>2. ASSUME NEW i \in 1 .. n
        PROVE  Neat(K, held[i - 1], seqs[i], held[i], news[i]) /\ news[i] \cap held[0] = {}
    <3> DEFINE Q == A \cup G(i - 1)
    <3>1. i - 1 \in 0 .. n /\ i \in 0 .. n /\ 0 \in 0 .. n
      OBVIOUS
    <3>2. held[i - 1] = Q /\ held[i] = A \cup G(i) /\ held[0] = A /\ seqs[i] = Materialize(os[i], i) /\ news[i] = C(i)
      BY <1>6, <3>1
    <3>3. C(i) \cap A = {}
      BY <1>1, <1>2
    <3>4. A \subseteq Q /\ Q \cap C(i) = {} /\ Q \cup C(i) = A \cup G(i)
      BY <1>5, <3>3
    <3> HIDE DEF Q, held, seqs, news
    <3>5. Neat(K, Q, Materialize(os[i], i), Q \cup C(i), C(i))
      BY <1>4, <3>4
    <3> QED BY <3>2, <3>3, <3>4, <3>5
  <2>3. \A i, j \in 1 .. n : j < i => news[i] \cap news[j] = {}
    BY <1>3
  <2> HIDE DEF held, seqs, news
  <2> QED BY <2>1, <2>2, <2>3 DEF InTurn
<1>8. held[0] = A /\ held[n] = A \cup Rest(os, n, 0)
  <2>1. 0 \in 0 .. n /\ n \in 0 .. n
    OBVIOUS
  <2> QED BY <1>6, <2>1
<1> HIDE DEF held, news
<1>9. Neat(K, held[0], FlattenSeq(seqs), held[n], AllNews(news, n))
  <2> HIDE DEF seqs
  <2> QED BY <1>7, NeatFlatten
<1> QED BY <1>6, <1>8, <1>9

\* A reduction by f of n operands, n > 1: first makes the copies M, stages[i] stages os[i].
Reduces(A, n, os, stages, f, first, M, space) ==
  /\ n \in Nat /\ n >= 2 /\ Len(os) = n /\ \A i \in 1 .. n : Staging(Calls, A, os[i], i, stages[i])
  /\ Neat(Calls, A, first, A \cup Rest(os, n, 0), M) /\ M \subseteq Own({"contiguous"})
  /\ f \in Works /\ space \in {"host", "device"} /\ Reduced(f, first, os, stages, space)

LEMMA ReducedKeeps ==
  ASSUME IInv, section \in ToSet(Order), NEW A, A = OwnedBy(values, freed),
         NEW n, NEW os, NEW stages, NEW f, NEW first, NEW M, NEW space,
         Reduces(A, n, os, stages, f, first, M, space)
  PROVE  IInv'
<1> DEFINE x == New("sum", n)
           chain == IF f \in InPlace THEN ChainInPlace(f, os, stages) ELSE Chain(f, os, stages)
           means == Folded(f, [i \in DOMAIN os |-> os[i].means])
           B == A \cup Rest(os, n, 0)
<1>1. A \cap Fresh = {} /\ Calls \in Kinds
  BY OwnedOld, CallKinds
<1>2. PICK m \in Nat : m = Len(values)
  BY OwnedOld
<1>12. /\ n \in Nat /\ n >= 2 /\ Len(os) = n /\ \A i \in 1 .. n : Staging(Calls, A, os[i], i, stages[i])
       /\ Neat(Calls, A, first, B, M) /\ M \subseteq Own({"contiguous"})
       /\ f \in Works /\ space \in {"host", "device"} /\ Reduced(f, first, os, stages, space)
  BY DEF Reduces
<1>3. Finish(first \o chain, space, x, TRUE, means)
  <2>1. Len(os) # 1
    BY <1>12
  <2> QED BY <1>12, <2>1 DEF Reduced
<1>4. PICK N : Neat(Calls, B, chain, A \cup {x}, N) /\ N \subseteq Own({"staged", "sum"}) /\ x \in N
  <2>1. CASE f \in InPlace
    <3>1. chain = ChainInPlace(f, os, stages)
      BY <2>1
    <3>2. \E N : /\ Neat(Calls, A \cup Rest(os, n, 0), ChainInPlace(f, os, stages), A \cup {New("sum", n)}, N)
                 /\ N \subseteq Own({"staged", "sum"}) /\ New("sum", n) \in N
      BY <1>1, <1>2, <1>12, ChainInPlaceNeat
    <3> QED BY <3>1, <3>2
  <2>2. CASE f \notin InPlace
    <3>1. chain = Chain(f, os, stages)
      BY <2>2
    <3>2. \E N : /\ Neat(Calls, A \cup Rest(os, n, 0), Chain(f, os, stages), A \cup {New("sum", n)}, N)
                 /\ N \subseteq Own({"staged", "sum"}) /\ New("sum", n) \in N
      BY <1>1, <1>2, <1>12, ChainNeat
    <3> QED BY <3>1, <3>2
  <2> QED BY <2>1, <2>2
<1>5. /\ Own({"contiguous"}) \subseteq Fresh /\ Own({"staged", "sum"}) \subseteq Fresh
      /\ Own({"contiguous"}) \cap Own({"staged", "sum"}) = {}
  <2>1. Own({"contiguous"}) \subseteq Fresh /\ Own({"staged", "sum"}) \subseteq Fresh
    BY <1>2, OwnNew DEF Temporaries
  <2>2. Own({"contiguous"}) \cap Own({"staged", "sum"}) = {}
    BY <1>2, OwnNew DEF Temporaries
  <2> QED BY <2>1, <2>2
<1>6. New("host", 0) \notin Own({"contiguous"}) /\ New("host", 0) \notin Own({"staged", "sum"})
  BY <1>2, NewNames DEF Own, Temporaries
<1>7. Rest(os, n, 0) \subseteq Own({"contiguous"})
  <2>1. 0 \in 0 .. n
    BY <1>12
  <2> QED BY <1>2, <1>12, <2>1, RestSteps
<1> HIDE DEF x, chain, means
<1>8. N \cap (A \cup M) = {}
  BY <1>1, <1>4, <1>5, <1>12
<1> HIDE DEF B
<1>9. Neat(Calls, A, first, B, M)
  BY <1>12
<1>10. Neat(Calls, A, first \o chain, A \cup {x}, M \cup N)
  BY <1>4, <1>8, <1>9, NeatConcat
<1> DEFINE calls == first \o chain
           L == M \cup N
<1>11. x \in L /\ L \subseteq Fresh /\ New("host", 0) \notin L
  BY <1>4, <1>5, <1>6, <1>12
<1> HIDE DEF calls, L
<1>14. Neat(Calls, A, calls, A \cup {x}, L) /\ Finish(calls, space, x, TRUE, means)
  BY <1>3, <1>10 DEF calls, L
<1>13. space \in {"host", "device"}
  BY DEF Reduces
<1> QED BY <1>11, <1>13, <1>14, FinishKeeps

LEMMA ReducePartialKeeps == ASSUME IInv, Tame, LowerReducePartial PROVE IInv'
<1> DEFINE A == OwnedBy(values, freed)
<1>1. PICK n \in Arities : \E os \in [1 .. n -> Operands], space \in {"host", "device"} :
        Reduced("add", <<>>, os, [i \in 1 .. n |-> Stage(os[i], i)], space)
  BY DEF LowerReducePartial
<1>2. PICK os \in [1 .. n -> Operands], space \in {"host", "device"} :
        Reduced("add", <<>>, os, [i \in 1 .. n |-> Stage(os[i], i)], space)
  BY <1>1
<1>3. n \in Nat /\ n >= 2
  BY DEF Arities, Tame
<1>4. section \in ToSet(Order) /\ A \cap Fresh = {} /\ Calls \in Kinds
  BY MayAddSection, OwnedOld, CallKinds DEF LowerReducePartial
<1>5. PICK m \in Nat : m = Len(values)
  BY OwnedOld
<1> DEFINE stages == [i \in 1 .. n |-> Stage(os[i], i)]
<1>6. Len(os) = n
  BY <1>3
<1>7. \A i \in 1 .. n : Staging(Calls, A, os[i], i, stages[i])
  <2> SUFFICES ASSUME NEW i \in 1 .. n PROVE Staging(Calls, A, os[i], i, stages[i])
    OBVIOUS
  <2> DEFINE o == os[i]
  <2>1. o \in Operands /\ i \in Nat /\ stages[i] = Stage(o, i)
    BY <1>3
  <2> HIDE DEF o
  <2>2. OperandOk(o, A) /\ ~ o.strided
    BY <2>1, OperandsOk
  <2>3. Staging(Calls, A, o, i, Stage(o, i))
    BY <1>4, <1>5, <2>1, <2>2, StagingPlain
  <2> QED BY <2>1, <2>3 DEF o
<1>8. Rest(os, n, 0) = {}
  <2>1. \A j \in 0 + 1 .. n : os[j] \in Operands
    BY <1>3
  <2>2. \A o \in Operands : ~ o.strided
    BY OperandsOk
  <2>3. \A j \in 0 + 1 .. n : CopyOf(os[j], j) = {}
    BY <2>1, <2>2 DEF CopyOf
  <2> QED BY <2>3 DEF Rest
<1>9. Neat(Calls, A, <<>>, A \cup Rest(os, n, 0), {})
  <2>1. A \cup {} = A
    OBVIOUS
  <2> QED BY <1>8, <2>1, NeatNone
<1>10. "add" \in Works /\ {} \subseteq Own({"contiguous"})
  BY DEF Works
<1>11. Reduced("add", <<>>, os, stages, space)
  BY <1>2
<1>12. A = OwnedBy(values, freed) /\ n \in Nat
  BY <1>3
<1> DEFINE f == "add"
           first == <<>>
           M == {}
<1>13. /\ f \in Works /\ M \subseteq Own({"contiguous"}) /\ Reduced(f, first, os, stages, space)
       /\ Neat(Calls, A, first, A \cup Rest(os, n, 0), M)
  BY <1>9, <1>10, <1>11
<1> HIDE DEF stages, A, f, first, M
<1>14. Reduces(A, n, os, stages, f, first, M, space)
  BY <1>3, <1>6, <1>7, <1>13 DEF Reduces
<1> QED BY <1>4, <1>12, <1>14, ReducedKeeps

LEMMA ReduceMaxKeeps == ASSUME IInv, Tame, LowerReduceMax PROVE IInv'
<1> DEFINE A == OwnedBy(values, freed)
<1>1. PICK n \in Arities : \E os \in [1 .. n -> Taps], space \in {"host", "device"} :
        Reduced("max", FlattenSeq([i \in 1 .. n |-> Materialize(os[i], i)]), os,
                [i \in 1 .. n |-> StageOperand(os[i], i)], space)
  BY DEF LowerReduceMax
<1>2. PICK os \in [1 .. n -> Taps], space \in {"host", "device"} :
        Reduced("max", FlattenSeq([i \in 1 .. n |-> Materialize(os[i], i)]), os,
                [i \in 1 .. n |-> StageOperand(os[i], i)], space)
  BY <1>1
<1>3. n \in Nat /\ n >= 2
  BY DEF Arities, Tame
<1>4. section \in ToSet(Order) /\ A \cap Fresh = {} /\ Calls \in Kinds
  BY MayAddSection, OwnedOld, CallKinds DEF LowerReduceMax
<1>5. PICK m \in Nat : m = Len(values)
  BY OwnedOld
<1> DEFINE stages == [i \in 1 .. n |-> StageOperand(os[i], i)]
           first == FlattenSeq([i \in 1 .. n |-> Materialize(os[i], i)])
<1>6. Len(os) = n
  BY <1>3
<1>7. \A i \in 1 .. n : Staging(Calls, A, os[i], i, stages[i]) /\ (os[i].strided => Readable(os[i].loc, A))
  <2> SUFFICES ASSUME NEW i \in 1 .. n
               PROVE Staging(Calls, A, os[i], i, stages[i]) /\ (os[i].strided => Readable(os[i].loc, A))
    OBVIOUS
  <2> DEFINE o == os[i]
  <2>1. o \in Taps /\ i \in Nat /\ stages[i] = StageOperand(o, i)
    BY <1>3
  <2> HIDE DEF o
  <2>2. Staging(Calls, A, o, i, StageOperand(o, i))
    BY <2>1, StagingTap
  <2>3. Readable(o.loc, A)
    BY <2>1, OperandsOk DEF OperandOk
  <2> QED BY <2>1, <2>2, <2>3 DEF o
<1>8. Neat(Calls, A, first, A \cup Rest(os, n, 0), Rest(os, n, 0))
  <2> HIDE DEF A
  <2> QED BY <1>3, <1>4, <1>5, <1>7, MaterializeNeat
<1>9. Rest(os, n, 0) \subseteq Own({"contiguous"})
  <2>1. 0 \in 0 .. n
    BY <1>3
  <2> QED BY <1>3, <1>5, <2>1, RestSteps
<1>10. "max" \in Works
  BY DEF Works
<1>11. Reduced("max", first, os, stages, space)
  BY <1>2
<1>12. A = OwnedBy(values, freed) /\ \A i \in 1 .. n : Staging(Calls, A, os[i], i, stages[i])
  BY <1>7
<1> DEFINE f == "max"
           M == Rest(os, n, 0)
<1>13. /\ f \in Works /\ M \subseteq Own({"contiguous"}) /\ Reduced(f, first, os, stages, space)
       /\ Neat(Calls, A, first, A \cup Rest(os, n, 0), M)
  BY <1>8, <1>9, <1>10, <1>11
<1> HIDE DEF stages, A, f, first, M
<1>14. Reduces(A, n, os, stages, f, first, M, space)
  BY <1>3, <1>6, <1>7, <1>13 DEF Reduces
<1> QED BY <1>4, <1>12, <1>14, ReducedKeeps
-----------------------------------------------------------------------------
(* The run of the code.                                                    *)

\* A call in an iteration.
Turns == [call : Steps, it : Nat \X Nat]
\* The call finds what it needs where P is allocated, and leaves Q.
Fine(P, c, Q) == Needs(c) \subseteq P /\ Gets(c) \cap P = {} /\ Q = (P \cup Gets(c)) \ Drops(c)
RunsBy(held, t) == \A i \in 1 .. Len(t) : Fine(held[i - 1], t[i].call, held[i])
Runs(A, t, B) ==
  t \in Seq(Turns) /\ \E held : held[0] = A /\ held[Len(t)] = B /\ RunsBy(held, t)

LEMMA RunsNone == ASSUME NEW A PROVE Runs(A, <<>>, A)
<1> DEFINE held == [i \in {0} |-> A]
<1>1. <<>> \in Seq(Turns) /\ Len(<<>>) = 0 /\ 1 .. 0 = {} /\ held[0] = A
  OBVIOUS
<1> HIDE DEF held
<1> QED BY <1>1 DEF Runs, RunsBy

LEMMA RunsConcat ==
  ASSUME NEW A, NEW s, NEW B, NEW t, NEW C, Runs(A, s, B), Runs(B, t, C)
  PROVE  Runs(A, s \o t, C)
<1>1. PICK h : h[0] = A /\ h[Len(s)] = B /\ RunsBy(h, s)
  BY DEF Runs
<1>2. PICK k : k[0] = B /\ k[Len(t)] = C /\ RunsBy(k, t)
  BY DEF Runs
<1>3. s \in Seq(Turns) /\ t \in Seq(Turns)
  BY DEF Runs
<1> DEFINE m == Len(s)
           n == Len(t)
           u == s \o t
           g == [i \in 0 .. m + n |-> IF i <= m THEN h[i] ELSE k[i - m]]
<1>4. u \in Seq(Turns) /\ m \in Nat /\ n \in Nat /\ Len(u) = m + n
  BY <1>3
<1>5. (\A i \in 1 .. m : u[i] = s[i]) /\ \A i \in m + 1 .. m + n : u[i] = t[i - m]
  BY <1>3
<1> HIDE DEF m, n, u
<1>6. g[0] = A /\ g[m + n] = C
  <2>1. 0 \in 0 .. m + n /\ m + n \in 0 .. m + n /\ 0 <= m /\ (m + n <= m => n = 0) /\ (m + n) - m = n /\ m + 0 = m
    BY <1>4
  <2>2. g[0] = A
    BY <1>1, <2>1
  <2>3. CASE n = 0
    BY <1>1, <1>2, <1>4, <2>1, <2>3 DEF m, n
  <2>4. CASE n # 0
    <3>1. g[m + n] = k[n]
      BY <2>1, <2>4
    <3> QED BY <1>2, <2>2, <3>1 DEF n
  <2> QED BY <2>2, <2>3, <2>4
<1>7. ASSUME NEW i \in 1 .. m + n PROVE Fine(g[i - 1], u[i].call, g[i])
  <2>1. i \in 0 .. m + n /\ i - 1 \in 0 .. m + n
    BY <1>4
  <2>2. CASE i <= m
    <3>1. i \in 1 .. m /\ i - 1 <= m
      BY <1>4, <2>2
    <3>2. g[i] = h[i] /\ g[i - 1] = h[i - 1]
      BY <2>1, <2>2, <3>1
    <3>3. Fine(h[i - 1], s[i].call, h[i])
      BY <1>1, <3>1 DEF RunsBy, m
    <3> QED BY <1>5, <3>1, <3>2, <3>3
  <2>3. CASE ~ (i <= m)
    <3>1. i \in m + 1 .. m + n /\ i - m \in 1 .. n /\ (i - 1) - m = (i - m) - 1
      BY <1>4, <2>3
    <3>2. g[i] = k[i - m]
      BY <2>1, <2>3
    <3>3. g[i - 1] = k[(i - m) - 1]
      <4>1. CASE i - 1 <= m
        <5>1. i - 1 = m /\ (i - m) - 1 = 0
          BY <1>4, <2>3, <4>1
        <5>2. g[i - 1] = h[m]
          BY <2>1, <5>1, <4>1
        <5> QED BY <1>1, <1>2, <5>1, <5>2 DEF m
      <4>2. CASE ~ (i - 1 <= m)
        BY <2>1, <3>1, <4>2
      <4> QED BY <4>1, <4>2
    <3>4. Fine(k[(i - m) - 1], t[i - m].call, k[i - m])
      BY <1>2, <3>1 DEF RunsBy, n
    <3>5. u[i] = t[i - m]
      BY <1>5, <3>1
    <3> QED BY <3>2, <3>3, <3>4, <3>5
  <2> QED BY <2>2, <2>3
<1> HIDE DEF g
<1>8. RunsBy(g, u)
  BY <1>4, <1>7 DEF RunsBy
<1>9. Runs(A, u, C)
  BY <1>4, <1>6, <1>8 DEF Runs
<1> QED BY <1>9 DEF u

\* Neat calls run well, in any iteration.
Calling(s, it) == [i \in DOMAIN s |-> [call |-> s[i], it |-> it]]
LEMMA NeatRuns ==
  ASSUME NEW A, NEW s, NEW B, NEW N, Neat(Steps, A, s, B, N), NEW it \in Nat \X Nat
  PROVE  Runs(A, Calling(s, it), B)
<1> DEFINE t == Calling(s, it)
           n == Len(s)
           G(k) == UNION {Gets(s[j]) : j \in 1 .. k}
           D(k) == UNION {Drops(s[j]) : j \in 1 .. k}
           h == [k \in 0 .. n |-> (A \cup G(k)) \ D(k)]
<1>1. s \in Seq(Steps) /\ n \in Nat /\ DOMAIN s = 1 .. n
  BY DEF Neat
<1>2. t \in Seq(Turns) /\ Len(t) = n /\ \A i \in 1 .. n : t[i].call = s[i]
  <2>1. \A i \in 1 .. n : [call |-> s[i], it |-> it] \in Turns
    BY <1>1 DEF Turns
  <2>2. t = [i \in 1 .. n |-> [call |-> s[i], it |-> it]]
    BY <1>1 DEF Calling
  <2> QED BY <1>1, <2>1, <2>2
<1>3. G(0) = {} /\ D(0) = {} /\ G(n) = N /\ D(n) = AllDrops(s)
  BY <1>1 DEF Neat, AllGets, AllDrops
<1>4. \A i \in 1 .. n : G(i) = G(i - 1) \cup Gets(s[i]) /\ D(i) = D(i - 1) \cup Drops(s[i])
  <2>1. \A i \in 1 .. n : 1 .. i = (1 .. i - 1) \cup {i}
    OBVIOUS
  <2> QED BY <2>1
<1>5. ASSUME NEW i \in 1 .. n
      PROVE  /\ Needs(s[i]) \subseteq A \cup G(i - 1) /\ Needs(s[i]) \cap D(i - 1) = {}
             /\ Gets(s[i]) \cap (A \cup G(i - 1)) = {} /\ D(i - 1) \subseteq A \cup G(i - 1)
  <2>1. \A j \in 1 .. n : j < i <=> j \in 1 .. i - 1
    OBVIOUS
  <2>2. \A j \in 1 .. i - 1 : j \in 1 .. n
    OBVIOUS
  <2>3. Needs(s[i]) \subseteq A \cup G(i - 1)
    BY <1>1, <2>1 DEF Neat
  <2>4. Needs(s[i]) \cap D(i - 1) = {}
    BY <1>1, <2>1, <2>2 DEF Neat
  <2>5. Gets(s[i]) \cap G(i - 1) = {}
    BY <1>1, <2>1, <2>2 DEF Neat
  <2>6. Gets(s[i]) \cap A = {}
    BY <1>1 DEF Neat, AllGets
  <2>7. \A j \in 1 .. i - 1 : Drops(s[j]) \subseteq A \cup G(i - 1)
    <3> SUFFICES ASSUME NEW j \in 1 .. i - 1, NEW x \in Drops(s[j]) PROVE x \in A \cup G(i - 1)
      OBVIOUS
    <3>1. j \in 1 .. n /\ x \in Needs(s[j])
      BY <1>1, <2>2 DEF Neat
    <3>2. x \in A \/ \E k \in 1 .. n : k < j /\ x \in Gets(s[k])
      BY <1>1, <3>1 DEF Neat
    <3>3. \A k \in 1 .. n : k < j => k \in 1 .. i - 1
      OBVIOUS
    <3> QED BY <3>2, <3>3
  <2> QED BY <2>3, <2>4, <2>5, <2>6, <2>7
<1> HIDE DEF G, D
<1>6. h[0] = A /\ h[n] = B
  <2>1. 0 \in 0 .. n /\ n \in 0 .. n
    BY <1>1
  <2>2. h[0] = (A \cup G(0)) \ D(0) /\ h[n] = (A \cup G(n)) \ D(n)
    BY <2>1
  <2> QED BY <1>3, <2>2 DEF Neat
<1>7. ASSUME NEW i \in 1 .. n PROVE Fine(h[i - 1], s[i], h[i])
  <2>1. i \in 0 .. n /\ i - 1 \in 0 .. n
    OBVIOUS
  <2>2. h[i] = (A \cup G(i)) \ D(i) /\ h[i - 1] = (A \cup G(i - 1)) \ D(i - 1)
    BY <2>1
  <2> HIDE DEF h
  <2> QED BY <1>4, <1>5, <2>2 DEF Fine
<1> HIDE DEF h, t, n
<1>8. RunsBy(h, t)
  BY <1>2, <1>7 DEF RunsBy
<1>9. Runs(A, t, B)
  BY <1>2, <1>6, <1>8 DEF Runs
<1> QED BY <1>9 DEF t

LEMMA NeatOnly ==
  ASSUME NEW s \in Seq(Steps), NEW A
  PROVE  /\ OnlyAllocs(s) /\ AllGets(s) \cap A = {} => Neat(Steps, A, s, A \cup AllGets(s), AllGets(s))
         /\ OnlyFrees(s) /\ AllDrops(s) \subseteq A => Neat(Steps, A, s, A \ AllDrops(s), {})
         /\ Calm(s, A) => Neat(Steps, A, s, A, {})
<1>1. \A i \in DOMAIN s : i \in Nat
  OBVIOUS
<1>2. ASSUME OnlyAllocs(s), AllGets(s) \cap A = {} PROVE Neat(Steps, A, s, A \cup AllGets(s), AllGets(s))
  <2>1. \A i \in DOMAIN s : Needs(s[i]) = {} /\ Drops(s[i]) = {}
    BY <1>2 DEF OnlyAllocs
  <2>2. \A i, j \in DOMAIN s : i < j => Gets(s[i]) \cap Gets(s[j]) = {}
    BY <1>1, <1>2 DEF OnlyAllocs
  <2>3. AllDrops(s) = {}
    BY <2>1 DEF AllDrops
  <2>4. A \cup AllGets(s) = (A \cup AllGets(s)) \ AllDrops(s)
    BY <2>3
  <2> QED BY <1>2, <2>1, <2>2, <2>4 DEF Neat
<1>3. ASSUME OnlyFrees(s), AllDrops(s) \subseteq A PROVE Neat(Steps, A, s, A \ AllDrops(s), {})
  <2>1. \A i \in DOMAIN s : Gets(s[i]) = {} /\ Needs(s[i]) = Drops(s[i])
    BY <1>3 DEF OnlyFrees
  <2>2. \A i, j \in DOMAIN s : j < i => Drops(s[i]) \cap Drops(s[j]) = {}
    BY <1>1, <1>3 DEF OnlyFrees
  <2>3. AllGets(s) = {}
    BY <2>1 DEF AllGets
  <2>4. \A i \in DOMAIN s : Drops(s[i]) \subseteq A
    BY <1>3 DEF AllDrops
  <2> QED BY <2>1, <2>2, <2>3, <2>4 DEF Neat
<1>4. ASSUME Calm(s, A) PROVE Neat(Steps, A, s, A, {})
  <2>1. \A i \in DOMAIN s : Gets(s[i]) = {} /\ Drops(s[i]) = {} /\ Needs(s[i]) \subseteq A
    BY <1>4 DEF Calm
  <2>2. AllGets(s) = {} /\ AllDrops(s) = {}
    BY <2>1 DEF AllGets, AllDrops
  <2> QED BY <2>1, <2>2 DEF Neat
<1> QED BY <1>2, <1>3, <1>4
LEMMA LoopRuns ==
  ASSUME NEW n \in Nat, NEW A, NEW seqs, seqs = [i \in 1 .. n |-> seqs[i]], \A i \in 1 .. n : Runs(A, seqs[i], A)
  PROVE  Runs(A, FlattenSeq(seqs), A)
<1> DEFINE P == {t \in Seq(Turns) : Runs(A, t, A)}
<1>1. P \in SUBSET Seq(Turns) /\ <<>> \in P
  BY RunsNone
<1>2. \A i \in 1 .. n : seqs[i] \in P
  BY DEF Runs
<1>3. seqs \in Seq(Seq(Turns)) /\ Len(seqs) = n
  <2>1. seqs \in [1 .. n -> Seq(Turns)]
    BY <1>2
  <2> QED BY <2>1
<1>4. \A s, t \in P : s \o t \in P
  <2> SUFFICES ASSUME NEW s \in P, NEW t \in P PROVE s \o t \in P
    OBVIOUS
  <2>1. Runs(A, s \o t, A)
    BY RunsConcat
  <2> QED BY <2>1 DEF Runs
<1> HIDE DEF P
<1>5. FlattenSeq(seqs) \in P
  BY <1>1, <1>2, <1>3, <1>4, Induction!FlattenInduction, SameFlatten
<1> QED BY <1>5 DEF P

\* However often the loops run, the code leaves allocated what it is to leave.
LEMMA TraceRuns ==
  ASSUME NEW W, NEW n, Placed(code, W, n), NEW outer \in Nat, NEW inner \in Nat
  PROVE  Runs({}, Trace(outer, inner), W)
<1> DEFINE B == Before(code)
           H == B \cup Created(code)
           A == H \ Deferred(code)
           turn(i) == [j \in 1 .. inner |-> During("inner", <<i, j>>)]
           around(i) == During("outer", <<i, 0>>) \o FlattenSeq(turn(i)) \o During("tail", <<i, 0>>)
           body == [i \in 1 .. outer |-> around(i)]
<1>1. /\ code["entry"] \in Seq(Steps) /\ code["preheader"] \in Seq(Steps) /\ code["postloop"] \in Seq(Steps)
      /\ code["exit"] \in Seq(Steps) /\ \A p \in LoopNest : code[p] \in Seq(Steps)
  BY DEF Placed, Places, LoopNest
<1>2. \A p, it : During(p, it) = Calling(code[p], it)
  BY DEF During, Calling
<1>3. \A p, P, Q, N : Neat(Steps, P, code[p], Q, N) => \A it \in Nat \X Nat : Runs(P, During(p, it), Q)
  BY <1>2, NeatRuns
<1>4. \A it \in Nat \X Nat : Runs({}, During("entry", it), B)
  BY <1>3 DEF Placed
<1>5. \A it \in Nat \X Nat : Runs(B, During("preheader", it), H)
  <2>1. OnlyAllocs(code["preheader"]) /\ AllGets(code["preheader"]) \cap B = {} /\ H = B \cup AllGets(code["preheader"])
    BY DEF Placed, Created
  <2> HIDE DEF B, H
  <2>2. Neat(Steps, B, code["preheader"], B \cup AllGets(code["preheader"]), AllGets(code["preheader"]))
    BY <1>1, <2>1, NeatOnly
  <2> QED BY <1>3, <2>1, <2>2
<1>6. \A p \in LoopNest : \A it \in Nat \X Nat : Runs(H, During(p, it), H)
  <2>1. \A p \in LoopNest : Neat(Steps, H, code[p], H, {})
    BY <1>1, NeatOnly DEF Placed
  <2> QED BY <1>3, <2>1
<1>7. \A it \in Nat \X Nat : Runs(H, During("postloop", it), A)
  <2>1. OnlyFrees(code["postloop"]) /\ AllDrops(code["postloop"]) \subseteq H /\ A = H \ AllDrops(code["postloop"])
    BY DEF Placed, Deferred
  <2> HIDE DEF H, A
  <2>2. Neat(Steps, H, code["postloop"], H \ AllDrops(code["postloop"]), {})
    BY <1>1, <2>1, NeatOnly
  <2> QED BY <1>3, <2>1, <2>2
<1>8. \A it \in Nat \X Nat : Runs(A, During("exit", it), W)
  BY <1>3 DEF Placed
<1> HIDE DEF B, H, A
<1>9. \A i \in 1 .. outer : Runs(H, around(i), H)
  <2> SUFFICES ASSUME NEW i \in 1 .. outer PROVE Runs(H, around(i), H)
    OBVIOUS
  <2>1. <<i, 0>> \in Nat \X Nat /\ \A j \in 1 .. inner : <<i, j>> \in Nat \X Nat
    OBVIOUS
  <2>2. \A j \in 1 .. inner : Runs(H, During("inner", <<i, j>>), H)
    BY <1>6, <2>1 DEF LoopNest
  <2> DEFINE seqs == turn(i)
  <2>3. seqs = [j \in 1 .. inner |-> seqs[j]] /\ \A j \in 1 .. inner : Runs(H, seqs[j], H)
    BY <2>2
  <2> HIDE DEF seqs
  <2>4. Runs(H, FlattenSeq(seqs), H)
    BY <2>3, LoopRuns
  <2>5. Runs(H, During("outer", <<i, 0>>), H) /\ Runs(H, During("tail", <<i, 0>>), H)
    BY <1>6, <2>1 DEF LoopNest
  <2>6. Runs(H, During("outer", <<i, 0>>) \o FlattenSeq(seqs), H)
    BY <2>4, <2>5, RunsConcat
  <2>7. Runs(H, (During("outer", <<i, 0>>) \o FlattenSeq(seqs)) \o During("tail", <<i, 0>>), H)
    BY <2>5, <2>6, RunsConcat
  <2> QED BY <2>7 DEF seqs
<1>10. Runs(H, FlattenSeq(body), H)
  <2>1. body = [i \in 1 .. outer |-> body[i]] /\ \A i \in 1 .. outer : Runs(H, body[i], H)
    BY <1>9
  <2> HIDE DEF body
  <2> QED BY <2>1, LoopRuns
<1> DEFINE o == <<0, 0>>
           s1 == During("entry", o)
           s2 == During("preheader", o)
           s3 == FlattenSeq(body)
           s4 == During("postloop", o)
           s5 == During("exit", o)
<1>11. Trace(outer, inner) = (((s1 \o s2) \o s3) \o s4) \o s5
  BY DEF Trace, Loop
<1>12. Runs({}, s1, B) /\ Runs(B, s2, H) /\ Runs(H, s3, H) /\ Runs(H, s4, A) /\ Runs(A, s5, W)
  <2>1. o \in Nat \X Nat
    OBVIOUS
  <2> HIDE DEF o
  <2> QED BY <1>4, <1>5, <1>7, <1>8, <1>10, <2>1
<1> HIDE DEF s1, s2, s3, s4, s5
<1>13. Runs({}, s1 \o s2, H)
  BY <1>12, RunsConcat
<1>14. Runs({}, (s1 \o s2) \o s3, H)
  BY <1>12, <1>13, RunsConcat
<1>15. Runs({}, ((s1 \o s2) \o s3) \o s4, A)
  BY <1>12, <1>14, RunsConcat
<1>16. Runs({}, (((s1 \o s2) \o s3) \o s4) \o s5, W)
  BY <1>12, <1>15, RunsConcat
<1> QED BY <1>11, <1>16

\* The state of a run that has gone well, with the buffers A allocated.
Well(m, A) ==
  \E c, f : m = [contents |-> c, allocated |-> A, faults |-> f] /\ f \subseteq {"wrong"}

LEMMA ExecuteFine ==
  ASSUME NEW m, NEW P, Well(m, P), NEW turn \in Turns, NEW Q, Fine(P, turn.call, Q)
  PROVE  Well(Execute(m, turn), Q)
<1>1. PICK k, f : m = [contents |-> k, allocated |-> P, faults |-> f] /\ f \subseteq {"wrong"}
  BY DEF Well
<1> DEFINE c == turn.call
           dead(xs) == {x \in xs : IsBuffer(x) /\ x \notin m.allocated}
           holds(x) == IF x = Memory THEN <<"input", turn.it>> ELSE m.contents[x]
           put(e)   == [x \in DOMAIN m.contents \cup {c.dst} |-> IF x = c.dst THEN e ELSE m.contents[x]]
<1>2. c \in Steps /\ Needs(c) \subseteq P /\ Gets(c) \cap P = {} /\ Q = (P \cup Gets(c)) \ Drops(c)
  BY DEF Turns, Fine
<1>3. m.allocated = P /\ m.faults = f /\ m.contents = k
  BY <1>1
<1>4. CASE c.op = "alloc"
  <2>1. Q = P \cup {c.dst} /\ c.dst \notin P
    BY <1>2, <1>4 DEF Gets, Drops
  <2>2. Execute(m, turn) =
          [m EXCEPT !.allocated = @ \cup {c.dst}, !.contents = put(<<"zero">>),
                    !.faults = @ \cup (IF c.dst \in m.allocated THEN {"lost"} ELSE {})]
    BY <1>4 DEF Execute
  <2> DEFINE e == put(<<"zero">>)
  <2>3. Execute(m, turn) = [m EXCEPT !.allocated = P \cup {c.dst}, !.contents = e, !.faults = f \cup {}]
    BY <1>3, <2>1, <2>2
  <2> HIDE DEF e
  <2>4. Execute(m, turn) = [contents |-> e, allocated |-> Q, faults |-> f]
    BY <1>1, <2>1, <2>3
  <2> QED BY <1>1, <2>4 DEF Well
<1>5. CASE c.op \in {"free", "freeHere"}
  <2>1. Q = P \ {c.dst}
    BY <1>2, <1>5 DEF Gets, Drops
  <2>2. dead({c.dst}) = {}
    BY <1>2, <1>3, <1>5 DEF Needs
  <2>3. Execute(m, turn) = [m EXCEPT !.allocated = @ \ {c.dst}, !.faults = @ \cup (IF dead({c.dst}) # {} THEN {"dead"} ELSE {})]
    BY <1>5 DEF Execute
  <2>4. Execute(m, turn) = [m EXCEPT !.allocated = P \ {c.dst}, !.faults = f \cup {}]
    BY <1>3, <2>2, <2>3
  <2>5. Execute(m, turn) = [contents |-> k, allocated |-> Q, faults |-> f]
    BY <1>1, <2>1, <2>4
  <2> QED BY <1>1, <2>5 DEF Well
<1>6. CASE c.op = "set"
  <2>1. Q = P
    BY <1>2, <1>6 DEF Gets, Drops
  <2>2. dead({c.dst} \cup ToSet(c.args)) = {}
    BY <1>2, <1>3, <1>6 DEF Needs
  <2> DEFINE args == [i \in DOMAIN c.args |-> holds(c.args[i])]
             e == put(IF c.f = "move" THEN args[1] ELSE <<c.f>> \o args)
  <2>3. Execute(m, turn) = [m EXCEPT !.contents = e]
    BY <1>6, <2>2 DEF Execute
  <2> HIDE DEF e
  <2>4. Execute(m, turn) = [contents |-> e, allocated |-> Q, faults |-> f]
    BY <1>1, <2>1, <2>3
  <2> QED BY <1>1, <2>4 DEF Well
<1>7. CASE c.op = "done"
  <2>1. Q = P
    BY <1>2, <1>7 DEF Gets, Drops
  <2> DEFINE g == IF dead({c.dst}) = {} /\ holds(c.dst) # values[c.value].means[turn.it] THEN {"wrong"} ELSE {}
  <2>2. Execute(m, turn) = [m EXCEPT !.faults = @ \cup g]
    BY <1>7 DEF Execute
  <2>3. g \subseteq {"wrong"}
    OBVIOUS
  <2> HIDE DEF g
  <2>4. Execute(m, turn) = [contents |-> k, allocated |-> Q, faults |-> f \cup g]
    BY <1>1, <1>3, <2>1, <2>2
  <2>5. f \cup g \subseteq {"wrong"}
    BY <1>1, <2>3
  <2> QED BY <2>4, <2>5 DEF Well
<1>8. c.op \in {"alloc", "free", "freeHere", "set", "done"}
  BY <1>2 DEF Steps
<1> QED BY <1>4, <1>5, <1>6, <1>7, <1>8

\* Executed's recursive function.
IsExecution(g, t) ==
  g[0] = Pristine /\ Executed(t) = g[Len(t)] /\ \A i \in 1 .. Len(t) : g[i] = Execute(g[i - 1], t[i])
LEMMA ExecutionExists == ASSUME NEW t, Len(t) \in Nat PROVE \E g : IsExecution(g, t)
<1> DEFINE n == Len(t)
           P(g, k) == g = [i \in 0 .. k |-> IF i = 0 THEN Pristine ELSE Execute(g[i - 1], t[i])]
           S == {k \in Nat : \E g : P(g, k)}
<1>1. 0 \in S
  <2> DEFINE g == [i \in 0 .. 0 |-> Pristine]
  <2>1. P(g, 0)
    OBVIOUS
  <2> HIDE DEF P
  <2> QED BY <2>1
<1>2. ASSUME NEW k \in Nat, k \in S PROVE k + 1 \in S
  <2>1. PICK f : f = [i \in 0 .. k |-> IF i = 0 THEN Pristine ELSE Execute(f[i - 1], t[i])]
    BY <1>2
  <2> DEFINE g == [i \in 0 .. k + 1 |-> IF i <= k THEN f[i] ELSE Execute(f[k], t[k + 1])]
  <2>2. \A i \in 0 .. k + 1 : g[i] = IF i = 0 THEN Pristine ELSE Execute(g[i - 1], t[i])
    <3> SUFFICES ASSUME NEW i \in 0 .. k + 1 PROVE g[i] = IF i = 0 THEN Pristine ELSE Execute(g[i - 1], t[i])
      OBVIOUS
    <3>1. CASE i = 0
      <4>1. 0 \in 0 .. k /\ 0 \in 0 .. k + 1 /\ 0 <= k
        OBVIOUS
      <4>2. g[0] = f[0] /\ f[0] = Pristine
        BY <2>1, <4>1
      <4> QED BY <3>1, <4>2
    <3>2. CASE i \in 1 .. k
      <4>1. i \in 0 .. k /\ i - 1 \in 0 .. k + 1 /\ i <= k /\ i - 1 <= k /\ i # 0
        BY <3>2
      <4>2. g[i] = f[i] /\ g[i - 1] = f[i - 1]
        BY <4>1
      <4>3. f[i] = Execute(f[i - 1], t[i])
        BY <2>1, <4>1
      <4> HIDE DEF g
      <4> QED BY <4>1, <4>2, <4>3
    <3>3. CASE i = k + 1
      <4>1. i \in 0 .. k + 1 /\ k \in 0 .. k + 1 /\ ~ (k + 1 <= k) /\ i # 0 /\ k <= k /\ i - 1 = k
        BY <3>3
      <4>2. g[k] = f[k]
        BY <4>1
      <4>3. g[k + 1] = Execute(f[k], t[k + 1])
        BY <4>1
      <4> HIDE DEF g
      <4> QED BY <3>3, <4>1, <4>2, <4>3
    <3> QED BY <3>1, <3>2, <3>3
  <2>3. g = [i \in 0 .. k + 1 |-> g[i]]
    OBVIOUS
  <2> HIDE DEF g
  <2>4. P(g, k + 1)
    BY <2>2, <2>3
  <2> HIDE DEF P
  <2> QED BY <2>4
<1>3. n \in S
  <2> HIDE DEF S
  <2>1. \A k \in Nat : k \in S => k + 1 \in S
    BY <1>2
  <2> QED BY <1>1, <2>1, Induction!SetInduction
<1> DEFINE h == CHOOSE g : P(g, n)
<1>4. P(h, n)
  <2> HIDE DEF P
  <2> QED BY <1>3
<1>5. Executed(t) = h[n]
  BY Zenon DEF Executed
<1> HIDE DEF h
<1>6. 0 \in 0 .. n /\ \A i \in 1 .. n : i \in 0 .. n /\ i # 0
  OBVIOUS
<1>7. h[0] = Pristine /\ \A i \in 1 .. n : h[i] = Execute(h[i - 1], t[i])
  BY <1>4, <1>6
<1> QED BY <1>5, <1>7 DEF IsExecution

LEMMA ExecutedFine == ASSUME NEW t, NEW B, Runs({}, t, B) PROVE Well(Executed(t), B)
<1>1. PICK held : held[0] = {} /\ held[Len(t)] = B /\ RunsBy(held, t)
  BY DEF Runs
<1>2. t \in Seq(Turns) /\ Len(t) \in Nat
  BY DEF Runs
<1>3. PICK g : IsExecution(g, t)
  BY <1>2, ExecutionExists
<1> DEFINE n == Len(t)
           S == {i \in Nat : i <= n => Well(g[i], held[i])}
<1>4. 0 \in S
  <2>1. Well(Pristine, {})
    <3> DEFINE c == <<>>
               f == {}
    <3>1. Pristine = [contents |-> c, allocated |-> {}, faults |-> f] /\ f \subseteq {"wrong"}
      BY DEF Pristine
    <3> HIDE DEF c, f
    <3> QED BY <3>1 DEF Well
  <2>2. g[0] = Pristine
    BY <1>3 DEF IsExecution
  <2>3. Well(g[0], held[0])
    BY <1>1, <2>1, <2>2
  <2> QED BY <2>3
<1>5. \A i \in Nat : i \in S => i + 1 \in S
  <2> SUFFICES ASSUME NEW i \in Nat, i \in S, i + 1 <= n PROVE Well(g[i + 1], held[i + 1])
    OBVIOUS
  <2>1. i + 1 \in 1 .. n /\ (i + 1) - 1 = i /\ i <= n
    BY <1>2
  <2>2. Well(g[i], held[i]) /\ g[i + 1] = Execute(g[i], t[i + 1])
    BY <1>3, <2>1 DEF IsExecution
  <2>3. Fine(held[i], t[i + 1].call, held[i + 1]) /\ t[i + 1] \in Turns
    BY <1>1, <1>2, <2>1 DEF RunsBy
  <2> QED BY <2>2, <2>3, ExecuteFine
<1> HIDE DEF S
<1>6. n \in S
  BY <1>2, <1>4, <1>5, Induction!SetInduction
<1>7. Well(g[n], held[n])
  BY <1>2, <1>6 DEF S
<1> QED BY <1>1, <1>3, <1>7 DEF IsExecution

LEMMA RunKeeps == ASSUME IInv, Tame, Run PROVE IInv'
<1>1. /\ section = "exit" /\ section' = "ran" /\ UNCHANGED <<opened, values, freed, hoisted, code>>
  BY DEF Run
<1>2. PICK outer \in Trips, inner \in {0} \cup Trips : outcome' = Executed(Trace(outer, inner))
  BY DEF Run
<1> DEFINE W == OwnedBy(values, freed)
<1>3. Well(outcome', W)
  <2>1. outer \in Nat /\ inner \in Nat /\ Placed(code, W, Len(values))
    BY DEF Tame, IInv
  <2> HIDE DEF W
  <2> DEFINE t == Trace(outer, inner)
             n == Len(values)
  <2>2. Placed(code, W, n)
    BY <2>1
  <2> HIDE DEF n
  <2>3. Runs({}, t, W)
    BY <2>1, <2>2, TraceRuns
  <2> HIDE DEF t
  <2>4. Well(Executed(t), W)
    BY <2>3, ExecutedFine
  <2> QED BY <1>2, <2>4 DEF t
<1>4. outcome'.allocated = W /\ outcome'.faults \subseteq {"wrong"}
  <2> HIDE DEF W
  <2> QED BY <1>3 DEF Well
<1>5. ~ InLoop' /\ section' \notin ToSet(Order) /\ section' # "entry" /\ hoisted = {}
  BY <1>1, Sections DEF InLoop, LoopNest, IInv
<1>6. ValuesSound'
  <2>1. \A v \in DOMAIN values : ValueSound(v)'
    BY <1>1, <1>5 DEF IInv, ValuesSound, ValueSound
  <2> QED BY <1>1, <2>1 DEF IInv, ValuesSound
<1> QED BY <1>1, <1>4, <1>5, <1>6 DEF IInv
-----------------------------------------------------------------------------
LEMMA StepKeeps == ASSUME IInv, Tame, [Next]_vars PROVE IInv'
<1>1. CASE LowerDeviceOpen \/ Refuse \/ UNCHANGED vars
  BY <1>1, QuietKeeps
<1>2. CASE LowerProgram
  BY <1>2, ProgramKeeps
<1>3. CASE LowerMvm
  BY <1>3, MvmKeeps
<1>4. CASE LowerRequantize
  BY <1>4, RequantizeKeeps
<1>5. CASE LowerReducePartial
  BY <1>5, ReducePartialKeeps
<1>6. CASE LowerReduceMax
  BY <1>6, ReduceMaxKeeps
<1>7. CASE LowerCopy
  BY <1>7, CopyKeeps
<1>8. CASE LowerSubview
  BY <1>8, SubviewKeeps
<1>9. CASE LowerDealloc
  BY <1>9, DeallocKeeps
<1>10. CASE NextSection
  BY <1>10, SectionKeeps
<1>11. CASE Run
  BY <1>11, RunKeeps
<1> QED BY <1>1, <1>2, <1>3, <1>4, <1>5, <1>6, <1>7, <1>8, <1>9, <1>10, <1>11 DEF Next

LEMMA Walking == ASSUME Tame PROVE Spec => []IInv
BY WalkInit, StepKeeps, PTL DEF Spec

LEMMA SoundMeans ==
  ASSUME IInv
  PROVE  TypeOK /\ BuffersAreLive /\ OnlyUnfreedValuesRemain
<1>1. TypeOK
  <2>1. \A v \in DOMAIN values :
          /\ values[v].space \in {"host", "device", "resident"}
          /\ values[v].home \in ToSet(Order) /\ values[v].base \in 0 .. v - 1
    BY DEF IInv, ValuesSound, ValueSound
  <2>2. Created(code) \subseteq {c.dst : c \in ToSet(code["preheader"])}
    BY DEF Created, AllGets, Gets, ToSet
  <2>3. hoisted \subseteq {c.dst : c \in ToSet(code["preheader"])}
    BY <2>2 DEF IInv
  <2> QED BY <2>1, <2>3 DEF IInv, ValuesSound, TypeOK
<1>2. BuffersAreLive
  BY DEF IInv, BuffersAreLive
<1>3. OnlyUnfreedValuesRemain
  <2>1. "lost" \notin outcome.faults
    BY DEF IInv
  <2> QED BY <2>1 DEF IInv, OwnedBy, OnlyUnfreedValuesRemain
<1> QED BY <1>1, <1>2, <1>3

\* The walk and the run keep their types: a value's base is a value before it, and
\* hoistedThisLoop holds only buffers created before the nest being lowered.
THEOREM TypeCorrect == ASSUME Tame PROVE Spec => []TypeOK
BY Walking, SoundMeans, PTL

\* Whatever the function and however often its loops iterate, the emitted calls use and
\* free only buffers that are allocated: freeBuffer and lowerDealloc move after the
\* nest the frees of exactly the buffers that creationBuilder created before it.
THEOREM LiveBuffers == ASSUME Tame PROVE Spec => []BuffersAreLive
BY Walking, SoundMeans, PTL

\* The run leaves allocated exactly the buffers of the values nothing in the source
\* frees: the scratch of every op is freed once, on every way through the loops.
THEOREM NothingElseRemains == ASSUME Tame PROVE Spec => []OnlyUnfreedValuesRemain
BY Walking, SoundMeans, PTL
=============================================================================
