-------------------------- MODULE CimScheduleProofs --------------------------
(***************************************************************************)
(* The barriers of cim-schedule are enough, and what the devices compute   *)
(* is what a sequential run computes: for every number of devices, every   *)
(* depth of the nest and every length of the function.                     *)
(*                                                                         *)
(* Order.  While the function is built, the ops that issue work get        *)
(* growing ids and read only what is before them (Lasting).  Both passes   *)
(* only put fillers between the ops (Expansion), which keeps Lasting;      *)
(* cim-schedule makes the blocks Flushed, by the equation of the recursive *)
(* function that gathers the open runs, and cim-insert-transfers keeps     *)
(* them so.  In the run, what a queue holds was issued in a block the host *)
(* is still in, with no barrier since (LocatedAt), so Flushed applies to   *)
(* the op the host is at (Inv).                                            *)
(*                                                                         *)
(* Data.  What the builder makes is SourceData: nothing after a cim.mvm in *)
(* its block changes its activation, and a far one from outside the loop   *)
(* is not changed in the loop either, if no loop rewrites it.              *)
(* cim-schedule keeps that, and cim-insert-transfers turns it into         *)
(* RunData: from a copy to the cim.mvms that read it, nothing changes the  *)
(* buffer or the copy.  In the run, then, Contents: a copy that is still   *)
(* to be read is current, what is in a queue will compute what the         *)
(* sequential run computed, and the rest is the same in both runs.         *)
(***************************************************************************)
EXTENDS CimSchedule, FiniteSetTheorems, TLAPS

\* Its lemmas on induction are cited, in which NoWeight does not occur.
Induction == INSTANCE SchedulesProofs WITH NoWeight <- 0

\* FlattenSeq is the same operator there and here.
LEMMA SameFlatten == \A seqs : Induction!FlattenSeq(seqs) = FlattenSeq(seqs)
BY DEF FlattenSeq, Induction!FlattenSeq
-----------------------------------------------------------------------------
\* A set as a sequence: its members, all of them.
LEMMA SetAsSequence ==
  ASSUME NEW S, IsFiniteSet(S)
  PROVE  /\ SetToSeq(S) \in Seq(S)
         /\ \A x \in S : \E k \in 1 .. Len(SetToSeq(S)) : SetToSeq(S)[k] = x
<1> DEFINE n == Cardinality(S)
           P(f) == f \in [1 .. n -> S] /\ IsInjective(f)
<1>1. n \in Nat /\ ExistsBijection(1 .. n, S)
  BY FS_CardinalityType
<1> HIDE DEF n
<1>2. \E f : P(f)
  BY <1>1 DEF ExistsBijection, Bijection, Injection
<1>3. SetToSeq(S) = CHOOSE f : P(f)
  BY DEF SetToSeq, n
<1>4. P(SetToSeq(S))
  <2> HIDE DEF P
  <2> QED BY <1>2, <1>3, Zenon
<1> HIDE DEF P
<1>5. SetToSeq(S) \in Injection(1 .. n, S)
  BY <1>4 DEF P, Injection
<1>6. Cardinality(1 .. n) = n
  BY <1>1, FS_Interval
<1>7. SetToSeq(S) \in Surjection(1 .. n, S)
  BY <1>5, <1>6, FS_Injection DEF n
<1>8. SetToSeq(S) \in [1 .. n -> S]
  BY <1>4 DEF P
<1> QED BY <1>1, <1>7, <1>8 DEF Surjection

\* out is ops with members of fill[i] before the i-th op, all of them, and
\* pos[i] is where that op is.
IsSpread(n, out, ops, fill, pos) ==
  /\ pos[0] = 0 /\ pos[n] = Len(out)
  /\ \A i, j \in 0 .. n : i < j => pos[i] < pos[j]
  /\ \A i \in 1 .. n : out[pos[i]] = ops[i]
  /\ \A p \in 1 .. Len(out) : \E i \in 1 .. n :
       pos[i - 1] < p /\ p <= pos[i] /\ (p # pos[i] => out[p] \in fill[i])
  /\ \A i \in 1 .. n : \A x \in fill[i] : \E p \in 1 .. Len(out) :
       pos[i - 1] < p /\ p < pos[i] /\ out[p] = x

LEMMA SpreadMembers ==
  ASSUME NEW n, NEW out, NEW ops, NEW fill, NEW pos, IsSpread(n, out, ops, fill, pos), NEW p \in 1 .. Len(out)
  PROVE  \E i \in 1 .. n : out[p] = ops[i] \/ out[p] \in fill[i]
<1>1. PICK i \in 1 .. n : p # pos[i] => out[p] \in fill[i]
  BY DEF IsSpread
<1>2. out[pos[i]] = ops[i]
  BY DEF IsSpread
<1> QED BY <1>1, <1>2

LEMMA SpreadGrows ==
  ASSUME NEW X, NEW n \in Nat, NEW out \in Seq(X), NEW more \in Seq(X), NEW op \in X,
         NEW ops, NEW fill, NEW pos, \A i \in 0 .. n + 1 : pos[i] \in Nat,
         IsSpread(n, out, ops, fill, pos),
         ops[n + 1] = op, pos[n + 1] = Len(out) + Len(more) + 1,
         \A k \in 1 .. Len(more) : more[k] \in fill[n + 1],
         \A x \in fill[n + 1] : \E k \in 1 .. Len(more) : more[k] = x
  PROVE  IsSpread(n + 1, out \o (more \o <<op>>), ops, fill, pos)
<1> DEFINE new == out \o (more \o <<op>>)
           a == Len(out)
           b == Len(more)
<1>1. /\ new \in Seq(X) /\ Len(new) = a + b + 1 /\ a \in Nat /\ b \in Nat
      /\ \A p \in 1 .. a : new[p] = out[p]
      /\ \A k \in 1 .. b : new[a + k] = more[k]
      /\ new[a + b + 1] = op
  OBVIOUS
<1>2. pos[n] = a /\ pos[n + 1] = a + b + 1 /\ pos[0] = 0
  BY DEF IsSpread
<1> HIDE DEF new, a, b
<1>3. \A i \in 0 .. n : pos[i] \in Nat /\ pos[i] <= a
  <2> SUFFICES ASSUME NEW i \in 0 .. n PROVE pos[i] \in Nat /\ pos[i] <= a
    OBVIOUS
  <2>1. i \in 0 .. n + 1 /\ n \in 0 .. n /\ (i < n \/ i = n)
    OBVIOUS
  <2>2. i < n => pos[i] < pos[n]
    BY <2>1 DEF IsSpread
  <2> QED BY <1>1, <1>2, <2>1, <2>2
<1>4. \A i, j \in 0 .. n + 1 : i < j => pos[i] < pos[j]
  <2> SUFFICES ASSUME NEW i \in 0 .. n + 1, NEW j \in 0 .. n + 1, i < j PROVE pos[i] < pos[j]
    OBVIOUS
  <2>1. CASE j = n + 1
    <3>1. i \in 0 .. n
      BY <2>1
    <3> QED BY <1>1, <1>2, <1>3, <2>1, <3>1
  <2>2. CASE j # n + 1
    <3>1. i \in 0 .. n /\ j \in 0 .. n
      BY <2>2
    <3> QED BY <3>1 DEF IsSpread
  <2> QED BY <2>1, <2>2
<1>5. ASSUME NEW i \in 1 .. n + 1 PROVE new[pos[i]] = ops[i]
  <2>1. CASE i = n + 1
    BY <1>1, <1>2, <2>1
  <2>2. CASE i # n + 1
    <3>1. i \in 1 .. n /\ 0 \in 0 .. n /\ i \in 0 .. n /\ 0 < i
      BY <2>2
    <3>2. pos[i] \in 1 .. a /\ out[pos[i]] = ops[i]
      <4>1. pos[0] < pos[i] /\ out[pos[i]] = ops[i]
        BY <3>1 DEF IsSpread
      <4> QED BY <1>1, <1>2, <1>3, <3>1, <4>1
    <3> QED BY <1>1, <3>2
  <2> QED BY <2>1, <2>2
<1>6. ASSUME NEW p \in 1 .. Len(new)
      PROVE  \E i \in 1 .. n + 1 : pos[i - 1] < p /\ p <= pos[i] /\ (p # pos[i] => new[p] \in fill[i])
  <2>1. CASE p <= a
    <3>1. p \in 1 .. a
      BY <1>1, <2>1
    <3>2. PICK i \in 1 .. n : pos[i - 1] < p /\ p <= pos[i] /\ (p # pos[i] => out[p] \in fill[i])
      BY <3>1 DEF IsSpread, a
    <3>3. i \in 1 .. n + 1
      OBVIOUS
    <3>4. new[p] = out[p]
      BY <1>1, <3>1
    <3> QED BY <3>2, <3>3, <3>4
  <2>2. CASE a < p
    <3>1. n + 1 \in 1 .. n + 1 /\ (n + 1) - 1 = n /\ p <= a + b + 1 /\ p \in Nat
      BY <1>1
    <3>2. p # a + b + 1 => p - a \in 1 .. b /\ a + (p - a) = p
      BY <1>1, <2>2, <3>1
    <3>3. p # pos[n + 1] => new[p] \in fill[n + 1]
      <4> SUFFICES ASSUME p # a + b + 1 PROVE new[p] \in fill[n + 1]
        BY <1>2
      <4>1. new[p] = more[p - a]
        BY <1>1, <3>2
      <4>2. more[p - a] \in fill[n + 1]
        BY <3>2 DEF b
      <4> QED BY <4>1, <4>2
    <3> QED BY <1>2, <2>2, <3>1, <3>3
  <2>3. a \in Nat /\ p \in Nat
    BY <1>1
  <2> QED BY <2>1, <2>2, <2>3
<1>7. ASSUME NEW i \in 1 .. n + 1, NEW x \in fill[i]
      PROVE  \E p \in 1 .. Len(new) : pos[i - 1] < p /\ p < pos[i] /\ new[p] = x
  <2>1. CASE i = n + 1
    <3>1. PICK k \in 1 .. b : more[k] = x
      BY <2>1 DEF b
    <3>2. a + k \in 1 .. Len(new) /\ a < a + k /\ a + k < a + b + 1 /\ new[a + k] = x
      BY <1>1, <3>1
    <3>3. pos[i - 1] = a /\ pos[i] = a + b + 1
      BY <1>2, <2>1
    <3> QED BY <3>2, <3>3
  <2>2. CASE i # n + 1
    <3>1. i \in 1 .. n
      BY <2>2
    <3>2. PICK p \in 1 .. a : pos[i - 1] < p /\ p < pos[i] /\ out[p] = x
      BY <3>1 DEF IsSpread, a
    <3>3. p \in 1 .. Len(new) /\ new[p] = x
      BY <1>1, <3>2
    <3> QED BY <3>2, <3>3
  <2> QED BY <2>1, <2>2
<1> QED BY <1>1, <1>2, <1>4, <1>5, <1>6, <1>7 DEF IsSpread, new

\* ops, each with a set before it.
Spread(ops, fill) == FlattenSeq([i \in DOMAIN ops |-> SetToSeq(fill[i]) \o <<ops[i]>>])

LEMMA Spreading ==
  ASSUME NEW X, NEW ops \in Seq(X), ops # <<>>, NEW fill \in [DOMAIN ops -> SUBSET X],
         \A i \in DOMAIN ops : IsFiniteSet(fill[i])
  PROVE  /\ Spread(ops, fill) \in Seq(X)
         /\ \E pos \in [0 .. Len(ops) -> Nat] : IsSpread(Len(ops), Spread(ops, fill), ops, fill, pos)
<1> DEFINE n == Len(ops)
           more(i) == SetToSeq(fill[i])
           seqs == [i \in 1 .. n |-> more(i) \o <<ops[i]>>]
<1>1. n \in Nat \ {0} /\ DOMAIN ops = 1 .. n /\ \A i \in 1 .. n : ops[i] \in X
  OBVIOUS
<1>2. ASSUME NEW i \in 1 .. n
      PROVE  /\ more(i) \in Seq(X) /\ Len(more(i)) \in Nat
             /\ \A k \in 1 .. Len(more(i)) : more(i)[k] \in fill[i]
             /\ \A x \in fill[i] : \E k \in 1 .. Len(more(i)) : more(i)[k] = x
  <2>1. fill[i] \in SUBSET X /\ IsFiniteSet(fill[i])
    BY <1>1
  <2>2. SetToSeq(fill[i]) \in Seq(fill[i])
    BY <2>1, SetAsSequence
  <2>3. \A x \in fill[i] : \E k \in 1 .. Len(SetToSeq(fill[i])) : SetToSeq(fill[i])[k] = x
    BY <2>1, SetAsSequence
  <2>4. /\ SetToSeq(fill[i]) \in Seq(X) /\ Len(SetToSeq(fill[i])) \in Nat
        /\ \A k \in 1 .. Len(SetToSeq(fill[i])) : SetToSeq(fill[i])[k] \in fill[i]
    BY <2>1, <2>2
  <2> QED BY <2>3, <2>4
<1> HIDE DEF more
<1>3. \A i \in 1 .. n : seqs[i] = more(i) \o <<ops[i]>> /\ seqs[i] \in Seq(X)
  BY <1>1, <1>2
<1>4. seqs \in Seq(Seq(X)) /\ Len(seqs) = n
  <2>1. seqs \in [1 .. n -> Seq(X)] /\ n \in Nat
    BY <1>1, <1>3
  <2> HIDE DEF n, seqs
  <2> QED BY <2>1
<1>5. Spread(ops, fill) = FlattenSeq(seqs)
  BY <1>1 DEF Spread, more
<1> HIDE DEF n, seqs
<1>6. PICK parts : Induction!IsFlattening(parts, seqs, X) /\ FlattenSeq(seqs) = parts[n]
  BY <1>1, <1>4, Induction!Flattening, SameFlatten
<1>7. /\ parts \in [1 .. n -> Seq(X)] /\ parts[1] = seqs[1]
      /\ \A i \in 2 .. n : parts[i] = parts[i - 1] \o seqs[i]
  BY <1>4, <1>6 DEF Induction!IsFlattening
<1> DEFINE pos == [i \in 0 .. n |-> IF i = 0 THEN 0 ELSE Len(parts[i])]
           S == {m \in Nat : m + 1 <= n => IsSpread(m + 1, parts[m + 1], ops, fill, pos)}
<1>8. pos \in [0 .. n -> Nat] /\ pos[0] = 0 /\ \A i \in 1 .. n : pos[i] = Len(parts[i])
  BY <1>1, <1>7
<1> HIDE DEF pos
<1>9. 0 \in S
  <2>1. 1 \in 1 .. n /\ 0 + 1 = 1
    BY <1>1
  <2>2. IsSpread(0, <<>>, ops, fill, pos)
    BY <1>8 DEF IsSpread
  <2>3. parts[1] = more(1) \o <<ops[1]>>
    BY <1>3, <1>7, <2>1
  <2>4. <<>> \o (more(1) \o <<ops[1]>>) = parts[1] /\ <<>> \in Seq(X) /\ Len(<<>>) = 0
    BY <1>1, <1>2, <2>1, <2>3
  <2>5. pos[1] = 0 + Len(more(1)) + 1
    BY <1>1, <1>2, <1>8, <2>1, <2>3
  <2>6. \A i \in 0 .. 0 + 1 : pos[i] \in Nat
    BY <1>8, <2>1
  <2>7. IsSpread(0 + 1, <<>> \o (more(1) \o <<ops[1]>>), ops, fill, pos)
    BY <1>1, <1>2, <2>1, <2>2, <2>4, <2>5, <2>6, SpreadGrows
  <2> QED BY <2>1, <2>4, <2>7
<1>10. ASSUME NEW m \in Nat, m \in S PROVE m + 1 \in S
  <2> SUFFICES ASSUME (m + 1) + 1 <= n PROVE IsSpread((m + 1) + 1, parts[(m + 1) + 1], ops, fill, pos)
    OBVIOUS
  <2> DEFINE k == m + 1
  <2>1. k \in 1 .. n /\ k + 1 \in 2 .. n /\ k + 1 \in 1 .. n /\ (k + 1) - 1 = k /\ k \in Nat
    BY <1>1
  <2>2. IsSpread(k, parts[k], ops, fill, pos)
    BY <1>10, <2>1
  <2> HIDE DEF k, S
  <2>3. parts[k + 1] = parts[k] \o (more(k + 1) \o <<ops[k + 1]>>)
    <3>1. parts[k + 1] = parts[(k + 1) - 1] \o seqs[k + 1]
      BY <1>7, <2>1
    <3> QED BY <1>3, <2>1, <3>1
  <2>4. parts[k] \in Seq(X)
    BY <1>7, <2>1
  <2>5. pos[k + 1] = Len(parts[k]) + Len(more(k + 1)) + 1
    <3>1. pos[k + 1] = Len(parts[k + 1])
      BY <1>8, <2>1
    <3>2. more(k + 1) \in Seq(X) /\ ops[k + 1] \in X
      BY <1>1, <1>2, <2>1
    <3>3. \A s, t \in Seq(X), x \in X : Len(s \o (t \o <<x>>)) = Len(s) + Len(t) + 1
      OBVIOUS
    <3>4. Len(parts[k] \o (more(k + 1) \o <<ops[k + 1]>>)) = Len(parts[k]) + Len(more(k + 1)) + 1
      BY <2>4, <3>2, <3>3
    <3> QED BY <2>3, <3>1, <3>4, Zenon
  <2>6. \A i \in 0 .. k + 1 : pos[i] \in Nat
    <3>1. \A i \in 0 .. k + 1 : i \in 0 .. n
      BY <1>1, <2>1
    <3> QED BY <1>8, <3>1
  <2>7. IsSpread(k + 1, parts[k] \o (more(k + 1) \o <<ops[k + 1]>>), ops, fill, pos)
    <3>1. /\ more(k + 1) \in Seq(X)
          /\ \A l \in 1 .. Len(more(k + 1)) : more(k + 1)[l] \in fill[k + 1]
          /\ \A x \in fill[k + 1] : \E l \in 1 .. Len(more(k + 1)) : more(k + 1)[l] = x
      BY <1>2, <2>1
    <3>2. ops[k + 1] \in X
      BY <1>1, <2>1
    <3> QED BY <2>1, <2>2, <2>4, <2>5, <2>6, <3>1, <3>2, SpreadGrows
  <2> QED BY <2>3, <2>7 DEF k
<1> HIDE DEF S
<1>11. \A m \in Nat : m \in S
  BY <1>9, <1>10, Induction!SetInduction
<1>12. IsSpread(n, parts[n], ops, fill, pos) /\ parts[n] \in Seq(X)
  <2>1. n - 1 \in Nat /\ (n - 1) + 1 = n /\ n <= n /\ n \in 1 .. n
    BY <1>1
  <2>2. (n - 1) + 1 <= n => IsSpread((n - 1) + 1, parts[(n - 1) + 1], ops, fill, pos)
    BY <1>11, <2>1 DEF S
  <2> QED BY <1>7, <2>1, <2>2
<1> QED BY <1>5, <1>6, <1>8, <1>12 DEF n

\* The values of a function on a finite set are finitely many.
Image(f) == {f[x] : x \in DOMAIN f}

LEMMA ImageIsFinite ==
  ASSUME NEW f, NEW S, IsFiniteSet(S), NEW X, f \in [S -> X]
  PROVE  IsFiniteSet(Image(f))
<1>1. f \in Surjection(S, Image(f))
  BY DEF Surjection, Image
<1> QED BY <1>1, FS_Surjection
-----------------------------------------------------------------------------
Issued(o) == o.kind \in {"program", "mvm"}

Kinds == {"program", "mvm", "stage", "write", "read", "for", "end", "barrier", "copy"}
OpSet == [id : Nat, kind : Kinds, dev : Devices \cup {Host}, reads : SUBSET Nat,
          act : Nat, src : Nat]
OpOK(o) ==
  /\ Issued(o) => o.dev \in Devices
  /\ Issued(o) \/ o.kind = "stage" => FarArg < o.id
  /\ o.kind = "barrier" => o.dev \in Devices /\ o.reads = {}
  /\ IsDeviceOp(o) => Issued(o) \/ o.kind = "barrier"

\* What is so of the blocks B from the first op to the end of the run: the ops
\* that issue work have ids of their own, which grow along a block, and read
\* only what was issued before them, in their block or around it.
OpsIn(B, b) == {B[b][i] : i \in DOMAIN B[b]}
Typed(B) == B \in [Blocks -> Seq(OpSet)]
Sound(B) == \A b \in Blocks : \A o \in OpsIn(B, b) : OpOK(o) /\ (o.kind = "for" => b < Depth)
Distinct(B) ==
  \A b, c \in Blocks : \A o \in OpsIn(B, b), p \in OpsIn(B, c) :
    Issued(o) /\ p.id = o.id => Issued(p) /\ c = b
ReadsEarlier(B) ==
  \A b, c \in Blocks : \A o \in OpsIn(B, b), p \in OpsIn(B, c) :
    Issued(o) /\ Issued(p) /\ p.id \in o.reads => p.id < o.id /\ c <= b
InOrder(B) ==
  \A b \in Blocks : \A i, j \in DOMAIN B[b] :
    i < j /\ Issued(B[b][i]) /\ Issued(B[b][j]) => B[b][i].id < B[b][j].id
Lasting(B) == Typed(B) /\ Sound(B) /\ Distinct(B) /\ ReadsEarlier(B) /\ InOrder(B)

\* What is so until the passes run.
Below(B, n) == \A b \in Blocks : \A o \in OpsIn(B, b) : o.id < n
SourceOps(B) ==
  \A b \in Blocks : \A o \in OpsIn(B, b) :
    o.kind \notin {"barrier", "copy"} /\ \A r \in o.reads : r < o.id
NoEnds(B) == \A b \in Blocks : \A o \in OpsIn(B, b) : o.kind # "end"
AsBuilt(B) == Lasting(B) /\ (\E n \in Nat : Below(B, n)) /\ SourceOps(B)

\* What is so from then on.
Ended(B) ==
  \A b \in Blocks :
    /\ B[b] # <<>>
    /\ \A i \in DOMAIN B[b] : B[b][i].kind = "end" <=> i = Len(B[b])
-----------------------------------------------------------------------------
LEMMA OpsAre ==
  /\ \A b : Ops(b) = OpsIn(blocks, b)
  /\ \A o : o \in AllOps <=> \E b \in Blocks : o \in OpsIn(blocks, b)
BY DEF AllOps, Ops, OpsIn

\* A bounded set of naturals has a greatest member, and Max finds it.
LEMMA Greatest ==
  ASSUME NEW n \in Nat, NEW T \in SUBSET (0 .. n), T # {}
  PROVE  Max(T) \in T /\ \A m \in T : m <= Max(T)
<1> DEFINE D == {n - m : m \in T}
<1>1. D \in SUBSET Nat /\ D # {}
  <2>1. \A m \in T : m \in 0 .. n
    OBVIOUS
  <2>2. \A m \in T : n - m \in Nat
    BY <2>1
  <2> QED BY <2>2
<1>2. PICK d \in D : \A e \in D : d <= e
  BY <1>1, Induction!Least
<1>3. PICK x \in T : d = n - x
  OBVIOUS
<1>4. ASSUME NEW m \in T PROVE m <= x /\ x >= m
  <2>1. n - m \in D /\ m \in Int /\ x \in Int
    OBVIOUS
  <2>2. n - x <= n - m
    BY <1>2, <1>3, <2>1
  <2> QED BY <2>1, <2>2
<1>5. \E y \in T : \A m \in T : y >= m
  BY <1>4
<1>6. Max(T) \in T /\ \A m \in T : Max(T) >= m
  BY <1>5 DEF Max
<1>7. ASSUME NEW m \in T PROVE m <= Max(T)
  <2>1. \A y \in T : y \in Int
    OBVIOUS
  <2>2. Max(T) \in T /\ Max(T) >= m
    BY <1>6
  <2>3. Max(T) \in Int /\ m \in Int
    BY <2>1, <2>2
  <2> QED BY <2>2, <2>3
<1> QED BY <1>6, <1>7

\* The ops of a block are typed.
LEMMA OpFields ==
  ASSUME NEW B, Typed(B), NEW b \in Blocks
  PROVE  /\ B[b] \in Seq(OpSet) /\ Len(B[b]) \in Nat /\ DOMAIN B[b] = 1 .. Len(B[b])
         /\ \A i \in DOMAIN B[b] : B[b][i] \in OpSet /\ B[b][i] \in OpsIn(B, b)
         /\ \A o \in OpsIn(B, b) : o \in OpSet /\ \E i \in DOMAIN B[b] : o = B[b][i]
BY DEF Typed, OpsIn

LEMMA IdsAre ==
  ASSUME NEW B, Typed(B)
  PROVE  \A b \in Blocks : \A o \in OpsIn(B, b) : o.id \in Nat /\ o.reads \subseteq Nat
BY OpFields DEF OpSet

\* The next id is larger than all there are.
LEMMA FreshIsNew ==
  ASSUME Typed(blocks), NEW n \in Nat, Below(blocks, n)
  PROVE  Fresh \in Nat /\ FarArg < Fresh /\ Below(blocks, Fresh)
<1> DEFINE ids == {o.id : o \in AllOps}
           T == Args \cup ids
<1>1. \A b \in Blocks : \A o \in OpsIn(blocks, b) : o.id \in 0 .. n
  BY IdsAre DEF Below
<1>2. \A m \in ids : m \in 0 .. n
  BY <1>1, OpsAre
<1>3. T \in SUBSET (0 .. n + 2) /\ n + 2 \in Nat /\ FarArg \in T
  BY <1>2 DEF Args, NearArg, FarArg
<1>4. \A b \in Blocks : \A o \in OpsIn(blocks, b) : o.id \in T
  BY OpsAre
<1>5. Fresh = 1 + Max(T)
  BY DEF Fresh
<1> HIDE DEF T, ids
<1>6. Max(T) \in T /\ \A m \in T : m <= Max(T)
  BY <1>3, Greatest
<1>7. \A m \in T : m \in 0 .. n + 2
  BY <1>3
<1>8. \A m \in T : m \in Nat /\ m < 1 + Max(T)
  BY <1>6, <1>7
<1>9. Fresh \in Nat
  BY <1>5, <1>6, <1>8
<1>10. Below(blocks, Fresh)
  BY <1>4, <1>5, <1>8 DEF Below
<1> QED BY <1>3, <1>5, <1>8, <1>9, <1>10

\* An op is added to block c.
IsAppended(B, C, c, op) == C = [B EXCEPT ![c] = Append(@, op)]

LEMMA AppendedOps ==
  ASSUME NEW B, Typed(B), NEW C, NEW c \in Blocks, NEW op \in OpSet, IsAppended(B, C, c, op)
  PROVE  Typed(C) /\ C[c] = Append(B[c], op) /\ \A b \in Blocks : b # c => C[b] = B[b]
BY DEF IsAppended, Typed

LEMMA AppendedIn ==
  ASSUME NEW B, Typed(B), NEW C, NEW c \in Blocks, NEW op \in OpSet, IsAppended(B, C, c, op),
         NEW b \in Blocks, NEW o \in OpsIn(C, b)
  PROVE  o \in OpsIn(B, b) \/ (o = op /\ b = c)
<1>1. C[c] = Append(B[c], op) /\ (b # c => C[b] = B[b])
  BY AppendedOps
<1>2. \A s \in Seq(OpSet) : \A i \in DOMAIN Append(s, op) :
        Append(s, op)[i] = op \/ \E j \in DOMAIN s : Append(s, op)[i] = s[j]
  OBVIOUS
<1>3. B[c] \in Seq(OpSet)
  BY DEF Typed
<1>4. CASE b = c
  BY <1>1, <1>2, <1>3, <1>4 DEF OpsIn
<1>5. CASE b # c
  BY <1>1, <1>5 DEF OpsIn
<1> QED BY <1>4, <1>5

\* A new op that reads only what is before it keeps all of AsBuilt.
LEMMA AppendKeeps ==
  ASSUME NEW B, AsBuilt(B), NEW C, NEW c \in Blocks, NEW op \in OpSet, IsAppended(B, C, c, op),
         NEW n \in Nat, Below(B, n), FarArg < n,
         op.id = n, OpOK(op), op.kind \notin {"barrier", "copy"},
         op.kind = "for" => c < Depth,
         \A r \in op.reads : r < n,
         \A b \in Blocks : \A p \in OpsIn(B, b) : Issued(p) /\ p.id \in op.reads => b <= c
  PROVE  AsBuilt(C)
<1>1. Typed(B) /\ Sound(B) /\ Distinct(B) /\ ReadsEarlier(B) /\ InOrder(B) /\ SourceOps(B)
  BY DEF AsBuilt, Lasting
<1>2. \A b \in Blocks : \A o \in OpsIn(B, b) : o.id \in Nat /\ o.id < n
  BY <1>1, IdsAre DEF Below
<1>3. /\ Typed(C)
      /\ \A b \in Blocks : b # c => C[b] = B[b]
      /\ C[c] = Append(B[c], op)
  BY <1>1, AppendedOps
<1>4. ASSUME NEW b \in Blocks, NEW o \in OpsIn(C, b) PROVE o \in OpsIn(B, b) \/ (o = op /\ b = c)
  BY <1>1, AppendedIn
<1>5. Sound(C)
  BY <1>1, <1>4 DEF Sound
<1>6. Distinct(C)
  <2> SUFFICES ASSUME NEW b \in Blocks, NEW d \in Blocks, NEW o \in OpsIn(C, b), NEW p \in OpsIn(C, d),
                      Issued(o), p.id = o.id
               PROVE  Issued(p) /\ d = b
    BY DEF Distinct
  <2>1. CASE o \in OpsIn(B, b) /\ p \in OpsIn(B, d)
    BY <1>1, <2>1 DEF Distinct
  <2>2. CASE o \notin OpsIn(B, b) /\ p \notin OpsIn(B, d)
    BY <1>4, <2>2
  <2>3. CASE o \in OpsIn(B, b) /\ p \notin OpsIn(B, d)
    BY <1>2, <1>4, <2>3
  <2>4. CASE o \notin OpsIn(B, b) /\ p \in OpsIn(B, d)
    BY <1>2, <1>4, <2>4
  <2> QED BY <2>1, <2>2, <2>3, <2>4
<1>7. ReadsEarlier(C)
  <2> SUFFICES ASSUME NEW b \in Blocks, NEW d \in Blocks, NEW o \in OpsIn(C, b), NEW p \in OpsIn(C, d),
                      Issued(o), Issued(p), p.id \in o.reads
               PROVE  p.id < o.id /\ d <= b
    BY DEF ReadsEarlier
  <2>1. CASE o \in OpsIn(B, b) /\ p \in OpsIn(B, d)
    BY <1>1, <2>1 DEF ReadsEarlier
  <2>2. CASE o \in OpsIn(B, b) /\ p \notin OpsIn(B, d)
    <3>1. p.id = n /\ p.id < o.id /\ o.id < n /\ o.id \in Nat
      BY <1>1, <1>2, <1>4, <2>2 DEF SourceOps
    <3> QED BY <3>1
  <2>3. CASE o \notin OpsIn(B, b)
    <3>1. o = op /\ b = c /\ p.id < n
      BY <1>4, <2>3
    <3>2. p \in OpsIn(B, d)
      BY <1>4, <3>1
    <3> QED BY <3>1, <3>2
  <2> QED BY <2>1, <2>2, <2>3
<1>8. InOrder(C)
  <2> SUFFICES ASSUME NEW b \in Blocks, NEW i \in DOMAIN C[b], NEW j \in DOMAIN C[b],
                      i < j, Issued(C[b][i]), Issued(C[b][j])
               PROVE  C[b][i].id < C[b][j].id
    BY DEF InOrder
  <2>1. CASE b # c
    BY <1>1, <1>3, <2>1 DEF InOrder
  <2>2. CASE b = c
    <3> DEFINE s == B[c]
    <3>1. s \in Seq(OpSet) /\ \A k \in DOMAIN s : s[k] \in OpsIn(B, c)
      BY <1>1, OpFields
    <3>2. C[b] = Append(s, op)
      BY <1>3, <2>2
    <3>3. CASE j = Len(s) + 1
      <4>1. C[b][j] = op /\ i \in DOMAIN s /\ C[b][i] = s[i]
        BY <3>1, <3>2, <3>3
      <4> QED BY <1>2, <3>1, <4>1
    <3>4. CASE j # Len(s) + 1
      <4>1. i \in DOMAIN s /\ j \in DOMAIN s /\ C[b][i] = s[i] /\ C[b][j] = s[j]
        BY <3>1, <3>2, <3>4
      <4> QED BY <1>1, <4>1 DEF InOrder
    <3> QED BY <3>3, <3>4
  <2> QED BY <2>1, <2>2
<1>9. Below(C, n + 1)
  BY <1>2, <1>4 DEF Below
<1>10. SourceOps(C)
  BY <1>1, <1>4 DEF SourceOps
<1>11. n + 1 \in Nat
  OBVIOUS
<1> QED BY <1>3, <1>5, <1>6, <1>7, <1>8, <1>9, <1>10, <1>11 DEF AsBuilt, Lasting
-----------------------------------------------------------------------------
\* A block is entered, and has a cim.mvm, only if there is a loop around it.
Entered(B, c) ==
  \A b \in Blocks :
    1 < b /\ (b <= c \/ \E o \in OpsIn(B, b) : o.kind = "mvm") =>
      \E o \in OpsIn(B, b - 1) : o.kind = "for"

\* An op is added where the loops around it are.
LEMMA EnteredKept ==
  ASSUME NEW B, Typed(B), NEW C, NEW c \in Blocks, NEW op \in OpSet, IsAppended(B, C, c, op),
         Entered(B, c), NEW e, e = c \/ (op.kind = "for" /\ e = c + 1)
  PROVE  Entered(C, e)
<1> SUFFICES ASSUME NEW b \in Blocks, 1 < b, b <= e \/ \E o \in OpsIn(C, b) : o.kind = "mvm"
             PROVE  \E o \in OpsIn(C, b - 1) : o.kind = "for"
  BY DEF Entered
<1>1. b \in Nat /\ c \in Nat /\ b - 1 \in Blocks
  BY ScheduleAssumption DEF Blocks
<1>2. ASSUME NEW d \in Blocks, NEW o \in OpsIn(B, d) PROVE o \in OpsIn(C, d)
  <2>1. C[c] = Append(B[c], op) /\ (d # c => C[d] = B[d])
    BY AppendedOps
  <2>2. \A s \in Seq(OpSet) : \A i \in DOMAIN s : i \in DOMAIN Append(s, op) /\ Append(s, op)[i] = s[i]
    OBVIOUS
  <2>3. B[c] \in Seq(OpSet)
    BY DEF Typed
  <2> QED BY <2>1, <2>2, <2>3 DEF OpsIn
<1>3. CASE b <= c \/ \E o \in OpsIn(B, b) : o.kind = "mvm"
  <2>1. PICK o \in OpsIn(B, b - 1) : o.kind = "for"
    BY <1>3 DEF Entered
  <2> QED BY <1>1, <1>2, <2>1
<1>4. CASE ~ (b <= c \/ \E o \in OpsIn(B, b) : o.kind = "mvm")
  <2>1. b = c + 1 /\ op.kind = "for"
    <3>1. CASE b <= e
      BY <1>1, <1>4, <3>1
    <3>2. CASE \E o \in OpsIn(C, b) : o.kind = "mvm"
      <4>1. PICK o \in OpsIn(C, b) : o.kind = "mvm"
        BY <3>2
      <4>2. o \in OpsIn(B, b) \/ (o = op /\ b = c)
        BY AppendedIn
      <4> QED BY <1>1, <1>4, <4>1, <4>2
    <3> QED BY <3>1, <3>2
  <2>2. C[c] = Append(B[c], op) /\ B[c] \in Seq(OpSet)
    BY AppendedOps DEF Typed
  <2>3. \A s \in Seq(OpSet) : Len(s) + 1 \in DOMAIN Append(s, op) /\ Append(s, op)[Len(s) + 1] = op
    OBVIOUS
  <2>4. op \in OpsIn(C, c) /\ b - 1 = c
    BY <1>1, <2>1, <2>2, <2>3 DEF OpsIn
  <2> QED BY <2>1, <2>4
<1> QED BY <1>3, <1>4

\* Everything an op may read when it is built was issued before it.
LEMMA BuildKeeps ==
  ASSUME cursor \in Blocks, AsBuilt(blocks), NoEnds(blocks), Entered(blocks, cursor),
         NEW kind \in Kinds \ {"barrier", "copy", "end"}, NEW dev \in Devices \cup {Host},
         NEW reads \in SUBSET Nat, NEW act \in Nat,
         kind \in {"program", "mvm"} <=> dev \in Devices,
         kind = "for" => cursor < Depth,
         \A r \in reads : Visible(r),
         Append1(Op(kind, dev, reads, act)),
         cursor' = cursor \/ (kind = "for" /\ cursor' = cursor + 1)
  PROVE  AsBuilt(blocks') /\ NoEnds(blocks') /\ Entered(blocks', cursor')
<1> DEFINE op == Op(kind, dev, reads, act)
<1>0. \A c \in Enclosing(cursor) : c \in Blocks /\ c <= cursor
  BY ScheduleAssumption DEF Blocks, Enclosing
<1>1. Typed(blocks) /\ Sound(blocks) /\ Distinct(blocks)
  BY DEF AsBuilt, Lasting
<1>2. PICK n \in Nat : Below(blocks, n)
  BY DEF AsBuilt
<1>3. Fresh \in Nat /\ FarArg < Fresh /\ Below(blocks, Fresh)
  BY <1>1, <1>2, FreshIsNew
<1>4. op \in OpSet /\ op.id = Fresh /\ op.kind = kind /\ op.dev = dev /\ op.reads = reads
  BY <1>3 DEF Op, OpSet
<1>5. OpOK(op)
  BY <1>3, <1>4, ScheduleAssumption DEF OpOK, Issued, IsDeviceOp
<1> HIDE DEF op
<1>6. IsAppended(blocks, blocks', cursor, op)
  BY DEF IsAppended, Append1, op
<1>7. ASSUME NEW r \in reads PROVE r < Fresh
  <2>1. CASE r \in Args
    BY <1>3, <2>1 DEF Args, NearArg, FarArg
  <2>2. CASE r \notin Args
    <3>1. PICK c \in Enclosing(cursor) : \E o \in OpsIn(blocks, c) : o.id = r
      BY <2>2 DEF Visible, DefinedIn, Ops, OpsIn
    <3>2. c \in Blocks
      BY <1>0, <3>1
    <3> QED BY <1>3, <3>1, <3>2 DEF Below
  <2> QED BY <2>1, <2>2
<1>8. ASSUME NEW b \in Blocks, NEW p \in OpsIn(blocks, b), Issued(p), p.id \in reads
      PROVE  b <= cursor
  <2>1. FarArg < p.id /\ p.id \in Nat
    BY <1>1, <1>8, IdsAre DEF Sound, OpOK
  <2>2. PICK c \in Enclosing(cursor) : \E o \in OpsIn(blocks, c) : o.id = p.id
    BY <1>8, <2>1 DEF Visible, Args, NearArg, FarArg, DefinedIn, Ops, OpsIn
  <2>3. c \in Blocks /\ c <= cursor
    BY <1>0, <2>2
  <2>4. c = b
    BY <1>1, <1>8, <2>2, <2>3 DEF Distinct
  <2> QED BY <2>3, <2>4
<1>9. AsBuilt(blocks')
  BY <1>3, <1>4, <1>5, <1>6, <1>7, <1>8, AppendKeeps
<1>10. NoEnds(blocks')
  <2> SUFFICES ASSUME NEW b \in Blocks, NEW o \in OpsIn(blocks', b) PROVE o.kind # "end"
    BY DEF NoEnds
  <2>1. o \in OpsIn(blocks, b) \/ (o = op /\ b = cursor)
    BY <1>1, <1>4, <1>6, AppendedIn
  <2> QED BY <1>4, <2>1 DEF NoEnds
<1>11. Entered(blocks', cursor')
  BY <1>1, <1>4, <1>6, EnteredKept
<1> QED BY <1>9, <1>10, <1>11

Built == cursor \in Blocks /\ AsBuilt(blocks) /\ NoEnds(blocks) /\ Entered(blocks, cursor)

\* Values are numbers of ops or of arguments.
LEMMA ValuesAre ==
  ASSUME Typed(blocks)
  PROVE  /\ \A v \in Buffers : v \in Nat
         /\ \A o \in AllOps : o \in OpSet
<1>1. \A o \in AllOps : o \in OpSet
  BY OpsAre, OpFields
<1>2. \A v \in Buffers : v \in Args \/ \E o \in AllOps : v = o.id
  BY DEF Buffers, Results
<1> QED BY <1>1, <1>2 DEF OpSet, Args, NearArg, FarArg

\* Every step that builds but the last.
LEMMA BuildStep ==
  ASSUME Built, Build, ~ Return
  PROVE  Built' /\ phase = "build" /\ UNCHANGED <<phase, pc, queue>>
<1> USE DEF Kinds
<1>1. Typed(blocks) /\ Host \notin Devices /\ Depth \in Nat
  BY ScheduleAssumption DEF Built, AsBuilt, Lasting
<1>2. ASSUME NEW d \in Devices, Program(d) PROVE Built' /\ phase = "build" /\ UNCHANGED <<phase, pc, queue>>
  <2>1. Append1(Op("program", d, {}, 0)) /\ cursor' = cursor /\ phase = "build" /\ UNCHANGED <<phase, pc, queue>>
    BY <1>2 DEF Program, Room, BuildOnly
  <2>2. AsBuilt(blocks') /\ NoEnds(blocks') /\ Entered(blocks', cursor')
    BY <2>1, BuildKeeps DEF Built
  <2> QED BY <2>1, <2>2 DEF Built, Blocks
<1>3. CASE Mvm
  <2>1. cursor' = cursor /\ phase = "build" /\ UNCHANGED <<phase, pc, queue>>
    BY <1>3 DEF Mvm, Room, BuildOnly
  <2>2. PICK p \in AllOps, v \in Buffers :
          p.kind = "program" /\ Visible(p.id) /\ Visible(v) /\ Append1(Op("mvm", p.dev, {p.id, v}, v))
    BY <1>3 DEF Mvm
  <2>3. v \in Nat /\ p \in OpSet /\ p.id \in Nat
    BY <1>1, ValuesAre DEF OpSet
  <2>4. p.dev \in Devices
    BY <2>2, OpsAre DEF Built, AsBuilt, Lasting, Sound, OpOK, Issued
  <2>5. {p.id, v} \in SUBSET Nat /\ \A r \in {p.id, v} : Visible(r)
    BY <2>2, <2>3
  <2>6. AsBuilt(blocks') /\ NoEnds(blocks') /\ Entered(blocks', cursor')
    BY <2>1, <2>2, <2>3, <2>4, <2>5, BuildKeeps DEF Built
  <2> QED BY <2>1, <2>6 DEF Built, Blocks
<1>4. CASE Stage
  <2>1. Append1(Op("stage", Host, {}, 0)) /\ cursor' = cursor /\ phase = "build" /\ UNCHANGED <<phase, pc, queue>>
    BY <1>4 DEF Stage, Room, BuildOnly
  <2>2. AsBuilt(blocks') /\ NoEnds(blocks') /\ Entered(blocks', cursor')
    BY <1>1, <2>1, BuildKeeps DEF Built
  <2> QED BY <2>1, <2>2 DEF Built, Blocks
<1>5. CASE Write
  <2>1. cursor' = cursor /\ phase = "build" /\ UNCHANGED <<phase, pc, queue>>
    BY <1>5 DEF Write, Room, BuildOnly
  <2>2. PICK v \in Args \cup Results("stage") : Visible(v) /\ Append1(Op("write", Host, {v}, v))
    BY <1>5 DEF Write
  <2>3. v \in Nat
    BY <1>1, ValuesAre DEF Buffers
  <2>4. {v} \in SUBSET Nat /\ \A r \in {v} : Visible(r)
    BY <2>2, <2>3
  <2>5. AsBuilt(blocks') /\ NoEnds(blocks') /\ Entered(blocks', cursor')
    BY <2>1, <1>1, <2>2, <2>3, <2>4, BuildKeeps DEF Built
  <2> QED BY <2>1, <2>5 DEF Built, Blocks
<1>6. CASE Read
  <2>1. cursor' = cursor /\ phase = "build" /\ UNCHANGED <<phase, pc, queue>>
    BY <1>6 DEF Read, Room, BuildOnly
  <2>2. PICK v \in Results("mvm") : Visible(v) /\ Append1(Op("read", Host, {v}, 0))
    BY <1>6 DEF Read
  <2>3. v \in Nat
    BY <1>1, ValuesAre DEF Buffers
  <2>4. {v} \in SUBSET Nat /\ \A r \in {v} : Visible(r)
    BY <2>2, <2>3
  <2>5. AsBuilt(blocks') /\ NoEnds(blocks') /\ Entered(blocks', cursor')
    BY <2>1, <1>1, <2>2, <2>3, <2>4, BuildKeeps DEF Built
  <2> QED BY <2>1, <2>5 DEF Built, Blocks
<1>7. CASE EnterLoop
  <2>1. /\ Append1(Op("for", Host, {}, 0)) /\ cursor < Depth /\ cursor' = cursor + 1
        /\ phase = "build" /\ UNCHANGED <<phase, pc, queue>>
    BY <1>7 DEF EnterLoop, BuildOnly
  <2>2. AsBuilt(blocks') /\ NoEnds(blocks') /\ Entered(blocks', cursor')
    BY <1>1, <2>1, BuildKeeps DEF Built
  <2> QED BY <1>1, <2>1, <2>2 DEF Built, Blocks
<1>8. CASE LeaveLoop
  <2>1. blocks' = blocks /\ cursor > 1 /\ cursor' = cursor - 1 /\ phase = "build" /\ UNCHANGED <<phase, pc, queue>>
    BY <1>8 DEF LeaveLoop, BuildOnly
  <2>2. \A b \in Blocks : b <= cursor - 1 => b <= cursor
    BY <1>1 DEF Built, Blocks
  <2>3. Entered(blocks', cursor')
    BY <2>1, <2>2 DEF Built, Entered
  <2> QED BY <1>1, <2>1, <2>3 DEF Built, Blocks
<1> QED BY <1>2, <1>3, <1>4, <1>5, <1>6, <1>7, <1>8 DEF Build

\* func.return and scf.yield come last and only there.
LEMMA ReturnStep ==
  ASSUME Built, Return
  PROVE  /\ cursor' \in Blocks /\ AsBuilt(blocks') /\ Ended(blocks') /\ Entered(blocks', 0)
         /\ phase = "build" /\ phase' = "schedule" /\ UNCHANGED <<pc, queue>>
<1> DEFINE end == Mark("end", Host)
           B == blocks
           C == blocks'
<1>1. /\ Typed(B) /\ Sound(B) /\ Distinct(B) /\ ReadsEarlier(B) /\ InOrder(B)
      /\ SourceOps(B) /\ NoEnds(B)
  BY DEF Built, AsBuilt, Lasting
<1>2. /\ C = [b \in Blocks |-> Append(B[b], end)]
      /\ phase = "build" /\ phase' = "schedule" /\ UNCHANGED <<pc, queue>> /\ cursor' \in Blocks
  BY DEF Return, Built, Blocks
<1>3. /\ end \in OpSet /\ end.kind = "end" /\ ~ Issued(end) /\ OpOK(end)
      /\ end.reads = {} /\ end.id = 0
  BY DEF Mark, OpSet, Kinds, Issued, OpOK, IsDeviceOp
<1> HIDE DEF end
<1>4. ASSUME NEW s \in Seq(OpSet), NEW t, t = Append(s, end)
      PROVE  /\ t \in Seq(OpSet) /\ t # <<>> /\ t[Len(t)] = end
             /\ \A i \in DOMAIN t : i # Len(t) => i \in DOMAIN s /\ t[i] = s[i]
  BY <1>3, <1>4
<1>5. \A b \in Blocks : B[b] \in Seq(OpSet) /\ C[b] = Append(B[b], end)
  BY <1>1, <1>2 DEF Typed
<1>6. ASSUME NEW b \in Blocks
      PROVE  /\ C[b] # <<>> /\ C[b] \in Seq(OpSet) /\ C[b][Len(C[b])] = end
             /\ \A i \in DOMAIN C[b] : i # Len(C[b]) => i \in DOMAIN B[b] /\ C[b][i] = B[b][i]
  BY <1>4, <1>5
<1>7. Typed(C)
  BY <1>2, <1>6 DEF Typed
<1>8. \A b \in Blocks : \A o \in OpsIn(C, b) : o \in OpsIn(B, b) \/ o = end
  BY <1>6 DEF OpsIn
<1>9. Ended(C)
  BY <1>1, <1>3, <1>6 DEF Ended, NoEnds, OpsIn
<1>10. Sound(C)
  BY <1>1, <1>3, <1>8 DEF Sound
<1>11. Distinct(C)
  <2> SUFFICES ASSUME NEW b \in Blocks, NEW d \in Blocks, NEW o \in OpsIn(C, b), NEW p \in OpsIn(C, d),
                      Issued(o), p.id = o.id
               PROVE  Issued(p) /\ d = b
    BY DEF Distinct
  <2>1. o \in OpsIn(B, b) /\ FarArg < o.id
    BY <1>1, <1>3, <1>8 DEF Sound, OpOK
  <2>2. p \in OpsIn(B, d)
    BY <1>3, <1>8, <2>1 DEF FarArg
  <2> QED BY <1>1, <2>1, <2>2 DEF Distinct
<1>12. ReadsEarlier(C)
  BY <1>1, <1>3, <1>8 DEF ReadsEarlier
<1>13. InOrder(C)
  <2> SUFFICES ASSUME NEW b \in Blocks, NEW i \in DOMAIN C[b], NEW j \in DOMAIN C[b],
                      i < j, Issued(C[b][i]), Issued(C[b][j])
               PROVE  C[b][i].id < C[b][j].id
    BY DEF InOrder
  <2>1. i \in DOMAIN B[b] /\ C[b][i] = B[b][i] /\ j \in DOMAIN B[b] /\ C[b][j] = B[b][j]
    BY <1>3, <1>6
  <2> QED BY <1>1, <2>1 DEF InOrder
<1>14. \E n \in Nat : Below(C, n)
  <2>1. PICK n \in Nat : Below(B, n)
    BY DEF Built, AsBuilt
  <2>2. \A b \in Blocks : \A o \in OpsIn(B, b) : o.id \in Nat
    BY <1>1, IdsAre
  <2>3. Below(C, n + 1) /\ n + 1 \in Nat
    BY <1>3, <1>8, <2>1, <2>2 DEF Below
  <2> QED BY <2>3
<1>15. SourceOps(C)
  BY <1>1, <1>3, <1>8 DEF SourceOps
<1>16. Entered(C, 0)
  <2> SUFFICES ASSUME NEW b \in Blocks, 1 < b, b <= 0 \/ \E o \in OpsIn(C, b) : o.kind = "mvm"
               PROVE  \E o \in OpsIn(C, b - 1) : o.kind = "for"
    BY DEF Entered
  <2>1. \E o \in OpsIn(B, b) : o.kind = "mvm"
    BY <1>3, <1>8 DEF Blocks
  <2>2. PICK o \in OpsIn(B, b - 1) : o.kind = "for"
    BY <2>1 DEF Built, Entered
  <2>3. b - 1 \in Blocks
    BY ScheduleAssumption DEF Blocks
  <2>4. \A s \in Seq(OpSet) : \A i \in DOMAIN s : i \in DOMAIN Append(s, end) /\ Append(s, end)[i] = s[i]
    BY <1>3
  <2>5. o \in OpsIn(C, b - 1)
    BY <1>5, <2>2, <2>3, <2>4 DEF OpsIn
  <2> QED BY <2>2, <2>5
<1> QED BY <1>2, <1>7, <1>9, <1>10, <1>11, <1>12, <1>13, <1>14, <1>15, <1>16 DEF AsBuilt, Lasting
-----------------------------------------------------------------------------
\* What a pass puts between the ops, and how it may change an op: nothing that
\* concerns the work of the devices.
Filler(x, B) ==
  /\ x \in OpSet /\ OpOK(x) /\ x.kind \in {"barrier", "copy"}
  /\ \A b \in Blocks : \A o \in OpsIn(B, b) : Issued(o) => o.id # x.id /\ o.id \notin x.reads
Like(o, x, B) ==
  /\ x \in OpSet /\ OpOK(x) /\ x.id = o.id /\ x.kind = o.kind /\ x.dev = o.dev
  /\ \A b \in Blocks : \A p \in OpsIn(B, b) : Issued(p) /\ p.id \in x.reads => p.id \in o.reads

\* t is s with fillers; pos[i] is where the i-th op went.
Expands(s, t, pos, B) ==
  /\ pos \in [DOMAIN s -> DOMAIN t] /\ pos[Len(s)] = Len(t)
  /\ \A i, j \in DOMAIN s : i < j => pos[i] < pos[j]
  /\ \A i \in DOMAIN s : Like(s[i], t[pos[i]], B)
  /\ \A p \in DOMAIN t : Filler(t[p], B) \/ \E i \in DOMAIN s : p = pos[i]
Expansion(B, C) == Typed(C) /\ \A b \in Blocks : \E pos : Expands(B[b], C[b], pos, B)

\* An op of an expanded block is a filler or like one that was there.
LEMMA ExpansionOps ==
  ASSUME NEW B, Typed(B), NEW C, Expansion(B, C), NEW b \in Blocks, NEW x \in OpsIn(C, b)
  PROVE  Filler(x, B) \/ \E o \in OpsIn(B, b) : Like(o, x, B)
<1>1. PICK pos : Expands(B[b], C[b], pos, B)
  BY DEF Expansion
<1>2. PICK p \in DOMAIN C[b] : x = C[b][p]
  BY DEF OpsIn
<1>3. Filler(x, B) \/ \E i \in DOMAIN B[b] : Like(B[b][i], x, B)
  BY <1>1, <1>2 DEF Expands
<1>4. \A i \in DOMAIN B[b] : B[b][i] \in OpsIn(B, b)
  BY DEF OpsIn
<1> QED BY <1>3, <1>4

\* An op that issues work is no filler.
LEMMA IssuedIsOld ==
  ASSUME NEW B, Typed(B), NEW C, Expansion(B, C), NEW b \in Blocks, NEW x \in OpsIn(C, b), Issued(x)
  PROVE  \E o \in OpsIn(B, b) : Like(o, x, B) /\ Issued(o)
<1>1. ~ Filler(x, B)
  BY DEF Filler, Issued
<1>2. PICK o \in OpsIn(B, b) : Like(o, x, B)
  BY <1>1, ExpansionOps
<1>3. Issued(o)
  BY <1>2 DEF Like, Issued
<1> QED BY <1>2, <1>3

LEMMA EnteredExpanded ==
  ASSUME NEW B, Typed(B), Entered(B, 0), NEW C, Expansion(B, C)
  PROVE  Entered(C, 0)
<1> SUFFICES ASSUME NEW b \in Blocks, 1 < b, b <= 0 \/ \E o \in OpsIn(C, b) : o.kind = "mvm"
             PROVE  \E o \in OpsIn(C, b - 1) : o.kind = "for"
  BY DEF Entered
<1>1. PICK x \in OpsIn(C, b) : x.kind = "mvm"
  BY DEF Blocks
<1>2. PICK o \in OpsIn(B, b) : Like(o, x, B)
  BY <1>1, IssuedIsOld DEF Issued
<1>3. o.kind = "mvm"
  BY <1>1, <1>2 DEF Like
<1>4. PICK f \in OpsIn(B, b - 1) : f.kind = "for"
  BY <1>3 DEF Entered
<1>5. b - 1 \in Blocks
  BY ScheduleAssumption DEF Blocks
<1>6. PICK pos : Expands(B[b - 1], C[b - 1], pos, B)
  BY <1>5 DEF Expansion
<1>7. PICK i \in DOMAIN B[b - 1] : f = B[b - 1][i]
  BY <1>4 DEF OpsIn
<1>8. pos[i] \in DOMAIN C[b - 1] /\ Like(f, C[b - 1][pos[i]], B)
  BY <1>6, <1>7 DEF Expands
<1> QED BY <1>4, <1>8 DEF OpsIn, Like

\* What lasts is kept by a pass that only puts in fillers.
LEMMA ExpansionKeeps ==
  ASSUME NEW B, Lasting(B), Ended(B), NEW C, Expansion(B, C)
  PROVE  Lasting(C) /\ Ended(C)
<1>1. Typed(B) /\ Sound(B) /\ Distinct(B) /\ ReadsEarlier(B) /\ InOrder(B)
  BY DEF Lasting
<1>2. Typed(C)
  BY DEF Expansion
<1>3. Sound(C)
  <2> SUFFICES ASSUME NEW b \in Blocks, NEW x \in OpsIn(C, b)
               PROVE  OpOK(x) /\ (x.kind = "for" => b < Depth)
    BY DEF Sound
  <2>1. Filler(x, B) \/ \E o \in OpsIn(B, b) : Like(o, x, B)
    BY <1>1, ExpansionOps
  <2> QED BY <1>1, <2>1 DEF Sound, Filler, Like
<1>4. Distinct(C)
  <2> SUFFICES ASSUME NEW b \in Blocks, NEW d \in Blocks, NEW x \in OpsIn(C, b), NEW y \in OpsIn(C, d),
                      Issued(x), y.id = x.id
               PROVE  Issued(y) /\ d = b
    BY DEF Distinct
  <2>1. PICK o \in OpsIn(B, b) : Like(o, x, B) /\ Issued(o)
    BY <1>1, IssuedIsOld
  <2>2. Filler(y, B) \/ \E q \in OpsIn(B, d) : Like(q, y, B)
    BY <1>1, ExpansionOps
  <2>3. ~ Filler(y, B)
    BY <2>1 DEF Filler, Like
  <2>4. PICK q \in OpsIn(B, d) : Like(q, y, B)
    BY <2>2, <2>3
  <2>5. q.id = o.id
    BY <2>1, <2>4 DEF Like
  <2>6. Issued(q) /\ d = b
    BY <1>1, <2>1, <2>5 DEF Distinct
  <2> QED BY <2>4, <2>6 DEF Like, Issued
<1>5. ReadsEarlier(C)
  <2> SUFFICES ASSUME NEW b \in Blocks, NEW d \in Blocks, NEW x \in OpsIn(C, b), NEW y \in OpsIn(C, d),
                      Issued(x), Issued(y), y.id \in x.reads
               PROVE  y.id < x.id /\ d <= b
    BY DEF ReadsEarlier
  <2>1. PICK o \in OpsIn(B, b) : Like(o, x, B) /\ Issued(o)
    BY <1>1, IssuedIsOld
  <2>2. PICK q \in OpsIn(B, d) : Like(q, y, B) /\ Issued(q)
    BY <1>1, IssuedIsOld
  <2>3. q.id \in o.reads
    BY <2>1, <2>2 DEF Like
  <2>4. q.id < o.id /\ d <= b
    BY <1>1, <2>1, <2>2, <2>3 DEF ReadsEarlier
  <2> QED BY <2>1, <2>2, <2>4 DEF Like
<1>6. ASSUME NEW b \in Blocks
      PROVE  /\ C[b] # <<>> /\ \A i \in DOMAIN C[b] : C[b][i].kind = "end" <=> i = Len(C[b])
             /\ \A i, j \in DOMAIN C[b] :
                  i < j /\ Issued(C[b][i]) /\ Issued(C[b][j]) => C[b][i].id < C[b][j].id
  <2> DEFINE s == B[b]
             t == C[b]
  <2>1. PICK pos : Expands(s, t, pos, B)
    BY DEF Expansion
  <2>2. /\ s \in Seq(OpSet) /\ t \in Seq(OpSet) /\ s # <<>>
        /\ \A i \in DOMAIN s : s[i].kind = "end" <=> i = Len(s)
        /\ \A i, j \in DOMAIN s : i < j /\ Issued(s[i]) /\ Issued(s[j]) => s[i].id < s[j].id
    BY <1>1, <1>2 DEF Typed, Ended, InOrder
  <2> HIDE DEF s, t
  <2>3. /\ pos \in [DOMAIN s -> DOMAIN t] /\ pos[Len(s)] = Len(t)
        /\ \A i, j \in DOMAIN s : i < j => pos[i] < pos[j]
        /\ \A i \in DOMAIN s : Like(s[i], t[pos[i]], B)
        /\ \A p \in DOMAIN t : Filler(t[p], B) \/ \E i \in DOMAIN s : p = pos[i]
    BY <2>1 DEF Expands
  <2>4. Len(s) \in DOMAIN s /\ \A i \in DOMAIN s : i # Len(s) => i < Len(s)
    BY <2>2
  <2>5. t # <<>>
    BY <2>2, <2>3, <2>4
  <2>6. ASSUME NEW p \in DOMAIN t PROVE t[p].kind = "end" <=> p = Len(t)
    <3>1. CASE \E i \in DOMAIN s : p = pos[i]
      <4>1. PICK i \in DOMAIN s : p = pos[i]
        BY <3>1
      <4>2. t[p].kind = s[i].kind
        BY <2>3, <4>1 DEF Like
      <4>3. i # Len(s) => pos[i] < pos[Len(s)]
        BY <2>3, <2>4
      <4>4. pos[i] \in Nat /\ pos[Len(s)] \in Nat
        BY <2>2, <2>3, <2>4
      <4> QED BY <2>2, <2>3, <4>1, <4>2, <4>3, <4>4
    <3>2. CASE ~ \E i \in DOMAIN s : p = pos[i]
      <4>1. Filler(t[p], B) /\ p # Len(t)
        BY <2>3, <2>4, <3>2
      <4> QED BY <4>1 DEF Filler
    <3> QED BY <3>1, <3>2
  <2>7. ASSUME NEW p \in DOMAIN t, NEW q \in DOMAIN t, p < q, Issued(t[p]), Issued(t[q])
        PROVE  t[p].id < t[q].id
    <3>1. ~ Filler(t[p], B) /\ ~ Filler(t[q], B)
      BY <2>7 DEF Filler, Issued
    <3>2. PICK i \in DOMAIN s : p = pos[i]
      BY <2>3, <3>1
    <3>3. PICK j \in DOMAIN s : q = pos[j]
      BY <2>3, <3>1
    <3>4. Like(s[i], t[p], B) /\ Like(s[j], t[q], B)
      BY <2>3, <3>2, <3>3
    <3>5. Issued(s[i]) /\ Issued(s[j]) /\ t[p].id = s[i].id /\ t[q].id = s[j].id
      BY <2>7, <3>4 DEF Like, Issued
    <3>6. i < j
      <4>1. i \in Nat /\ j \in Nat /\ p \in Nat /\ q \in Nat
        BY <2>2
      <4>2. j < i => q < p
        BY <2>3, <3>2, <3>3
      <4>3. i = j => p = q
        BY <3>2, <3>3
      <4> QED BY <2>7, <4>1, <4>2, <4>3
    <3> QED BY <2>2, <3>5, <3>6
  <2> QED BY <2>5, <2>6, <2>7 DEF t
<1>7. Ended(C) /\ InOrder(C)
  BY <1>6 DEF Ended, InOrder
<1> QED BY <1>2, <1>3, <1>4, <1>5, <1>7 DEF Lasting
-----------------------------------------------------------------------------
\* The j-th op of s issued work, and no barrier before the i-th waits for it.
IsOpen(s, j, i) ==
  /\ j < i /\ Issued(s[j])
  /\ \A m \in DOMAIN s : j < m /\ m < i => ~ (s[m].kind = "barrier" /\ s[m].dev = s[j].dev)

\* The ops an op stands for when the host is at it: itself, and its regions.
Region(B, b, o) ==
  {o} \cup (IF o.kind = "for" THEN UNION {OpsIn(B, a) : a \in Within(b + 1)} ELSE {})
NotRead(B, b, op, v) == \A x \in Region(B, b, op) : v \notin x.reads

\* Before a block ends, and before an op that reads what another device's open
\* work defines, itself or in its regions, there is a barrier.
Flushed(B) ==
  \A b \in Blocks : \A i, j \in DOMAIN B[b] :
    IsOpen(B[b], j, i) =>
      /\ B[b][i].kind # "end"
      /\ B[b][i].dev # B[b][j].dev => NotRead(B, b, B[b][i], B[b][j].id)

\* Neither does a pass make an op read more of the devices' work.
LEMMA NotReadKept ==
  ASSUME NEW B, Typed(B), NEW C, Expansion(B, C), NEW b \in Blocks,
         NEW op, NEW x, Like(op, x, B),
         NEW c \in Blocks, NEW o \in OpsIn(B, c), Issued(o), NotRead(B, b, op, o.id)
  PROVE  NotRead(C, b, x, o.id)
<1> SUFFICES ASSUME NEW y \in Region(C, b, x), o.id \in y.reads
             PROVE  FALSE
  BY DEF NotRead
<1>1. CASE y = x
  <2>1. o.id \in op.reads
    BY <1>1 DEF Like
  <2> QED BY <2>1 DEF NotRead, Region
<1>2. CASE y # x
  <2>1. PICK a \in Within(b + 1) : y \in OpsIn(C, a)
    BY <1>2 DEF Region
  <2>2. a \in Blocks /\ op.kind = "for"
    <3>1. op.kind = "for"
      BY <1>2 DEF Region, Like
    <3> QED BY <3>1, ScheduleAssumption DEF Within, Blocks
  <2>3. ~ Filler(y, B)
    BY DEF Filler
  <2>4. PICK z \in OpsIn(B, a) : Like(z, y, B)
    BY <2>1, <2>2, <2>3, ExpansionOps
  <2>5. o.id \in z.reads
    BY <2>4 DEF Like
  <2> QED BY <2>1, <2>2, <2>4, <2>5 DEF NotRead, Region
<1> QED BY <1>1, <1>2

\* What is read by nothing that a pass puts in.
LEMMA FillerReads ==
  ASSUME NEW B, NEW C, NEW b \in Blocks, NEW x, Filler(x, B),
         NEW c \in Blocks, NEW o \in OpsIn(B, c), Issued(o)
  PROVE  x.kind # "end" /\ NotRead(C, b, x, o.id)
BY DEF Filler, NotRead, Region

\* Nor does it take a barrier away.
LEMMA FlushedKept ==
  ASSUME NEW B, Lasting(B), Flushed(B), NEW C, Expansion(B, C)
  PROVE  Flushed(C)
<1>1. Typed(B) /\ Typed(C)
  BY DEF Lasting, Expansion
<1> SUFFICES ASSUME NEW b \in Blocks, NEW p \in DOMAIN C[b], NEW q \in DOMAIN C[b], IsOpen(C[b], p, q)
             PROVE  /\ C[b][q].kind # "end"
                    /\ C[b][q].dev # C[b][p].dev => NotRead(C, b, C[b][q], C[b][p].id)
  BY DEF Flushed
<1> DEFINE s == B[b]
           t == C[b]
<1>2. PICK pos : Expands(s, t, pos, B)
  BY DEF Expansion
<1>3. /\ s \in Seq(OpSet) /\ t \in Seq(OpSet) /\ p \in DOMAIN t /\ q \in DOMAIN t /\ IsOpen(t, p, q)
      /\ \A i \in DOMAIN s : s[i] \in OpsIn(B, b)
  BY <1>1 DEF Typed, OpsIn
<1>4. /\ pos \in [DOMAIN s -> DOMAIN t]
      /\ \A i, j \in DOMAIN s : i < j => pos[i] < pos[j]
      /\ \A i \in DOMAIN s : Like(s[i], t[pos[i]], B)
      /\ \A m \in DOMAIN t : Filler(t[m], B) \/ \E i \in DOMAIN s : m = pos[i]
  BY <1>2 DEF Expands
<1>6. ~ Filler(t[p], B)
  BY <1>3 DEF Filler, IsOpen, Issued
<1>7. PICK j \in DOMAIN s : p = pos[j]
  BY <1>3, <1>4, <1>6
<1>8. Like(s[j], t[p], B) /\ Issued(s[j]) /\ t[p].id = s[j].id /\ t[p].dev = s[j].dev
  BY <1>3, <1>4, <1>7 DEF Like, IsOpen, Issued
<1>9. CASE Filler(t[q], B)
  <2>1. t[q].kind # "end" /\ NotRead(C, b, t[q], s[j].id)
    BY <1>3, <1>8, <1>9, FillerReads
  <2> QED BY <1>8, <2>1
<1>10. CASE ~ Filler(t[q], B)
  <2>1. PICK i \in DOMAIN s : q = pos[i]
    BY <1>3, <1>4, <1>10
  <2>2. Like(s[i], t[q], B) /\ t[q].kind = s[i].kind /\ t[q].dev = s[i].dev
    BY <1>4, <2>1 DEF Like
  <2>3. j < i
    <3>1. i \in Nat /\ j \in Nat /\ p \in Nat /\ q \in Nat /\ p < q
      BY <1>3 DEF IsOpen
    <3>2. i < j => q < p
      BY <1>4, <1>7, <2>1
    <3> QED BY <1>7, <2>1, <3>1, <3>2
  <2>4. IsOpen(s, j, i)
    <3> SUFFICES ASSUME NEW m \in DOMAIN s, j < m, m < i, s[m].kind = "barrier", s[m].dev = s[j].dev
                 PROVE  FALSE
      BY <1>8, <2>3 DEF IsOpen
    <3>1. p < pos[m] /\ pos[m] < q /\ pos[m] \in DOMAIN t
      BY <1>4, <1>7, <2>1
    <3>2. t[pos[m]].kind = "barrier" /\ t[pos[m]].dev = t[p].dev
      BY <1>4, <1>8 DEF Like
    <3> QED BY <1>3, <3>1, <3>2 DEF IsOpen
  <2>5. s[i].kind # "end" /\ (s[i].dev # s[j].dev => NotRead(B, b, s[i], s[j].id))
    BY <2>4 DEF Flushed
  <2>6. s[i].dev # s[j].dev => NotRead(C, b, t[q], s[j].id)
    BY <1>1, <1>3, <1>8, <2>2, <2>5, NotReadKept
  <2> QED BY <1>8, <2>2, <2>5, <2>6
<1> QED BY <1>9, <1>10
-----------------------------------------------------------------------------
\* What spreading makes of a block.
LEMMA SpreadExpands ==
  ASSUME NEW B, NEW s \in Seq(OpSet), s # <<>>, NEW like \in Seq(OpSet), Len(like) = Len(s),
         NEW t \in Seq(OpSet), NEW fill, NEW pos \in [0 .. Len(s) -> Nat],
         IsSpread(Len(s), t, like, fill, pos),
         \A i \in DOMAIN s : Like(s[i], like[i], B) /\ \A x \in fill[i] : Filler(x, B),
         NEW at, at = [i \in DOMAIN s |-> pos[i]]
  PROVE  Expands(s, t, at, B)
<1> DEFINE n == Len(s)
<1>1. n \in Nat \ {0} /\ DOMAIN s = 1 .. n /\ DOMAIN t = 1 .. Len(t) /\ Len(t) \in Nat
  OBVIOUS
<1>2. /\ pos[0] = 0 /\ pos[n] = Len(t)
      /\ \A i, j \in 0 .. n : i < j => pos[i] < pos[j]
      /\ \A i \in 1 .. n : t[pos[i]] = like[i]
      /\ \A p \in 1 .. Len(t) : \E i \in 1 .. n :
           pos[i - 1] < p /\ p <= pos[i] /\ (p # pos[i] => t[p] \in fill[i])
  BY DEF IsSpread
<1>3. ASSUME NEW i \in 1 .. n PROVE pos[i] \in 1 .. Len(t)
  <2>1. 0 \in 0 .. n /\ i \in 0 .. n /\ n \in 0 .. n /\ 0 < i /\ (i < n \/ i = n)
    BY <1>1
  <2>2. pos[i] \in Nat /\ pos[0] < pos[i] /\ (i < n => pos[i] < pos[n])
    BY <1>2, <2>1
  <2> QED BY <1>1, <1>2, <2>1, <2>2
<1>4. at \in [DOMAIN s -> DOMAIN t] /\ at[Len(s)] = Len(t)
  BY <1>1, <1>2, <1>3
<1>5. \A i, j \in DOMAIN s : i < j => at[i] < at[j]
  BY <1>1, <1>2
<1>6. \A i \in DOMAIN s : Like(s[i], t[at[i]], B)
  BY <1>1, <1>2
<1>7. ASSUME NEW p \in DOMAIN t PROVE Filler(t[p], B) \/ \E i \in DOMAIN s : p = at[i]
  <2>1. PICK i \in 1 .. n : p # pos[i] => t[p] \in fill[i]
    BY <1>1, <1>2
  <2> QED BY <1>1, <2>1
<1> QED BY <1>4, <1>5, <1>6, <1>7 DEF Expands
-----------------------------------------------------------------------------
Runs == [Devices -> SUBSET Nat]
After(b, op, i, P) ==
  [d \in Devices |-> (IF d \in ToFlush(b, op, i, P) THEN {} ELSE P[d])
                       \cup (IF op.dev = d THEN {op.id} ELSE {})]

\* The recursive definition of the open runs has the solution it describes.
LEMMA PendingEquation ==
  ASSUME Typed(blocks), NEW b \in Blocks, NEW i \in DOMAIN blocks[b]
  PROVE  Pending(b)[i] = After(b, blocks[b][i], i, Pending(b)[i - 1])
<1> DEFINE s == blocks[b]
           n == Len(s)
           none == [d \in Devices |-> {}]
           next == [m \in 1 .. n |-> [P \in Runs |-> After(b, s[m], m, P)]]
           Q(f) == f = [m \in 0 .. n |-> IF m = 0 THEN none ELSE After(b, s[m], m, f[m - 1])]
<1>1. n \in Nat /\ DOMAIN s = 1 .. n /\ \A m \in 1 .. n : s[m].id \in Nat
  BY OpFields DEF OpSet
<1>2. none \in Runs
  BY DEF Runs
<1>3. ASSUME NEW m \in 1 .. n, NEW P \in Runs PROVE After(b, s[m], m, P) \in Runs
  BY <1>1 DEF After, Runs
<1>4. next \in Induction!StepsTo(n, Runs)
  BY <1>3 DEF Induction!StepsTo
<1>5. \A m \in 1 .. n, P \in Runs : next[m][P] = After(b, s[m], m, P)
  OBVIOUS
<1>6. Pending(b) = CHOOSE f : Q(f)
  BY DEF Pending, After
<1> HIDE DEF none, next, n, s
<1>7. PICK g : Induction!IsRecursive(g, Runs, none, n, next)
  BY <1>1, <1>2, <1>4, Induction!BoundedRecursion
<1>8. g \in [0 .. n -> Runs] /\ g = [m \in 0 .. n |-> IF m = 0 THEN none ELSE next[m][g[m - 1]]]
  BY <1>7 DEF Induction!IsRecursive
<1>9. Q(g)
  <2>1. ASSUME NEW m \in 0 .. n
        PROVE  g[m] = IF m = 0 THEN none ELSE After(b, s[m], m, g[m - 1])
    <3>1. CASE m = 0
      BY <1>8, <3>1
    <3>2. CASE m # 0
      <4>1. m \in 1 .. n /\ m - 1 \in 0 .. n
        BY <1>1, <3>2
      <4>2. g[m] = next[m][g[m - 1]] /\ g[m - 1] \in Runs
        BY <1>8, <3>2, <4>1
      <4> QED BY <1>5, <3>2, <4>1, <4>2
    <3> QED BY <3>1, <3>2
  <2> QED BY <1>8, <2>1
<1> HIDE DEF Q
<1>10. Q(Pending(b))
  BY <1>6, <1>9, Zenon
<1>11. i \in 0 .. n /\ i # 0
  BY <1>1 DEF s
<1> QED BY <1>10, <1>11 DEF Q, s

Flushes(b, i) == ToFlush(b, blocks[b][i], i, Pending(b)[i - 1])

\* What no barrier waits for stays in its device's open run.
LEMMA OpenIsPending ==
  ASSUME Typed(blocks), Sound(blocks), NEW b \in Blocks, NEW j \in DOMAIN blocks[b], Issued(blocks[b][j]),
         NEW k \in DOMAIN blocks[b], j <= k,
         \A m \in DOMAIN blocks[b] : j < m /\ m <= k => blocks[b][j].dev \notin Flushes(b, m)
  PROVE  blocks[b][j].id \in Pending(b)[k][blocks[b][j].dev]
<1> DEFINE s == blocks[b]
           n == Len(s)
           d == s[j].dev
           S == {m \in Nat : j <= m /\ m <= k => s[j].id \in Pending(b)[m][d]}
<1>1. n \in Nat /\ DOMAIN s = 1 .. n /\ s[j] \in OpsIn(blocks, b)
  BY OpFields
<1>2. d \in Devices
  BY <1>1 DEF Sound, OpOK
<1>3. \A m \in 1 .. n : \A e \in Devices :
        Pending(b)[m][e] = (IF e \in Flushes(b, m) THEN {} ELSE Pending(b)[m - 1][e])
                             \cup (IF s[m].dev = e THEN {s[m].id} ELSE {})
  <2> SUFFICES ASSUME NEW m \in 1 .. n, NEW e \in Devices
               PROVE  Pending(b)[m][e] = (IF e \in Flushes(b, m) THEN {} ELSE Pending(b)[m - 1][e])
                                           \cup (IF s[m].dev = e THEN {s[m].id} ELSE {})
    OBVIOUS
  <2>1. Pending(b)[m] = After(b, s[m], m, Pending(b)[m - 1])
    BY <1>1, PendingEquation
  <2>2. \A P : After(b, s[m], m, P)[e] = (IF e \in ToFlush(b, s[m], m, P) THEN {} ELSE P[e])
                                           \cup (IF s[m].dev = e THEN {s[m].id} ELSE {})
    BY DEF After
  <2> QED BY <2>1, <2>2 DEF Flushes
<1>4. s[j].id \in Pending(b)[j][d]
  BY <1>1, <1>2, <1>3
<1> HIDE DEF s, n, d
<1>5. 0 \in S
  BY <1>1 DEF s
<1>6. ASSUME NEW m \in Nat, m \in S PROVE m + 1 \in S
  <2> SUFFICES ASSUME j <= m + 1, m + 1 <= k PROVE s[j].id \in Pending(b)[m + 1][d]
    OBVIOUS
  <2>1. CASE j = m + 1
    BY <1>4, <2>1
  <2>2. CASE j # m + 1
    <3>1. j <= m /\ m <= k /\ m + 1 \in 1 .. n /\ j < m + 1 /\ (m + 1) - 1 = m
      BY <1>1, <2>2 DEF s
    <3>2. d \notin Flushes(b, m + 1)
      BY <1>1, <3>1 DEF s, d
    <3>3. s[j].id \in Pending(b)[m][d]
      BY <1>6, <3>1
    <3> QED BY <1>2, <1>3, <3>1, <3>2, <3>3
  <2> QED BY <2>1, <2>2
<1> HIDE DEF S
<1>7. \A m \in Nat : m \in S
  BY <1>5, <1>6, Induction!SetInduction
<1>8. k \in Nat /\ k <= k
  BY <1>1 DEF s
<1> QED BY <1>7, <1>8 DEF S, s, d
-----------------------------------------------------------------------------
\* The barriers of a block, and what cim-schedule makes of it.
Barriers(b) == [i \in DOMAIN blocks[b] |-> {Barrier(d) : d \in Flushes(b, i)}]

LEMMA ScheduledBlock ==
  ASSUME Typed(blocks), Sound(blocks), NEW b \in Blocks, blocks[b] # <<>>
  PROVE  /\ scheduleBlock(b) \in Seq(OpSet)
         /\ \E pos \in [0 .. Len(blocks[b]) -> Nat] :
              IsSpread(Len(blocks[b]), scheduleBlock(b), blocks[b], Barriers(b), pos)
<1> DEFINE s == blocks[b]
           fill == Barriers(b)
<1>1. s \in Seq(OpSet)
  BY DEF Typed
<1>2. \A d \in Devices : Barrier(d) \in OpSet
  BY DEF Barrier, Mark, OpSet, Kinds
<1>3. \A i \in DOMAIN s : Flushes(b, i) \subseteq Devices
  BY DEF Flushes, ToFlush
<1>4. fill \in [DOMAIN s -> SUBSET OpSet]
  BY <1>2, <1>3 DEF Barriers
<1>5. ASSUME NEW i \in DOMAIN s PROVE IsFiniteSet(fill[i])
  <2> DEFINE F == Flushes(b, i)
             f == [d \in F |-> Barrier(d)]
  <2>1. F \subseteq Devices /\ IsFiniteSet(Devices)
    BY <1>3, ScheduleAssumption
  <2>2. IsFiniteSet(F)
    BY <2>1, FS_Subset
  <2>3. f \in [F -> OpSet]
    BY <1>2, <2>1
  <2>4. fill[i] = Image(f)
    BY DEF Barriers, Image
  <2> HIDE DEF F, f
  <2> QED BY <2>2, <2>3, <2>4, ImageIsFinite
<1>6. scheduleBlock(b) = Spread(s, fill)
  <2>1. [i \in DOMAIN s |-> SetToSeq({Barrier(d) : d \in ToFlush(b, s[i], i, Pending(b)[i - 1])}) \o <<s[i]>>]
          = [i \in DOMAIN s |-> SetToSeq(fill[i]) \o <<s[i]>>]
    BY DEF Barriers, Flushes
  <2> QED BY <2>1 DEF scheduleBlock, Spread
<1> HIDE DEF s, fill
<1>7. s # <<>>
  BY DEF s
<1> QED BY <1>1, <1>4, <1>5, <1>6, <1>7, Spreading DEF s, fill

\* What neither issues work nor waits for it is the host's own.
LEMMA DevOf ==
  ASSUME NEW o, OpOK(o), ~ Issued(o), o.kind # "barrier"
  PROVE  o.dev = Host
BY DEF OpOK, IsDeviceOp

\* cim-schedule flushes every block: between an op that issues work and one
\* that its open run must not reach, some op in between had a barrier put before it.
LEMMA ScheduleStep ==
  ASSUME AsBuilt(blocks), Ended(blocks), Entered(blocks, 0), Schedule
  PROVE  /\ Lasting(blocks') /\ Ended(blocks') /\ Flushed(blocks') /\ Entered(blocks', 0)
         /\ \E n \in Nat : Below(blocks', n)
<1> DEFINE B == blocks
           C == blocks'
<1>1. /\ Lasting(B) /\ Typed(B) /\ Sound(B) /\ SourceOps(B)
      /\ \A b \in Blocks : B[b] # <<>>
  BY DEF AsBuilt, Lasting, Ended
<1>2. C = [b \in Blocks |-> scheduleBlock(b)]
  BY DEF Schedule
<1>3. ASSUME NEW b \in Blocks
      PROVE  /\ C[b] \in Seq(OpSet)
             /\ \E pos \in [0 .. Len(B[b]) -> Nat] : IsSpread(Len(B[b]), C[b], B[b], Barriers(b), pos)
  BY <1>1, <1>2, ScheduledBlock
<1>4. \A b \in Blocks : \A o \in OpsIn(B, b) : Like(o, o, B)
  BY <1>1, OpFields DEF Like, Sound
<1>5. ASSUME NEW d \in Devices PROVE Filler(Barrier(d), B) /\ Barrier(d).id = 0
  <2>1. Barrier(d) \in OpSet /\ Barrier(d).id = 0 /\ Barrier(d).reads = {} /\ Barrier(d).kind = "barrier" /\ OpOK(Barrier(d))
    BY DEF Barrier, Mark, OpSet, Kinds, OpOK, Issued, IsDeviceOp
  <2>2. \A b \in Blocks : \A o \in OpsIn(B, b) : Issued(o) => o.id # 0
    BY <1>1 DEF Sound, OpOK, FarArg
  <2> QED BY <2>1, <2>2 DEF Filler
<1>6. ASSUME NEW b \in Blocks, NEW i \in DOMAIN B[b], NEW x \in Barriers(b)[i] PROVE Filler(x, B)
  BY <1>5 DEF Barriers, Flushes, ToFlush
<1>7. ASSUME NEW b \in Blocks
      PROVE  \E at : Expands(B[b], C[b], at, B)
  <2>1. PICK pos \in [0 .. Len(B[b]) -> Nat] : IsSpread(Len(B[b]), C[b], B[b], Barriers(b), pos)
    BY <1>3
  <2>2. B[b] \in Seq(OpSet) /\ B[b] # <<>> /\ C[b] \in Seq(OpSet)
    BY <1>1, <1>3 DEF Typed
  <2>3. \A i \in DOMAIN B[b] : Like(B[b][i], B[b][i], B) /\ \A x \in Barriers(b)[i] : Filler(x, B)
    BY <1>1, <1>4, <1>6, OpFields
  <2> QED BY <2>1, <2>2, <2>3, SpreadExpands
<1>8. Expansion(B, C)
  <2>1. Typed(C)
    BY <1>2, <1>3 DEF Typed
  <2> QED BY <1>7, <2>1 DEF Expansion
<1>9. Lasting(C) /\ Ended(C)
  BY <1>1, <1>8, ExpansionKeeps
<1>10. \E n \in Nat : Below(C, n)
  <2>1. PICK n \in Nat : Below(B, n)
    BY DEF AsBuilt
  <2>2. ASSUME NEW b \in Blocks, NEW x \in OpsIn(C, b) PROVE x.id < n + 1
    <3>1. PICK p \in 1 .. Len(C[b]) : x = C[b][p]
      BY <1>3 DEF OpsIn
    <3>2. PICK i \in 1 .. Len(B[b]) : x = B[b][i] \/ x \in Barriers(b)[i]
      <4>1. PICK pos : IsSpread(Len(B[b]), C[b], B[b], Barriers(b), pos)
        BY <1>3
      <4>2. \E i \in 1 .. Len(B[b]) : C[b][p] = B[b][i] \/ C[b][p] \in Barriers(b)[i]
        BY <3>1, <4>1, SpreadMembers
      <4> QED BY <3>1, <4>2
    <3>3. CASE x = B[b][i]
      <4>1. x \in OpsIn(B, b)
        BY <1>1, <3>2, <3>3, OpFields
      <4>2. x.id \in Nat /\ x.id < n
        BY <1>1, <2>1, <4>1, IdsAre DEF Below
      <4> QED BY <4>2
    <3>4. CASE x \in Barriers(b)[i]
      <4>1. i \in DOMAIN B[b]
        BY <1>1, OpFields
      <4>2. x.id = 0
        BY <1>5, <3>4, <4>1 DEF Barriers, Flushes, ToFlush
      <4> QED BY <4>2
    <3> QED BY <3>2, <3>3, <3>4
  <2>3. Below(C, n + 1) /\ n + 1 \in Nat
    BY <2>2 DEF Below
  <2> QED BY <2>3
<1>11. Flushed(C)
  <2> SUFFICES ASSUME NEW b \in Blocks, NEW p \in DOMAIN C[b], NEW q \in DOMAIN C[b], IsOpen(C[b], p, q)
               PROVE  /\ C[b][q].kind # "end"
                      /\ C[b][q].dev # C[b][p].dev => NotRead(C, b, C[b][q], C[b][p].id)
    BY DEF Flushed
  <2> DEFINE s == B[b]
             t == C[b]
             n == Len(s)
  <2>1. /\ s \in Seq(OpSet) /\ t \in Seq(OpSet) /\ n \in Nat \ {0} /\ DOMAIN s = 1 .. n
        /\ p \in 1 .. Len(t) /\ q \in 1 .. Len(t) /\ IsOpen(t, p, q)
        /\ \A i \in 1 .. n : s[i] \in OpsIn(B, b)
    BY <1>1, <1>3 DEF Typed, OpsIn
  <2>2. PICK pos \in [0 .. n -> Nat] : IsSpread(n, t, s, Barriers(b), pos)
    BY <1>3
  <2>3. /\ \A i, j \in 0 .. n : i < j => pos[i] < pos[j]
        /\ \A i \in 1 .. n : t[pos[i]] = s[i]
        /\ \A m \in 1 .. Len(t) : \E i \in 1 .. n : m = pos[i] \/ t[m] \in Barriers(b)[i]
        /\ \A i \in 1 .. n : \A x \in Barriers(b)[i] : \E m \in 1 .. Len(t) :
             pos[i - 1] < m /\ m < pos[i] /\ t[m] = x
    BY <2>2 DEF IsSpread
  <2> HIDE DEF s, t, n
  <2>4. ~ Filler(t[p], B)
    BY <2>1 DEF Filler, IsOpen, Issued
  <2>5. PICK j \in 1 .. n : p = pos[j]
    BY <1>6, <2>1, <2>3, <2>4 DEF s
  <2>6. s[j] = t[p] /\ Issued(s[j]) /\ s[j] \in OpsIn(B, b) /\ s[j].dev \in Devices
    BY <1>1, <2>1, <2>3, <2>5 DEF IsOpen, Sound, OpOK
  <2>7. CASE Filler(t[q], B)
    <3>1. t[q].kind # "end" /\ NotRead(C, b, t[q], s[j].id)
      BY <2>6, <2>7, FillerReads
    <3> QED BY <2>6, <3>1 DEF t
  <2>8. CASE ~ Filler(t[q], B)
    <3>1. PICK i \in 1 .. n : q = pos[i]
      BY <1>6, <2>1, <2>3, <2>8 DEF s
    <3>2. t[q] = s[i]
      BY <2>3, <3>1
    <3>3. j < i
      <4>1. i \in Nat /\ j \in Nat /\ p \in Nat /\ q \in Nat /\ p < q /\ i \in 0 .. n /\ j \in 0 .. n
        BY <2>1 DEF IsOpen
      <4>2. i < j => q < p
        BY <2>3, <2>5, <3>1, <4>1
      <4> QED BY <2>5, <3>1, <4>1, <4>2
    <3>4. ASSUME NEW m \in 1 .. n, j < m, m <= i PROVE s[j].dev \notin Flushes(b, m)
      <4> SUFFICES ASSUME s[j].dev \in Flushes(b, m) PROVE FALSE
        OBVIOUS
      <4>1. Barrier(s[j].dev) \in Barriers(b)[m]
        BY <2>1 DEF Barriers, s
      <4>2. PICK x \in 1 .. Len(t) : pos[m - 1] < x /\ x < pos[m] /\ t[x] = Barrier(s[j].dev)
        BY <2>3, <4>1
      <4>3. /\ m - 1 \in 0 .. n /\ m \in 0 .. n /\ i \in 0 .. n /\ j \in 0 .. n
            /\ (j = m - 1 \/ j < m - 1) /\ (m = i \/ m < i)
        BY <2>1, <3>4
      <4>4. /\ (j < m - 1 => pos[j] < pos[m - 1]) /\ (m < i => pos[m] < pos[i])
            /\ pos[j] \in Nat /\ pos[m - 1] \in Nat /\ pos[m] \in Nat /\ pos[i] \in Nat
        BY <2>3, <4>3
      <4>4a. x \in Nat
        BY <2>1
      <4>5. p < x /\ x < q
        BY <2>5, <3>1, <4>2, <4>3, <4>4, <4>4a
      <4>6. t[x].kind = "barrier" /\ t[x].dev = t[p].dev /\ x \in DOMAIN t
        BY <2>1, <2>6, <4>2 DEF Barrier, Mark
      <4> QED BY <2>1, <4>5, <4>6 DEF IsOpen
    <3>5. s[j].dev \notin Flushes(b, i)
      BY <2>1, <3>3, <3>4
    <3>6. s[j].id \in Pending(b)[i - 1][s[j].dev]
      <4>1. i - 1 \in 1 .. n /\ j <= i - 1 /\ \A m \in 1 .. n : m <= i - 1 => m <= i
        BY <2>1, <3>3
      <4>2. \A m \in DOMAIN blocks[b] : j < m /\ m <= i - 1 => blocks[b][j].dev \notin Flushes(b, m)
        BY <2>1, <3>4, <4>1 DEF s
      <4>3. j \in DOMAIN blocks[b] /\ i - 1 \in DOMAIN blocks[b]
        BY <2>1, <4>1 DEF s
      <4> QED BY <1>1, <2>6, <4>1, <4>2, <4>3, OpenIsPending DEF s
    <3>7. \/ IsDeviceOp(s[i]) /\ s[i].dev = s[j].dev
          \/ i # n /\ ~ dependsOnAny(b, s[i], Pending(b)[i - 1][s[j].dev])
      BY <2>6, <3>5, <3>6 DEF Flushes, ToFlush, s, n
    <3>8. s[i].kind # "end"
      <4> SUFFICES ASSUME s[i].kind = "end" PROVE FALSE
        OBVIOUS
      <4>1. i = n
        BY <2>1 DEF Ended, s, n
      <4>2. OpOK(s[i])
        BY <1>1, <2>1 DEF Sound
      <4> QED BY <3>7, <4>1, <4>2 DEF OpOK, Issued
    <3>9. s[i].dev # s[j].dev => NotRead(B, b, s[i], s[j].id)
      <4> SUFFICES ASSUME s[i].dev # s[j].dev, NEW x \in Region(B, b, s[i]) PROVE s[j].id \notin x.reads
        BY DEF NotRead
      <4>1. x \in NestedOps(b, s[i])
        BY OpsAre DEF NestedOps, Region
      <4> QED BY <3>6, <3>7, <4>1 DEF dependsOnAny
    <3>10. Like(s[i], t[q], B)
      BY <1>4, <2>1, <3>2
    <3>11. s[i].dev # s[j].dev => NotRead(C, b, t[q], s[j].id)
      BY <1>1, <1>8, <2>6, <3>9, <3>10, NotReadKept
    <3> QED BY <2>6, <3>2, <3>8, <3>11 DEF t
  <2> QED BY <2>7, <2>8
<1>12. Entered(C, 0)
  BY <1>1, <1>8, EnteredExpanded
<1> QED BY <1>9, <1>10, <1>11, <1>12
-----------------------------------------------------------------------------
\* What cim-insert-transfers finds.
ReadyForTransfers ==
  /\ Lasting(blocks) /\ Ended(blocks) /\ Flushed(blocks) /\ Entered(blocks, 0)
  /\ \E n \in Nat : Below(blocks, n)

\* A far activation is a number of its own: neither zero nor a device op.
LEMMA FarValues ==
  ASSUME Lasting(blocks), NEW v, Far(v)
  PROVE  /\ v \in Nat /\ v # 0 /\ HomeBlock(v) \in Blocks
         /\ \A b \in Blocks : \A o \in OpsIn(blocks, b) : Issued(o) => o.id # v
<1>1. Typed(blocks) /\ Sound(blocks) /\ Distinct(blocks)
  BY DEF Lasting
<1>2. CASE v = FarArg
  <2>1. \A b \in Blocks : \A o \in OpsIn(blocks, b) : Issued(o) => FarArg < o.id /\ o.id \in Nat
    BY <1>1, IdsAre DEF Sound, OpOK
  <2>2. HomeBlock(v) = 1 /\ 1 \in Blocks
    BY <1>2, ScheduleAssumption DEF HomeBlock, Args, Blocks
  <2> QED BY <1>2, <2>1, <2>2 DEF FarArg
<1>3. CASE v # FarArg
  <2>1. PICK o \in AllOps : o.kind = "stage" /\ o.id = v
    BY <1>3 DEF Far, Results
  <2>2. PICK b \in Blocks : o \in OpsIn(blocks, b)
    BY OpsAre
  <2>3. o.id \in Nat /\ FarArg < o.id /\ ~ Issued(o)
    BY <1>1, <2>1, <2>2, IdsAre DEF Sound, OpOK, Issued
  <2>4. \A c \in Blocks : \A p \in OpsIn(blocks, c) : Issued(p) => p.id # v
    BY <1>1, <2>1, <2>2, <2>3 DEF Distinct
  <2>5. v \notin Args
    BY <2>1, <2>3 DEF Args, NearArg, FarArg
  <2>6. DefinedIn(v, b)
    BY <2>1, <2>2, OpsAre DEF DefinedIn
  <2>7. HomeBlock(v) \in Blocks
    BY <2>5, <2>6 DEF HomeBlock
  <2> QED BY <2>1, <2>3, <2>4, <2>7 DEF FarArg
<1> QED BY <1>2, <1>3

\* A copy is no device op's result.
LEMMA CopiesAreNew ==
  ASSUME ReadyForTransfers, NEW v, Far(v), NEW anchor \in Nat
  PROVE  CopyOf(v, anchor) \in Nat /\ Fresh <= CopyOf(v, anchor)
<1>1. Fresh \in Nat
  BY FreshIsNew DEF ReadyForTransfers, Lasting
<1>2. v \in Nat /\ v # 0
  BY FarValues DEF ReadyForTransfers
<1>3. \A m, n \in Nat : n # 0 => m * n \in Nat /\ m <= m * n
  <2> SUFFICES ASSUME NEW m \in Nat, NEW n \in Nat, n # 0 PROVE m * n \in Nat /\ m <= m * n
    OBVIOUS
  <2>1. n - 1 \in Nat /\ m * n = m * (n - 1) + m
    OBVIOUS
  <2>2. m * (n - 1) \in Nat
    BY <2>1
  <2> QED BY <2>1, <2>2
<1>4. Fresh * v \in Nat /\ Fresh <= Fresh * v
  BY <1>1, <1>2, <1>3
<1> QED BY <1>1, <1>4 DEF CopyOf

\* An activation from outside a loop has that loop as its anchor.
LEMMA AnchorsAre ==
  ASSUME ReadyForTransfers, NEW b \in Blocks, NEW op \in OpsIn(blocks, b), op.kind = "mvm", Far(op.act)
  PROVE  Anchor(op, b) \in Nat
<1>1. Typed(blocks) /\ Entered(blocks, 0)
  BY DEF ReadyForTransfers, Lasting
<1>2. CASE ~ LoopInvariant(op.act, b)
  BY <1>1, <1>2, IdsAre DEF Anchor
<1>3. CASE LoopInvariant(op.act, b)
  <2>1. HomeBlock(op.act) \in Blocks /\ HomeBlock(op.act) < b
    BY <1>3, FarValues DEF ReadyForTransfers, LoopInvariant
  <2>2. 1 < b /\ b - 1 \in Blocks
    BY <2>1, ScheduleAssumption DEF Blocks
  <2>3. \E o \in Ops(b - 1) : o.kind = "for"
    BY <1>1, <2>2, OpsAre DEF Entered
  <2>4. LoopOf(b) \in Ops(b - 1)
    BY <2>3 DEF LoopOf
  <2>5. LoopOf(b).id \in Nat
    BY <1>1, <2>2, <2>4, IdsAre, OpsAre
  <2> QED BY <1>3, <2>5 DEF Anchor
<1> QED BY <1>2, <1>3

CopiesOf(op) == {CopyOp(v, op.id) : v \in IF op.id = 0 THEN {} ELSE Copies(op.id)}
CopiesBefore(b) == [i \in DOMAIN blocks[b] |-> CopiesOf(blocks[b][i])]
RewiredIn(b) == [i \in DOMAIN blocks[b] |-> Rewired(blocks[b][i], b)]

\* The copies before an op are finitely many fillers.
LEMMA CopiesAre ==
  ASSUME ReadyForTransfers, NEW b \in Blocks, NEW op \in OpsIn(blocks, b)
  PROVE  IsFiniteSet(CopiesOf(op)) /\ \A x \in CopiesOf(op) : Filler(x, blocks)
<1> DEFINE vs == IF op.id = 0 THEN {} ELSE Copies(op.id)
           f == [v \in vs |-> CopyOp(v, op.id)]
<1>1. Typed(blocks) /\ Lasting(blocks) /\ Fresh \in Nat /\ Below(blocks, Fresh) /\ FarArg < Fresh /\ op.id \in Nat
  BY FreshIsNew, IdsAre DEF ReadyForTransfers, Lasting
<1>2. \A v \in vs : v \in Buffers /\ Far(v)
  BY DEF Copies
<1>3. ASSUME NEW v \in vs PROVE v \in 0 .. Fresh
  <2>1. v \in Nat
    BY <1>1, <1>2, ValuesAre
  <2>2. v \in Args \/ \E o \in AllOps : v = o.id
    BY <1>2 DEF Buffers, Results
  <2>3. v < Fresh
    BY <1>1, <2>2, OpsAre DEF Below, Args, NearArg, FarArg
  <2> QED BY <1>1, <2>1, <2>3
<1>4. IsFiniteSet(vs)
  <2>1. IsFiniteSet(0 .. Fresh)
    BY <1>1, FS_Interval
  <2>2. vs \subseteq 0 .. Fresh
    BY <1>3
  <2> HIDE DEF vs
  <2> QED BY <2>1, <2>2, FS_Subset
<1>5. ASSUME NEW v \in vs PROVE Filler(CopyOp(v, op.id), blocks)
  <2>1. v \in Nat /\ CopyOf(v, op.id) \in Nat /\ Fresh <= CopyOf(v, op.id)
    BY <1>1, <1>2, <1>3, CopiesAreNew
  <2>2. CopyOp(v, op.id) \in OpSet /\ OpOK(CopyOp(v, op.id))
    BY <2>1 DEF CopyOp, OpSet, Kinds, OpOK, Issued, IsDeviceOp
  <2>3. \A c \in Blocks : \A o \in OpsIn(blocks, c) : Issued(o) => o.id # v /\ o.id < Fresh /\ o.id \in Nat
    BY <1>1, <1>2, FarValues, IdsAre DEF Below
  <2>4. CopyOp(v, op.id).id = CopyOf(v, op.id) /\ CopyOp(v, op.id).reads = {v} /\ CopyOp(v, op.id).kind = "copy"
    BY DEF CopyOp
  <2> HIDE DEF vs
  <2> QED BY <1>1, <2>1, <2>2, <2>3, <2>4 DEF Filler
<1>6. f \in [vs -> OpSet]
  BY <1>5 DEF Filler
<1>7. CopiesOf(op) = Image(f)
  BY DEF CopiesOf, Image
<1> HIDE DEF f, vs
<1>8. IsFiniteSet(CopiesOf(op))
  BY <1>4, <1>6, <1>7, ImageIsFinite
<1>9. \A x \in CopiesOf(op) : Filler(x, blocks)
  BY <1>5 DEF CopiesOf, vs
<1> QED BY <1>8, <1>9

\* A cim.mvm that reads a copy is like the one that read the source.
LEMMA RewiredIsLike ==
  ASSUME ReadyForTransfers, NEW b \in Blocks, NEW op \in OpsIn(blocks, b)
  PROVE  Like(op, Rewired(op, b), blocks)
<1> DEFINE c == CopyOf(op.act, Anchor(op, b))
           r == Rewired(op, b)
<1>1. Typed(blocks) /\ Sound(blocks) /\ Fresh \in Nat /\ Below(blocks, Fresh) /\ op \in OpSet /\ OpOK(op)
  BY FreshIsNew, OpFields DEF ReadyForTransfers, Lasting, Sound
<1>2. CASE ~ (op.kind = "mvm" /\ Far(op.act))
  BY <1>1, <1>2 DEF Like, Rewired
<1>3. CASE op.kind = "mvm" /\ Far(op.act)
  <2>1. c \in Nat /\ Fresh <= c
    BY <1>3, AnchorsAre, CopiesAreNew
  <2>2. r = [[op EXCEPT !.src = c] EXCEPT !.reads = (@ \ {op.act}) \cup {c}]
    BY <1>3 DEF Rewired
  <2> HIDE DEF c, r
  <2>3. /\ r \in OpSet /\ r.id = op.id /\ r.kind = op.kind /\ r.dev = op.dev
        /\ r.reads = (op.reads \ {op.act}) \cup {c}
    BY <1>1, <2>1, <2>2 DEF OpSet
  <2>4. OpOK(r)
    BY <1>1, <1>3, <2>3 DEF OpOK, Issued, IsDeviceOp
  <2>5. \A d \in Blocks : \A o \in OpsIn(blocks, d) : o.id # c
    BY <1>1, <2>1, IdsAre DEF Below
  <2>6. Like(op, r, blocks)
    BY <2>3, <2>4, <2>5 DEF Like
  <2> QED BY <2>6 DEF r
<1> QED BY <1>2, <1>3

\* What cim-insert-transfers makes of a block.
LEMMA TransferredBlock ==
  ASSUME ReadyForTransfers, InsertTransfers, NEW b \in Blocks
  PROVE  /\ blocks'[b] \in Seq(OpSet)
         /\ \E pos \in [0 .. Len(blocks[b]) -> Nat] :
              IsSpread(Len(blocks[b]), blocks'[b], RewiredIn(b), CopiesBefore(b), pos)
<1> DEFINE B == blocks
           C == blocks'
           s == B[b]
           like == RewiredIn(b)
           fill == CopiesBefore(b)
<1>1. Typed(B) /\ Ended(B)
  BY DEF ReadyForTransfers, Lasting
<1>2. C[b] = Spread(like, fill)
  <2>1. C[b] = FlattenSeq([i \in DOMAIN B[b] |->
                 SetToSeq(CopiesOf(B[b][i])) \o <<Rewired(B[b][i], b)>>])
    BY DEF InsertTransfers, CopiesOf
  <2>2. [i \in DOMAIN RewiredIn(b) |-> SetToSeq(CopiesBefore(b)[i]) \o <<RewiredIn(b)[i]>>]
          = [i \in DOMAIN B[b] |-> SetToSeq(CopiesOf(B[b][i])) \o <<Rewired(B[b][i], b)>>]
    BY DEF RewiredIn, CopiesBefore
  <2> QED BY <2>1, <2>2 DEF Spread
<1>3. s \in Seq(OpSet) /\ s # <<>> /\ \A i \in DOMAIN s : s[i] \in OpsIn(B, b)
  BY <1>1, OpFields DEF Ended
<1>4. \A i \in DOMAIN s : Like(s[i], like[i], B) /\ fill[i] = CopiesOf(s[i])
  BY <1>3, RewiredIsLike DEF RewiredIn, CopiesBefore
<1>5. \A i \in DOMAIN s : IsFiniteSet(fill[i]) /\ \A x \in fill[i] : Filler(x, B)
  BY <1>3, <1>4, CopiesAre
<1>6. like = [i \in DOMAIN s |-> like[i]] /\ fill = [i \in DOMAIN s |-> fill[i]]
  BY DEF RewiredIn, CopiesBefore
<1> HIDE DEF s, like, fill
<1>7. like \in Seq(OpSet) /\ Len(like) = Len(s) /\ DOMAIN like = DOMAIN s /\ like # <<>>
  <2>1. \A i \in DOMAIN s : like[i] \in OpSet
    BY <1>4 DEF Like
  <2>2. DOMAIN s = 1 .. Len(s) /\ Len(s) \in Nat \ {0}
    BY <1>3
  <2> QED BY <1>6, <2>1, <2>2
<1>8. fill \in [DOMAIN like -> SUBSET OpSet]
  BY <1>5, <1>6, <1>7 DEF Filler
<1>9. C[b] \in Seq(OpSet) /\ \E pos \in [0 .. Len(like) -> Nat] : IsSpread(Len(like), C[b], like, fill, pos)
  BY <1>2, <1>5, <1>7, <1>8, Spreading
<1> QED BY <1>7, <1>9 DEF s, like, fill

\* cim-insert-transfers keeps the blocks flushed.
LEMMA TransfersStep ==
  ASSUME ReadyForTransfers, InsertTransfers
  PROVE  Lasting(blocks') /\ Ended(blocks') /\ Flushed(blocks')
<1> DEFINE B == blocks
           C == blocks'
<1>1. Lasting(B) /\ Typed(B) /\ Ended(B) /\ Flushed(B)
  BY DEF ReadyForTransfers, Lasting
<1>2. ASSUME NEW b \in Blocks
      PROVE  C[b] \in Seq(OpSet) /\ \E at : Expands(B[b], C[b], at, B)
  <2> DEFINE s == B[b]
             like == RewiredIn(b)
             fill == CopiesBefore(b)
  <2>1. s \in Seq(OpSet) /\ s # <<>> /\ \A i \in DOMAIN s : s[i] \in OpsIn(B, b)
    BY <1>1, OpFields DEF Ended
  <2>2. \A i \in DOMAIN s : Like(s[i], like[i], B) /\ fill[i] = CopiesOf(s[i])
    BY <2>1, RewiredIsLike DEF RewiredIn, CopiesBefore
  <2>3. \A i \in DOMAIN s : IsFiniteSet(fill[i]) /\ \A x \in fill[i] : Filler(x, B)
    BY <2>1, <2>2, CopiesAre
  <2>4. like = [i \in DOMAIN s |-> like[i]] /\ fill = [i \in DOMAIN s |-> fill[i]]
    BY DEF RewiredIn, CopiesBefore
  <2>5. C[b] \in Seq(OpSet) /\ \E pos \in [0 .. Len(s) -> Nat] : IsSpread(Len(s), C[b], like, fill, pos)
    BY TransferredBlock
  <2> HIDE DEF s, like, fill
  <2>6. like \in Seq(OpSet) /\ Len(like) = Len(s) /\ DOMAIN like = DOMAIN s /\ like # <<>>
    <3>1. \A i \in DOMAIN s : like[i] \in OpSet
      BY <2>2 DEF Like
    <3>2. DOMAIN s = 1 .. Len(s) /\ Len(s) \in Nat \ {0}
      BY <2>1
    <3> QED BY <2>4, <3>1, <3>2
  <2>7. PICK pos \in [0 .. Len(s) -> Nat] : IsSpread(Len(s), C[b], like, fill, pos)
    BY <2>5
  <2>8. \E at : Expands(s, C[b], at, B)
    BY <2>1, <2>2, <2>3, <2>5, <2>6, <2>7, SpreadExpands
  <2> QED BY <2>5, <2>8 DEF s
<1>3. Expansion(B, C)
  <2>1. Typed(C)
    BY <1>2 DEF Typed, InsertTransfers
  <2> QED BY <1>2, <2>1 DEF Expansion
<1> QED BY <1>1, <1>3, ExpansionKeeps, FlushedKept
-----------------------------------------------------------------------------
Frames == [i : Nat, it : 1 .. Trips]
Items  == [op : OpSet, at : Seq(1 .. Trips)]

\* The host is in block n = Len(c), at the loop that holds it in each block
\* around.
StackOK(B, c) ==
  /\ c \in Seq(Frames) /\ Len(c) \in Blocks
  /\ \A k \in 1 .. Len(c) : c[k].i \in DOMAIN B[k]
  /\ \A k \in 1 .. Len(c) : k < Len(c) => B[k][c[k].i].kind = "for"

\* Where an unfinished op was issued: in a block the host is in, in the
\* iteration it is in, with no barrier since.
LocatedAt(B, c, o) ==
  \E k \in 1 .. Len(c) : \E j \in DOMAIN B[k] : o = B[k][j] /\ IsOpen(B[k], j, c[k].i)
QueueOK(B, c, q) ==
  /\ q \in [Devices -> Seq(Items)]
  /\ \A d \in Devices : \A k \in DOMAIN q[d] : q[d][k].op.dev = d /\ LocatedAt(B, c, q[d][k].op)

\* What an unfinished op reads is finished, or before it in the same queue.
ReadOrder(q) ==
  \A d, e \in Devices : \A k \in DOMAIN q[d], m \in DOMAIN q[e] :
    q[e][m].op.id \in q[d][k].op.reads => e = d /\ m < k

Sites(B, c) == Lasting(B) /\ Ended(B) /\ Flushed(B) /\ StackOK(B, c)
CurrentOf(B, c) == B[Len(c)][c[Len(c)].i]

\* What the stack gives for each block the host is in.
LEMMA StackFields ==
  ASSUME NEW B, NEW c, Sites(B, c)
  PROVE  /\ Len(c) \in Nat \ {0} /\ Len(c) <= Depth /\ DOMAIN c = 1 .. Len(c)
         /\ \A k \in 1 .. Len(c) : /\ k \in Blocks /\ c[k] \in Frames /\ c[k].i \in DOMAIN B[k] /\ c[k].i \in Nat
                                   /\ B[k] \in Seq(OpSet) /\ B[k][c[k].i] \in OpsIn(B, k)
                                   /\ OpOK(B[k][c[k].i]) /\ B[k][c[k].i] \in OpSet
         /\ Depth \in Nat /\ Host \notin Devices
<1>1. Typed(B) /\ Sound(B) /\ StackOK(B, c)
  BY DEF Sites, Lasting
<1>2. Len(c) \in Nat \ {0} /\ Len(c) <= Depth /\ DOMAIN c = 1 .. Len(c) /\ Depth \in Nat /\ Host \notin Devices
  BY <1>1, ScheduleAssumption DEF StackOK, Blocks
<1>3. ASSUME NEW k \in 1 .. Len(c)
      PROVE  /\ k \in Blocks /\ c[k] \in Frames /\ c[k].i \in DOMAIN B[k] /\ c[k].i \in Nat
             /\ B[k] \in Seq(OpSet) /\ B[k][c[k].i] \in OpsIn(B, k)
             /\ OpOK(B[k][c[k].i]) /\ B[k][c[k].i] \in OpSet
  <2>1. k \in Blocks
    BY <1>2 DEF Blocks
  <2>2. c[k] \in Frames /\ c[k].i \in DOMAIN B[k]
    BY <1>1 DEF StackOK
  <2>3. B[k] \in Seq(OpSet) /\ B[k][c[k].i] \in OpsIn(B, k) /\ B[k][c[k].i] \in OpSet
    BY <1>1, <2>1, <2>2, OpFields
  <2> QED BY <1>1, <2>1, <2>2, <2>3 DEF Frames, Sound
<1> QED BY <1>2, <1>3

\* And for the op it is at.
LEMMA CurrentFields ==
  ASSUME NEW B, NEW c, Sites(B, c)
  PROVE  /\ Len(c) \in Blocks /\ CurrentOf(B, c) \in OpsIn(B, Len(c))
         /\ OpOK(CurrentOf(B, c)) /\ CurrentOf(B, c) \in OpSet
<1>1. Len(c) \in 1 .. Len(c)
  BY StackFields
<1> QED BY <1>1, StackFields DEF CurrentOf

\* The op the host is at reads nothing unfinished of another device, nor does
\* anything in its regions; and no work of the block is left at its end.
LEMMA OpenWork ==
  ASSUME NEW B, NEW c, Sites(B, c), NEW o, LocatedAt(B, c, o)
  PROVE  /\ CurrentOf(B, c).dev # o.dev => o.id \notin CurrentOf(B, c).reads
         /\ CurrentOf(B, c).kind = "end" =>
              \E k \in 1 .. Len(c) : k < Len(c) /\ o \in OpsIn(B, k)
         /\ Issued(o) /\ o.dev \in Devices
<1> DEFINE n == Len(c)
           cur == CurrentOf(B, c)
<1>1. /\ n \in Nat \ {0} /\ \A k \in 1 .. n : k \in Blocks /\ c[k].i \in DOMAIN B[k] /\ OpOK(B[k][c[k].i])
      /\ cur \in OpsIn(B, n) /\ Host \notin Devices /\ n <= Depth /\ Depth \in Nat
  BY StackFields DEF CurrentOf
<1>20. PICK k \in 1 .. n : \E j \in DOMAIN B[k] : o = B[k][j] /\ IsOpen(B[k], j, c[k].i)
  BY DEF LocatedAt
<1>2. PICK j \in DOMAIN B[k] : o = B[k][j] /\ IsOpen(B[k], j, c[k].i)
  BY <1>20
<1>3. Issued(o) /\ o \in OpsIn(B, k) /\ o.dev \in Devices
  BY <1>1, <1>2 DEF IsOpen, OpsIn, Sites, Lasting, Sound, OpOK
<1>4. /\ B[k][c[k].i].kind # "end"
      /\ B[k][c[k].i].dev # o.dev => NotRead(B, k, B[k][c[k].i], o.id)
  BY <1>1, <1>2 DEF Sites, Flushed
<1>5. CASE k = n
  BY <1>3, <1>4, <1>5 DEF CurrentOf, NotRead, Region
<1>6. CASE k # n
  <2>1. B[k][c[k].i].kind = "for"
    BY <1>1, <1>6 DEF Sites, StackOK
  <2>2. B[k][c[k].i].dev = Host
    BY <1>1, <2>1, DevOf DEF Issued
  <2>3. n \in Within(k + 1) /\ k < n
    BY <1>1, <1>6 DEF Within
  <2>4. cur \in Region(B, k, B[k][c[k].i])
    BY <1>1, <2>1, <2>3 DEF Region
  <2> QED BY <1>1, <1>3, <1>4, <2>2, <2>3, <2>4 DEF NotRead
<1> QED BY <1>3, <1>5, <1>6

\* The host goes on in its block: what was open stays so, unless it was at a
\* barrier for it.
Advances(c, e) == e = [c EXCEPT ![Len(c)].i = @ + 1]
StaysOpen(B, c, e) ==
  /\ \A o : LocatedAt(B, c, o) /\ (CurrentOf(B, c).kind = "barrier" => CurrentOf(B, c).dev # o.dev)
              => LocatedAt(B, e, o)
  /\ Issued(CurrentOf(B, c)) => LocatedAt(B, e, CurrentOf(B, c))

LEMMA Advancing ==
  ASSUME NEW B, NEW c, Sites(B, c), CurrentOf(B, c).kind # "end", NEW e, Advances(c, e)
  PROVE  StackOK(B, e) /\ StaysOpen(B, c, e)
<1> DEFINE n == Len(c)
           cur == CurrentOf(B, c)
           i == c[n].i
<1>1. /\ n \in Nat \ {0} /\ n \in Blocks /\ DOMAIN c = 1 .. n
      /\ \A k \in 1 .. n : c[k] \in Frames /\ c[k].i \in DOMAIN B[k] /\ B[k] \in Seq(OpSet)
  BY StackFields
<1>2. c \in Seq(Frames) /\ n \in 1 .. n
  BY <1>1 DEF Sites, StackOK
<1>3. e \in Seq(Frames) /\ Len(e) = n /\ e[n].i = i + 1 /\ \A k \in 1 .. n : k # n => e[k] = c[k]
  <2> DEFINE frame == [c[n] EXCEPT !.i = @ + 1]
  <2>0. \A x \in Frames : [x EXCEPT !.i = @ + 1] \in Frames /\ [x EXCEPT !.i = @ + 1].i = x.i + 1
    BY DEF Frames
  <2>1. frame \in Frames /\ frame.i = i + 1
    <3>1. c[n] \in Frames
      BY <1>1, <1>2
    <3> QED BY <2>0, <3>1
  <2>2. e = [c EXCEPT ![n] = frame]
    BY DEF Advances
  <2> HIDE DEF frame
  <2> QED BY <1>1, <1>2, <2>1, <2>2
<1>4. i + 1 \in DOMAIN B[n] /\ i \in DOMAIN B[n] /\ cur = B[n][i] /\ DOMAIN B[n] = 1 .. Len(B[n])
  <2>1. i \in DOMAIN B[n] /\ cur = B[n][i] /\ DOMAIN B[n] = 1 .. Len(B[n]) /\ Len(B[n]) \in Nat
    BY <1>1, <1>2 DEF CurrentOf
  <2>2. i # Len(B[n])
    BY <1>1, <2>1 DEF Sites, Ended
  <2> QED BY <2>1, <2>2
<1> HIDE DEF cur, i, n
<1>5. StackOK(B, e)
  <2>1. \A k \in 1 .. n : e[k].i \in DOMAIN B[k]
    BY <1>1, <1>3, <1>4
  <2>2. \A k \in 1 .. n : k < n => B[k][c[k].i].kind = "for"
    BY DEF Sites, StackOK, n
  <2>3. \A k \in 1 .. n : k < n => B[k][e[k].i].kind = "for"
    BY <1>1, <1>3, <2>2
  <2> QED BY <1>1, <1>3, <2>1, <2>3 DEF StackOK
<1>6. ASSUME NEW o, LocatedAt(B, c, o), cur.kind = "barrier" => cur.dev # o.dev
      PROVE  LocatedAt(B, e, o)
  <2>10. PICK k \in 1 .. n : \E j \in DOMAIN B[k] : o = B[k][j] /\ IsOpen(B[k], j, c[k].i)
    BY <1>6 DEF LocatedAt, n
  <2>1. PICK j \in DOMAIN B[k] : o = B[k][j] /\ IsOpen(B[k], j, c[k].i)
    BY <2>10
  <2>2. CASE k # n
    BY <1>3, <2>1, <2>2 DEF LocatedAt, n
  <2>3. CASE k = n
    <3>1. j < i /\ Issued(B[n][j])
          /\ \A m \in DOMAIN B[n] : j < m /\ m < i => ~ (B[n][m].kind = "barrier" /\ B[n][m].dev = o.dev)
      BY <2>1, <2>3 DEF IsOpen, i
    <3>2. \A m \in DOMAIN B[n] : m < i + 1 => m < i \/ m = i
      BY <1>4
    <3>3. j < i + 1
      BY <1>4, <2>3, <3>1
    <3>4. IsOpen(B[n], j, i + 1)
      BY <1>4, <1>6, <2>1, <2>3, <3>1, <3>2, <3>3 DEF IsOpen
    <3> QED BY <1>2, <1>3, <2>1, <2>3, <3>4 DEF LocatedAt, n
  <2> QED BY <2>2, <2>3
<1>7. ASSUME Issued(cur) PROVE LocatedAt(B, e, cur)
  <2>1. IsOpen(B[n], i, i + 1)
    <3>1. \A m \in DOMAIN B[n] : ~ (i < m /\ m < i + 1)
      BY <1>4
    <3> QED BY <1>4, <1>7, <3>1 DEF IsOpen
  <2> QED BY <1>2, <1>3, <1>4, <2>1 DEF LocatedAt, n
<1> QED BY <1>5, <1>6, <1>7 DEF cur, StaysOpen

\* The host enters a loop.
LEMMA Entering ==
  ASSUME NEW B, NEW c, Sites(B, c), CurrentOf(B, c).kind = "for", NEW e, e = Append(c, Frame(1))
  PROVE  StackOK(B, e) /\ \A o : LocatedAt(B, c, o) => LocatedAt(B, e, o)
<1> DEFINE n == Len(c)
<1>1. /\ n \in Nat \ {0} /\ n \in Blocks /\ DOMAIN c = 1 .. n /\ n <= Depth /\ Depth \in Nat
      /\ \A k \in 1 .. n : c[k] \in Frames /\ c[k].i \in DOMAIN B[k] /\ B[k] \in Seq(OpSet)
      /\ CurrentOf(B, c) \in OpsIn(B, n)
  BY StackFields DEF CurrentOf
<1>2. c \in Seq(Frames) /\ Frame(1) \in Frames
  BY ScheduleAssumption DEF Sites, StackOK, Frame, Frames
<1>3. e \in Seq(Frames) /\ Len(e) = n + 1 /\ e[n + 1] = Frame(1) /\ \A k \in 1 .. n : e[k] = c[k]
  BY <1>2
<1> HIDE DEF n
<1>4. n + 1 \in Blocks
  <2>1. n < Depth
    BY <1>1 DEF Sites, Lasting, Sound
  <2> QED BY <1>1, <2>1 DEF Blocks
<1>5. 1 \in DOMAIN B[n + 1]
  <2>1. B[n + 1] \in Seq(OpSet) /\ B[n + 1] # <<>>
    BY <1>4 DEF Sites, Lasting, Typed, Ended
  <2> QED BY <2>1
<1>6. \A k \in 1 .. n + 1 : k \in 1 .. n \/ k = n + 1
  BY <1>1
<1>7. \A k \in 1 .. n : k \in 1 .. n + 1 /\ k < n + 1 /\ (k = n \/ k < n)
  BY <1>1
<1>8. StackOK(B, e)
  <2>1. \A k \in 1 .. n + 1 : e[k].i \in DOMAIN B[k]
    BY <1>1, <1>3, <1>5, <1>6 DEF Frame
  <2>2. \A k \in 1 .. n : B[k][c[k].i].kind = "for"
    BY <1>7 DEF Sites, StackOK, CurrentOf, n
  <2>3. \A k \in 1 .. n + 1 : k < n + 1 => k \in 1 .. n
    BY <1>1
  <2>4. \A k \in 1 .. n + 1 : k < n + 1 => B[k][e[k].i].kind = "for"
    BY <1>3, <2>2, <2>3
  <2> QED BY <1>3, <1>4, <2>1, <2>4 DEF StackOK
<1>9. \A o : LocatedAt(B, c, o) => LocatedAt(B, e, o)
  BY <1>3, <1>7 DEF LocatedAt, n
<1> QED BY <1>8, <1>9

\* The host starts an iteration more.
LEMMA Repeating ==
  ASSUME NEW B, NEW c, Sites(B, c), CurrentOf(B, c).kind = "end", NEW it \in 1 .. Trips,
         NEW n, n = Len(c), NEW e, e = [c EXCEPT ![n] = Frame(it)]
  PROVE  StackOK(B, e) /\ \A o : LocatedAt(B, c, o) => LocatedAt(B, e, o)
<1>1. /\ n \in Nat \ {0} /\ n \in Blocks /\ DOMAIN c = 1 .. n
      /\ \A k \in 1 .. n : c[k] \in Frames /\ c[k].i \in DOMAIN B[k] /\ B[k] \in Seq(OpSet)
  BY StackFields
<1>2. c \in Seq(Frames) /\ Frame(it) \in Frames /\ n \in 1 .. n
  BY <1>1 DEF Sites, StackOK, Frame, Frames
<1>3. e \in Seq(Frames) /\ Len(e) = n /\ e[n] = Frame(it) /\ \A k \in 1 .. n : k # n => e[k] = c[k]
  BY <1>1, <1>2
<1>4. 1 \in DOMAIN B[n]
  BY <1>1 DEF Sites, Ended
<1>5. StackOK(B, e)
  BY <1>1, <1>3, <1>4 DEF Sites, StackOK, Frame
<1>6. ASSUME NEW o, LocatedAt(B, c, o) PROVE LocatedAt(B, e, o)
  <2>10. PICK k \in 1 .. n : \E j \in DOMAIN B[k] : o = B[k][j] /\ IsOpen(B[k], j, c[k].i)
    BY <1>6 DEF LocatedAt
  <2>1. PICK j \in DOMAIN B[k] : o = B[k][j] /\ IsOpen(B[k], j, c[k].i)
    BY <2>10
  <2>2. k # n
    BY <1>1, <2>1 DEF Sites, Flushed, CurrentOf
  <2> QED BY <1>3, <2>1, <2>2 DEF LocatedAt
<1> QED BY <1>5, <1>6

\* The host leaves a loop: nothing that was issued in it is unfinished.
LEMMA Leaving ==
  ASSUME NEW B, NEW c, Sites(B, c), CurrentOf(B, c).kind = "end", Len(c) > 1,
         NEW n, n = Len(c), NEW e, e = [Front(c) EXCEPT ![n - 1].i = @ + 1]
  PROVE  StackOK(B, e) /\ \A o : LocatedAt(B, c, o) => LocatedAt(B, e, o)
<1> DEFINE f == Front(c)
<1>1. /\ n \in Nat \ {0} /\ n \in Blocks /\ DOMAIN c = 1 .. n /\ n <= Depth /\ Depth \in Nat
      /\ \A k \in 1 .. n : c[k] \in Frames /\ c[k].i \in DOMAIN B[k] /\ B[k] \in Seq(OpSet)
  BY StackFields
<1>2. c \in Seq(Frames)
  BY DEF Sites, StackOK
<1>3. f \in Seq(Frames) /\ Len(f) = n - 1 /\ \A k \in 1 .. n - 1 : f[k] = c[k]
  BY <1>1, <1>2 DEF Front
<1>4. n - 1 \in Nat \ {0} /\ n - 1 \in Blocks /\ n - 1 \in 1 .. n - 1
      /\ \A k \in 1 .. n - 1 : k \in 1 .. n /\ k < n
  BY <1>1 DEF Blocks
<1> HIDE DEF f
<1>5. Sites(B, f) /\ CurrentOf(B, f).kind = "for"
  <2>1. \A k \in 1 .. n - 1 : f[k].i \in DOMAIN B[k] /\ B[k][f[k].i].kind = "for"
    BY <1>1, <1>3, <1>4 DEF Sites, StackOK
  <2>2. StackOK(B, f)
    BY <1>3, <1>4, <2>1 DEF StackOK
  <2> QED BY <1>3, <1>4, <2>1, <2>2 DEF Sites, CurrentOf
<1>6. ASSUME NEW o, LocatedAt(B, c, o) PROVE LocatedAt(B, f, o)
  <2>10. PICK k \in 1 .. n : \E j \in DOMAIN B[k] : o = B[k][j] /\ IsOpen(B[k], j, c[k].i)
    BY <1>6 DEF LocatedAt
  <2>1. PICK j \in DOMAIN B[k] : o = B[k][j] /\ IsOpen(B[k], j, c[k].i)
    BY <2>10
  <2>2. k # n
    BY <1>1, <2>1 DEF Sites, Flushed, CurrentOf
  <2>3. k \in 1 .. n - 1
    BY <1>1, <2>2
  <2> QED BY <1>3, <2>1, <2>3 DEF LocatedAt
<1>7. Advances(f, e)
  BY <1>3 DEF f, Advances
<1>8. StackOK(B, e) /\ \A o : LocatedAt(B, f, o) => LocatedAt(B, e, o)
  <2>1. CurrentOf(B, f).kind # "end" /\ CurrentOf(B, f).kind # "barrier"
    BY <1>5
  <2>2. StackOK(B, e) /\ StaysOpen(B, f, e)
    BY <1>5, <1>7, <2>1, Advancing
  <2> QED BY <2>1, <2>2 DEF StaysOpen
<1> QED BY <1>6, <1>8
-----------------------------------------------------------------------------
\* What is unfinished does not read what is issued later.
LEMMA NotReadBefore ==
  ASSUME NEW B, NEW c, Sites(B, c), NEW o, LocatedAt(B, c, o), Issued(CurrentOf(B, c))
  PROVE  CurrentOf(B, c).id \notin o.reads
<1> DEFINE n == Len(c)
           cur == CurrentOf(B, c)
<1> SUFFICES ASSUME cur.id \in o.reads PROVE FALSE
  OBVIOUS
<1>1. /\ n \in Nat \ {0} /\ n \in Blocks /\ \A k \in 1 .. n : k \in Blocks
      /\ cur \in OpsIn(B, n) /\ cur = B[n][c[n].i] /\ c[n].i \in DOMAIN B[n]
  BY StackFields DEF CurrentOf
<1>2. PICK k \in 1 .. n : \E j \in DOMAIN B[k] : o = B[k][j] /\ IsOpen(B[k], j, c[k].i)
  BY DEF LocatedAt
<1>3. PICK j \in DOMAIN B[k] : o = B[k][j] /\ IsOpen(B[k], j, c[k].i)
  BY <1>2
<1>4. Issued(o) /\ o \in OpsIn(B, k)
  BY <1>3 DEF IsOpen, OpsIn
<1>5. cur.id < o.id /\ n <= k
  BY <1>1, <1>4 DEF Sites, Lasting, ReadsEarlier
<1>6. k = n
  BY <1>1, <1>5
<1>7. o.id < cur.id
  BY <1>1, <1>3, <1>4, <1>6 DEF IsOpen, Sites, Lasting, InOrder
<1>8. o.id \in Nat /\ cur.id \in Nat
  BY <1>1, <1>4, IdsAre DEF Sites, Lasting
<1> QED BY <1>5, <1>7, <1>8

\* The host issues the op it is at.
LEMMA Issuing ==
  ASSUME NEW B, NEW c, NEW q, Sites(B, c), QueueOK(B, c, q), ReadOrder(q),
         NEW x, x = CurrentOf(B, c), Issued(x), NEW item \in Items, item.op = x,
         NEW e, StackOK(B, e), LocatedAt(B, e, x), \A o : LocatedAt(B, c, o) => LocatedAt(B, e, o),
         NEW r, r = [q EXCEPT ![x.dev] = Append(@, item)]
  PROVE  QueueOK(B, e, r) /\ ReadOrder(r)
<1>1. x.dev \in Devices /\ q \in [Devices -> Seq(Items)]
  <2>1. x \in OpsIn(B, Len(c)) /\ OpOK(x)
    BY CurrentFields
  <2> QED BY <2>1 DEF OpOK, QueueOK
<1>2. r \in [Devices -> Seq(Items)]
  BY <1>1
<1>3. ASSUME NEW d \in Devices, NEW k \in DOMAIN r[d]
      PROVE  \/ k \in DOMAIN q[d] /\ r[d][k] = q[d][k]
             \/ d = x.dev /\ r[d][k] = item /\ \A m \in DOMAIN q[d] : m < k
  <2>1. d # x.dev => r[d] = q[d]
    BY <1>1
  <2>2. r[x.dev] = Append(q[x.dev], item) /\ q[x.dev] \in Seq(Items)
    BY <1>1
  <2> QED BY <2>1, <2>2
<1>4. QueueOK(B, e, r)
  <2> SUFFICES ASSUME NEW d \in Devices, NEW k \in DOMAIN r[d]
               PROVE  r[d][k].op.dev = d /\ LocatedAt(B, e, r[d][k].op)
    BY <1>2 DEF QueueOK
  <2>1. CASE k \in DOMAIN q[d] /\ r[d][k] = q[d][k]
    BY <2>1 DEF QueueOK
  <2>2. CASE d = x.dev /\ r[d][k] = item
    BY <2>2
  <2> QED BY <1>3, <2>1, <2>2
<1>5. ReadOrder(r)
  <2> SUFFICES ASSUME NEW d \in Devices, NEW f \in Devices, NEW k \in DOMAIN r[d], NEW m \in DOMAIN r[f],
                      r[f][m].op.id \in r[d][k].op.reads
               PROVE  f = d /\ m < k
    BY DEF ReadOrder
  <2>1. CASE k \in DOMAIN q[d] /\ r[d][k] = q[d][k] /\ m \in DOMAIN q[f] /\ r[f][m] = q[f][m]
    BY <2>1 DEF ReadOrder
  <2>2. CASE d = x.dev /\ r[d][k] = item /\ (\A i \in DOMAIN q[d] : i < k) /\ m \in DOMAIN q[f] /\ r[f][m] = q[f][m]
    <3>1. LocatedAt(B, c, q[f][m].op) /\ q[f][m].op.dev = f
      BY <2>2 DEF QueueOK
    <3>2. x.dev # f => q[f][m].op.id \notin x.reads
      BY <3>1, OpenWork
    <3> QED BY <2>2, <3>2
  <2>3. CASE k \in DOMAIN q[d] /\ r[d][k] = q[d][k] /\ r[f][m] = item
    <3>1. LocatedAt(B, c, q[d][k].op)
      BY <2>3 DEF QueueOK
    <3> QED BY <2>3, <3>1, NotReadBefore
  <2>4. CASE r[d][k] = item /\ r[f][m] = item
    <3>1. x \in OpsIn(B, Len(c)) /\ Len(c) \in Blocks
      BY CurrentFields
    <3>2. x.id < x.id /\ x.id \in Nat
      BY <2>4, <3>1, IdsAre DEF Sites, Lasting, ReadsEarlier
    <3> QED BY <3>2
  <2> QED BY <1>3, <2>1, <2>2, <2>3, <2>4
<1> QED BY <1>4, <1>5

\* A device finishes what it was given first.
LEMMA Finishing ==
  ASSUME NEW B, NEW c, NEW q, QueueOK(B, c, q), ReadOrder(q), NEW d \in Devices, q[d] # <<>>,
         NEW r, r = [q EXCEPT ![d] = Tail(@)]
  PROVE  QueueOK(B, c, r) /\ ReadOrder(r)
<1>1. q \in [Devices -> Seq(Items)]
  BY DEF QueueOK
<1>2. r \in [Devices -> Seq(Items)]
  BY <1>1
<1> DEFINE shift(e) == IF e = d THEN 1 ELSE 0
<1>3. ASSUME NEW e \in Devices, NEW k \in DOMAIN r[e]
      PROVE  k + shift(e) \in DOMAIN q[e] /\ r[e][k] = q[e][k + shift(e)] /\ k \in Nat
  <2>1. CASE e = d
    <3>1. r[e] = Tail(q[e]) /\ q[e] \in Seq(Items) /\ q[e] # <<>>
      BY <1>1, <2>1
    <3>2. \A s \in Seq(Items) : s # <<>> =>
            \A i \in DOMAIN Tail(s) : i + 1 \in DOMAIN s /\ Tail(s)[i] = s[i + 1] /\ i \in Nat
      OBVIOUS
    <3>3. k + 1 \in DOMAIN q[e] /\ r[e][k] = q[e][k + 1] /\ k \in Nat
      BY <3>1, <3>2
    <3> QED BY <2>1, <3>3
  <2>2. CASE e # d
    <3>1. r[e] = q[e] /\ q[e] \in Seq(Items)
      BY <1>1, <2>2
    <3> QED BY <2>2, <3>1
  <2> QED BY <2>1, <2>2
<1>4. QueueOK(B, c, r)
  BY <1>2, <1>3 DEF QueueOK
<1>5. ASSUME NEW e \in Devices, NEW f \in Devices, NEW k \in DOMAIN r[e], NEW m \in DOMAIN r[f],
             r[f][m].op.id \in r[e][k].op.reads
      PROVE  f = e /\ m < k
  <2>1. f = e /\ m + shift(f) < k + shift(e)
    BY <1>3, <1>5 DEF ReadOrder
  <2> QED BY <1>3, <2>1
<1> QED BY <1>4, <1>5 DEF ReadOrder
-----------------------------------------------------------------------------
Idle   == pc = <<>> /\ queue = [d \in Devices |-> <<>>]
RunOK  == Sites(blocks, pc) /\ QueueOK(blocks, pc, queue) /\ ReadOrder(queue)

\* The inductive invariant: how far the function is, and what is so of it then.
Inv ==
  /\ cursor \in Blocks
  /\ \/ phase = "build" /\ Built /\ Idle
     \/ phase = "schedule" /\ AsBuilt(blocks) /\ Ended(blocks) /\ Entered(blocks, 0) /\ Idle
     \/ phase = "transfers" /\ ReadyForTransfers /\ Idle
     \/ phase \in {"run", "done"} /\ RunOK

LEMMA InitInv == Init => Inv
<1> SUFFICES ASSUME Init PROVE Inv
  OBVIOUS
<1>1. cursor = 1 /\ phase = "build" /\ blocks = [b \in Blocks |-> <<>>] /\ Idle
  BY DEF Init, Idle
<1>2. 1 \in Blocks
  BY ScheduleAssumption DEF Blocks
<1>3. \A b \in Blocks : blocks[b] = <<>> /\ OpsIn(blocks, b) = {}
  BY <1>1 DEF OpsIn
<1>4. Typed(blocks)
  BY <1>1 DEF Typed
<1>5. AsBuilt(blocks) /\ NoEnds(blocks)
  <2>1. Sound(blocks) /\ Distinct(blocks) /\ ReadsEarlier(blocks) /\ SourceOps(blocks) /\ NoEnds(blocks) /\ Below(blocks, 0)
    BY <1>3 DEF Sound, Distinct, ReadsEarlier, SourceOps, NoEnds, Below
  <2>2. InOrder(blocks)
    BY <1>3 DEF InOrder
  <2> QED BY <1>4, <2>1, <2>2 DEF AsBuilt, Lasting
<1>6. Entered(blocks, cursor)
  <2>1. \A b \in Blocks : 1 < b => ~ (b <= cursor)
    BY <1>1 DEF Blocks
  <2> QED BY <1>3, <2>1 DEF Entered
<1> QED BY <1>1, <1>2, <1>5, <1>6 DEF Inv, Built

\* What the invariant gives for a run.
LEMMA RunFields ==
  ASSUME Inv, phase \in {"run", "done"}
  PROVE  RunOK /\ Current = CurrentOf(blocks, pc) /\ Block = Len(pc) /\ Block \in Nat \ {0}
BY StackFields DEF Inv, RunOK, Current, CurrentOf, Block

\* The host goes on to the next op of its block.
LEMMA AdvanceKeeps ==
  ASSUME RunOK, CurrentOf(blocks, pc).kind # "end", Advances(pc, pc'),
         blocks' = blocks, queue' = queue,
         CurrentOf(blocks, pc).kind = "barrier" => queue[CurrentOf(blocks, pc).dev] = <<>>
  PROVE  RunOK'
<1> DEFINE B == blocks
           c == pc
           e == pc'
           cur == CurrentOf(B, c)
<1>1. Sites(B, c) /\ QueueOK(B, c, queue) /\ ReadOrder(queue)
  BY DEF RunOK
<1>2. /\ StackOK(B, e)
      /\ \A o : LocatedAt(B, c, o) /\ (cur.kind = "barrier" => cur.dev # o.dev) => LocatedAt(B, e, o)
  <2>1. StackOK(B, e) /\ StaysOpen(B, c, e)
    BY <1>1, Advancing
  <2> QED BY <2>1 DEF StaysOpen
<1>3. ASSUME NEW d \in Devices, NEW k \in DOMAIN queue[d] PROVE LocatedAt(B, e, queue[d][k].op)
  <2>1. LocatedAt(B, c, queue[d][k].op) /\ queue[d][k].op.dev = d
    BY <1>1 DEF QueueOK
  <2>2. cur.kind = "barrier" => cur.dev # d
    OBVIOUS
  <2> QED BY <1>2, <2>1, <2>2
<1>4. QueueOK(B, e, queue)
  BY <1>1, <1>3 DEF QueueOK
<1>5. Sites(B, e)
  BY <1>1, <1>2 DEF Sites
<1> QED BY <1>1, <1>4, <1>5 DEF RunOK

\* The host goes to another block and leaves nothing behind.
LEMMA MoveKeeps ==
  ASSUME RunOK, StackOK(blocks, pc'), blocks' = blocks, queue' = queue,
         \A o : LocatedAt(blocks, pc, o) => LocatedAt(blocks, pc', o)
  PROVE  RunOK'
BY DEF RunOK, Sites, QueueOK

\* Work is given to a device with the iteration the host is in.
LEMMA IssuedItem ==
  ASSUME NEW B, NEW c, Sites(B, c), NEW x, x = CurrentOf(B, c)
  PROVE  [op |-> x, at |-> [k \in DOMAIN c |-> c[k].it]] \in Items
<1>1. x \in OpSet
  BY CurrentFields
<1>2. c \in Seq(Frames)
  BY DEF Sites, StackOK
<1>3. Len(c) \in Nat /\ DOMAIN c = 1 .. Len(c) /\ \A k \in DOMAIN c : c[k].it \in 1 .. Trips
  <2>1. Len(c) \in Nat /\ DOMAIN c = 1 .. Len(c) /\ \A k \in DOMAIN c : c[k] \in Frames
    BY <1>2
  <2> QED BY <2>1 DEF Frames
<1>4. [k \in DOMAIN c |-> c[k].it] = [k \in 1 .. Len(c) |-> c[k].it]
  BY <1>3
<1>5. [k \in DOMAIN c |-> c[k].it] \in Seq(1 .. Trips)
  BY <1>3, <1>4
<1> QED BY <1>1, <1>5 DEF Items

\* One step of the specification, action by action.
LEMMA StepInv == Inv /\ [Next]_vars => Inv'
<1> SUFFICES ASSUME Inv, [Next]_vars PROVE Inv'
  OBVIOUS
<1>1. CASE Build /\ ~ Return
  <2>1. phase = "build" => Built /\ Idle
    BY DEF Inv
  <2>2. phase = "build"
    BY <1>1 DEF Build, Program, Mvm, Stage, Write, Read, EnterLoop, LeaveLoop, Room
  <2>3. Built' /\ UNCHANGED <<phase, pc, queue>>
    BY <1>1, <2>1, <2>2, BuildStep
  <2> QED BY <2>1, <2>2, <2>3 DEF Inv, Built, Idle
<1>2. CASE Return
  <2>1. phase = "build"
    BY <1>2 DEF Return
  <2>2. Built /\ Idle
    BY <2>1 DEF Inv
  <2>3. /\ cursor' \in Blocks /\ AsBuilt(blocks') /\ Ended(blocks') /\ Entered(blocks', 0)
        /\ phase' = "schedule" /\ UNCHANGED <<pc, queue>>
    BY <1>2, <2>2, ReturnStep
  <2> QED BY <2>2, <2>3 DEF Inv, Idle, Blocks
<1>3. CASE Schedule
  <2>1. phase = "schedule" /\ phase' = "transfers" /\ UNCHANGED <<cursor, pc, queue>>
    BY <1>3 DEF Schedule
  <2>2. AsBuilt(blocks) /\ Ended(blocks) /\ Entered(blocks, 0) /\ Idle
    BY <2>1 DEF Inv
  <2>3. /\ Lasting(blocks') /\ Ended(blocks') /\ Flushed(blocks') /\ Entered(blocks', 0)
        /\ \E n \in Nat : Below(blocks', n)
    BY <1>3, <2>2, ScheduleStep
  <2> QED BY <2>1, <2>2, <2>3 DEF Inv, Idle, ReadyForTransfers, Blocks
<1>4. CASE InsertTransfers
  <2>1. phase = "transfers" /\ phase' = "run" /\ pc' = <<Frame(1)>> /\ UNCHANGED <<cursor, queue>>
    BY <1>4 DEF InsertTransfers
  <2>2. ReadyForTransfers /\ Idle
    BY <2>1 DEF Inv
  <2>3. Lasting(blocks') /\ Ended(blocks') /\ Flushed(blocks')
    BY <1>4, <2>2, TransfersStep
  <2>4. StackOK(blocks', pc')
    <3>1. Frame(1) \in Frames /\ 1 \in Blocks /\ Frame(1).i = 1
      BY ScheduleAssumption DEF Frame, Frames, Blocks
    <3>2. blocks'[1] \in Seq(OpSet) /\ blocks'[1] # <<>>
      BY <2>3, <3>1 DEF Lasting, Typed, Ended
    <3>3. 1 \in DOMAIN blocks'[1]
      BY <3>2
    <3>4. pc' \in Seq(Frames) /\ Len(pc') = 1 /\ pc'[1].i = 1
      BY <2>1, <3>1
    <3> QED BY <3>1, <3>3, <3>4 DEF StackOK
  <2>5. QueueOK(blocks', pc', queue') /\ ReadOrder(queue')
    BY <2>1, <2>2 DEF Idle, QueueOK, ReadOrder
  <2> QED BY <2>1, <2>3, <2>4, <2>5 DEF Inv, RunOK, Sites, Blocks
<1>5. CASE Issue
  <2> DEFINE x == Current
             item == [op |-> x, at |-> At]
  <2>1. phase = "run" /\ Issued(x) /\ phase' = phase /\ cursor' = cursor /\ blocks' = blocks
    BY <1>5 DEF Issue, Running, Issued
  <2>2. queue' = [queue EXCEPT ![x.dev] = Append(@, item)] /\ Advances(pc, pc')
    BY <1>5 DEF Issue, Advance, Block, Advances
  <2>3. RunOK /\ x = CurrentOf(blocks, pc)
    BY <2>1, RunFields
  <2>4. Sites(blocks, pc) /\ QueueOK(blocks, pc, queue) /\ ReadOrder(queue)
    BY <2>3 DEF RunOK
  <2>5. item \in Items /\ item.op = x
    BY <2>3, <2>4, IssuedItem DEF At
  <2>6. x.kind # "end" /\ x.kind # "barrier"
    BY <2>1 DEF Issued
  <2>7. /\ StackOK(blocks, pc') /\ LocatedAt(blocks, pc', x)
        /\ \A o : LocatedAt(blocks, pc, o) => LocatedAt(blocks, pc', o)
    <3> HIDE DEF x, item
    <3>1. StackOK(blocks, pc') /\ StaysOpen(blocks, pc, pc')
      BY <2>2, <2>3, <2>4, <2>6, Advancing
    <3> QED BY <2>1, <2>3, <2>6, <3>1 DEF StaysOpen
  <2> HIDE DEF x, item
  <2>8. QueueOK(blocks, pc', queue') /\ ReadOrder(queue')
    BY <2>1, <2>2, <2>3, <2>4, <2>5, <2>7, Issuing
  <2>9. Sites(blocks, pc')
    BY <2>4, <2>7 DEF Sites
  <2> QED BY <2>1, <2>8, <2>9 DEF Inv, RunOK, Blocks
<1>6. CASE WaitAtBarrier \/ HostCopy \/ HostWrite \/ HostRead
  <2>1. /\ phase = "run" /\ phase' = phase /\ cursor' = cursor /\ blocks' = blocks /\ queue' = queue
        /\ Current.kind \in {"barrier", "copy", "stage", "write", "read"}
        /\ Current.kind = "barrier" => queue[Current.dev] = <<>>
        /\ Advances(pc, pc')
    BY <1>6 DEF WaitAtBarrier, HostCopy, HostWrite, HostRead, Running, Advance, Block, Advances
  <2>2. RunOK /\ Current = CurrentOf(blocks, pc)
    BY <2>1, RunFields
  <2>3. CurrentOf(blocks, pc).kind # "end"
        /\ (CurrentOf(blocks, pc).kind = "barrier" => queue[CurrentOf(blocks, pc).dev] = <<>>)
    BY <2>1, <2>2
  <2>4. RunOK'
    BY <2>1, <2>2, <2>3, AdvanceKeeps
  <2> QED BY <2>1, <2>4 DEF Inv, Blocks
<1>7. CASE RunLoop
  <2>1. /\ phase = "run" /\ phase' = phase /\ cursor' = cursor /\ blocks' = blocks /\ queue' = queue
        /\ Current.kind = "for" /\ pc' = Append(pc, Frame(1))
    BY <1>7 DEF RunLoop, Running
  <2>2. RunOK /\ Sites(blocks, pc) /\ Current = CurrentOf(blocks, pc)
    BY <2>1, RunFields DEF RunOK
  <2>3. StackOK(blocks, pc') /\ \A o : LocatedAt(blocks, pc, o) => LocatedAt(blocks, pc', o)
    BY <2>1, <2>2, Entering
  <2>4. RunOK'
    BY <2>1, <2>2, <2>3, MoveKeeps
  <2> QED BY <2>1, <2>4 DEF Inv, Blocks
<1>8. CASE EndFunction
  BY <1>8, RunFields DEF EndFunction, Running, Inv, RunOK, Blocks
<1>9. CASE EndBody
  <2>1. /\ phase = "run" /\ phase' = phase /\ cursor' = cursor /\ blocks' = blocks /\ queue' = queue
        /\ Current.kind = "end" /\ Len(pc) > 1
        /\ pc' = IF MoreTrips(pc[Len(pc)].it) THEN [pc EXCEPT ![Len(pc)] = Frame(pc[Len(pc)].it + 1)]
                 ELSE [Front(pc) EXCEPT ![Len(pc) - 1].i = @ + 1]
    BY <1>9 DEF EndBody, Running, Block, Iteration
  <2>2. RunOK /\ Sites(blocks, pc) /\ Current = CurrentOf(blocks, pc) /\ Len(pc) \in Nat \ {0}
    BY <2>1, RunFields DEF RunOK, Block
  <2>3. StackOK(blocks, pc') /\ \A o : LocatedAt(blocks, pc, o) => LocatedAt(blocks, pc', o)
    <3>1. CASE MoreTrips(pc[Len(pc)].it)
      <4>1. pc[Len(pc)] \in Frames
        BY <2>2, StackFields
      <4>2. pc[Len(pc)].it + 1 \in 1 .. Trips
        BY <3>1, <4>1, ScheduleAssumption DEF MoreTrips, Frames
      <4>3. pc' = [pc EXCEPT ![Len(pc)] = Frame(pc[Len(pc)].it + 1)]
        BY <2>1, <3>1
      <4> QED BY <2>1, <2>2, <4>2, <4>3, Repeating
    <3>2. CASE ~ MoreTrips(pc[Len(pc)].it)
      <4>1. pc' = [Front(pc) EXCEPT ![Len(pc) - 1].i = @ + 1]
        BY <2>1, <3>2
      <4> QED BY <2>1, <2>2, <4>1, Leaving
    <3> QED BY <3>1, <3>2
  <2>4. RunOK'
    BY <2>1, <2>2, <2>3, MoveKeeps
  <2> QED BY <2>1, <2>4 DEF Inv, Blocks
<1>10. ASSUME NEW d \in Devices, Complete(d) PROVE Inv'
  <2>1. /\ queue[d] # <<>> /\ queue' = [queue EXCEPT ![d] = Tail(@)]
        /\ phase' = phase /\ cursor' = cursor /\ blocks' = blocks /\ pc' = pc
    BY <1>10 DEF Complete
  <2>2. phase \in {"run", "done"} /\ RunOK
    BY <2>1 DEF Inv, Idle
  <2>3. QueueOK(blocks, pc, queue') /\ ReadOrder(queue')
    BY <2>1, <2>2, Finishing DEF RunOK
  <2> QED BY <2>1, <2>2, <2>3 DEF Inv, RunOK, Blocks
<1>11. CASE UNCHANGED vars
  <2>1. UNCHANGED <<phase, cursor, blocks, pc, queue>>
    BY <1>11 DEF vars
  <2> QED BY <2>1 DEF Inv, Built, Idle, RunOK, ReadyForTransfers, Blocks
<1> QED BY <1>1, <1>2, <1>3, <1>4, <1>5, <1>6, <1>7, <1>8, <1>9, <1>10, <1>11 DEF Next, Step

\* The invariant is one: it holds at first and every step keeps it.
THEOREM Invariant == Spec => []Inv
<1>1. Init => Inv
  BY InitInv
<1>2. Inv /\ [Next]_vars => Inv'
  BY StepInv
<1> QED BY <1>1, <1>2, PTL DEF Spec
-----------------------------------------------------------------------------
\* The op of each unfinished item.
LEMMA Unfinisheds ==
  ASSUME Inv, NEW v \in Outstanding
  PROVE  /\ phase \in {"run", "done"}
         /\ \E d \in Devices : \E k \in DOMAIN queue[d] :
              v = queue[d][k].op.id /\ queue[d][k].op.dev = d /\ LocatedAt(blocks, pc, queue[d][k].op)
<1>0. PICK d \in Devices : v \in Unfinished(d)
  BY DEF Outstanding
<1>1. PICK k \in DOMAIN queue[d] : v = queue[d][k].op.id
  BY <1>0 DEF Unfinished
<1>2. ~ Idle
  BY <1>1 DEF Idle
<1>3. phase \in {"run", "done"} /\ RunOK
  BY <1>2 DEF Inv
<1> QED BY <1>1, <1>3 DEF RunOK, QueueOK

\* Type correctness, for every number of devices, every nest of loops and
\* every length of the function.
THEOREM TypeCorrect == Spec => []TypeOK
<1>1. Inv => TypeOK
  <2> SUFFICES ASSUME Inv PROVE TypeOK
    OBVIOUS
  <2>1. cursor \in Blocks /\ phase \in {"build", "schedule", "transfers", "run", "done"}
    BY DEF Inv
  <2>2. CASE Idle
    BY <2>1, <2>2, ScheduleAssumption DEF TypeOK, Idle
  <2>3. CASE ~ Idle
    <3>1. RunOK
      BY <2>3 DEF Inv
    <3>2. \A d \in Devices : \A k \in DOMAIN queue[d] :
            queue[d][k].op.dev = d /\ queue[d][k].op.kind \in {"program", "mvm"}
      BY <3>1, OpenWork DEF RunOK, QueueOK, Issued
    <3>3. Len(pc) <= Depth /\ \A k \in DOMAIN pc : pc[k].i \in DOMAIN blocks[k] /\ pc[k].it \in 1 .. Trips
      BY <3>1, StackFields DEF RunOK, Frames
    <3> QED BY <2>1, <3>2, <3>3 DEF TypeOK
  <2> QED BY <2>2, <2>3
<1> QED BY <1>1, Invariant, PTL

\* The barriers of cim-schedule are enough: neither the host nor a device
\* reads what a device has not finished, whatever the function.
THEOREM NothingReadsUnfinishedAlways == Spec => []NothingReadsUnfinished
<1>1. Inv => NothingReadsUnfinished
  <2> SUFFICES ASSUME Inv PROVE NothingReadsUnfinished
    OBVIOUS
  <2>1. ASSUME phase = "run", ~ IsDeviceOp(Current), NEW v \in Outstanding PROVE v \notin Current.reads
    <3>1. PICK d \in Devices : \E k \in DOMAIN queue[d] :
            v = queue[d][k].op.id /\ queue[d][k].op.dev = d /\ LocatedAt(blocks, pc, queue[d][k].op)
      BY Unfinisheds
    <3>2. PICK k \in DOMAIN queue[d] :
            v = queue[d][k].op.id /\ queue[d][k].op.dev = d /\ LocatedAt(blocks, pc, queue[d][k].op)
      BY <3>1
    <3>3. Sites(blocks, pc) /\ Current = CurrentOf(blocks, pc)
      BY <2>1, RunFields DEF RunOK
    <3>4. Current.dev # d
      BY <2>1, ScheduleAssumption DEF IsDeviceOp
    <3> QED BY <3>2, <3>3, <3>4, OpenWork
  <2>2. ASSUME NEW d \in Devices, queue[d] # <<>>, NEW v \in Outstanding PROVE v \notin Head(queue[d]).op.reads
    <3>1. phase \in {"run", "done"} /\ \E e \in Devices : \E m \in DOMAIN queue[e] : v = queue[e][m].op.id
      BY Unfinisheds
    <3>2. PICK e \in Devices : \E m \in DOMAIN queue[e] : v = queue[e][m].op.id
      BY <3>1
    <3>3. PICK m \in DOMAIN queue[e] : v = queue[e][m].op.id
      BY <3>2
    <3>4. queue \in [Devices -> Seq(Items)] /\ ReadOrder(queue)
      BY <3>1, RunFields DEF RunOK, QueueOK
    <3>5. 1 \in DOMAIN queue[d] /\ Head(queue[d]) = queue[d][1]
      BY <2>2, <3>4
    <3>6. ~ (m < 1) \/ e # d
      BY <3>4
    <3> QED BY <3>3, <3>4, <3>5, <3>6 DEF ReadOrder
  <2> QED BY <2>1, <2>2 DEF NothingReadsUnfinished
<1> QED BY <1>1, Invariant, PTL

\* What is issued in a block is finished when the block ends, in every
\* iteration of a loop.
THEOREM BlockLeavesNothing == Spec => []BlockLeavesNothingOutstanding
<1>1. Inv => BlockLeavesNothingOutstanding
  <2> SUFFICES ASSUME Inv, Running({"end"}), NEW v \in Outstanding,
                      NEW b \in Within(Block), NEW p \in Ops(b), v = p.id
               PROVE  FALSE
    BY DEF BlockLeavesNothingOutstanding
  <2>1. PICK d \in Devices : \E k \in DOMAIN queue[d] : v = queue[d][k].op.id /\ LocatedAt(blocks, pc, queue[d][k].op)
    BY Unfinisheds
  <2>2. PICK o : v = o.id /\ LocatedAt(blocks, pc, o)
    BY <2>1
  <2>3. Sites(blocks, pc) /\ Block = Len(pc) /\ Block \in Nat \ {0} /\ CurrentOf(blocks, pc).kind = "end"
    BY RunFields DEF Running, RunOK
  <2>4. PICK k \in 1 .. Len(pc) : k < Len(pc) /\ o \in OpsIn(blocks, k)
    BY <2>2, <2>3, OpenWork
  <2>5. Issued(o)
    BY <2>2, <2>3, OpenWork
  <2>6. k \in Blocks /\ b \in Blocks /\ k < b
    BY <2>3, <2>4, ScheduleAssumption, StackFields DEF Within, Blocks
  <2>7. p \in OpsIn(blocks, b)
    BY OpsAre
  <2>8. Distinct(blocks)
    BY <2>3 DEF Sites, Lasting
  <2>9. k = b
    BY <2>2, <2>4, <2>5, <2>6, <2>7, <2>8 DEF Distinct
  <2>10. k \in Nat
    BY <2>3
  <2> QED BY <2>6, <2>9, <2>10
<1> QED BY <1>1, Invariant, PTL
-----------------------------------------------------------------------------
(* What the run computes.                                                  *)

\* What an op writes.
Changes(x, v) ==
  \/ x.kind \in {"stage", "mvm", "copy"} /\ x.id = v
  \/ x.kind = "write" /\ x.act = v
IdsOf(B, kind) == UNION {{o.id : o \in {p \in OpsIn(B, b) : p.kind = kind}} : b \in Blocks}
FarIn(B)       == {FarArg} \cup IdsOf(B, "stage")
HostBuffers(B) == {NearArg} \cup FarIn(B)

\* Until the copies are inserted: an op has its own id; the activation of a
\* cim.mvm is a buffer, which nothing after it in the text changes, and nothing
\* in its loop either if it is far and from outside the loop.
Own(B) ==
  \A b, c \in Blocks : \A i \in DOMAIN B[b], j \in DOMAIN B[c] :
    B[b][i].id = B[c][j].id /\ B[b][i].id # 0 => b = c /\ i = j
Buffered(B) ==
  \A b \in Blocks : \A o \in OpsIn(B, b) :
    /\ o.kind = "mvm" =>
         o.src = o.act /\ o.act \in o.reads /\ o.act \in HostBuffers(B) \cup IdsOf(B, "mvm")
    /\ o.kind = "write" => o.act \in HostBuffers(B)
    /\ o.kind # "copy" /\ (o.kind = "for" => o.id # 0)
Kept(B) ==
  \A b \in Blocks : \A i, j \in DOMAIN B[b] :
    i < j /\ B[b][i].kind = "mvm" =>
      \A x \in Region(B, b, B[b][j]) : ~ Changes(x, B[b][i].act)
Given(B) ==
  \A b \in Blocks : \A o \in OpsIn(B, b) :
    1 < b /\ o.kind = "mvm" /\ o.act \in FarIn(B) =>
      \/ \E q \in OpsIn(B, b) : q.kind = "stage" /\ q.id = o.act
      \/ \A a \in Within(b) : \A x \in OpsIn(B, a) : ~ Changes(x, o.act)
OneLoop(B) ==
  \A b \in Blocks : \A i, j \in DOMAIN B[b] : B[b][i].kind = "for" /\ B[b][j].kind = "for" => i = j
SourceData(B) == Own(B) /\ Buffered(B) /\ Kept(B) /\ Given(B) /\ OneLoop(B)

\* While it is built, no block is empty around one that is not, and the body of
\* a loop is empty only while the builder is in it.
Deep(B)      == \A b \in Blocks : B[b] = <<>> => \A a \in Within(b) : B[a] = <<>>
Filled(B, c) ==
  \A b \in Blocks : \A o \in OpsIn(B, b) : o.kind = "for" => b + 1 = c \/ B[b + 1] # <<>>

\* In the run.  From op p of block a to op q, the copy v holds what w does.
Holds(B, a, p, q, v, w) ==
  /\ p < q /\ B[a][p].kind = "copy" /\ B[a][p].id = v /\ B[a][p].act = w
  /\ \A k \in p + 1 .. q : \A x \in Region(B, a, B[a][k]) :
       ~ Changes(x, w) /\ (Changes(x, v) => x.kind = "copy" /\ x.act = w)
Apart(B) ==
  \A b \in Blocks : \A x \in OpsIn(B, b) :
    /\ x.kind \in {"copy", "write"} => x.act \notin IdsOf(B, "mvm") \cup IdsOf(B, "copy")
    /\ x.kind = "stage" => x.id \notin IdsOf(B, "mvm")
    /\ x.kind \in {"mvm", "stage"} => x.id \notin IdsOf(B, "copy")
Undisturbed(B) ==
  \A b \in Blocks : \A i, j \in DOMAIN B[b] :
    i < j /\ B[b][i].kind = "mvm" =>
      \A x \in Region(B, b, B[b][j]) : ~ Changes(x, B[b][i].src) /\ ~ Changes(x, B[b][i].id)
Supplied(B) ==
  \A b \in Blocks : \A j \in DOMAIN B[b] : B[b][j].kind = "mvm" =>
    LET o == B[b][j] IN
      \/ o.src \notin IdsOf(B, "copy") /\ o.src = o.act /\ o.src \in o.reads
      \/ /\ o.src \in IdsOf(B, "copy")
         /\ \/ \E p \in DOMAIN B[b] : Holds(B, b, p, j, o.src, o.act)
            \/ 1 < b /\ \E p, q \in DOMAIN B[b - 1] :
                 B[b - 1][q].kind = "for" /\ Holds(B, b - 1, p, q, o.src, o.act)
RunData(B) == Apart(B) /\ Undisturbed(B) /\ Supplied(B) /\ OneLoop(B)

\* A buffer that no copy makes and no device is to write is the same in both
\* runs; what a device is to write is what the sequential run wrote, computed
\* from what is still there; and a copy is current where it is used.
SameIn(m, r, v) == (v \in DOMAIN m <=> v \in DOMAIN r) /\ Get(m, v) = Get(r, v)
ToCome(q, v) ==
  \E d \in Devices : \E k \in DOMAIN q[d] : q[d][k].op.kind = "mvm" /\ q[d][k].op.id = v
Synced(B, q, m, r) ==
  \A v \in Nat : v \notin IdsOf(B, "copy") /\ ~ ToCome(q, v) => SameIn(m, r, v)
Input(B, m, r, o) == IF o.src \in IdsOf(B, "copy") THEN Get(m, o.src) ELSE Get(r, o.src)
Due(B, y, m, r)   == <<y.op.id, y.at, Input(B, m, r, y.op)>>
Owed(B, q, m, r) ==
  \A d \in Devices : \A k \in DOMAIN q[d] : q[d][k].op.kind = "mvm" =>
    q[d][k].op.id \in DOMAIN r /\ r[q[d][k].op.id] = Due(B, q[d][k], m, r)
CopiesCurrent(B, c, m, r) ==
  \A a \in 1 .. Len(c) : \A p, q \in DOMAIN B[a] : \A v, w \in Nat :
    Holds(B, a, p, q, v, w) /\ p < c[a].i /\ c[a].i <= q => Get(m, v) = Get(r, w)
Contents ==
  /\ Synced(blocks, queue, mem, ref) /\ Owed(blocks, queue, mem, ref)
  /\ CopiesCurrent(blocks, pc, mem, ref)

NoContents == mem = <<>> /\ ref = <<>>
DataInv ==
  \/ phase = "build" /\ SourceData(blocks) /\ Deep(blocks) /\ Filled(blocks, cursor) /\ NoContents
  \/ phase \in {"schedule", "transfers"} /\ SourceData(blocks) /\ NoContents
  \/ phase \in {"run", "done"} /\ RunData(blocks) /\ Contents
-----------------------------------------------------------------------------
LEMMA IdsOfAre ==
  ASSUME NEW B, NEW kind
  PROVE  \A v : v \in IdsOf(B, kind) <=> \E b \in Blocks : \E o \in OpsIn(B, b) : o.kind = kind /\ o.id = v
BY DEF IdsOf

LEMMA RegionIs ==
  ASSUME NEW B, NEW b, NEW o, NEW x \in Region(B, b, o)
  PROVE  x = o \/ (o.kind = "for" /\ \E a \in Within(b + 1) : x \in OpsIn(B, a))
BY DEF Region

\* Where the ops of an appended block come from.
LEMMA AppendedAt ==
  ASSUME NEW B, Typed(B), NEW C, NEW c \in Blocks, NEW op \in OpSet, IsAppended(B, C, c, op)
  PROVE  /\ \A b \in Blocks : \A i \in DOMAIN C[b] :
              \/ i \in DOMAIN B[b] /\ C[b][i] = B[b][i]
              \/ b = c /\ i = Len(B[c]) + 1 /\ C[b][i] = op
         /\ \A b \in Blocks : \A i \in DOMAIN B[b] : i \in DOMAIN C[b] /\ C[b][i] = B[b][i] /\ i <= Len(B[b])
         /\ \A b \in Blocks : OpsIn(B, b) \subseteq OpsIn(C, b)
         /\ op \in OpsIn(C, c) /\ C[c] # <<>>
<1>1. Typed(C) /\ C[c] = Append(B[c], op) /\ \A b \in Blocks : b # c => C[b] = B[b]
  BY AppendedOps
<1>2. ASSUME NEW s \in Seq(OpSet), NEW t, t = Append(s, op)
      PROVE  /\ \A i \in DOMAIN t : (i \in DOMAIN s /\ t[i] = s[i]) \/ (i = Len(s) + 1 /\ t[i] = op)
             /\ \A i \in DOMAIN s : i \in DOMAIN t /\ t[i] = s[i] /\ i <= Len(s)
             /\ Len(s) + 1 \in DOMAIN t /\ t[Len(s) + 1] = op /\ t # <<>>
  BY <1>2
<1>3. ASSUME NEW s \in Seq(OpSet) PROVE \A i \in DOMAIN s : i <= Len(s)
  OBVIOUS
<1>4. \A b \in Blocks : B[b] \in Seq(OpSet)
  BY DEF Typed
<1>5. /\ \A i \in DOMAIN C[c] : (i \in DOMAIN B[c] /\ C[c][i] = B[c][i]) \/ (i = Len(B[c]) + 1 /\ C[c][i] = op)
      /\ \A i \in DOMAIN B[c] : i \in DOMAIN C[c] /\ C[c][i] = B[c][i] /\ i <= Len(B[c])
      /\ Len(B[c]) + 1 \in DOMAIN C[c] /\ C[c][Len(B[c]) + 1] = op /\ C[c] # <<>>
  BY <1>1, <1>2, <1>4
<1>6. ASSUME NEW b \in Blocks
      PROVE  /\ \A i \in DOMAIN C[b] : \/ i \in DOMAIN B[b] /\ C[b][i] = B[b][i]
                                       \/ b = c /\ i = Len(B[c]) + 1 /\ C[b][i] = op
             /\ \A i \in DOMAIN B[b] : i \in DOMAIN C[b] /\ C[b][i] = B[b][i] /\ i <= Len(B[b])
  <2>1. CASE b = c
    BY <1>5, <2>1
  <2>2. CASE b # c
    BY <1>1, <1>3, <1>4, <2>2
  <2> QED BY <2>1, <2>2
<1>7. \A b \in Blocks : OpsIn(B, b) \subseteq OpsIn(C, b)
  BY <1>6 DEF OpsIn
<1> QED BY <1>5, <1>6, <1>7 DEF OpsIn

\* A new op keeps the facts about the source if it is a write to what no
\* cim.mvm reads, or a cim.mvm of a buffer that its loop does not change.
LEMMA AppendData ==
  ASSUME NEW B, Typed(B), Sound(B), SourceOps(B), SourceData(B), NEW C, NEW c \in Blocks,
         NEW op \in OpSet, IsAppended(B, C, c, op), NEW n \in Nat, Below(B, n), FarArg < n,
         Entered(B, c), Deep(B), Filled(B, c), NEW e,
         op.id = n, op.kind # "copy",
         op.kind = "mvm" =>
           op.src = op.act /\ op.act \in op.reads /\ op.act \in HostBuffers(B) \cup IdsOf(B, "mvm"),
         op.kind = "write" =>
           /\ op.act \in HostBuffers(B)
           /\ \A b \in Blocks : \A o \in OpsIn(B, b) : o.kind = "mvm" => o.act # op.act,
         1 < c /\ op.kind = "mvm" /\ op.act \in FarIn(B) =>
           \/ \E q \in OpsIn(B, c) : q.kind = "stage" /\ q.id = op.act
           \/ \A a \in Within(c) : \A x \in OpsIn(B, a) : ~ Changes(x, op.act),
         \/ op.kind # "for" /\ e = c
         \/ op.kind = "for" /\ e = c + 1 /\ c < Depth /\ B[c + 1] = <<>>
  PROVE  SourceData(C) /\ Deep(C) /\ Filled(C, e)
<1>0. Typed(C) /\ \A b \in Blocks : b # c => C[b] = B[b]
  <2>1. Typed(C) /\ C[c] = Append(B[c], op) /\ \A b \in Blocks : b # c => C[b] = B[b]
    BY AppendedOps
  <2> QED BY <2>1
<1>1. /\ Own(B) /\ Buffered(B) /\ Kept(B) /\ Given(B) /\ OneLoop(B)
      /\ Depth \in Nat \ {0} /\ c \in Nat /\ Typed(C)
  BY <1>0, ScheduleAssumption DEF SourceData, Blocks
<1>2. /\ \A b \in Blocks : \A i \in DOMAIN C[b] :
           \/ i \in DOMAIN B[b] /\ C[b][i] = B[b][i]
           \/ b = c /\ i = Len(B[c]) + 1 /\ C[b][i] = op
      /\ \A b \in Blocks : \A i \in DOMAIN B[b] : i \in DOMAIN C[b] /\ C[b][i] = B[b][i] /\ i <= Len(B[b])
      /\ \A b \in Blocks : OpsIn(B, b) \subseteq OpsIn(C, b)
      /\ op \in OpsIn(C, c) /\ C[c] # <<>>
  BY AppendedAt
<1>3. \A b \in Blocks : \A x \in OpsIn(C, b) : x \in OpsIn(B, b) \/ (x = op /\ b = c)
  BY AppendedIn
<1>4. \A b \in Blocks : \A x \in OpsIn(B, b) : x.id \in Nat /\ x.id < n /\ x.id # n
  BY IdsAre DEF Below
<1>5. \A v \in HostBuffers(B) \cup IdsOf(B, "mvm") : v # n
  BY <1>4, IdsOfAre DEF HostBuffers, FarIn, NearArg, FarArg
<1>6. ASSUME NEW b \in Blocks, NEW o \in OpsIn(B, b), o.kind = "mvm"
      PROVE  ~ Changes(op, o.act) /\ o.act # n
  <2>1. o.act \in HostBuffers(B) \cup IdsOf(B, "mvm")
    BY <1>1, <1>6 DEF Buffered
  <2> QED BY <1>5, <1>6, <2>1 DEF Changes
<1>7. op.kind = "mvm" => ~ Changes(op, op.act) /\ op.act # n
  BY <1>5 DEF Changes
<1>8. \A kind : IdsOf(B, kind) \subseteq IdsOf(C, kind)
  BY <1>2 DEF IdsOf
<1>9. Own(C)
  <2> SUFFICES ASSUME NEW b \in Blocks, NEW d \in Blocks, NEW i \in DOMAIN C[b], NEW j \in DOMAIN C[d],
                      C[b][i].id = C[d][j].id, C[b][i].id # 0
               PROVE  b = d /\ i = j
    BY DEF Own
  <2>1. \A a \in Blocks : \A k \in DOMAIN B[a] : B[a][k] \in OpsIn(B, a)
    BY DEF OpsIn
  <2>2. CASE i \in DOMAIN B[b] /\ C[b][i] = B[b][i] /\ j \in DOMAIN B[d] /\ C[d][j] = B[d][j]
    BY <1>1, <2>2 DEF Own
  <2>3. CASE i \in DOMAIN B[b] /\ C[b][i] = B[b][i] /\ C[d][j] = op
    BY <1>4, <2>1, <2>3
  <2>4. CASE j \in DOMAIN B[d] /\ C[d][j] = B[d][j] /\ C[b][i] = op
    BY <1>4, <2>1, <2>4
  <2> QED BY <1>2, <2>2, <2>3, <2>4
<1>10. Buffered(C)
  <2> SUFFICES ASSUME NEW b \in Blocks, NEW o \in OpsIn(C, b)
               PROVE  /\ o.kind = "mvm" => o.src = o.act /\ o.act \in o.reads
                                             /\ o.act \in HostBuffers(C) \cup IdsOf(C, "mvm")
                      /\ o.kind = "write" => o.act \in HostBuffers(C)
                      /\ o.kind # "copy" /\ (o.kind = "for" => o.id # 0)
    BY DEF Buffered
  <2>1. HostBuffers(B) \subseteq HostBuffers(C) /\ IdsOf(B, "mvm") \subseteq IdsOf(C, "mvm")
    BY <1>8 DEF HostBuffers, FarIn
  <2>2. CASE o \in OpsIn(B, b)
    BY <1>1, <2>1, <2>2 DEF Buffered
  <2>3. CASE o = op
    BY <2>1, <2>3 DEF FarArg
  <2> QED BY <1>3, <2>2, <2>3
<1>11. Kept(C)
  <2> SUFFICES ASSUME NEW b \in Blocks, NEW i \in DOMAIN C[b], NEW j \in DOMAIN C[b], i < j,
                      C[b][i].kind = "mvm", NEW x \in Region(C, b, C[b][j])
               PROVE  ~ Changes(x, C[b][i].act)
    BY DEF Kept
  <2>1. i \in DOMAIN B[b] /\ C[b][i] = B[b][i] /\ B[b][i] \in OpsIn(B, b)
    <3>1. b = c /\ i = Len(B[c]) + 1 => FALSE
      <4> SUFFICES ASSUME b = c, i = Len(B[c]) + 1 PROVE FALSE
        OBVIOUS
      <4>1. Len(B[c]) \in Nat
        BY OpFields
      <4>2. j <= Len(B[c]) \/ j = Len(B[c]) + 1
        BY <1>2
      <4>3. j \in Nat
        BY <1>1, OpFields
      <4> QED BY <4>1, <4>2, <4>3
    <3> QED BY <1>2, <3>1 DEF OpsIn
  <2>2. ~ Changes(op, C[b][i].act)
    BY <1>6, <2>1
  <2>3. x = C[b][j] \/ (C[b][j].kind = "for" /\ \E a \in Within(b + 1) : x \in OpsIn(C, a))
    BY RegionIs
  <2>4. \A a \in Within(b + 1) : a \in Blocks /\ b < a
    BY <1>1 DEF Within, Blocks
  <2>5. CASE j \in DOMAIN B[b] /\ C[b][j] = B[b][j]
    <3>1. x = op \/ x \in Region(B, b, B[b][j])
      BY <1>3, <2>3, <2>4, <2>5 DEF Region
    <3> QED BY <1>1, <2>1, <2>2, <2>5, <3>1 DEF Kept
  <2>6. CASE b = c /\ C[b][j] = op
    <3>1. ASSUME op.kind = "for", NEW a \in Within(b + 1), x \in OpsIn(C, a) PROVE FALSE
      <4>1. c + 1 \in Blocks /\ B[c + 1] = <<>>
        BY <1>1, <3>1 DEF Blocks
      <4>2. B[a] = <<>>
        BY <2>6, <3>1, <4>1 DEF Deep
      <4>3. a # c
        BY <1>1, <2>4, <2>6, <3>1
      <4>4. x \in OpsIn(B, a)
        BY <1>3, <2>4, <3>1, <4>3
      <4> QED BY <4>2, <4>4 DEF OpsIn
    <3> QED BY <2>2, <2>3, <2>6, <3>1
  <2> QED BY <1>2, <2>5, <2>6
<1>12. Given(C)
  <2> SUFFICES ASSUME NEW b \in Blocks, NEW o \in OpsIn(C, b), 1 < b, o.kind = "mvm", o.act \in FarIn(C)
               PROVE  \/ \E q \in OpsIn(C, b) : q.kind = "stage" /\ q.id = o.act
                      \/ \A a \in Within(b) : \A x \in OpsIn(C, a) : ~ Changes(x, o.act)
    BY DEF Given
  <2>1. o.act # n /\ ~ Changes(op, o.act)
    BY <1>3, <1>6, <1>7
  <2>2. o.act \in FarIn(B)
    <3>1. CASE o.act = FarArg
      BY <3>1 DEF FarIn
    <3>2. CASE o.act # FarArg
      <4>1. PICK d \in Blocks : \E q \in OpsIn(C, d) : q.kind = "stage" /\ q.id = o.act
        BY <3>2, IdsOfAre DEF FarIn
      <4>2. PICK q \in OpsIn(C, d) : q.kind = "stage" /\ q.id = o.act
        BY <4>1
      <4>3. q \in OpsIn(B, d)
        BY <1>3, <2>1, <4>2
      <4> QED BY <4>2, <4>3, IdsOfAre DEF FarIn
    <3> QED BY <3>1, <3>2
  <2>3. \/ \E q \in OpsIn(B, b) : q.kind = "stage" /\ q.id = o.act
        \/ \A a \in Within(b) : \A x \in OpsIn(B, a) : ~ Changes(x, o.act)
    BY <1>1, <1>3, <2>2 DEF Given
  <2>4. \A a \in Within(b) : a \in Blocks
    BY <1>1 DEF Within, Blocks
  <2> QED BY <1>2, <1>3, <2>1, <2>3, <2>4
<1>13. OneLoop(C) /\ Filled(C, e)
  <2>1. ASSUME NEW b \in Blocks, NEW o \in OpsIn(B, b), o.kind = "for"
        PROVE  (b + 1 = c \/ B[b + 1] # <<>>) /\ b + 1 \in Blocks
    BY <1>1, <2>1 DEF Filled, Sound, Blocks
  <2>3. ASSUME NEW b \in Blocks, NEW o \in OpsIn(B, b), o.kind = "for" PROVE C[b + 1] # <<>>
    BY <1>0, <1>2, <2>1, <2>3
  <2>4. Filled(C, e)
    BY <1>1, <1>3, <2>3 DEF Filled
  <2>5. op.kind = "for" => \A o \in OpsIn(B, c) : o.kind # "for"
    BY <1>1, <2>1
  <2>6. OneLoop(C)
    BY <1>1, <1>2, <2>5 DEF OneLoop, OpsIn
  <2> QED BY <2>4, <2>6
<1>14. Deep(C)
  <2> SUFFICES ASSUME NEW b \in Blocks, C[b] = <<>>, NEW a \in Within(b) PROVE C[a] = <<>>
    BY DEF Deep
  <2>1. a \in Blocks /\ a \in Nat /\ b \in Nat /\ b <= a
    BY <1>1 DEF Within, Blocks
  <2>3. b # c /\ B[a] = <<>>
    BY <1>0, <1>2 DEF Deep
  <2>4. a # c
    <3> SUFFICES ASSUME a = c PROVE FALSE
      OBVIOUS
    <3>1. 1 < b + 1 /\ b + 1 <= c /\ b + 1 \in Blocks /\ (b + 1) - 1 = b
      BY <1>1, <2>1, <2>3 DEF Blocks
    <3>2. \E o \in OpsIn(B, b) : o.kind = "for"
      <4>1. \E o \in OpsIn(B, (b + 1) - 1) : o.kind = "for"
        BY <3>1 DEF Entered
      <4> QED BY <3>1, <4>1
    <3> QED BY <1>0, <2>3, <3>2 DEF OpsIn
  <2> QED BY <1>0, <2>1, <2>3, <2>4
<1> QED BY <1>9, <1>10, <1>11, <1>12, <1>13, <1>14 DEF SourceData

\* Every step that builds but the last keeps the facts about the source, if
\* loops do not rewrite far activations from outside.
LEMMA BuildData ==
  ASSUME ~ LoopsRewrite, Built, SourceData(blocks), Deep(blocks), Filled(blocks, cursor), NoContents,
         Build, ~ Return
  PROVE  SourceData(blocks') /\ Deep(blocks') /\ Filled(blocks', cursor') /\ NoContents'
<1> DEFINE B == blocks
           C == blocks'
           Kept1(e) == SourceData(C) /\ Deep(C) /\ Filled(C, e)
<1>1. /\ Typed(B) /\ Sound(B) /\ SourceOps(B) /\ Entered(B, cursor) /\ cursor \in Blocks
      /\ Own(B) /\ Depth \in Nat \ {0}
  BY ScheduleAssumption DEF Built, AsBuilt, Lasting, SourceData
<1>2. Fresh \in Nat /\ FarArg < Fresh /\ Below(B, Fresh)
  BY <1>1, FreshIsNew DEF Built, AsBuilt
<1>3. ASSUME NEW kind \in Kinds \ {"barrier", "copy", "end", "mvm", "write", "for"}, NEW dev \in Devices \cup {Host},
             NEW reads \in SUBSET Nat, NEW act \in Nat, Append1(Op(kind, dev, reads, act))
      PROVE  Kept1(cursor)
  <2> DEFINE op == Op(kind, dev, reads, act)
  <2>1. op \in OpSet /\ op.id = Fresh /\ op.kind = kind
    BY <1>2 DEF Op, OpSet
  <2>2. IsAppended(B, C, cursor, op)
    BY <1>3 DEF Append1, IsAppended
  <2>3. op.kind \notin {"copy", "mvm", "write", "for"}
    BY <2>1
  <2> HIDE DEF op
  <2> QED BY <1>1, <1>2, <2>1, <2>2, <2>3, AppendData
<1>4. /\ mem' = mem /\ ref' = ref
      /\ phase = "build"
  BY DEF Build, Program, Mvm, Stage, Write, Read, EnterLoop, LeaveLoop, Room, BuildOnly
<1> SUFFICES Kept1(cursor')
  BY <1>4 DEF NoContents
<1>5. ASSUME NEW d \in Devices, Program(d) PROVE Kept1(cursor')
  <2>1. Append1(Op("program", d, {}, 0)) /\ cursor' = cursor
    BY <1>5 DEF Program
  <2> QED BY <1>3, <2>1 DEF Kinds
<1>6. CASE Mvm
  <2>1. PICK p \in AllOps, v \in Buffers :
          /\ p.kind = "program" /\ Visible(p.id) /\ Visible(v)
          /\ Far(v) /\ LoopInvariant(v, cursor) /\ Writes(v, cursor) => LoopsRewrite
          /\ Append1(Op("mvm", p.dev, {p.id, v}, v))
    BY <1>6 DEF Mvm
  <2>2. cursor' = cursor
    BY <1>6 DEF Mvm
  <2>3. v \in Nat /\ p \in OpSet /\ p.id \in Nat /\ p.dev \in Devices \cup {Host}
    BY <1>1, ValuesAre DEF OpSet
  <2> DEFINE op == Op("mvm", p.dev, {p.id, v}, v)
  <2>4. /\ op \in OpSet /\ op.id = Fresh /\ op.kind = "mvm" /\ op.src = op.act /\ op.act \in op.reads
        /\ op.act = v
    BY <1>2, <2>3 DEF Op, OpSet, Kinds
  <2>5. IsAppended(B, C, cursor, op)
    BY <2>1 DEF Append1, IsAppended
  <2> HIDE DEF op
  <2>6. \A kind : \A u : u \in Results(kind) <=> u \in IdsOf(B, kind)
    BY OpsAre, IdsOfAre DEF Results
  <2>7. v \in HostBuffers(B) \cup IdsOf(B, "mvm")
    BY <2>6 DEF HostBuffers, FarIn, Buffers, Args
  <2>8. ASSUME 1 < cursor, v \in FarIn(B), ~ \E q \in OpsIn(B, cursor) : q.kind = "stage" /\ q.id = v
        PROVE  \A a \in Within(cursor) : \A x \in OpsIn(B, a) : ~ Changes(x, v)
    <3>1. Far(v)
      BY <2>6, <2>8 DEF Far, FarIn
    <3>2. LoopInvariant(v, cursor)
      <4>1. CASE v = FarArg
        BY <2>8, <4>1 DEF LoopInvariant, HomeBlock, Args
      <4>2. CASE v # FarArg
        <5>1. PICK b \in Blocks : \E q \in OpsIn(B, b) : q.kind = "stage" /\ q.id = v
          BY <2>8, <4>2, IdsOfAre DEF FarIn
        <5>2. PICK q \in OpsIn(B, b) : q.kind = "stage" /\ q.id = v
          BY <5>1
        <5>3. FarArg < v /\ v \notin Args /\ v # 0
          BY <1>1, <5>2 DEF Sound, OpOK, Args, NearArg, FarArg
        <5>4. \A d \in Blocks : DefinedIn(v, d) => d = b
          <6> SUFFICES ASSUME NEW d \in Blocks, NEW o \in OpsIn(B, d), o.id = v PROVE d = b
            BY OpsAre DEF DefinedIn
          <6>1. PICK i \in DOMAIN B[d] : o = B[d][i]
            BY DEF OpsIn
          <6>2. PICK j \in DOMAIN B[b] : q = B[b][j]
            BY DEF OpsIn
          <6> QED BY <1>1, <5>2, <5>3, <6>1, <6>2 DEF Own
        <5>5. DefinedIn(v, b)
          BY <5>2, OpsAre DEF DefinedIn
        <5>6. HomeBlock(v) = b
          BY <5>3, <5>4, <5>5 DEF HomeBlock
        <5>7. PICK d \in Enclosing(cursor) : DefinedIn(v, d)
          BY <2>1, <5>3 DEF Visible
        <5>8. d \in Blocks /\ d <= cursor
          BY <1>1, <5>7 DEF Enclosing, Blocks
        <5>9. b # cursor
          BY <2>8, <5>2
        <5> QED BY <1>1, <5>4, <5>6, <5>7, <5>8, <5>9 DEF LoopInvariant, Blocks
      <4> QED BY <4>1, <4>2
    <3>3. ~ Writes(v, cursor)
      BY <2>1, <3>1, <3>2
    <3> SUFFICES ASSUME NEW a \in Within(cursor), NEW x \in OpsIn(B, a), Changes(x, v) PROVE FALSE
      OBVIOUS
    <3>4. a \in Blocks /\ cursor <= a
      BY <1>1 DEF Within, Blocks
    <3>5. ~ (x.kind = "write" /\ x.act = v)
      BY <3>3, OpsAre DEF Writes
    <3>6. x.kind \in {"stage", "mvm", "copy"} /\ x.id = v
      BY <3>5 DEF Changes
    <3>7. x.kind # "copy" /\ FarArg < x.id
      BY <1>1, <3>4, <3>6 DEF SourceOps, Sound, OpOK, Issued
    <3>8. DefinedIn(v, a) /\ v # FarArg /\ v \notin Args /\ v # 0
      BY <3>4, <3>6, <3>7, OpsAre DEF DefinedIn, FarArg, Args, NearArg
    <3>9. HomeBlock(v) = a
      <4>1. \A d \in Blocks : DefinedIn(v, d) => d = a
        <5> SUFFICES ASSUME NEW d \in Blocks, NEW o \in OpsIn(B, d), o.id = v PROVE d = a
          BY OpsAre DEF DefinedIn
        <5>1. PICK i \in DOMAIN B[d] : o = B[d][i]
          BY DEF OpsIn
        <5>2. PICK j \in DOMAIN B[a] : x = B[a][j]
          BY DEF OpsIn
        <5> QED BY <1>1, <3>4, <3>6, <3>8, <5>1, <5>2 DEF Own
      <4> QED BY <3>4, <3>8, <4>1 DEF HomeBlock
    <3>10. cursor \in Nat /\ a \in Nat
      BY <1>1, <3>4 DEF Blocks
    <3> QED BY <3>2, <3>4, <3>9, <3>10 DEF LoopInvariant
  <2>9. Kept1(cursor)
    BY <1>1, <1>2, <2>4, <2>5, <2>7, <2>8, AppendData
  <2> QED BY <2>2, <2>9
<1>7. CASE Stage
  <2>1. Append1(Op("stage", Host, {}, 0)) /\ cursor' = cursor
    BY <1>7 DEF Stage
  <2> QED BY <1>3, <1>4, <2>1 DEF Kinds, NoContents
<1>8. CASE Write
  <2>1. PICK v \in Args \cup Results("stage") : Visible(v) /\ ~ IsRead(v) /\ Append1(Op("write", Host, {v}, v))
    BY <1>8 DEF Write
  <2>2. cursor' = cursor
    BY <1>8 DEF Write
  <2>3. v \in Nat
    BY <1>1, ValuesAre DEF Buffers
  <2> DEFINE op == Op("write", Host, {v}, v)
  <2>4. op \in OpSet /\ op.id = Fresh /\ op.kind = "write" /\ op.act = v
    BY <1>2, <2>3 DEF Op, OpSet, Kinds
  <2>5. IsAppended(B, C, cursor, op)
    BY <2>1 DEF Append1, IsAppended
  <2> HIDE DEF op
  <2>6. v \in HostBuffers(B)
    BY OpsAre, IdsOfAre DEF HostBuffers, FarIn, Results, Args
  <2>7. \A b \in Blocks : \A o \in OpsIn(B, b) : o.kind = "mvm" => o.act # v
    <3> SUFFICES ASSUME NEW b \in Blocks, NEW o \in OpsIn(B, b), o.kind = "mvm" PROVE o.act # v
      OBVIOUS
    <3>1. o \in AllOps /\ v \notin o.reads
      BY <2>1, OpsAre DEF IsRead
    <3>2. o.act \in o.reads
      BY DEF SourceData, Buffered
    <3> QED BY <3>1, <3>2
  <2>8. Kept1(cursor)
    BY <1>1, <1>2, <2>4, <2>5, <2>6, <2>7, AppendData
  <2> QED BY <2>2, <2>8
<1>9. CASE Read
  <2>1. PICK v \in Results("mvm") : Append1(Op("read", Host, {v}, 0))
    BY <1>9 DEF Read
  <2>2. cursor' = cursor
    BY <1>9 DEF Read
  <2>3. v \in Nat
    BY <1>1, ValuesAre DEF Buffers
  <2> QED BY <1>3, <2>1, <2>2, <2>3 DEF Kinds
<1>10. CASE EnterLoop
  <2> DEFINE op == Op("for", Host, {}, 0)
  <2>1. IsAppended(B, C, cursor, op) /\ cursor < Depth /\ cursor' = cursor + 1 /\ B[cursor + 1] = <<>>
    BY <1>10 DEF EnterLoop, Append1, IsAppended
  <2>2. op \in OpSet /\ op.id = Fresh /\ op.kind = "for"
    BY <1>2 DEF Op, OpSet, Kinds
  <2> HIDE DEF op
  <2> QED BY <1>1, <1>2, <2>1, <2>2, AppendData
<1>11. CASE LeaveLoop
  <2>1. C = B /\ cursor' = cursor - 1 /\ B[cursor] # <<>> /\ cursor > 1
    BY <1>11 DEF LeaveLoop
  <2>2. \A b \in Blocks : b + 1 = cursor => B[b + 1] # <<>>
    BY <2>1
  <2> QED BY <2>1, <2>2 DEF Filled
<1> QED BY <1>5, <1>6, <1>7, <1>8, <1>9, <1>10, <1>11 DEF Build
-----------------------------------------------------------------------------
\* Ends and barriers are put between the ops.
IsMark(x) == x.kind \in {"end", "barrier"} /\ x.id = 0
Marked(B, C) ==
  \A b \in Blocks : \E at :
    /\ at \in [DOMAIN B[b] -> DOMAIN C[b]] /\ \A i, j \in DOMAIN B[b] : i < j => at[i] < at[j]
    /\ \A i \in DOMAIN B[b] : C[b][at[i]] = B[b][i]
    /\ \A p \in DOMAIN C[b] : IsMark(C[b][p]) \/ \E i \in DOMAIN B[b] : p = at[i]

LEMMA MarkedKeeps ==
  ASSUME NEW B, Typed(B), SourceData(B), NEW C, Typed(C), Marked(B, C)
  PROVE  SourceData(C)
<1>1. Own(B) /\ Buffered(B) /\ Kept(B) /\ Given(B) /\ OneLoop(B)
  BY DEF SourceData
<1>2. ASSUME NEW b \in Blocks
      PROVE  \E at : /\ at \in [DOMAIN B[b] -> DOMAIN C[b]] /\ \A i, j \in DOMAIN B[b] : i < j => at[i] < at[j]
                     /\ \A i \in DOMAIN B[b] : C[b][at[i]] = B[b][i]
                     /\ \A p \in DOMAIN C[b] : IsMark(C[b][p]) \/ \E i \in DOMAIN B[b] : p = at[i]
  BY DEF Marked
<1>3. ASSUME NEW b \in Blocks
      PROVE  /\ OpsIn(B, b) \subseteq OpsIn(C, b)
             /\ \A x \in OpsIn(C, b) : IsMark(x) \/ x \in OpsIn(B, b)
             /\ \A p \in DOMAIN C[b] : IsMark(C[b][p]) \/ \E i \in DOMAIN B[b] : C[b][p] = B[b][i]
  BY <1>2 DEF OpsIn
<1>4. \A x : IsMark(x) => x.id = 0 /\ x.kind \notin {"mvm", "write", "stage", "copy", "for"} /\ \A v : ~ Changes(x, v)
  BY DEF IsMark, Changes
<1>5. ASSUME NEW kind \in {"stage", "mvm"} PROVE IdsOf(C, kind) = IdsOf(B, kind)
  <2>1. ASSUME NEW v \in IdsOf(B, kind) PROVE v \in IdsOf(C, kind)
    BY <1>3, IdsOfAre
  <2>2. ASSUME NEW v \in IdsOf(C, kind) PROVE v \in IdsOf(B, kind)
    <3>1. PICK b \in Blocks : \E o \in OpsIn(C, b) : o.kind = kind /\ o.id = v
      BY IdsOfAre
    <3>2. PICK o \in OpsIn(C, b) : o.kind = kind /\ o.id = v
      BY <3>1
    <3>3. o \in OpsIn(B, b)
      BY <1>3, <1>4, <3>2
    <3> QED BY <3>2, <3>3, IdsOfAre
  <2> QED BY <2>1, <2>2
<1>6. FarIn(C) = FarIn(B) /\ HostBuffers(C) = HostBuffers(B)
  BY <1>5 DEF FarIn, HostBuffers
<1>7. ASSUME NEW b \in Blocks, NEW d \in Blocks, NEW p \in DOMAIN C[b], NEW q \in DOMAIN C[d],
             ~ IsMark(C[b][p]), ~ IsMark(C[d][q]), C[b][p] = C[d][q] \/ C[b][p].id = C[d][q].id,
             C[b][p].id # 0
      PROVE  b = d /\ p = q
  <2>1. PICK at : /\ \A i \in DOMAIN B[b] : C[b][at[i]] = B[b][i]
                  /\ \A r \in DOMAIN C[b] : IsMark(C[b][r]) \/ \E i \in DOMAIN B[b] : r = at[i]
    BY <1>2
  <2>2. PICK i \in DOMAIN B[b] : p = at[i]
    BY <1>7, <2>1
  <2>3. \E j \in DOMAIN B[d] : C[d][q] = B[d][j]
    BY <1>3, <1>7
  <2>4. PICK to : /\ \A k \in DOMAIN B[d] : C[d][to[k]] = B[d][k]
                  /\ \A r \in DOMAIN C[d] : IsMark(C[d][r]) \/ \E k \in DOMAIN B[d] : r = to[k]
    BY <1>2
  <2>5. PICK j \in DOMAIN B[d] : q = to[j]
    BY <1>7, <2>4
  <2>6. B[b][i].id = B[d][j].id /\ B[b][i].id # 0
    BY <1>7, <2>1, <2>2, <2>4, <2>5
  <2>7. b = d /\ i = j
    BY <1>1, <2>6 DEF Own
  <2>8. PICK k \in DOMAIN B[b] : q = at[k]
    BY <1>7, <2>1, <2>7
  <2>9. B[b][k].id = B[b][i].id
    BY <1>7, <2>1, <2>2, <2>7, <2>8
  <2>10. k = i
    BY <1>1, <2>6, <2>9 DEF Own
  <2> QED BY <2>2, <2>7, <2>8, <2>10
<1>8. Own(C)
  <2> SUFFICES ASSUME NEW b \in Blocks, NEW d \in Blocks, NEW p \in DOMAIN C[b], NEW q \in DOMAIN C[d],
                      C[b][p].id = C[d][q].id, C[b][p].id # 0
               PROVE  b = d /\ p = q
    BY DEF Own
  <2>1. ~ IsMark(C[b][p]) /\ ~ IsMark(C[d][q])
    BY <1>4
  <2> QED BY <1>7, <2>1
<1>9. Buffered(C)
  <2> SUFFICES ASSUME NEW b \in Blocks, NEW o \in OpsIn(C, b), o.kind \in {"mvm", "write", "for", "copy"}
               PROVE  /\ o.kind = "mvm" => o.src = o.act /\ o.act \in o.reads
                                             /\ o.act \in HostBuffers(C) \cup IdsOf(C, "mvm")
                      /\ o.kind = "write" => o.act \in HostBuffers(C)
                      /\ o.kind # "copy" /\ (o.kind = "for" => o.id # 0)
    BY DEF Buffered
  <2>1. o \in OpsIn(B, b)
    BY <1>3, <1>4
  <2> QED BY <1>1, <1>5, <1>6, <2>1 DEF Buffered
<1>10. \A b \in Blocks : \A a \in Within(b) : a \in Blocks
  BY ScheduleAssumption DEF Within, Blocks
<1>11. Kept(C)
  <2> SUFFICES ASSUME NEW b \in Blocks, NEW p \in DOMAIN C[b], NEW q \in DOMAIN C[b], p < q,
                      C[b][p].kind = "mvm", NEW x \in Region(C, b, C[b][q])
               PROVE  ~ Changes(x, C[b][p].act)
    BY DEF Kept
  <2>1. PICK at : /\ at \in [DOMAIN B[b] -> DOMAIN C[b]] /\ \A i, j \in DOMAIN B[b] : i < j => at[i] < at[j]
                  /\ \A i \in DOMAIN B[b] : C[b][at[i]] = B[b][i]
                  /\ \A r \in DOMAIN C[b] : IsMark(C[b][r]) \/ \E i \in DOMAIN B[b] : r = at[i]
    BY <1>2
  <2>2. PICK i \in DOMAIN B[b] : p = at[i]
    BY <1>4, <2>1
  <2>3. CASE IsMark(C[b][q])
    BY <1>4, <2>3, RegionIs
  <2>4. CASE ~ IsMark(C[b][q])
    <3>1. PICK j \in DOMAIN B[b] : q = at[j]
      BY <2>1, <2>4
    <3>2. i \in Nat /\ j \in Nat /\ p \in Nat /\ q \in Nat
      <4>1. DOMAIN B[b] = 1 .. Len(B[b])
        BY <1>1, OpFields
      <4>2. DOMAIN C[b] = 1 .. Len(C[b])
        BY <1>2, OpFields
      <4> QED BY <4>1, <4>2
    <3>3. i < j
      <4>1. i = j \/ j < i => ~ (p < q)
        BY <2>1, <2>2, <3>1, <3>2
      <4> QED BY <3>2, <4>1
    <3>4. B[b][i] = C[b][p] /\ B[b][j] = C[b][q]
      BY <2>1, <2>2, <3>1
    <3>5. x = C[b][q] \/ (C[b][q].kind = "for" /\ \E a \in Within(b + 1) : x \in OpsIn(C, a))
      BY RegionIs
    <3>6. \A a \in Within(b + 1) : a \in Blocks
      BY ScheduleAssumption DEF Within, Blocks
    <3>7. IsMark(x) \/ x \in Region(B, b, B[b][j])
      BY <1>3, <3>4, <3>5, <3>6 DEF Region
    <3> QED BY <1>1, <1>4, <3>3, <3>4, <3>7 DEF Kept
  <2> QED BY <2>3, <2>4
<1>12. Given(C)
  <2> SUFFICES ASSUME NEW b \in Blocks, NEW o \in OpsIn(C, b), 1 < b, o.kind = "mvm", o.act \in FarIn(C)
               PROVE  \/ \E q \in OpsIn(C, b) : q.kind = "stage" /\ q.id = o.act
                      \/ \A a \in Within(b) : \A x \in OpsIn(C, a) : ~ Changes(x, o.act)
    BY DEF Given
  <2>1. o \in OpsIn(B, b)
    BY <1>3, <1>4
  <2>2. \/ \E q \in OpsIn(B, b) : q.kind = "stage" /\ q.id = o.act
        \/ \A a \in Within(b) : \A x \in OpsIn(B, a) : ~ Changes(x, o.act)
    BY <1>1, <1>6, <2>1 DEF Given
  <2> QED BY <1>3, <1>4, <1>10, <2>2
<1>13. OneLoop(C)
  <2> SUFFICES ASSUME NEW b \in Blocks, NEW p \in DOMAIN C[b], NEW q \in DOMAIN C[b],
                      C[b][p].kind = "for", C[b][q].kind = "for"
               PROVE  p = q
    BY DEF OneLoop
  <2>1. PICK at : /\ \A i \in DOMAIN B[b] : C[b][at[i]] = B[b][i]
                  /\ \A r \in DOMAIN C[b] : IsMark(C[b][r]) \/ \E i \in DOMAIN B[b] : r = at[i]
    BY <1>2
  <2>2. PICK i \in DOMAIN B[b] : p = at[i]
    BY <1>4, <2>1
  <2>3. PICK j \in DOMAIN B[b] : q = at[j]
    BY <1>4, <2>1
  <2> QED BY <1>1, <2>1, <2>2, <2>3 DEF OneLoop
<1> QED BY <1>8, <1>9, <1>11, <1>12, <1>13 DEF SourceData

\* func.return and scf.yield, and the barriers.
LEMMA ReturnData ==
  ASSUME Built, SourceData(blocks), Return
  PROVE  SourceData(blocks')
<1> DEFINE B == blocks
           C == blocks'
           end == Mark("end", Host)
<1>1. Typed(B) /\ Typed(C)
  BY ReturnStep DEF Built, AsBuilt, Lasting
<1>2. IsMark(end)
  BY DEF Mark, IsMark
<1> HIDE DEF end
<1>3. \A b \in Blocks : C[b] = Append(B[b], end) /\ B[b] \in Seq(OpSet)
  BY <1>1 DEF Return, end, Typed
<1>4. ASSUME NEW s \in Seq(OpSet), NEW t, t = Append(s, end)
      PROVE  /\ \A p \in DOMAIN t : p \in DOMAIN s \/ t[p] = end
             /\ \A p \in DOMAIN s : p \in DOMAIN t /\ t[p] = s[p]
  BY <1>4
<1>5. ASSUME NEW b \in Blocks
      PROVE  \E at : /\ at \in [DOMAIN B[b] -> DOMAIN C[b]] /\ \A i, j \in DOMAIN B[b] : i < j => at[i] < at[j]
                     /\ \A i \in DOMAIN B[b] : C[b][at[i]] = B[b][i]
                     /\ \A p \in DOMAIN C[b] : IsMark(C[b][p]) \/ \E i \in DOMAIN B[b] : p = at[i]
  <2> DEFINE at == [i \in DOMAIN B[b] |-> i]
  <2>1. /\ \A p \in DOMAIN C[b] : p \in DOMAIN B[b] \/ C[b][p] = end
        /\ \A p \in DOMAIN B[b] : p \in DOMAIN C[b] /\ C[b][p] = B[b][p]
    BY <1>3, <1>4
  <2>2. at \in [DOMAIN B[b] -> DOMAIN C[b]] /\ \A i \in DOMAIN B[b] : at[i] = i
    BY <2>1
  <2> HIDE DEF at
  <2> QED BY <1>2, <2>1, <2>2
<1>6. Marked(B, C)
  BY <1>5 DEF Marked
<1> QED BY <1>1, <1>6, MarkedKeeps

LEMMA ScheduleData ==
  ASSUME AsBuilt(blocks), Ended(blocks), Entered(blocks, 0), SourceData(blocks), Schedule
  PROVE  SourceData(blocks')
<1> DEFINE B == blocks
           C == blocks'
<1>1. Typed(B) /\ Sound(B) /\ Typed(C) /\ \A b \in Blocks : B[b] # <<>>
  BY ScheduleStep DEF AsBuilt, Lasting, Ended
<1>2. ASSUME NEW b \in Blocks
      PROVE  \E pos \in [0 .. Len(B[b]) -> Nat] : IsSpread(Len(B[b]), C[b], B[b], Barriers(b), pos)
  BY <1>1, ScheduledBlock DEF Schedule
<1>3. ASSUME NEW b \in Blocks, NEW i \in DOMAIN B[b], NEW x \in Barriers(b)[i] PROVE IsMark(x)
  BY DEF Barriers, Barrier, Mark, IsMark
<1>4. ASSUME NEW b \in Blocks
      PROVE  \E at : /\ at \in [DOMAIN B[b] -> DOMAIN C[b]] /\ \A i, j \in DOMAIN B[b] : i < j => at[i] < at[j]
                     /\ \A i \in DOMAIN B[b] : C[b][at[i]] = B[b][i]
                     /\ \A p \in DOMAIN C[b] : IsMark(C[b][p]) \/ \E i \in DOMAIN B[b] : p = at[i]
  <2> DEFINE s == B[b]
             t == C[b]
             n == Len(s)
  <2>1. PICK pos \in [0 .. n -> Nat] : IsSpread(n, t, s, Barriers(b), pos)
    BY <1>2
  <2>2. /\ s \in Seq(OpSet) /\ t \in Seq(OpSet) /\ n \in Nat /\ DOMAIN s = 1 .. n
        /\ DOMAIN t = 1 .. Len(t) /\ Len(t) \in Nat /\ n # 0
    BY <1>1, OpFields
  <2> DEFINE at == [i \in DOMAIN s |-> pos[i]]
  <2>3. /\ pos[0] = 0 /\ pos[n] = Len(t) /\ \A i, j \in 0 .. n : i < j => pos[i] < pos[j]
        /\ \A i \in 1 .. n : t[pos[i]] = s[i]
        /\ \A p \in 1 .. Len(t) : \E i \in 1 .. n : p # pos[i] => t[p] \in Barriers(b)[i]
    BY <2>1 DEF IsSpread
  <2> HIDE DEF s, t, n
  <2>4. ASSUME NEW i \in 1 .. n PROVE pos[i] \in 1 .. Len(t)
    <3>1. 0 \in 0 .. n /\ i \in 0 .. n /\ n \in 0 .. n /\ 0 < i /\ (i < n \/ i = n)
      BY <2>2
    <3>2. pos[i] \in Nat /\ pos[0] < pos[i] /\ (i < n => pos[i] < pos[n])
      BY <2>3, <3>1
    <3> QED BY <2>2, <2>3, <3>1, <3>2
  <2>5. at \in [DOMAIN s -> DOMAIN t] /\ \A i \in DOMAIN s : at[i] = pos[i]
    BY <2>2, <2>4
  <2> HIDE DEF at
  <2>6. \A i, j \in DOMAIN s : i < j => at[i] < at[j]
    BY <2>2, <2>3, <2>5
  <2>7. \A i \in DOMAIN s : t[at[i]] = s[i]
    BY <2>2, <2>3, <2>5
  <2>8. ASSUME NEW p \in DOMAIN t PROVE IsMark(t[p]) \/ \E i \in DOMAIN s : p = at[i]
    <3>1. PICK i \in DOMAIN s : p # pos[i] => t[p] \in Barriers(b)[i]
      BY <2>2, <2>3
    <3>2. p = at[i] \/ IsMark(t[p])
      BY <1>3, <2>5, <3>1 DEF s
    <3> QED BY <3>2
  <2> QED BY <2>5, <2>6, <2>7, <2>8 DEF s, t
<1>5. Marked(B, C)
  BY <1>4 DEF Marked
<1> QED BY <1>1, <1>5, MarkedKeeps
-----------------------------------------------------------------------------
\* Copies have numbers of their own, for each source and anchor.
LEMMA CopiesDiffer ==
  ASSUME Fresh \in Nat, NEW v \in Nat, NEW w \in Nat, NEW a \in Nat, NEW c \in Nat,
         a < Fresh, c < Fresh, CopyOf(v, a) = CopyOf(w, c)
  PROVE  v = w /\ a = c
<1>1. ASSUME NEW n \in Nat, NEW x \in Nat, NEW y \in Nat, NEW d \in Nat, NEW e \in Nat,
             d < n, e < n, x < y
      PROVE  n * x + d # n * y + e
  <2> DEFINE k == y - x - 1
  <2>1. k \in Nat /\ y = x + (1 + k)
    BY <1>1
  <2> HIDE DEF k
  <2>2. n * y = n * x + (n + n * k)
    BY <2>1
  <2>3. n * k \in Nat
    BY <2>1
  <2> DEFINE p == n * x
             q == n * k
  <2>4. p \in Nat /\ q \in Nat /\ n * y = p + (n + q)
    BY <2>2, <2>3
  <2> HIDE DEF p, q
  <2>5. p + d # (p + (n + q)) + e
    BY <1>1, <2>4
  <2> QED BY <2>4, <2>5 DEF p
<1>2. ~ (v < w)
  BY <1>1 DEF CopyOf
<1>3. ~ (w < v)
  BY <1>1 DEF CopyOf
<1>4. v = w
  BY <1>2, <1>3
<1>5. ASSUME NEW p \in Int, p + a = p + c PROVE a = c
  BY <1>5
<1>6. Fresh * v \in Int /\ Fresh * v + a = Fresh * v + c
  BY <1>4 DEF CopyOf
<1> QED BY <1>4, <1>5, <1>6

\* Nothing in the source has the number of a copy.
LEMMA SourceFields ==
  ASSUME ReadyForTransfers, SourceData(blocks)
  PROVE  /\ Fresh \in Nat /\ Typed(blocks)
         /\ \A b \in Blocks : \A o \in OpsIn(blocks, b) :
              /\ o.id \in Nat /\ o.id < Fresh /\ o.kind # "copy"
              /\ o.kind = "write" => o.act \in HostBuffers(blocks)
              /\ o.kind = "mvm" => o.act \in HostBuffers(blocks) \cup IdsOf(blocks, "mvm")
              /\ o.kind \in {"mvm", "stage"} => FarArg < o.id /\ o.id # 0
         /\ \A v \in HostBuffers(blocks) \cup IdsOf(blocks, "mvm") : v \in Nat /\ v < Fresh
         /\ \A v \in HostBuffers(blocks) : v \notin IdsOf(blocks, "mvm")
         /\ \A v : Far(v) <=> v \in FarIn(blocks)
<1> DEFINE B == blocks
<1>1. Typed(B) /\ Sound(B) /\ Distinct(B) /\ Fresh \in Nat /\ Below(B, Fresh) /\ FarArg < Fresh
  BY FreshIsNew DEF ReadyForTransfers, Lasting
<1>2. \A b \in Blocks : \A o \in OpsIn(B, b) :
        /\ o.id \in Nat /\ o.id < Fresh /\ o.kind # "copy"
        /\ o.kind = "write" => o.act \in HostBuffers(B)
        /\ o.kind = "mvm" => o.act \in HostBuffers(B) \cup IdsOf(B, "mvm")
        /\ o.kind \in {"mvm", "stage"} => FarArg < o.id /\ o.id # 0
  BY <1>1, IdsAre DEF Below, SourceData, Buffered, Sound, OpOK, Issued, FarArg
<1>3. \A v \in HostBuffers(B) \cup IdsOf(B, "mvm") : v \in Nat /\ v < Fresh
  BY <1>1, <1>2, IdsOfAre DEF HostBuffers, FarIn, NearArg, FarArg
<1>4. ASSUME NEW v \in HostBuffers(B), v \in IdsOf(B, "mvm") PROVE FALSE
  <2>1. PICK b \in Blocks : \E o \in OpsIn(B, b) : o.kind = "mvm" /\ o.id = v
    BY <1>4, IdsOfAre
  <2>2. PICK o \in OpsIn(B, b) : o.kind = "mvm" /\ o.id = v
    BY <2>1
  <2>3. FarArg < v /\ v # NearArg /\ v # FarArg
    BY <1>2, <2>2 DEF NearArg, FarArg
  <2>4. PICK d \in Blocks : \E q \in OpsIn(B, d) : q.kind = "stage" /\ q.id = v
    BY <2>3, IdsOfAre DEF HostBuffers, FarIn
  <2>5. PICK q \in OpsIn(B, d) : q.kind = "stage" /\ q.id = v
    BY <2>4
  <2> QED BY <1>1, <2>2, <2>5 DEF Distinct, Issued
<1>5. \A v : Far(v) <=> v \in FarIn(B)
  BY OpsAre, IdsOfAre DEF Far, FarIn, Results
<1> QED BY <1>1, <1>2, <1>3, <1>4, <1>5

LEMMA CopyFields ==
  ASSUME ReadyForTransfers, SourceData(blocks), NEW b \in Blocks, NEW o \in OpsIn(blocks, b), NEW x \in CopiesOf(o)
  PROVE  /\ x.kind = "copy" /\ x.act \in FarIn(blocks) /\ x.act \in Nat /\ x.act < Fresh
         /\ x.id = CopyOf(x.act, o.id) /\ x.id \in Nat /\ Fresh <= x.id
         /\ o.id # 0 /\ o.id \in Nat /\ o.id < Fresh
<1>1. PICK v \in IF o.id = 0 THEN {} ELSE Copies(o.id) : x = CopyOp(v, o.id)
  BY DEF CopiesOf
<1>2. o.id # 0 /\ Far(v)
  BY <1>1 DEF Copies
<1>3. x.kind = "copy" /\ x.act = v /\ x.id = CopyOf(v, o.id)
  BY <1>1 DEF CopyOp
<1>4. o.id \in Nat /\ o.id < Fresh /\ v \in FarIn(blocks) /\ v \in Nat /\ v < Fresh
  BY <1>2, SourceFields DEF HostBuffers
<1>5. CopyOf(v, o.id) \in Nat /\ Fresh <= CopyOf(v, o.id)
  BY <1>2, <1>4, CopiesAreNew
<1> QED BY <1>2, <1>3, <1>4, <1>5

LEMMA RewiredFields ==
  ASSUME ReadyForTransfers, NEW b \in Blocks, NEW o \in OpsIn(blocks, b), NEW r, r = Rewired(o, b)
  PROVE  /\ r.id = o.id /\ r.kind = o.kind /\ r.act = o.act
         /\ \A v : Changes(r, v) <=> Changes(o, v)
         /\ IF o.kind = "mvm" /\ Far(o.act) THEN r.src = CopyOf(o.act, Anchor(o, b)) ELSE r = o
<1>1. o \in OpSet
  BY OpFields DEF ReadyForTransfers, Lasting
<1>2. /\ r.id = o.id /\ r.kind = o.kind /\ r.act = o.act
      /\ IF o.kind = "mvm" /\ Far(o.act) THEN r.src = CopyOf(o.act, Anchor(o, b)) ELSE r = o
  <2>1. CASE o.kind = "mvm" /\ Far(o.act)
    <3> DEFINE c == CopyOf(o.act, Anchor(o, b))
    <3>1. r = [[o EXCEPT !.src = c] EXCEPT !.reads = (@ \ {o.act}) \cup {c}]
      BY <2>1 DEF Rewired
    <3> HIDE DEF c
    <3>2. r.id = o.id /\ r.kind = o.kind /\ r.act = o.act /\ r.src = c
      BY <1>1, <3>1 DEF OpSet
    <3> QED BY <2>1, <3>2 DEF c
  <2>2. CASE ~ (o.kind = "mvm" /\ Far(o.act))
    BY <2>2 DEF Rewired
  <2> QED BY <2>1, <2>2
<1> QED BY <1>2 DEF Changes
-----------------------------------------------------------------------------
\* The blocks after cim-insert-transfers; pos[i] is where the i-th op went.
IsTransferred(C, b, pos) ==
  /\ pos \in [0 .. Len(blocks[b]) -> Nat]
  /\ IsSpread(Len(blocks[b]), C[b], RewiredIn(b), CopiesBefore(b), pos)
Transferred(C) == Typed(C) /\ \A b \in Blocks : \E pos : IsTransferred(C, b, pos)

\* Where each op and each copy for it is.
Placed(C, b, pos) ==
  \A i \in DOMAIN blocks[b] :
    /\ pos[i] \in DOMAIN C[b] /\ C[b][pos[i]] = Rewired(blocks[b][i], b)
    /\ \A x \in CopiesOf(blocks[b][i]) :
         \E p \in DOMAIN C[b] : pos[i - 1] < p /\ p < pos[i] /\ C[b][p] = x

\* What is at each place, and where each op and each copy is.
LEMMA TransferredAt ==
  ASSUME ReadyForTransfers, NEW C, Typed(C), NEW b \in Blocks, NEW pos, IsTransferred(C, b, pos)
  PROVE  /\ Placed(C, b, pos)
         /\ \A p \in DOMAIN C[b] : p \in Nat /\ \E i \in DOMAIN blocks[b] :
              /\ pos[i - 1] < p /\ p <= pos[i]
              /\ \/ p = pos[i] /\ C[b][p] = Rewired(blocks[b][i], b)
                 \/ p # pos[i] /\ C[b][p] \in CopiesOf(blocks[b][i])
         /\ \A i, j \in 0 .. Len(blocks[b]) : pos[i] \in Nat /\ pos[j] \in Nat /\ (i < j => pos[i] < pos[j])
         /\ Len(blocks[b]) \in Nat /\ DOMAIN blocks[b] = 1 .. Len(blocks[b])
         /\ \A i \in DOMAIN blocks[b] : blocks[b][i] \in OpsIn(blocks, b)
<1> DEFINE s == blocks[b]
           n == Len(s)
           t == C[b]
<1>1. n \in Nat /\ DOMAIN s = 1 .. n /\ \A i \in DOMAIN s : s[i] \in OpsIn(blocks, b)
  BY OpFields DEF ReadyForTransfers, Lasting
<1>2. DOMAIN t = 1 .. Len(t) /\ Len(t) \in Nat
  BY OpFields
<1>3. /\ pos \in [0 .. n -> Nat] /\ pos[n] = Len(t) /\ pos[0] = 0
      /\ \A i, j \in 0 .. n : i < j => pos[i] < pos[j]
      /\ \A i \in 1 .. n : t[pos[i]] = RewiredIn(b)[i]
      /\ \A p \in 1 .. Len(t) : \E i \in 1 .. n :
           pos[i - 1] < p /\ p <= pos[i] /\ (p # pos[i] => t[p] \in CopiesBefore(b)[i])
      /\ \A i \in 1 .. n : \A x \in CopiesBefore(b)[i] : \E p \in 1 .. Len(t) :
           pos[i - 1] < p /\ p < pos[i] /\ t[p] = x
  BY DEF IsTransferred, IsSpread
<1>4. \A i \in 1 .. n : RewiredIn(b)[i] = Rewired(s[i], b) /\ CopiesBefore(b)[i] = CopiesOf(s[i])
  BY <1>1 DEF RewiredIn, CopiesBefore
<1> HIDE DEF s, n, t
<1>5. ASSUME NEW i \in 1 .. n PROVE pos[i] \in 1 .. Len(t)
  <2>1. 0 \in 0 .. n /\ i \in 0 .. n /\ n \in 0 .. n /\ 0 < i /\ (i = n \/ i < n)
    BY <1>1
  <2>2. pos[0] < pos[i] /\ (i < n => pos[i] < pos[n]) /\ pos[i] \in Nat
    BY <1>3, <2>1
  <2> QED BY <1>2, <1>3, <2>1, <2>2
<1>6. \A i \in DOMAIN s :
        /\ pos[i] \in DOMAIN t /\ t[pos[i]] = Rewired(s[i], b)
        /\ \A x \in CopiesOf(s[i]) : \E p \in DOMAIN t : pos[i - 1] < p /\ p < pos[i] /\ t[p] = x
  <2> SUFFICES ASSUME NEW i \in 1 .. n
               PROVE  /\ pos[i] \in DOMAIN t /\ t[pos[i]] = Rewired(s[i], b)
                      /\ \A x \in CopiesOf(s[i]) : \E p \in DOMAIN t : pos[i - 1] < p /\ p < pos[i] /\ t[p] = x
    BY <1>1
  <2>1. pos[i] \in DOMAIN t
    BY <1>2, <1>5
  <2>2. t[pos[i]] = Rewired(s[i], b)
    BY <1>3, <1>4
  <2>3. CopiesBefore(b)[i] = CopiesOf(s[i])
    BY <1>4
  <2>4. \A x \in CopiesBefore(b)[i] : \E p \in 1 .. Len(t) : pos[i - 1] < p /\ p < pos[i] /\ t[p] = x
    BY <1>3
  <2> QED BY <1>2, <2>1, <2>2, <2>3, <2>4
<1>7. \A p \in DOMAIN t : p \in Nat /\ \E i \in DOMAIN s :
        /\ pos[i - 1] < p /\ p <= pos[i]
        /\ \/ p = pos[i] /\ t[p] = Rewired(s[i], b)
           \/ p # pos[i] /\ t[p] \in CopiesOf(s[i])
  <2> SUFFICES ASSUME NEW p \in DOMAIN t
               PROVE  p \in Nat /\ \E i \in DOMAIN s :
                        /\ pos[i - 1] < p /\ p <= pos[i]
                        /\ \/ p = pos[i] /\ t[p] = Rewired(s[i], b)
                           \/ p # pos[i] /\ t[p] \in CopiesOf(s[i])
    OBVIOUS
  <2>1. PICK i \in 1 .. n : pos[i - 1] < p /\ p <= pos[i] /\ (p # pos[i] => t[p] \in CopiesBefore(b)[i])
    BY <1>2, <1>3
  <2>2. t[pos[i]] = Rewired(s[i], b) /\ CopiesBefore(b)[i] = CopiesOf(s[i]) /\ i \in DOMAIN s
    BY <1>1, <1>3, <1>4
  <2> QED BY <1>2, <2>1, <2>2
<1>8. \A i, j \in 0 .. n : pos[i] \in Nat /\ pos[j] \in Nat /\ (i < j => pos[i] < pos[j])
  BY <1>3
<1> QED BY <1>1, <1>6, <1>7, <1>8 DEF s, n, t, Placed

\* Each op of the result was there or is a copy for one that was there.
LEMMA TransferredOps ==
  ASSUME ReadyForTransfers, NEW C, Transferred(C), NEW b \in Blocks
  PROVE  /\ \A x \in OpsIn(C, b) : \E o \in OpsIn(blocks, b) : x = Rewired(o, b) \/ x \in CopiesOf(o)
         /\ \A o \in OpsIn(blocks, b) : Rewired(o, b) \in OpsIn(C, b) /\ CopiesOf(o) \subseteq OpsIn(C, b)
<1>1. PICK pos : Typed(C) /\ IsTransferred(C, b, pos)
  BY DEF Transferred
<1>2. \A p \in DOMAIN C[b] : \E i \in DOMAIN blocks[b] :
        C[b][p] = Rewired(blocks[b][i], b) \/ C[b][p] \in CopiesOf(blocks[b][i])
  BY <1>1, TransferredAt
<1>3. \A i \in DOMAIN blocks[b] :
        /\ pos[i] \in DOMAIN C[b] /\ C[b][pos[i]] = Rewired(blocks[b][i], b)
        /\ \A x \in CopiesOf(blocks[b][i]) :
             \E p \in DOMAIN C[b] : pos[i - 1] < p /\ p < pos[i] /\ C[b][p] = x
  <2>1. Placed(C, b, pos)
    BY <1>1, TransferredAt
  <2> QED BY <2>1 DEF Placed
<1>4. ASSUME NEW x \in OpsIn(C, b)
      PROVE  \E o \in OpsIn(blocks, b) : x = Rewired(o, b) \/ x \in CopiesOf(o)
  BY <1>2 DEF OpsIn
<1>5. ASSUME NEW o \in OpsIn(blocks, b)
      PROVE  Rewired(o, b) \in OpsIn(C, b) /\ CopiesOf(o) \subseteq OpsIn(C, b)
  <2>1. PICK i \in DOMAIN blocks[b] : o = blocks[b][i]
    BY DEF OpsIn
  <2>2. Rewired(o, b) \in OpsIn(C, b)
    BY <1>3, <2>1 DEF OpsIn
  <2>3. \A x \in CopiesOf(o) : \E p \in DOMAIN C[b] : C[b][p] = x
    BY <1>3, <2>1
  <2> QED BY <2>2, <2>3 DEF OpsIn
<1> QED BY <1>4, <1>5

\* The numbers of an op of the result.
LEMMA TransferredFields ==
  ASSUME ReadyForTransfers, SourceData(blocks), NEW C, Transferred(C), NEW b \in Blocks, NEW x \in OpsIn(C, b)
  PROVE  /\ x.kind = "copy" => x.id \in Nat /\ Fresh <= x.id /\ x.act \in FarIn(blocks)
         /\ x.kind # "copy" => \E o \in OpsIn(blocks, b) :
              x = Rewired(o, b) /\ o.id = x.id /\ o.kind = x.kind /\ o.act = x.act
<1>1. PICK o \in OpsIn(blocks, b) : x = Rewired(o, b) \/ x \in CopiesOf(o)
  BY TransferredOps
<1>2. CASE x = Rewired(o, b)
  <2>1. x.id = o.id /\ x.kind = o.kind /\ x.act = o.act
    BY <1>2, RewiredFields
  <2>2. o.kind # "copy"
    BY SourceFields
  <2> QED BY <1>2, <2>1, <2>2
<1>3. CASE x \in CopiesOf(o)
  BY <1>3, CopyFields
<1> QED BY <1>1, <1>2, <1>3

LEMMA TransferredIds ==
  ASSUME ReadyForTransfers, SourceData(blocks), NEW C, Transferred(C)
  PROVE  /\ \A v \in IdsOf(C, "copy") : v \in Nat /\ Fresh <= v
         /\ \A kind \in Kinds \ {"copy"} : IdsOf(C, kind) \subseteq IdsOf(blocks, kind)
<1>1. ASSUME NEW v \in IdsOf(C, "copy") PROVE v \in Nat /\ Fresh <= v
  <2>1. PICK b \in Blocks : \E o \in OpsIn(C, b) : o.kind = "copy" /\ o.id = v
    BY IdsOfAre
  <2> QED BY <2>1, TransferredFields
<1>2. ASSUME NEW kind \in Kinds \ {"copy"}, NEW v \in IdsOf(C, kind) PROVE v \in IdsOf(blocks, kind)
  <2>1. PICK b \in Blocks : \E o \in OpsIn(C, b) : o.kind = kind /\ o.id = v
    BY IdsOfAre
  <2>2. PICK x \in OpsIn(C, b) : x.kind = kind /\ x.id = v
    BY <2>1
  <2>3. \E o \in OpsIn(blocks, b) : o.kind = kind /\ o.id = v
    BY <2>2, TransferredFields
  <2> QED BY <2>3, IdsOfAre
<1> QED BY <1>1, <1>2

\* Copies, sources and results keep apart.
LEMMA TransferredApart ==
  ASSUME ReadyForTransfers, SourceData(blocks), NEW C, Transferred(C)
  PROVE  Apart(C)
<1>1. /\ \A v \in IdsOf(C, "copy") : v \in Nat /\ Fresh <= v
      /\ IdsOf(C, "mvm") \subseteq IdsOf(blocks, "mvm")
  BY TransferredIds DEF Kinds
<1>2. Fresh \in Nat
  BY SourceFields
<1>3. \A v \in HostBuffers(blocks) : v \notin IdsOf(C, "mvm") \cup IdsOf(C, "copy")
  <2>1. \A v \in HostBuffers(blocks) : v \in Nat /\ v < Fresh /\ v \notin IdsOf(blocks, "mvm")
    BY SourceFields
  <2> QED BY <1>1, <1>2, <2>1
<1>4. ASSUME NEW b \in Blocks, NEW x \in OpsIn(C, b)
      PROVE  /\ x.kind \in {"copy", "write"} => x.act \notin IdsOf(C, "mvm") \cup IdsOf(C, "copy")
             /\ x.kind = "stage" => x.id \notin IdsOf(C, "mvm")
             /\ x.kind \in {"mvm", "stage"} => x.id \notin IdsOf(C, "copy")
  <2>1. CASE x.kind = "copy"
    BY <1>3, <2>1, TransferredFields DEF HostBuffers
  <2>2. CASE x.kind # "copy"
    <3>1. PICK o \in OpsIn(blocks, b) : o.id = x.id /\ o.kind = x.kind /\ o.act = x.act
      BY <2>2, TransferredFields
    <3>2. x.id \in Nat /\ x.id < Fresh /\ (x.kind = "write" => x.act \in HostBuffers(blocks))
      BY <3>1, SourceFields
    <3>3. x.kind = "stage" => x.id \in HostBuffers(blocks)
      BY <3>1, IdsOfAre DEF HostBuffers, FarIn
    <3> QED BY <1>1, <1>2, <1>3, <2>2, <3>2, <3>3
  <2> QED BY <2>1, <2>2
<1> QED BY <1>4 DEF Apart

LEMMA TransferredOneLoop ==
  ASSUME ReadyForTransfers, SourceData(blocks), NEW C, Transferred(C)
  PROVE  OneLoop(C)
<1> SUFFICES ASSUME NEW b \in Blocks, NEW i \in DOMAIN C[b], NEW j \in DOMAIN C[b],
                    C[b][i].kind = "for", C[b][j].kind = "for"
             PROVE  i = j
  BY DEF OneLoop
<1>1. PICK pos : Typed(C) /\ IsTransferred(C, b, pos)
  BY DEF Transferred
<1>2. ASSUME NEW p \in DOMAIN C[b], C[b][p].kind = "for"
      PROVE  \E k \in DOMAIN blocks[b] : p = pos[k] /\ blocks[b][k].kind = "for"
  <2>1. PICK k \in DOMAIN blocks[b] : \/ p = pos[k] /\ C[b][p] = Rewired(blocks[b][k], b)
                                      \/ C[b][p] \in CopiesOf(blocks[b][k])
    BY <1>1, TransferredAt
  <2>2. blocks[b][k] \in OpsIn(blocks, b)
    BY DEF OpsIn
  <2>3. C[b][p] \notin CopiesOf(blocks[b][k])
    BY <1>2, <2>2, CopyFields
  <2> QED BY <1>2, <2>1, <2>2, <2>3, RewiredFields
<1>3. PICK k \in DOMAIN blocks[b] : i = pos[k] /\ blocks[b][k].kind = "for"
  BY <1>2
<1>4. PICK m \in DOMAIN blocks[b] : j = pos[m] /\ blocks[b][m].kind = "for"
  BY <1>2
<1> QED BY <1>3, <1>4 DEF SourceData, OneLoop

\* What stands for a loop or an op in the result was there, or is a copy for
\* what was there.
LEMMA TransferredRegion ==
  ASSUME ReadyForTransfers, SourceData(blocks), NEW C, Transferred(C),
         NEW b \in Blocks, NEW o \in OpsIn(blocks, b), NEW r, r = Rewired(o, b), NEW x \in Region(C, b, r)
  PROVE  \E a \in Blocks : \E y \in OpsIn(blocks, a) :
           /\ y \in Region(blocks, b, o)
           /\ (y = o /\ a = b) \/ (b < a /\ o.kind = "for" /\ a \in Within(b + 1))
           /\ x = Rewired(y, a) \/ (b < a /\ x \in CopiesOf(y))
<1>1. b \in Nat /\ Depth \in Nat
  BY ScheduleAssumption DEF Blocks
<1>2. CASE x = r
  BY <1>2 DEF Region
<1>3. CASE x # r
  <2>1. PICK a \in Within(b + 1) : x \in OpsIn(C, a) /\ r.kind = "for"
    BY <1>3, RegionIs
  <2>2. a \in Blocks /\ b < a
    BY <1>1, <2>1 DEF Within, Blocks
  <2>3. PICK y \in OpsIn(blocks, a) : x = Rewired(y, a) \/ x \in CopiesOf(y)
    BY <2>1, <2>2, TransferredOps
  <2>4. o.kind = "for"
    BY <2>1, RewiredFields
  <2>5. y \in Region(blocks, b, o)
    BY <2>1, <2>3, <2>4 DEF Region
  <2> QED BY <2>1, <2>2, <2>3, <2>4, <2>5
<1> QED BY <1>2, <1>3

\* What an op of the source may change is below the numbers of the copies; what
\* a copy changes is not.
LEMMA ChangesAre ==
  ASSUME ReadyForTransfers, SourceData(blocks), NEW b \in Blocks, NEW o \in OpsIn(blocks, b), NEW v
  PROVE  /\ Changes(o, v) => v \in Nat /\ v < Fresh
         /\ \A x \in CopiesOf(o) : Changes(x, v) <=> v = CopyOf(x.act, o.id)
<1>1. Changes(o, v) => v \in Nat /\ v < Fresh
  BY SourceFields DEF Changes
<1>2. \A x \in CopiesOf(o) : x.kind = "copy" /\ x.id = CopyOf(x.act, o.id)
  BY CopyFields
<1> QED BY <1>1, <1>2 DEF Changes

\* The anchor of a cim.mvm is the op itself or the loop around it.
LEMMA AnchorIs ==
  ASSUME ReadyForTransfers, SourceData(blocks), NEW b \in Blocks, NEW o \in OpsIn(blocks, b),
         o.kind = "mvm", Far(o.act)
  PROVE  \/ ~ LoopInvariant(o.act, b) /\ Anchor(o, b) = o.id
         \/ /\ LoopInvariant(o.act, b) /\ HomeBlock(o.act) < b /\ 1 < b /\ b - 1 \in Blocks
            /\ LoopOf(b) \in OpsIn(blocks, b - 1) /\ LoopOf(b).kind = "for"
            /\ Anchor(o, b) = LoopOf(b).id /\ LoopOf(b).id # 0
<1>1. CASE ~ LoopInvariant(o.act, b)
  BY <1>1 DEF Anchor
<1>2. CASE LoopInvariant(o.act, b)
  <2>1. HomeBlock(o.act) \in Blocks /\ HomeBlock(o.act) < b
    BY <1>2, FarValues DEF ReadyForTransfers, LoopInvariant
  <2>2. 1 < b /\ b - 1 \in Blocks
    BY <2>1, ScheduleAssumption DEF Blocks
  <2>3. \E p \in OpsIn(blocks, b - 1) : p.kind = "for"
    BY <2>2 DEF ReadyForTransfers, Entered
  <2>4. LoopOf(b) \in OpsIn(blocks, b - 1) /\ LoopOf(b).kind = "for"
    <3>1. Ops(b - 1) = OpsIn(blocks, b - 1)
      BY OpsAre
    <3> QED BY <2>3, <3>1 DEF LoopOf
  <2>5. LoopOf(b).id # 0
    BY <2>2, <2>4 DEF SourceData, Buffered
  <2> QED BY <1>2, <2>1, <2>2, <2>4, <2>5 DEF Anchor
<1> QED BY <1>1, <1>2

LEMMA AnchorIsOld ==
  ASSUME ReadyForTransfers, SourceData(blocks), NEW b \in Blocks, NEW o \in OpsIn(blocks, b),
         o.kind = "mvm", Far(o.act)
  PROVE  Anchor(o, b) \in Nat /\ Anchor(o, b) < Fresh /\ CopyOf(o.act, Anchor(o, b)) \in Nat
         /\ Fresh <= CopyOf(o.act, Anchor(o, b)) /\ o.act \in Nat
<1>1. \A d \in Blocks : \A p \in OpsIn(blocks, d) : p.id \in Nat /\ p.id < Fresh
  BY SourceFields
<1>2. Anchor(o, b) \in Nat /\ Anchor(o, b) < Fresh
  BY <1>1, AnchorIs
<1> QED BY <1>2, CopiesAreNew, FarValues DEF ReadyForTransfers

\* Two ops of the source at different places have different ids.
LEMMA OwnIds ==
  ASSUME NEW B, SourceData(B), NEW a \in Blocks, NEW c \in Blocks, NEW p \in OpsIn(B, a), NEW q \in OpsIn(B, c),
         p.id = q.id, p.id # 0
  PROVE  a = c
BY DEF SourceData, Own, OpsIn

\* Nothing after a cim.mvm changes what it reads or its result.
LEMMA TransferredUndisturbed ==
  ASSUME ReadyForTransfers, SourceData(blocks), NEW C, Transferred(C)
  PROVE  Undisturbed(C)
<1> SUFFICES ASSUME NEW b \in Blocks, NEW i \in DOMAIN C[b], NEW j \in DOMAIN C[b],
                    i < j, C[b][i].kind = "mvm", NEW x \in Region(C, b, C[b][j])
             PROVE  ~ Changes(x, C[b][i].src) /\ ~ Changes(x, C[b][i].id)
  BY DEF Undisturbed
<1>1. PICK pos : Typed(C) /\ IsTransferred(C, b, pos)
  BY DEF Transferred
<1>2. /\ \A p \in DOMAIN C[b] : p \in Nat /\ \E k \in DOMAIN blocks[b] :
           /\ pos[k - 1] < p /\ p <= pos[k]
           /\ \/ p = pos[k] /\ C[b][p] = Rewired(blocks[b][k], b)
              \/ p # pos[k] /\ C[b][p] \in CopiesOf(blocks[b][k])
      /\ \A k, m \in 0 .. Len(blocks[b]) : pos[k] \in Nat /\ pos[m] \in Nat /\ (k < m => pos[k] < pos[m])
      /\ Len(blocks[b]) \in Nat /\ DOMAIN blocks[b] = 1 .. Len(blocks[b])
      /\ \A k \in DOMAIN blocks[b] : blocks[b][k] \in OpsIn(blocks, b)
  BY <1>1, TransferredAt
<1>3. PICK k \in DOMAIN blocks[b] :
        \/ i = pos[k] /\ C[b][i] = Rewired(blocks[b][k], b)
        \/ i # pos[k] /\ C[b][i] \in CopiesOf(blocks[b][k])
  BY <1>2
<1>4. PICK m \in DOMAIN blocks[b] :
        /\ pos[m - 1] < j /\ j <= pos[m]
        /\ \/ j = pos[m] /\ C[b][j] = Rewired(blocks[b][m], b)
           \/ j # pos[m] /\ C[b][j] \in CopiesOf(blocks[b][m])
  BY <1>2
<1> DEFINE o == blocks[b][k]
           e == blocks[b][m]
           src == C[b][i].src
<1>5. o \in OpsIn(blocks, b) /\ e \in OpsIn(blocks, b)
  BY <1>2
<1>6. i = pos[k] /\ C[b][i] = Rewired(o, b)
  <2>1. C[b][i] \notin CopiesOf(o)
    BY <1>5, CopyFields
  <2> QED BY <1>3, <2>1
<1>7. o.kind = "mvm" /\ C[b][i].id = o.id
      /\ IF Far(o.act) THEN src = CopyOf(o.act, Anchor(o, b)) ELSE C[b][i] = o
  BY <1>5, <1>6, RewiredFields
<1>8. k < m
  <2>1. k \in 0 .. Len(blocks[b]) /\ m \in 0 .. Len(blocks[b]) /\ k \in Nat /\ m \in Nat
    BY <1>2
  <2>2. i \in Nat /\ j \in Nat /\ pos[k] \in Nat /\ pos[m] \in Nat
    BY <1>2, <2>1
  <2>3. m < k => pos[m] < pos[k]
    BY <1>2, <2>1
  <2> QED BY <1>4, <1>6, <2>1, <2>2, <2>3
<1>9. o.id \in Nat /\ o.id < Fresh /\ o.id # 0 /\ o.id \in IdsOf(blocks, "mvm")
      /\ o.src = o.act /\ o.act \in Nat /\ o.act < Fresh /\ Fresh \in Nat
  <2>1. o.id \in IdsOf(blocks, "mvm")
    BY <1>5, <1>7, IdsOfAre
  <2>2. o.src = o.act
    BY <1>5, <1>7 DEF SourceData, Buffered
  <2> QED BY <1>5, <1>7, <2>1, <2>2, SourceFields
<1>10. \A y \in Region(blocks, b, e) : ~ Changes(y, o.act)
  BY <1>7, <1>8 DEF SourceData, Kept
\* The copies: none has the number of the one that o reads.
<1>11. ASSUME NEW a \in Blocks, NEW y \in OpsIn(blocks, a), x \in CopiesOf(y), b < a \/ y = e
       PROVE  ~ Changes(x, src) /\ ~ Changes(x, o.id)
  <2>1. /\ x.id = CopyOf(x.act, y.id) /\ x.act \in Nat /\ Fresh <= x.id /\ x.id \in Nat
        /\ y.id # 0 /\ y.id \in Nat /\ y.id < Fresh
    BY <1>11, CopyFields
  <2>2. \A v : Changes(x, v) <=> v = CopyOf(x.act, y.id)
    BY <1>11, ChangesAre
  <2>3. ~ Changes(x, o.id)
    BY <1>9, <2>1, <2>2
  <2>4. CASE ~ Far(o.act)
    BY <1>7, <1>9, <2>1, <2>2, <2>4
  <2>5. CASE Far(o.act)
    <3> SUFFICES ASSUME src = CopyOf(x.act, y.id) PROVE FALSE
      BY <2>2, <2>3
    <3>1. Anchor(o, b) \in Nat /\ Anchor(o, b) < Fresh
      BY <1>5, <1>7, <2>5, AnchorIsOld
    <3>2. Anchor(o, b) = y.id
      BY <1>7, <1>9, <2>1, <2>5, <3>1, CopiesDiffer
    <3>3. CASE Anchor(o, b) = o.id
      <4>1. a = b
        BY <1>5, <1>9, <3>2, <3>3, OwnIds
      <4>2. y = e
        BY <1>11, <4>1 DEF Blocks
      <4>3. k = m
        <5>1. blocks[b][k].id = blocks[b][m].id /\ blocks[b][k].id # 0
          BY <1>9, <3>2, <3>3, <4>2
        <5> QED BY <5>1 DEF SourceData, Own
      <4>4. k \in Nat
        BY <1>2
      <4> QED BY <1>8, <4>3, <4>4
    <3>4. CASE Anchor(o, b) # o.id
      <4>1. b - 1 \in Blocks /\ LoopOf(b) \in OpsIn(blocks, b - 1) /\ LoopOf(b).id = y.id
        BY <1>5, <1>7, <2>5, <3>2, <3>4, AnchorIs
      <4>2. a = b - 1
        BY <2>1, <4>1, OwnIds
      <4>3. b <= a
        BY <1>5, <1>11, <2>1, <4>1, OwnIds DEF Blocks
      <4> QED BY <4>2, <4>3 DEF Blocks
    <3> QED BY <3>3, <3>4
  <2> QED BY <2>4, <2>5
\* The ops that were there.
<1>12. ASSUME NEW a \in Blocks, NEW y \in OpsIn(blocks, a), x = Rewired(y, a), y \in Region(blocks, b, e),
              b < a \/ (y = e /\ a = b)
       PROVE  ~ Changes(x, src) /\ ~ Changes(x, o.id)
  <2>1. \A v : Changes(x, v) <=> Changes(y, v)
    BY <1>12, RewiredFields
  <2>2. ~ Changes(y, src)
    <3>1. CASE Far(o.act)
      <4>1. src \in Nat /\ Fresh <= src
        BY <1>5, <1>7, <3>1, AnchorIsOld
      <4>2. Changes(y, src) => src < Fresh
        BY ChangesAre
      <4> QED BY <1>9, <4>1, <4>2
    <3>2. CASE ~ Far(o.act)
      BY <1>7, <1>9, <1>10, <1>12, <3>2
    <3> QED BY <3>1, <3>2
  <2>3. ~ Changes(y, o.id)
    <3> SUFFICES ASSUME Changes(y, o.id) PROVE FALSE
      OBVIOUS
    <3>1. ~ (y.kind = "write" /\ y.act = o.id)
      BY <1>9, SourceFields
    <3>2. y.id = o.id
      BY <3>1 DEF Changes
    <3>3. a = b
      BY <1>5, <1>9, <3>2, OwnIds
    <3>4. y = e
      BY <1>12, <3>3 DEF Blocks
    <3>5. k = m
      BY <1>9, <3>2, <3>4 DEF SourceData, Own
    <3>6. k \in Nat
      BY <1>2
    <3> QED BY <1>8, <3>5, <3>6
  <2> QED BY <2>1, <2>2, <2>3
<1>13. CASE C[b][j] = Rewired(e, b)
  <2>1. PICK a \in Blocks : \E y \in OpsIn(blocks, a) :
          /\ y \in Region(blocks, b, e)
          /\ (y = e /\ a = b) \/ b < a
          /\ x = Rewired(y, a) \/ (b < a /\ x \in CopiesOf(y))
    BY <1>5, <1>13, TransferredRegion
  <2> QED BY <1>7, <1>11, <1>12, <2>1
<1>14. CASE C[b][j] \in CopiesOf(e)
  <2>1. x = C[b][j]
    BY <1>5, <1>14, CopyFields, RegionIs
  <2> QED BY <1>5, <1>7, <1>11, <1>14, <2>1
<1> QED BY <1>4, <1>13, <1>14

\* A copy stands before its anchor, and from there to the anchor nothing
\* changes it or its source; what is nested in the anchor is another matter.
LEMMA CopyStands ==
  ASSUME ReadyForTransfers, SourceData(blocks), NEW C, Transferred(C),
         NEW b \in Blocks, NEW o \in OpsIn(blocks, b), NEW w, CopyOp(w, o.id) \in CopiesOf(o), w \in FarIn(blocks),
         \A x \in Region(C, b, Rewired(o, b)) :
           ~ Changes(x, w) /\ (Changes(x, CopyOf(w, o.id)) => x.kind = "copy" /\ x.act = w)
  PROVE  \E p, q \in DOMAIN C[b] :
           C[b][q] = Rewired(o, b) /\ Holds(C, b, p, q, CopyOf(w, o.id), w)
<1> DEFINE v == CopyOf(w, o.id)
<1>1. PICK pos : Typed(C) /\ IsTransferred(C, b, pos)
  BY DEF Transferred
<1>2. Placed(C, b, pos)
  BY <1>1, TransferredAt
<1>3. /\ \A p \in DOMAIN C[b] : p \in Nat /\ \E i \in DOMAIN blocks[b] :
           /\ pos[i - 1] < p /\ p <= pos[i]
           /\ \/ p = pos[i] /\ C[b][p] = Rewired(blocks[b][i], b)
              \/ p # pos[i] /\ C[b][p] \in CopiesOf(blocks[b][i])
      /\ \A i, j \in 0 .. Len(blocks[b]) : pos[i] \in Nat /\ pos[j] \in Nat /\ (i < j => pos[i] < pos[j])
      /\ Len(blocks[b]) \in Nat /\ DOMAIN blocks[b] = 1 .. Len(blocks[b])
      /\ \A i \in DOMAIN blocks[b] : blocks[b][i] \in OpsIn(blocks, b)
  BY <1>1, TransferredAt
<1>4. PICK i \in DOMAIN blocks[b] : o = blocks[b][i]
  BY DEF OpsIn
<1>5. /\ pos[i] \in DOMAIN C[b] /\ C[b][pos[i]] = Rewired(o, b)
      /\ \E p \in DOMAIN C[b] : pos[i - 1] < p /\ p < pos[i] /\ C[b][p] = CopyOp(w, o.id)
  BY <1>2, <1>4 DEF Placed
<1>6. PICK p \in DOMAIN C[b] : pos[i - 1] < p /\ p < pos[i] /\ C[b][p] = CopyOp(w, o.id)
  BY <1>5
<1>7. C[b][p].kind = "copy" /\ C[b][p].id = v /\ C[b][p].act = w
  BY <1>6 DEF CopyOp
<1>8. w \in Nat /\ w < Fresh /\ Fresh \in Nat /\ \A a \in Blocks : \A y \in OpsIn(blocks, a) : y.id \in Nat /\ y.id < Fresh
  BY SourceFields DEF HostBuffers
<1>9. ASSUME NEW k \in p + 1 .. pos[i], NEW x \in Region(C, b, C[b][k])
      PROVE  ~ Changes(x, w) /\ (Changes(x, v) => x.kind = "copy" /\ x.act = w)
  <2>1. CASE k = pos[i]
    BY <1>5, <2>1
  <2>2. CASE k # pos[i]
    <3>1. k \in DOMAIN C[b] /\ pos[i - 1] < k /\ k < pos[i] /\ k \in Nat
      <4>1. DOMAIN C[b] = 1 .. Len(C[b]) /\ Len(C[b]) \in Nat
        BY <1>1, OpFields
      <4>2. i - 1 \in 0 .. Len(blocks[b]) /\ i \in 0 .. Len(blocks[b])
        BY <1>3
      <4>3. pos[i - 1] \in Nat /\ pos[i] \in 1 .. Len(C[b]) /\ p \in Nat
        BY <1>3, <1>5, <4>1, <4>2
      <4> QED BY <1>6, <2>2, <4>1, <4>3
    <3>2. PICK j \in DOMAIN blocks[b] :
            /\ pos[j - 1] < k /\ k <= pos[j]
            /\ \/ k = pos[j] /\ C[b][k] = Rewired(blocks[b][j], b)
               \/ k # pos[j] /\ C[b][k] \in CopiesOf(blocks[b][j])
      BY <1>3, <3>1
    <3>3. j = i
      <4>1. /\ i \in Nat /\ j \in Nat /\ i - 1 \in 0 .. Len(blocks[b]) /\ i \in 0 .. Len(blocks[b])
            /\ j - 1 \in 0 .. Len(blocks[b]) /\ j \in 0 .. Len(blocks[b])
        <5>1. Len(blocks[b]) \in Nat /\ i \in 1 .. Len(blocks[b]) /\ j \in 1 .. Len(blocks[b])
          BY <1>3
        <5> QED BY <5>1
      <4>2. /\ pos[i - 1] \in Nat /\ pos[i] \in Nat /\ pos[j - 1] \in Nat /\ pos[j] \in Nat
            /\ j < i - 1 => pos[j] < pos[i - 1]
            /\ i < j - 1 => pos[i] < pos[j - 1]
        BY <1>3, <4>1
      <4>3. ~ (j <= i - 1)
        BY <3>1, <3>2, <4>1, <4>2
      <4>4. ~ (i <= j - 1)
        <5>1. pos[i] <= pos[j - 1] => ~ (k < pos[i])
          BY <3>1, <3>2, <4>2
        <5>2. i <= j - 1 => pos[i] <= pos[j - 1]
          <6>1. i <= j - 1 => i = j - 1 \/ i < j - 1
            BY <4>1
          <6> QED BY <4>2, <6>1
        <5> QED BY <3>1, <5>1, <5>2
      <4> QED BY <4>1, <4>3, <4>4
    <3>4. C[b][k] \in CopiesOf(o)
      BY <1>4, <2>2, <3>2, <3>3
    <3>5. x = C[b][k]
      BY <3>4, CopyFields, RegionIs
    <3>6. x.kind = "copy" /\ x.act \in Nat /\ x.id = CopyOf(x.act, o.id) /\ x.id \in Nat /\ Fresh <= x.id
      BY <3>4, <3>5, CopyFields
    <3>7. ~ Changes(x, w)
      BY <1>8, <3>6 DEF Changes
    <3>8. ASSUME Changes(x, v) PROVE x.act = w
      <4>1. CopyOf(x.act, o.id) = CopyOf(w, o.id)
        BY <3>6, <3>8 DEF Changes
      <4> QED BY <1>8, <3>6, <4>1, CopiesDiffer
    <3> QED BY <3>6, <3>7, <3>8
  <2> QED BY <2>1, <2>2
<1>10. Holds(C, b, p, pos[i], v, w)
  BY <1>6, <1>7, <1>9 DEF Holds
<1> QED BY <1>5, <1>10

\* A far activation that comes from outside the loop is not written in it.
LEMMA NothingChangesOutside ==
  ASSUME ReadyForTransfers, SourceData(blocks), NEW b \in Blocks, NEW o \in OpsIn(blocks, b), o.kind = "mvm",
         Far(o.act), 1 < b, HomeBlock(o.act) < b
  PROVE  \A a \in Within(b) : \A x \in OpsIn(blocks, a) : ~ Changes(x, o.act)
<1>1. o.act \in FarIn(blocks)
  BY SourceFields
<1>2. ASSUME NEW q \in OpsIn(blocks, b), q.kind = "stage", q.id = o.act PROVE FALSE
  <2>1. q.id # 0 /\ FarArg < q.id /\ q.id \in Nat
    BY <1>2, SourceFields
  <2>2. o.act \notin Args
    BY <1>2, <2>1 DEF Args, NearArg, FarArg
  <2>3. \A c \in Blocks : DefinedIn(o.act, c) => c = b
    BY <1>2, <2>1, OwnIds, OpsAre DEF DefinedIn
  <2>4. DefinedIn(o.act, b)
    BY <1>2, OpsAre DEF DefinedIn
  <2>5. HomeBlock(o.act) = b
    BY <2>2, <2>3, <2>4 DEF HomeBlock
  <2> QED BY <2>5 DEF Blocks
<1>3. Given(blocks)
  BY DEF SourceData
<1> QED BY <1>1, <1>2, <1>3 DEF Given

\* Where a cim.mvm reads a copy, the copy is of its activation.
LEMMA TransferredSupplied ==
  ASSUME ReadyForTransfers, SourceData(blocks), NEW C, Transferred(C), InOrder(C)
  PROVE  Supplied(C)
<1> SUFFICES ASSUME NEW b \in Blocks, NEW j \in DOMAIN C[b], C[b][j].kind = "mvm", NEW r, r = C[b][j]
             PROVE  \/ r.src \notin IdsOf(C, "copy") /\ r.src = r.act /\ r.src \in r.reads
                    \/ /\ r.src \in IdsOf(C, "copy")
                       /\ \/ \E p \in DOMAIN C[b] : Holds(C, b, p, j, r.src, r.act)
                          \/ 1 < b /\ \E p, q \in DOMAIN C[b - 1] :
                               C[b - 1][q].kind = "for" /\ Holds(C, b - 1, p, q, r.src, r.act)
  BY DEF Supplied
<1>0. Typed(C)
  BY DEF Transferred
<1>1. /\ \A v \in IdsOf(C, "copy") : v \in Nat /\ Fresh <= v
      /\ Fresh \in Nat
  BY TransferredIds, SourceFields
<1>2. r \in OpsIn(C, b)
  BY DEF OpsIn
<1>3. PICK o \in OpsIn(blocks, b) : r = Rewired(o, b) /\ o.kind = "mvm" /\ o.act = r.act /\ o.id = r.id
  BY <1>2, TransferredFields
<1>4. /\ o.id \in Nat /\ o.id < Fresh /\ o.id # 0 /\ o.act \in Nat /\ o.act < Fresh
      /\ o.src = o.act /\ o.act \in o.reads /\ o.id \in IdsOf(blocks, "mvm")
  <2>1. o.src = o.act /\ o.act \in o.reads
    BY <1>3 DEF SourceData, Buffered
  <2>2. o.id \in IdsOf(blocks, "mvm")
    BY <1>3, IdsOfAre
  <2> QED BY <1>3, <2>1, <2>2, SourceFields
<1>5. CASE ~ Far(o.act)
  <2>1. r = o
    BY <1>3, <1>5, RewiredFields
  <2>2. r.src \notin IdsOf(C, "copy")
    BY <1>1, <1>4, <2>1
  <2> QED BY <1>4, <2>1, <2>2
<1>6. CASE Far(o.act)
  <2> DEFINE w == o.act
  <2>1. r.src = CopyOf(w, Anchor(o, b)) /\ r.act = w
    BY <1>3, <1>6, RewiredFields
  <2>2. w \in FarIn(blocks) /\ w \in Buffers
    BY <1>6, SourceFields DEF Far, Buffers, Args
  <2>3. ASSUME NEW a \in Blocks, NEW e \in OpsIn(blocks, a), e.id = Anchor(o, b), e.id # 0
        PROVE  CopyOp(w, e.id) \in CopiesOf(e) /\ r.src \in IdsOf(C, "copy")
    <3>1. o \in Ops(b)
      BY OpsAre
    <3>2. w \in Copies(e.id)
      BY <1>3, <1>6, <2>2, <2>3, <3>1 DEF Copies
    <3>3. CopyOp(w, e.id) \in CopiesOf(e)
      BY <2>3, <3>2 DEF CopiesOf
    <3>4. CopyOp(w, e.id) \in OpsIn(C, a)
      BY <3>3, TransferredOps
    <3>5. CopyOp(w, e.id).kind = "copy" /\ CopyOp(w, e.id).id = r.src
      BY <2>1, <2>3 DEF CopyOp
    <3> QED BY <3>3, <3>4, <3>5, IdsOfAre
  <2>4. CASE ~ LoopInvariant(w, b) /\ Anchor(o, b) = o.id
    <3>1. CopyOp(w, o.id) \in CopiesOf(o) /\ r.src \in IdsOf(C, "copy")
      BY <1>4, <2>3, <2>4
    <3>2. ASSUME NEW x \in Region(C, b, r) PROVE ~ Changes(x, w) /\ ~ Changes(x, CopyOf(w, o.id))
      <4>1. x = r
        BY RegionIs
      <4>2. w \notin IdsOf(blocks, "mvm")
        BY <2>2, SourceFields DEF HostBuffers
      <4>3. Fresh <= CopyOf(w, o.id)
        BY <1>3, <1>6, <2>4, AnchorIsOld
      <4>4. CopyOf(w, o.id) \in Nat
        BY <1>3, <1>6, <2>4, AnchorIsOld
      <4> QED BY <1>1, <1>3, <1>4, <4>1, <4>2, <4>3, <4>4 DEF Changes
    <3>3. PICK p, q \in DOMAIN C[b] : C[b][q] = r /\ Holds(C, b, p, q, CopyOf(w, o.id), w)
      BY <1>3, <2>2, <3>1, <3>2, CopyStands
    <3>4. q = j
      <4>1. Issued(C[b][q]) /\ Issued(C[b][j]) /\ C[b][q].id = o.id /\ C[b][j].id = o.id
        BY <1>3, <3>3 DEF Issued
      <4>2. ~ (C[b][q].id < C[b][j].id) /\ ~ (C[b][j].id < C[b][q].id)
        BY <1>4, <4>1
      <4>3. q \in Nat /\ j \in Nat
        BY <1>0, OpFields
      <4> QED BY <4>1, <4>2, <4>3 DEF InOrder
    <3> QED BY <2>1, <2>4, <3>1, <3>3, <3>4
  <2>5. CASE /\ LoopInvariant(w, b) /\ HomeBlock(w) < b /\ 1 < b /\ b - 1 \in Blocks
             /\ LoopOf(b) \in OpsIn(blocks, b - 1) /\ LoopOf(b).kind = "for"
             /\ Anchor(o, b) = LoopOf(b).id /\ LoopOf(b).id # 0
    <3> DEFINE e == LoopOf(b)
               c == b - 1
    <3>1. CopyOp(w, e.id) \in CopiesOf(e) /\ r.src \in IdsOf(C, "copy")
      BY <2>3, <2>5
    <3>2. \A a \in Within(b) : \A x \in OpsIn(blocks, a) : ~ Changes(x, w)
      BY <1>3, <1>6, <2>5, NothingChangesOutside
    <3>3. Fresh <= CopyOf(w, e.id) /\ CopyOf(w, e.id) \in Nat
      BY <1>3, <1>6, <2>5, AnchorIsOld
    <3>4. ASSUME NEW x \in Region(C, c, Rewired(e, c))
          PROVE  ~ Changes(x, w) /\ (Changes(x, CopyOf(w, e.id)) => x.kind = "copy" /\ x.act = w)
      <4>1. PICK a \in Blocks : \E y \in OpsIn(blocks, a) :
              /\ (y = e /\ a = c) \/ (c < a /\ a \in Within(c + 1))
              /\ x = Rewired(y, a) \/ (c < a /\ x \in CopiesOf(y))
        BY <2>5, TransferredRegion
      <4>2. PICK y \in OpsIn(blocks, a) :
              /\ (y = e /\ a = c) \/ (c < a /\ a \in Within(c + 1))
              /\ x = Rewired(y, a) \/ (c < a /\ x \in CopiesOf(y))
        BY <4>1
      <4>3. c + 1 = b
        BY DEF Blocks
      <4>4. ~ Changes(y, w)
        BY <2>5, <3>2, <4>2, <4>3 DEF Changes
      <4>5. ~ Changes(y, CopyOf(w, e.id))
        BY <1>1, <3>3, ChangesAre
      <4>6. CASE x = Rewired(y, a)
        BY <4>4, <4>5, <4>6, RewiredFields
      <4>7. CASE x \in CopiesOf(y)
        <5>1. /\ x.kind = "copy" /\ x.act \in Nat /\ x.id = CopyOf(x.act, y.id) /\ x.id \in Nat /\ Fresh <= x.id
              /\ y.id \in Nat /\ y.id < Fresh
          BY <4>7, CopyFields
        <5>2. ~ Changes(x, w)
          BY <1>1, <1>4, <5>1 DEF Changes
        <5>3. ASSUME Changes(x, CopyOf(w, e.id)) PROVE x.act = w
          <6>1. CopyOf(x.act, y.id) = CopyOf(w, e.id)
            BY <5>1, <5>3 DEF Changes
          <6>2. e.id \in Nat /\ e.id < Fresh
            BY <2>5, SourceFields
          <6> QED BY <1>1, <1>4, <5>1, <6>1, <6>2, CopiesDiffer
        <5> QED BY <5>1, <5>2, <5>3
      <4> QED BY <4>2, <4>6, <4>7
    <3>5. PICK p, q \in DOMAIN C[c] : C[c][q] = Rewired(e, c) /\ Holds(C, c, p, q, CopyOf(w, e.id), w)
      BY <2>2, <2>5, <3>1, <3>4, CopyStands
    <3>6. C[c][q].kind = "for"
      BY <2>5, <3>5, RewiredFields
    <3> QED BY <2>1, <2>5, <3>1, <3>5, <3>6
  <2> QED BY <1>3, <1>6, <2>4, <2>5, AnchorIs
<1> QED BY <1>5, <1>6

\* cim-insert-transfers makes what the run relies on.
LEMMA TransfersData ==
  ASSUME ReadyForTransfers, SourceData(blocks), InsertTransfers
  PROVE  RunData(blocks')
<1>1. Typed(blocks') /\ InOrder(blocks')
  BY TransfersStep DEF Lasting
<1>2. Transferred(blocks')
  BY <1>1, TransferredBlock DEF Transferred, IsTransferred
<1> HIDE DEF Transferred
<1>3. ASSUME NEW C, C = blocks' PROVE RunData(C)
  BY <1>1, <1>2, <1>3, TransferredApart, TransferredUndisturbed, TransferredSupplied, TransferredOneLoop DEF RunData
<1> QED BY <1>3
-----------------------------------------------------------------------------
\* What is put is got, and nothing else is changed.
LEMMA GetPut ==
  ASSUME NEW m, NEW v, NEW term, NEW n, n = Put(m, v, term)
  PROVE  /\ Get(n, v) = term /\ v \in DOMAIN n /\ n[v] = term
         /\ \A u : u # v => Get(n, u) = Get(m, u) /\ (u \in DOMAIN n <=> u \in DOMAIN m)
                              /\ (u \in DOMAIN m => n[u] = m[u])
BY DEF Get, Put

\* The op the host is at is in the region of the op that holds it in each block
\* around.
LEMMA CurrentRegion ==
  ASSUME NEW B, NEW c, Sites(B, c), NEW a \in 1 .. Len(c)
  PROVE  CurrentOf(B, c) \in Region(B, a, B[a][c[a].i])
<1> DEFINE n == Len(c)
<1>1. /\ n \in Nat \ {0} /\ n <= Depth /\ Depth \in Nat /\ CurrentOf(B, c) \in OpsIn(B, n)
  BY StackFields, CurrentFields
<1>2. CASE a = n
  BY <1>2 DEF Region, CurrentOf
<1>3. CASE a # n
  <2>1. a < n /\ n \in Within(a + 1)
    BY <1>1, <1>3 DEF Within
  <2>2. B[a][c[a].i].kind = "for"
    BY <2>1 DEF Sites, StackOK
  <2> QED BY <1>1, <2>1, <2>2 DEF Region
<1> QED BY <1>2, <1>3

\* The op the host is at changes nothing that an unfinished cim.mvm is to read
\* or has written.
LEMMA NothingDisturbed ==
  ASSUME NEW B, NEW c, Sites(B, c), Undisturbed(B), NEW o, LocatedAt(B, c, o), o.kind = "mvm"
  PROVE  ~ Changes(CurrentOf(B, c), o.src) /\ ~ Changes(CurrentOf(B, c), o.id)
<1>1. PICK a \in 1 .. Len(c) : \E j \in DOMAIN B[a] : o = B[a][j] /\ IsOpen(B[a], j, c[a].i)
  BY DEF LocatedAt
<1>2. PICK j \in DOMAIN B[a] : o = B[a][j] /\ j < c[a].i
  BY <1>1 DEF IsOpen
<1>3. a \in Blocks /\ c[a].i \in DOMAIN B[a]
  BY StackFields
<1>4. CurrentOf(B, c) \in Region(B, a, B[a][c[a].i])
  BY CurrentRegion
<1> QED BY <1>2, <1>3, <1>4 DEF Undisturbed

\* Where a copy is current, the op the host is at does not change its source, and
\* changes it only by making it again.
LEMMA CopyStays ==
  ASSUME NEW B, NEW c, Sites(B, c), NEW a \in 1 .. Len(c), NEW p \in DOMAIN B[a], NEW q \in DOMAIN B[a],
         NEW v, NEW w, Holds(B, a, p, q, v, w), p < c[a].i, c[a].i <= q,
         NEW x, x = CurrentOf(B, c)
  PROVE  ~ Changes(x, w) /\ (Changes(x, v) => x.kind = "copy" /\ x.act = w)
<1>1. x \in Region(B, a, B[a][c[a].i])
  BY CurrentRegion
<1>2. a \in Blocks /\ Typed(B) /\ c[a].i \in Nat
  BY StackFields DEF Sites, Lasting
<1>3. p \in Nat /\ q \in Nat
  BY <1>2, OpFields
<1>4. c[a].i \in p + 1 .. q
  BY <1>2, <1>3
<1> QED BY <1>1, <1>4 DEF Holds

\* How the host goes on: to the next op, into a block or out of one.
Moves(B, c, e) ==
  \A a \in 1 .. Len(e) :
    \/ e[a].i = 1
    \/ /\ a \in 1 .. Len(c)
       /\ \/ e[a].i = c[a].i
          \/ e[a].i = c[a].i + 1 /\ (B[a][c[a].i].kind = "copy" => a = Len(c))

\* A copy that is to be current then was current before or was just made.
LEMMA CurrentBefore ==
  ASSUME NEW B, NEW c, Sites(B, c), NEW e, Moves(B, c, e),
         NEW a \in 1 .. Len(e), NEW p \in DOMAIN B[a], NEW q \in DOMAIN B[a],
         NEW v, NEW w, Holds(B, a, p, q, v, w), p < e[a].i, e[a].i <= q, a \in Blocks,
         NEW x, x = CurrentOf(B, c)
  PROVE  /\ a \in 1 .. Len(c)
         /\ \/ p < c[a].i /\ c[a].i <= q
            \/ x.kind = "copy" /\ x.id = v /\ x.act = w
<1>1. Typed(B)
  BY DEF Sites, Lasting
<1>2. p \in Nat /\ 1 <= p /\ q \in Nat
  BY <1>1, OpFields
<1>3. a \in 1 .. Len(c) /\ (e[a].i = c[a].i \/ (e[a].i = c[a].i + 1 /\ (B[a][c[a].i].kind = "copy" => a = Len(c))))
  BY <1>2 DEF Moves
<1>4. c[a].i \in Nat
  BY <1>3, StackFields
<1>5. CASE p < c[a].i
  BY <1>2, <1>3, <1>4, <1>5
<1>6. CASE ~ (p < c[a].i)
  <2>1. p = c[a].i /\ e[a].i = c[a].i + 1
    BY <1>2, <1>3, <1>4, <1>6
  <2>2. B[a][p].kind = "copy" /\ B[a][p].id = v /\ B[a][p].act = w
    BY DEF Holds
  <2>3. x = B[a][p]
    BY <1>3, <1>4, <2>1, <2>2 DEF CurrentOf
  <2> QED BY <1>3, <2>2, <2>3
<1> QED BY <1>5, <1>6

\* What the run relies on, of the blocks, the frames and the queues.
InRun(B, c, q, m, r) ==
  /\ Sites(B, c) /\ QueueOK(B, c, q) /\ ReadOrder(q) /\ RunData(B)
  /\ Synced(B, q, m, r) /\ Owed(B, q, m, r) /\ CopiesCurrent(B, c, m, r)

LEMMA QueuedFields ==
  ASSUME NEW B, NEW c, NEW q, NEW m, NEW r, InRun(B, c, q, m, r),
         NEW d \in Devices, NEW k \in DOMAIN q[d], NEW y, y = q[d][k], NEW o, o = y.op, o.kind = "mvm",
         NEW x, x = CurrentOf(B, c)
  PROVE  /\ o.id \in Nat /\ o.src \in Nat /\ o.id \in IdsOf(B, "mvm") /\ o.id \notin IdsOf(B, "copy")
         /\ o.src \notin IdsOf(B, "copy") => o.src \in o.reads
         /\ ~ Changes(x, o.src) /\ ~ Changes(x, o.id)
         /\ o.id \in DOMAIN r
         /\ r[o.id] = Due(B, y, m, r)
<1>1. /\ Sites(B, c) /\ QueueOK(B, c, q) /\ Undisturbed(B) /\ Apart(B) /\ Supplied(B) /\ Owed(B, q, m, r)
      /\ Typed(B)
  BY DEF InRun, RunData, Sites, Lasting
<1>2. LocatedAt(B, c, o)
  BY <1>1 DEF QueueOK
<1>3. PICK a \in 1 .. Len(c) : \E j \in DOMAIN B[a] : o = B[a][j]
  BY <1>2 DEF LocatedAt
<1>4. PICK j \in DOMAIN B[a] : o = B[a][j]
  BY <1>3
<1>5. a \in Blocks
  BY <1>1, StackFields
<1>6. o \in OpsIn(B, a) /\ o \in OpSet
  BY <1>1, <1>4, <1>5, OpFields
<1>7. o.id \in Nat /\ o.src \in Nat
  BY <1>6 DEF OpSet
<1>8. o.id \in IdsOf(B, "mvm")
  BY <1>5, <1>6, IdsOfAre
<1>9. o.id \notin IdsOf(B, "copy")
  BY <1>1, <1>5, <1>6 DEF Apart
<1>10. o.src \notin IdsOf(B, "copy") => o.src \in o.reads
  BY <1>1, <1>4, <1>5 DEF Supplied
<1>11. ~ Changes(x, o.src) /\ ~ Changes(x, o.id)
  BY <1>1, <1>2, NothingDisturbed
<1>12. /\ o.id \in DOMAIN r
       /\ r[o.id] = Due(B, y, m, r)
  BY <1>1 DEF Owed
<1> QED BY <1>7, <1>8, <1>9, <1>10, <1>11, <1>12

\* A step of the host that changes no contents.
LEMMA StillData ==
  ASSUME NEW B, NEW c, NEW q, NEW m, NEW r, InRun(B, c, q, m, r), CurrentOf(B, c).kind # "copy",
         NEW e, Moves(B, c, e), Len(e) \in Blocks
  PROVE  CopiesCurrent(B, e, m, r)
<1> SUFFICES ASSUME NEW a \in 1 .. Len(e), NEW p \in DOMAIN B[a], NEW s \in DOMAIN B[a], NEW v \in Nat, NEW w \in Nat,
                    Holds(B, a, p, s, v, w), p < e[a].i, e[a].i <= s
             PROVE  Get(m, v) = Get(r, w)
  BY DEF CopiesCurrent
<1>1. a \in Blocks
  BY ScheduleAssumption DEF Blocks
<1>2. a \in 1 .. Len(c) /\ p < c[a].i /\ c[a].i <= s
  BY <1>1, CurrentBefore DEF InRun
<1> QED BY <1>2 DEF InRun, CopiesCurrent

\* The host makes a copy.
LEMMA CopyData ==
  ASSUME NEW B, NEW c, NEW q, NEW m, NEW r, InRun(B, c, q, m, r), NEW x, x = CurrentOf(B, c), x.kind = "copy",
         NEW e, Moves(B, c, e), Len(e) \in Blocks,
         NEW n, n = Put(m, x.id, Get(m, x.act))
  PROVE  Synced(B, q, n, r) /\ Owed(B, q, n, r) /\ CopiesCurrent(B, e, n, r)
<1>1. /\ Get(n, x.id) = Get(m, x.act)
      /\ \A u : u # x.id => Get(n, u) = Get(m, u) /\ (u \in DOMAIN n <=> u \in DOMAIN m)
  BY GetPut
<1>2. Sites(B, c) /\ Apart(B) /\ Synced(B, q, m, r) /\ QueueOK(B, c, q) /\ CopiesCurrent(B, c, m, r)
  BY DEF InRun, RunData
<1>3. Len(c) \in Blocks /\ x \in OpsIn(B, Len(c)) /\ x \in OpSet
  BY <1>2, CurrentFields
<1>4. x.id \in IdsOf(B, "copy") /\ x.id \in Nat /\ x.act \in Nat
  BY <1>3, IdsOfAre DEF OpSet
<1>5. x.act \notin IdsOf(B, "copy") /\ x.act \notin IdsOf(B, "mvm")
  BY <1>2, <1>3 DEF Apart
<1>6. Synced(B, q, n, r)
  BY <1>1, <1>2, <1>4 DEF Synced, SameIn
<1>7. Owed(B, q, n, r)
  <2> SUFFICES ASSUME NEW d \in Devices, NEW k \in DOMAIN q[d], NEW y, y = q[d][k], NEW o, o = y.op, o.kind = "mvm"
               PROVE  /\ o.id \in DOMAIN r
                      /\ r[o.id] = Due(B, y, n, r)
    BY DEF Owed
  <2>1. ~ Changes(x, o.src) /\ o.id \in DOMAIN r
        /\ r[o.id] = Due(B, y, m, r)
    BY QueuedFields
  <2>2. Get(n, o.src) = Get(m, o.src)
    BY <1>1, <2>1 DEF Changes
  <2> QED BY <2>1, <2>2 DEF Due, Input
<1>8. Get(m, x.act) = Get(r, x.act)
  <2>1. ~ ToCome(q, x.act)
    <3> SUFFICES ASSUME NEW d \in Devices, NEW k \in DOMAIN q[d], q[d][k].op.kind = "mvm", q[d][k].op.id = x.act
                 PROVE  FALSE
      BY DEF ToCome
    <3> QED BY <1>5, QueuedFields
  <2> QED BY <1>2, <1>4, <1>5, <2>1 DEF Synced, SameIn
<1>9. CopiesCurrent(B, e, n, r)
  <2> SUFFICES ASSUME NEW a \in 1 .. Len(e), NEW p \in DOMAIN B[a], NEW s \in DOMAIN B[a], NEW v \in Nat, NEW w \in Nat,
                      Holds(B, a, p, s, v, w), p < e[a].i, e[a].i <= s
               PROVE  Get(n, v) = Get(r, w)
    BY DEF CopiesCurrent
  <2>1. a \in Blocks
    BY ScheduleAssumption DEF Blocks
  <2>2. /\ a \in 1 .. Len(c)
        /\ (p < c[a].i /\ c[a].i <= s) \/ (x.id = v /\ x.act = w)
    BY <1>2, <2>1, CurrentBefore
  <2>3. CASE x.id = v /\ x.act = w
    BY <1>1, <1>8, <2>3
  <2>4. CASE p < c[a].i /\ c[a].i <= s /\ ~ (x.id = v /\ x.act = w)
    <3>1. x.id # v
      BY <1>2, <2>2, <2>4, CopyStays DEF Changes
    <3>2. Get(m, v) = Get(r, w)
      BY <1>2, <2>2, <2>4 DEF CopiesCurrent
    <3> QED BY <1>1, <3>1, <3>2
  <2> QED BY <2>2, <2>3, <2>4
<1> QED BY <1>6, <1>7, <1>9

\* The host writes to a buffer, in both runs.
LEMMA WriteData ==
  ASSUME NEW B, NEW c, NEW q, NEW m, NEW r, InRun(B, c, q, m, r), NEW x, x = CurrentOf(B, c),
         NEW e, Moves(B, c, e), Len(e) \in Blocks,
         NEW u, \/ x.kind = "stage" /\ u = x.id
                \/ x.kind = "write" /\ u = x.act,
         NEW term, NEW n, n = Put(m, u, term), NEW z, z = Put(r, u, term)
  PROVE  Synced(B, q, n, z) /\ Owed(B, q, n, z) /\ CopiesCurrent(B, e, n, z)
<1>1. /\ Get(n, u) = term /\ u \in DOMAIN n
      /\ \A y : y # u => Get(n, y) = Get(m, y) /\ (y \in DOMAIN n <=> y \in DOMAIN m)
  BY GetPut
<1>2. /\ Get(z, u) = term /\ u \in DOMAIN z
      /\ \A y : y # u => Get(z, y) = Get(r, y) /\ (y \in DOMAIN z <=> y \in DOMAIN r)
                           /\ (y \in DOMAIN r => z[y] = r[y])
  BY GetPut
<1>3. Sites(B, c) /\ Apart(B) /\ Synced(B, q, m, r) /\ QueueOK(B, c, q) /\ CopiesCurrent(B, c, m, r)
  BY DEF InRun, RunData
<1>4. Changes(x, u)
  BY DEF Changes
<1>5. Synced(B, q, n, z)
  BY <1>1, <1>2, <1>3 DEF Synced, SameIn
<1>6. Owed(B, q, n, z)
  <2> SUFFICES ASSUME NEW d \in Devices, NEW k \in DOMAIN q[d], NEW y, y = q[d][k], NEW o, o = y.op, o.kind = "mvm"
               PROVE  /\ o.id \in DOMAIN z
                      /\ z[o.id] = Due(B, y, n, z)
    BY DEF Owed
  <2>1. ~ Changes(x, o.src) /\ ~ Changes(x, o.id) /\ o.id \in DOMAIN r
        /\ r[o.id] = Due(B, y, m, r)
    BY QueuedFields
  <2>2. o.src # u /\ o.id # u
    BY <1>4, <2>1
  <2>3. Get(n, o.src) = Get(m, o.src) /\ Get(z, o.src) = Get(r, o.src) /\ z[o.id] = r[o.id] /\ o.id \in DOMAIN z
    BY <1>1, <1>2, <2>1, <2>2
  <2> QED BY <2>1, <2>3 DEF Due, Input
<1>7. CopiesCurrent(B, e, n, z)
  <2> SUFFICES ASSUME NEW a \in 1 .. Len(e), NEW p \in DOMAIN B[a], NEW s \in DOMAIN B[a], NEW v \in Nat, NEW w \in Nat,
                      Holds(B, a, p, s, v, w), p < e[a].i, e[a].i <= s
               PROVE  Get(n, v) = Get(z, w)
    BY DEF CopiesCurrent
  <2>1. a \in Blocks
    BY ScheduleAssumption DEF Blocks
  <2>2. a \in 1 .. Len(c) /\ p < c[a].i /\ c[a].i <= s
    BY <1>3, <2>1, CurrentBefore
  <2>3. v # u /\ w # u
    <3>1. ~ Changes(x, w) /\ (Changes(x, v) => x.kind = "copy")
      BY <1>3, <2>2, CopyStays
    <3> QED BY <1>4, <3>1
  <2>4. Get(m, v) = Get(r, w)
    BY <1>3, <2>2 DEF CopiesCurrent
  <2> QED BY <1>1, <1>2, <2>3, <2>4
<1> QED BY <1>5, <1>6, <1>7

LEMMA InputSame ==
  ASSUME NEW B, NEW m, NEW r, NEW z, NEW o, Get(z, o.src) = Get(r, o.src)
  PROVE  Input(B, m, z, o) = Input(B, m, r, o)
BY DEF Input

\* Work is issued; the sequential run does it at once.
LEMMA IssueData ==
  ASSUME NEW B, NEW c, NEW q, NEW m, NEW r, InRun(B, c, q, m, r), NEW x, x = CurrentOf(B, c), Issued(x),
         NEW e, Moves(B, c, e), Len(e) \in Blocks,
         NEW item \in Items, item.op = x, NEW f, f = [q EXCEPT ![x.dev] = Append(@, item)],
         NEW z, z = IF x.kind = "mvm" THEN Put(r, x.id, <<x.id, item.at, Get(r, x.act)>>) ELSE r
  PROVE  Synced(B, f, m, z) /\ Owed(B, f, m, z) /\ CopiesCurrent(B, e, m, z)
<1>1. /\ Sites(B, c) /\ Apart(B) /\ Supplied(B) /\ OneLoop(B) /\ Synced(B, q, m, r) /\ QueueOK(B, c, q)
      /\ CopiesCurrent(B, c, m, r) /\ ReadsEarlier(B) /\ Typed(B)
  BY DEF InRun, RunData, Sites, Lasting
<1>2. Len(c) \in Blocks /\ x \in OpsIn(B, Len(c)) /\ x \in OpSet /\ x.dev \in Devices /\ x.id \in Nat /\ x.act \in Nat
      /\ x.src \in Nat
  BY <1>1, CurrentFields DEF OpOK, OpSet
<1>3. /\ \A d \in Devices : \A k \in DOMAIN f[d] : (k \in DOMAIN q[d] /\ f[d][k] = q[d][k]) \/ f[d][k] = item
      /\ \A d \in Devices : \A k \in DOMAIN q[d] : k \in DOMAIN f[d] /\ f[d][k] = q[d][k]
      /\ \E k \in DOMAIN f[x.dev] : f[x.dev][k] = item
  <2>1. ASSUME NEW s \in Seq(Items), NEW t, t = Append(s, item)
        PROVE  /\ \A k \in DOMAIN t : (k \in DOMAIN s /\ t[k] = s[k]) \/ t[k] = item
               /\ \A k \in DOMAIN s : k \in DOMAIN t /\ t[k] = s[k]
               /\ Len(s) + 1 \in DOMAIN t /\ t[Len(s) + 1] = item
    BY <2>1
  <2>2. q \in [Devices -> Seq(Items)]
    BY <1>1 DEF QueueOK
  <2>3. f[x.dev] = Append(q[x.dev], item) /\ \A d \in Devices : d # x.dev => f[d] = q[d]
    BY <1>2, <2>2
  <2>4. q[x.dev] \in Seq(Items)
    BY <1>2, <2>2
  <2> DEFINE old == q[x.dev]
             new == f[x.dev]
  <2> HIDE DEF old, new
  <2>5. /\ \A k \in DOMAIN f[x.dev] : (k \in DOMAIN q[x.dev] /\ f[x.dev][k] = q[x.dev][k]) \/ f[x.dev][k] = item
        /\ \A k \in DOMAIN q[x.dev] : k \in DOMAIN f[x.dev] /\ f[x.dev][k] = q[x.dev][k]
        /\ \E k \in DOMAIN f[x.dev] : f[x.dev][k] = item
    <3>1. old \in Seq(Items) /\ new = Append(old, item)
      BY <2>3, <2>4 DEF old, new
    <3>2. /\ \A k \in DOMAIN new : (k \in DOMAIN old /\ new[k] = old[k]) \/ new[k] = item
          /\ \A k \in DOMAIN old : k \in DOMAIN new /\ new[k] = old[k]
          /\ Len(old) + 1 \in DOMAIN new /\ new[Len(old) + 1] = item
      BY <2>1, <3>1
    <3> QED BY <3>2 DEF old, new
  <2> QED BY <2>3, <2>5
<1>4. /\ x.kind = "mvm" => z[x.id] = <<x.id, item.at, Get(r, x.act)>> /\ x.id \in DOMAIN z
      /\ \A y : (x.kind = "mvm" => y # x.id) =>
           Get(z, y) = Get(r, y) /\ (y \in DOMAIN z <=> y \in DOMAIN r) /\ (y \in DOMAIN r => z[y] = r[y])
  BY GetPut
<1>5. x.kind = "mvm" => Changes(x, x.id)
  BY DEF Changes
<1>6. Synced(B, f, m, z)
  <2> SUFFICES ASSUME NEW v \in Nat, v \notin IdsOf(B, "copy"), ~ ToCome(f, v) PROVE SameIn(m, z, v)
    BY DEF Synced
  <2>1. ~ ToCome(q, v)
    <3> SUFFICES ASSUME NEW d \in Devices, NEW k \in DOMAIN q[d], q[d][k].op.kind = "mvm", q[d][k].op.id = v
                 PROVE  ToCome(f, v)
      BY DEF ToCome
    <3>1. k \in DOMAIN f[d] /\ f[d][k] = q[d][k]
      BY <1>3
    <3> QED BY <3>1 DEF ToCome
  <2>2. ~ (x.kind = "mvm" /\ v = x.id)
    <3>1. PICK k \in DOMAIN f[x.dev] : f[x.dev][k] = item
      BY <1>3
    <3> QED BY <1>2, <3>1 DEF ToCome
  <2>3. SameIn(m, r, v)
    BY <1>1, <2>1 DEF Synced
  <2> QED BY <1>4, <2>2, <2>3 DEF SameIn
\* What it reads: its activation, or a copy of it that is current here.
<1>7. ASSUME x.kind = "mvm"
      PROVE  Input(B, m, z, x) = Get(r, x.act)
  <2> DEFINE b == Len(c)
             j == c[b].i
  <2>1. b \in 1 .. b /\ j \in DOMAIN B[b] /\ x = B[b][j] /\ j \in Nat
    <3>1. b \in 1 .. b
      BY <1>1, StackFields
    <3> QED BY <1>1, <3>1, StackFields DEF CurrentOf
  <2>2. \/ x.src \notin IdsOf(B, "copy") /\ x.src = x.act /\ x.src \in x.reads
        \/ /\ x.src \in IdsOf(B, "copy")
           /\ \/ \E p \in DOMAIN B[b] : Holds(B, b, p, j, x.src, x.act)
              \/ 1 < b /\ \E p, s \in DOMAIN B[b - 1] :
                   B[b - 1][s].kind = "for" /\ Holds(B, b - 1, p, s, x.src, x.act)
    BY <1>1, <1>2, <1>7, <2>1 DEF Supplied
  <2>3. CASE x.src \notin IdsOf(B, "copy") /\ x.src = x.act /\ x.src \in x.reads
    <3>1. x.src # x.id
      <4>1. x.id \in x.reads => x.id < x.id
        BY <1>1, <1>2 DEF ReadsEarlier
      <4> QED BY <1>2, <2>3, <4>1
    <3> QED BY <1>4, <2>3, <3>1 DEF Input
  <2>4. CASE x.src \in IdsOf(B, "copy") /\ \E p \in DOMAIN B[b] : Holds(B, b, p, j, x.src, x.act)
    <3>1. PICK p \in DOMAIN B[b] : Holds(B, b, p, j, x.src, x.act)
      BY <2>4
    <3>2. p < j
      BY <3>1 DEF Holds
    <3>3. p < c[b].i /\ c[b].i <= j
      <4>1. \A i \in Nat : i <= i
        OBVIOUS
      <4> QED BY <2>1, <3>2, <4>1
    <3>4. Get(m, x.src) = Get(r, x.act)
      BY <1>1, <1>2, <2>1, <3>1, <3>3 DEF CopiesCurrent
    <3> QED BY <2>4, <3>4 DEF Input
  <2>5. CASE /\ x.src \in IdsOf(B, "copy") /\ 1 < b
             /\ \E p, s \in DOMAIN B[b - 1] : B[b - 1][s].kind = "for" /\ Holds(B, b - 1, p, s, x.src, x.act)
    <3> DEFINE a == b - 1
    <3>1. PICK p, s \in DOMAIN B[a] : B[a][s].kind = "for" /\ Holds(B, a, p, s, x.src, x.act)
      BY <2>5
    <3>2. a \in 1 .. b /\ a < b /\ b \in Nat
      BY <1>2, <2>5 DEF Blocks
    <3>3. a \in Blocks /\ c[a].i \in DOMAIN B[a] /\ c[a].i \in Nat
      BY <1>1, <3>2, StackFields
    <3>4. B[a][c[a].i].kind = "for"
      BY <1>1, <3>2 DEF Sites, StackOK
    <3>5. s = c[a].i
      BY <1>1, <3>1, <3>3, <3>4 DEF OneLoop
    <3>6. p < c[a].i /\ c[a].i <= s
      BY <3>1, <3>3, <3>5 DEF Holds
    <3>7. Get(m, x.src) = Get(r, x.act)
      BY <1>1, <1>2, <3>1, <3>2, <3>6 DEF CopiesCurrent
    <3> QED BY <2>5, <3>7 DEF Input
  <2> QED BY <2>2, <2>3, <2>4, <2>5
<1>8. Owed(B, f, m, z)
  <2> SUFFICES ASSUME NEW d \in Devices, NEW k \in DOMAIN f[d], NEW y, y = f[d][k], NEW o, o = y.op, o.kind = "mvm"
               PROVE  /\ o.id \in DOMAIN z
                      /\ z[o.id] = Due(B, y, m, z)
    BY DEF Owed
  <2>1. CASE f[d][k] = item
    <3>1. y = item /\ o = x /\ x.kind = "mvm"
      BY <2>1
    <3> QED BY <1>4, <1>7, <3>1 DEF Due
  <2>2. CASE k \in DOMAIN q[d] /\ f[d][k] = q[d][k]
    <3>1. ~ Changes(x, o.src) /\ ~ Changes(x, o.id) /\ o.id \in DOMAIN r
          /\ r[o.id] = Due(B, y, m, r)
      BY <2>2, QueuedFields
    <3>2. x.kind = "mvm" => o.src # x.id /\ o.id # x.id
      BY <1>5, <3>1
    <3>3. Get(z, o.src) = Get(r, o.src) /\ o.id \in DOMAIN z /\ z[o.id] = r[o.id]
      BY <1>4, <3>1, <3>2
    <3>4. Input(B, m, z, o) = Input(B, m, r, o)
      <4>1. Get(z, o.src) = Get(r, o.src)
        BY <3>3
      <4>2. \A v, w : Get(v, o.src) = Get(w, o.src) => Input(B, m, v, o) = Input(B, m, w, o)
        BY InputSame
      <4> QED BY <4>1, <4>2
    <3>5. Due(B, y, m, z) = Due(B, y, m, r)
      BY <3>4 DEF Due
    <3> QED BY <3>1, <3>3, <3>5
  <2> QED BY <1>3, <2>1, <2>2
<1>9. CopiesCurrent(B, e, m, z)
  <2> SUFFICES ASSUME NEW a \in 1 .. Len(e), NEW p \in DOMAIN B[a], NEW s \in DOMAIN B[a], NEW v \in Nat, NEW w \in Nat,
                      Holds(B, a, p, s, v, w), p < e[a].i, e[a].i <= s
               PROVE  Get(m, v) = Get(z, w)
    BY DEF CopiesCurrent
  <2>1. a \in Blocks
    BY ScheduleAssumption DEF Blocks
  <2>2. a \in 1 .. Len(c) /\ p < c[a].i /\ c[a].i <= s
    BY <1>1, <2>1, CurrentBefore DEF Issued
  <2>3. x.kind = "mvm" => w # x.id
    <3>1. ~ Changes(x, w)
      BY <1>1, <2>2, CopyStays
    <3> QED BY <1>5, <3>1
  <2>4. Get(m, v) = Get(r, w)
    BY <1>1, <2>2 DEF CopiesCurrent
  <2> QED BY <1>4, <2>3, <2>4
<1> QED BY <1>6, <1>8, <1>9

\* A device finishes the head of its queue.
LEMMA FinishData ==
  ASSUME NEW B, NEW c, NEW q, NEW m, NEW r, InRun(B, c, q, m, r), NEW d \in Devices, q[d] # <<>>,
         NEW y, y = Head(q[d]), NEW o, o = y.op, NEW f, f = [q EXCEPT ![d] = Tail(@)],
         NEW n, n = IF o.kind = "mvm" THEN Put(m, o.id, <<o.id, y.at, Get(m, o.src)>>) ELSE m
  PROVE  Synced(B, f, n, r) /\ Owed(B, f, n, r) /\ CopiesCurrent(B, c, n, r)
<1>1. /\ Sites(B, c) /\ Apart(B) /\ Synced(B, q, m, r) /\ QueueOK(B, c, q) /\ Owed(B, q, m, r)
      /\ CopiesCurrent(B, c, m, r) /\ ReadOrder(q)
  BY DEF InRun, RunData
<1>2. /\ \A e \in Devices : \A k \in DOMAIN f[e] : \E i \in DOMAIN q[e] : f[e][k] = q[e][i]
      /\ \A e \in Devices : \A k \in DOMAIN q[e] :
           (e = d /\ k = 1 /\ q[e][k] = y) \/ \E i \in DOMAIN f[e] : f[e][i] = q[e][k]
      /\ 1 \in DOMAIN q[d] /\ q[d][1] = y /\ \A k \in DOMAIN q[d] : ~ (k < 1)
  <2>2. q \in [Devices -> Seq(Items)]
    BY <1>1 DEF QueueOK
  <2>3. f[d] = Tail(q[d]) /\ \A e \in Devices : e # d => f[e] = q[e]
    BY <2>2
  <2> DEFINE old == q[d]
             new == f[d]
  <2>4. old \in Seq(Items) /\ old # <<>> /\ new = Tail(old) /\ y = Head(old)
    BY <2>2, <2>3
  <2> HIDE DEF old, new
  <2>5. /\ \A k \in DOMAIN new : \E i \in DOMAIN old : new[k] = old[i]
        /\ \A k \in DOMAIN old : k = 1 \/ \E i \in DOMAIN new : new[i] = old[k]
        /\ 1 \in DOMAIN old /\ old[1] = Head(old) /\ \A k \in DOMAIN old : ~ (k < 1)
    <3>1. \A k \in DOMAIN new : k + 1 \in DOMAIN old /\ new[k] = old[k + 1]
      BY <2>4
    <3>2. \A k \in DOMAIN old : k # 1 => k - 1 \in DOMAIN new /\ new[k - 1] = old[k]
      BY <2>4
    <3>3. 1 \in DOMAIN old /\ old[1] = Head(old) /\ \A k \in DOMAIN old : ~ (k < 1)
      BY <2>4
    <3> QED BY <3>1, <3>2, <3>3
  <2>6. ASSUME NEW e \in Devices
        PROVE  /\ \A k \in DOMAIN f[e] : \E i \in DOMAIN q[e] : f[e][k] = q[e][i]
               /\ \A k \in DOMAIN q[e] :
                    (e = d /\ k = 1 /\ q[e][k] = y) \/ \E i \in DOMAIN f[e] : f[e][i] = q[e][k]
    <3>1. CASE e = d
      BY <2>4, <2>5, <3>1 DEF old, new
    <3>2. CASE e # d
      BY <2>3, <3>2
    <3> QED BY <3>1, <3>2
  <2>7. 1 \in DOMAIN q[d] /\ q[d][1] = y /\ \A k \in DOMAIN q[d] : ~ (k < 1)
    BY <2>4, <2>5 DEF old
  <2> QED BY <2>6, <2>7
<1>3. o.kind = "mvm" => /\ o.id \in Nat /\ o.src \in Nat /\ o.id \notin IdsOf(B, "copy")
                        /\ o.src \notin IdsOf(B, "copy") => o.src \in o.reads
                        /\ o.id \in DOMAIN r /\ r[o.id] = Due(B, y, m, r)
  BY <1>2, QueuedFields
<1>4. /\ o.kind = "mvm" => Get(n, o.id) = <<o.id, y.at, Get(m, o.src)>> /\ o.id \in DOMAIN n
      /\ \A u : (o.kind = "mvm" => u # o.id) => Get(n, u) = Get(m, u) /\ (u \in DOMAIN n <=> u \in DOMAIN m)
  BY GetPut
\* What the device read is what the sequential run read.
<1>5. ASSUME o.kind = "mvm" PROVE Get(m, o.src) = Input(B, m, r, o)
  <2>1. CASE o.src \in IdsOf(B, "copy")
    BY <2>1 DEF Input
  <2>2. CASE o.src \notin IdsOf(B, "copy")
    <3>1. ~ ToCome(q, o.src)
      <4> SUFFICES ASSUME NEW e \in Devices, NEW k \in DOMAIN q[e], q[e][k].op.id = o.src PROVE FALSE
        BY DEF ToCome
      <4>1. q[e][k].op.id \in q[d][1].op.reads
        BY <1>2, <1>3, <1>5, <2>2
      <4>2. e = d /\ k < 1
        BY <1>1, <1>2, <4>1 DEF ReadOrder
      <4> QED BY <1>2, <4>2
    <3>2. SameIn(m, r, o.src)
      BY <1>1, <1>3, <1>5, <2>2, <3>1 DEF Synced
    <3> QED BY <2>2, <3>2 DEF Input, SameIn
  <2> QED BY <2>1, <2>2
<1>6. Synced(B, f, n, r)
  <2> SUFFICES ASSUME NEW v \in Nat, v \notin IdsOf(B, "copy"), ~ ToCome(f, v) PROVE SameIn(n, r, v)
    BY DEF Synced
  <2>1. CASE o.kind = "mvm" /\ v = o.id
    <3>1. Due(B, y, m, r) = <<o.id, y.at, Get(m, o.src)>>
      BY <1>5, <2>1 DEF Due
    <3>2. Get(r, v) = Due(B, y, m, r) /\ v \in DOMAIN r
      BY <1>3, <2>1 DEF Get
    <3>3. Get(n, v) = <<o.id, y.at, Get(m, o.src)>> /\ v \in DOMAIN n
      BY <1>4, <2>1
    <3> QED BY <3>1, <3>2, <3>3 DEF SameIn
  <2>2. CASE ~ (o.kind = "mvm" /\ v = o.id)
    <3>1. ~ ToCome(q, v)
      <4> SUFFICES ASSUME NEW e \in Devices, NEW k \in DOMAIN q[e], q[e][k].op.kind = "mvm", q[e][k].op.id = v
                   PROVE  FALSE
        BY DEF ToCome
      <4>1. q[e][k] # y
        BY <2>2
      <4>2. \E i \in DOMAIN f[e] : f[e][i] = q[e][k]
        BY <1>2, <4>1
      <4> QED BY <4>2 DEF ToCome
    <3>2. SameIn(m, r, v)
      BY <1>1, <3>1 DEF Synced
    <3> QED BY <1>4, <2>2, <3>2 DEF SameIn
  <2> QED BY <2>1, <2>2
<1>7. Owed(B, f, n, r)
  <2> SUFFICES ASSUME NEW e \in Devices, NEW k \in DOMAIN f[e], NEW z, z = f[e][k], z.op.kind = "mvm"
               PROVE  z.op.id \in DOMAIN r /\ r[z.op.id] = Due(B, z, n, r)
    BY DEF Owed
  <2>1. PICK i \in DOMAIN q[e] : z = q[e][i]
    BY <1>2
  <2>2. z.op.id \in DOMAIN r /\ r[z.op.id] = Due(B, z, m, r)
    BY <2>1, QueuedFields
  <2>3. Input(B, n, r, z.op) = Input(B, m, r, z.op)
    BY <1>3, <1>4 DEF Input
  <2>4. Due(B, z, n, r) = Due(B, z, m, r)
    BY <2>3 DEF Due
  <2> QED BY <2>2, <2>4
<1>8. CopiesCurrent(B, c, n, r)
  <2> SUFFICES ASSUME NEW a \in 1 .. Len(c), NEW p \in DOMAIN B[a], NEW s \in DOMAIN B[a], NEW v \in Nat, NEW w \in Nat,
                      Holds(B, a, p, s, v, w), p < c[a].i, c[a].i <= s
               PROVE  Get(n, v) = Get(r, w)
    BY SMTT(60) DEF CopiesCurrent
  <2>1. a \in Blocks
    BY <1>1, StackFields
  <2>2. B[a][p].kind = "copy" /\ B[a][p].id = v /\ B[a][p] \in OpsIn(B, a)
    BY DEF Holds, OpsIn
  <2>3. v \in IdsOf(B, "copy")
    BY <2>1, <2>2, IdsOfAre
  <2>4. Get(m, v) = Get(r, w)
    BY <1>1 DEF CopiesCurrent
  <2> QED BY <1>3, <1>4, <2>3, <2>4
<1> QED BY <1>6, <1>7, <1>8

\* The steps of the host between ops and blocks.
LEMMA AdvanceMoves ==
  ASSUME NEW B, NEW c, Sites(B, c), CurrentOf(B, c).kind # "end", NEW e, Advances(c, e)
  PROVE  Moves(B, c, e) /\ Len(e) \in Blocks
<1>1. StackOK(B, e)
  BY Advancing
<1>2. c \in Seq(Frames) /\ e \in Seq(Frames) /\ Len(e) \in Blocks
  BY <1>1 DEF StackOK, Sites
<1>3. Len(c) \in 1 .. Len(c)
  BY StackFields
<1>4. DOMAIN e = DOMAIN c /\ DOMAIN c = 1 .. Len(c) /\ DOMAIN e = 1 .. Len(e) /\ \A a \in DOMAIN c : c[a] \in Frames
  BY <1>2 DEF Advances
<1>5. \A a \in 1 .. Len(c) : e[a].i = IF a = Len(c) THEN c[a].i + 1 ELSE c[a].i
  BY <1>3, <1>4 DEF Advances, Frames
<1> QED BY <1>2, <1>4, <1>5 DEF Moves

LEMMA EnterMoves ==
  ASSUME NEW B, NEW c, Sites(B, c), CurrentOf(B, c).kind = "for", NEW e, e = Append(c, Frame(1))
  PROVE  Moves(B, c, e) /\ Len(e) \in Blocks
<1>1. StackOK(B, e)
  BY Entering
<1>2. c \in Seq(Frames) /\ Len(e) \in Blocks
  BY <1>1 DEF StackOK, Sites
<1>3. \A a \in 1 .. Len(e) : e[a] = Frame(1) \/ (a \in 1 .. Len(c) /\ e[a] = c[a])
  BY <1>2
<1> QED BY <1>2, <1>3 DEF Moves, Frame

LEMMA RepeatMoves ==
  ASSUME NEW B, NEW c, Sites(B, c), CurrentOf(B, c).kind = "end", NEW it \in 1 .. Trips,
         NEW n, n = Len(c), NEW e, e = [c EXCEPT ![n] = Frame(it)]
  PROVE  Moves(B, c, e) /\ Len(e) \in Blocks
<1>1. StackOK(B, e)
  BY Repeating
<1>2. c \in Seq(Frames) /\ e \in Seq(Frames) /\ Len(e) \in Blocks
  BY <1>1 DEF StackOK, Sites
<1>3. DOMAIN e = DOMAIN c /\ DOMAIN c = 1 .. Len(c) /\ DOMAIN e = 1 .. Len(e)
  BY <1>2
<1>4. \A a \in 1 .. Len(c) : e[a] = Frame(it) \/ e[a] = c[a]
  BY <1>3
<1>5. Frame(it).i = 1
  BY DEF Frame
<1> QED BY <1>2, <1>3, <1>4, <1>5 DEF Moves

LEMMA LeaveMoves ==
  ASSUME NEW B, NEW c, Sites(B, c), CurrentOf(B, c).kind = "end", Len(c) > 1,
         NEW n, n = Len(c), NEW e, e = [Front(c) EXCEPT ![n - 1].i = @ + 1]
  PROVE  Moves(B, c, e) /\ Len(e) \in Blocks
<1>1. StackOK(B, e)
  BY Leaving
<1>2. c \in Seq(Frames) /\ e \in Seq(Frames) /\ Len(e) \in Blocks /\ n \in Nat
  BY <1>1 DEF StackOK, Sites
<1>3. Front(c) = [a \in 1 .. n - 1 |-> c[a]]
  BY <1>2 DEF Front
<1>4. DOMAIN e = 1 .. n - 1 /\ DOMAIN e = 1 .. Len(e) /\ \A a \in 1 .. n : c[a] \in Frames
  BY <1>2, <1>3
<1>5. \A a \in 1 .. n - 1 : a \in 1 .. n /\ e[a].i = IF a = n - 1 THEN c[a].i + 1 ELSE c[a].i
  <2> SUFFICES ASSUME NEW a \in 1 .. n - 1
               PROVE  a \in 1 .. n /\ e[a].i = IF a = n - 1 THEN c[a].i + 1 ELSE c[a].i
    OBVIOUS
  <2>1. a \in 1 .. n /\ a \in DOMAIN Front(c) /\ Front(c)[a] = c[a]
    BY <1>2, <1>3
  <2>2. c[a] \in [i : Nat, it : 1 .. Trips]
    BY <1>4, <2>1 DEF Frames
  <2>3. CASE a = n - 1
    BY <2>1, <2>2, <2>3
  <2>4. CASE a # n - 1
    BY <2>1, <2>2, <2>4
  <2> QED BY <2>1, <2>3, <2>4
<1>6. \A a \in 1 .. n - 1 : B[a][c[a].i].kind = "for"
  BY <1>2 DEF Sites, StackOK
<1> QED BY <1>2, <1>4, <1>5, <1>6 DEF Moves
-----------------------------------------------------------------------------
LEMMA InitData == Init => DataInv
<1> SUFFICES ASSUME Init PROVE DataInv
  OBVIOUS
<1>1. phase = "build" /\ NoContents /\ \A b \in Blocks : blocks[b] = <<>> /\ DOMAIN blocks[b] = {}
  BY DEF Init, NoContents
<1>2. \A b \in Blocks : OpsIn(blocks, b) = {}
  BY <1>1 DEF OpsIn
<1>3. Own(blocks) /\ Kept(blocks) /\ OneLoop(blocks)
  BY <1>1 DEF Own, Kept, OneLoop
<1>4. Buffered(blocks) /\ Given(blocks) /\ Filled(blocks, cursor)
  BY <1>2 DEF Buffered, Given, Filled
<1>5. Deep(blocks)
  <2>1. \A b \in Blocks : \A a \in Within(b) : a \in Blocks
    BY ScheduleAssumption DEF Within, Blocks
  <2> QED BY <1>1, <2>1 DEF Deep
<1> QED BY <1>1, <1>3, <1>4, <1>5 DEF DataInv, SourceData

\* What the two invariants give for a run.
LEMMA RunHas ==
  ASSUME Inv, DataInv, phase \in {"run", "done"}
  PROVE  InRun(blocks, pc, queue, mem, ref) /\ Current = CurrentOf(blocks, pc) /\ Block = Len(pc)
<1>1. RunOK /\ Current = CurrentOf(blocks, pc) /\ Block = Len(pc)
  BY RunFields
<1>2. RunData(blocks) /\ Contents
  BY DEF DataInv
<1> QED BY <1>1, <1>2 DEF InRun, RunOK, Contents

\* A step of the run, from what it does to the contents.
LEMMA RunKeeps ==
  ASSUME DataInv, phase \in {"run", "done"}, phase' \in {"run", "done"}, blocks' = blocks,
         Synced(blocks, queue', mem', ref'), Owed(blocks, queue', mem', ref'),
         CopiesCurrent(blocks, pc', mem', ref')
  PROVE  DataInv'
BY DEF DataInv, Contents

\* One step of the specification, action by action.
LEMMA DataStep ==
  ASSUME ~ LoopsRewrite, Inv, DataInv, [Next]_vars
  PROVE  DataInv'
<1>1. CASE Build /\ ~ Return
  <2>1. phase = "build"
    BY <1>1 DEF Build, Program, Mvm, Stage, Write, Read, EnterLoop, LeaveLoop, Room
  <2>2. Built /\ SourceData(blocks) /\ Deep(blocks) /\ Filled(blocks, cursor) /\ NoContents
    BY <2>1 DEF Inv, DataInv
  <2>3. SourceData(blocks') /\ Deep(blocks') /\ Filled(blocks', cursor') /\ NoContents'
    BY <1>1, <2>2, BuildData
  <2>4. phase' = "build"
    BY <1>1, <2>1, <2>2, BuildStep
  <2> QED BY <2>3, <2>4 DEF DataInv
<1>2. CASE Return
  <2>1. phase = "build" /\ phase' = "schedule" /\ mem' = mem /\ ref' = ref
    BY <1>2 DEF Return
  <2>2. Built /\ SourceData(blocks) /\ NoContents
    BY <2>1 DEF Inv, DataInv
  <2>3. SourceData(blocks')
    BY <1>2, <2>2, ReturnData
  <2> QED BY <2>1, <2>2, <2>3 DEF DataInv, NoContents
<1>3. CASE Schedule
  <2>1. phase = "schedule" /\ phase' = "transfers" /\ mem' = mem /\ ref' = ref
    BY <1>3 DEF Schedule
  <2>2. AsBuilt(blocks) /\ Ended(blocks) /\ Entered(blocks, 0) /\ SourceData(blocks) /\ NoContents
    BY <2>1 DEF Inv, DataInv
  <2>3. SourceData(blocks')
    BY <1>3, <2>2, ScheduleData
  <2> QED BY <2>1, <2>2, <2>3 DEF DataInv, NoContents
<1>4. CASE InsertTransfers
  <2>1. phase = "transfers" /\ phase' = "run" /\ pc' = <<Frame(1)>> /\ mem' = mem /\ ref' = ref /\ queue' = queue
    BY <1>4 DEF InsertTransfers
  <2>2. ReadyForTransfers /\ SourceData(blocks) /\ NoContents /\ Idle
    BY <2>1 DEF Inv, DataInv
  <2>3. RunData(blocks') /\ Lasting(blocks')
    BY <1>4, <2>2, TransfersData, TransfersStep
  <2>4. mem' = ref' /\ \A d \in Devices : queue'[d] = <<>>
    BY <2>1, <2>2 DEF NoContents, Idle
  <2>5. Synced(blocks', queue', mem', ref') /\ Owed(blocks', queue', mem', ref')
    BY <2>4 DEF Synced, SameIn, Owed
  <2>6. CopiesCurrent(blocks', pc', mem', ref')
    <3> SUFFICES ASSUME NEW a \in 1 .. Len(pc'), NEW p \in DOMAIN blocks'[a], p < pc'[a].i PROVE FALSE
      BY DEF CopiesCurrent
    <3>1. a = 1 /\ pc'[a].i = 1
      BY <2>1 DEF Frame
    <3>2. a \in Blocks
      BY <3>1, ScheduleAssumption DEF Blocks
    <3>3. p \in Nat /\ 1 <= p
      BY <2>3, <3>2, OpFields DEF Lasting
    <3> QED BY <3>1, <3>3
  <2> QED BY <2>1, <2>3, <2>5, <2>6 DEF DataInv, Contents
<1>5. CASE Issue
  <2> DEFINE x == Current
             item == [op |-> x, at |-> At]
  <2>1. phase = "run" /\ Issued(x) /\ phase' = phase /\ blocks' = blocks /\ mem' = mem
    BY <1>5 DEF Issue, Running, Issued
  <2>2. /\ queue' = [queue EXCEPT ![x.dev] = Append(@, item)] /\ Advances(pc, pc')
        /\ ref' = IF x.kind = "mvm" THEN Put(ref, x.id, <<x.id, item.at, Get(ref, x.act)>>) ELSE ref
    BY <1>5 DEF Issue, Advance, Block, Advances
  <2>3. InRun(blocks, pc, queue, mem, ref) /\ x = CurrentOf(blocks, pc)
    BY <2>1, RunHas
  <2>4. Sites(blocks, pc)
    BY <2>3 DEF InRun
  <2>5. item \in Items /\ item.op = x
    BY <2>3, <2>4, IssuedItem DEF At
  <2>6. x.kind # "end"
    BY <2>1 DEF Issued
  <2> HIDE DEF x, item
  <2>7. Moves(blocks, pc, pc') /\ Len(pc') \in Blocks
    BY <2>2, <2>3, <2>4, <2>6, AdvanceMoves
  <2>8. Synced(blocks, queue', mem, ref') /\ Owed(blocks, queue', mem, ref') /\ CopiesCurrent(blocks, pc', mem, ref')
    BY <2>1, <2>2, <2>3, <2>5, <2>7, IssueData
  <2> QED BY <2>1, <2>8, RunKeeps
<1>6. CASE HostCopy
  <2>1. /\ phase = "run" /\ phase' = phase /\ blocks' = blocks /\ queue' = queue /\ ref' = ref
        /\ Current.kind = "copy" /\ Advances(pc, pc') /\ mem' = Put(mem, Current.id, Get(mem, Current.act))
    BY <1>6 DEF HostCopy, Running, Advance, Block, Advances
  <2>2. InRun(blocks, pc, queue, mem, ref) /\ Current = CurrentOf(blocks, pc) /\ Sites(blocks, pc)
    BY <2>1, RunHas DEF InRun
  <2>3. CurrentOf(blocks, pc).kind # "end"
    BY <2>1, <2>2
  <2>4. Moves(blocks, pc, pc') /\ Len(pc') \in Blocks
    BY <2>1, <2>2, <2>3, AdvanceMoves
  <2>5. Synced(blocks, queue, mem', ref) /\ Owed(blocks, queue, mem', ref) /\ CopiesCurrent(blocks, pc', mem', ref)
    BY <2>1, <2>2, <2>4, CopyData
  <2> QED BY <2>1, <2>5, RunKeeps
<1>7. CASE HostWrite
  <2> DEFINE v == IF Current.kind = "stage" THEN Current.id ELSE Current.act
             term == <<Current.id, At>>
  <2>1. /\ phase = "run" /\ phase' = phase /\ blocks' = blocks /\ queue' = queue
        /\ Current.kind \in {"stage", "write"} /\ Advances(pc, pc')
        /\ mem' = Put(mem, v, term) /\ ref' = Put(ref, v, term)
    BY <1>7 DEF HostWrite, Running, Advance, Block, Advances
  <2>2. \/ Current.kind = "stage" /\ v = Current.id
        \/ Current.kind = "write" /\ v = Current.act
    BY <2>1
  <2> HIDE DEF v, term
  <2>3. InRun(blocks, pc, queue, mem, ref) /\ Current = CurrentOf(blocks, pc) /\ Sites(blocks, pc)
    BY <2>1, RunHas DEF InRun
  <2>4. CurrentOf(blocks, pc).kind # "end"
    BY <2>1, <2>3
  <2>5. Moves(blocks, pc, pc') /\ Len(pc') \in Blocks
    BY <2>1, <2>3, <2>4, AdvanceMoves
  <2>6. Synced(blocks, queue, mem', ref') /\ Owed(blocks, queue, mem', ref') /\ CopiesCurrent(blocks, pc', mem', ref')
    BY <2>1, <2>2, <2>3, <2>5, WriteData
  <2> QED BY <2>1, <2>6, RunKeeps
<1>8. CASE WaitAtBarrier \/ HostRead
  <2>1. /\ phase = "run" /\ phase' = phase /\ blocks' = blocks /\ queue' = queue /\ mem' = mem /\ ref' = ref
        /\ Current.kind \in {"barrier", "read"} /\ Advances(pc, pc')
    BY <1>8 DEF WaitAtBarrier, HostRead, Running, Advance, Block, Advances
  <2>2. InRun(blocks, pc, queue, mem, ref) /\ Current = CurrentOf(blocks, pc) /\ Sites(blocks, pc)
    BY <2>1, RunHas DEF InRun
  <2>3. CurrentOf(blocks, pc).kind # "end" /\ CurrentOf(blocks, pc).kind # "copy"
    BY <2>1, <2>2
  <2>4. CopiesCurrent(blocks, pc', mem, ref)
    BY <2>1, <2>2, <2>3, AdvanceMoves, StillData
  <2> QED BY <2>1, <2>2, <2>4, RunKeeps DEF InRun
<1>9. CASE RunLoop
  <2>1. /\ phase = "run" /\ phase' = phase /\ blocks' = blocks /\ queue' = queue /\ mem' = mem /\ ref' = ref
        /\ Current.kind = "for" /\ pc' = Append(pc, Frame(1))
    BY <1>9 DEF RunLoop, Running
  <2>2. InRun(blocks, pc, queue, mem, ref) /\ Current = CurrentOf(blocks, pc) /\ Sites(blocks, pc)
    BY <2>1, RunHas DEF InRun
  <2>3. CurrentOf(blocks, pc).kind = "for" /\ CurrentOf(blocks, pc).kind # "copy"
    BY <2>1, <2>2
  <2>4. CopiesCurrent(blocks, pc', mem, ref)
    BY <2>1, <2>2, <2>3, EnterMoves, StillData
  <2> QED BY <2>1, <2>2, <2>4, RunKeeps DEF InRun
<1>10. CASE EndFunction
  <2>1. /\ phase = "run" /\ phase' = "done" /\ blocks' = blocks /\ queue' = queue /\ mem' = mem /\ ref' = ref
        /\ pc' = pc
    BY <1>10 DEF EndFunction, Running
  <2>2. RunData(blocks) /\ Contents
    BY <2>1 DEF DataInv
  <2> QED BY <2>1, <2>2, RunKeeps DEF Contents
<1>11. CASE EndBody
  <2>1. /\ phase = "run" /\ phase' = phase /\ blocks' = blocks /\ queue' = queue /\ mem' = mem /\ ref' = ref
        /\ Current.kind = "end" /\ Len(pc) > 1
        /\ pc' = IF MoreTrips(pc[Len(pc)].it) THEN [pc EXCEPT ![Len(pc)] = Frame(pc[Len(pc)].it + 1)]
                 ELSE [Front(pc) EXCEPT ![Len(pc) - 1].i = @ + 1]
    BY <1>11 DEF EndBody, Running, Block, Iteration
  <2>2. InRun(blocks, pc, queue, mem, ref) /\ Current = CurrentOf(blocks, pc) /\ Sites(blocks, pc)
    BY <2>1, RunHas DEF InRun
  <2>3. CurrentOf(blocks, pc).kind = "end" /\ CurrentOf(blocks, pc).kind # "copy"
    BY <2>1, <2>2
  <2>4. Moves(blocks, pc, pc') /\ Len(pc') \in Blocks
    <3>1. CASE MoreTrips(pc[Len(pc)].it)
      <4>1. Len(pc) \in 1 .. Len(pc)
        BY <2>2, StackFields
      <4>2. pc[Len(pc)] \in Frames
        BY <2>2, <4>1, StackFields
      <4>3. pc[Len(pc)].it + 1 \in 1 .. Trips
        BY <3>1, <4>2, ScheduleAssumption DEF MoreTrips, Frames
      <4>4. pc' = [pc EXCEPT ![Len(pc)] = Frame(pc[Len(pc)].it + 1)]
        BY <2>1, <3>1
      <4> QED BY <2>2, <2>3, <4>3, <4>4, RepeatMoves
    <3>2. CASE ~ MoreTrips(pc[Len(pc)].it)
      <4>1. pc' = [Front(pc) EXCEPT ![Len(pc) - 1].i = @ + 1]
        BY <2>1, <3>2
      <4> QED BY <2>1, <2>2, <2>3, <4>1, LeaveMoves
    <3> QED BY <3>1, <3>2
  <2>5. CopiesCurrent(blocks, pc', mem, ref)
    BY <2>2, <2>3, <2>4, StillData
  <2> QED BY <2>1, <2>2, <2>5, RunKeeps DEF InRun
<1>12. ASSUME NEW d \in Devices, Complete(d) PROVE DataInv'
  <2> DEFINE y == Head(queue[d])
             o == y.op
  <2>0. y = Head(queue[d]) /\ o = y.op
    OBVIOUS
  <2>1. /\ queue[d] # <<>> /\ queue' = [queue EXCEPT ![d] = Tail(@)]
        /\ phase' = phase /\ blocks' = blocks /\ pc' = pc /\ ref' = ref
        /\ mem' = IF o.kind = "mvm" THEN Put(mem, o.id, <<o.id, y.at, Get(mem, o.src)>>) ELSE mem
    BY <1>12 DEF Complete
  <2> HIDE DEF y, o
  <2>2. phase \in {"run", "done"}
    BY <2>1 DEF Inv, Idle
  <2>3. InRun(blocks, pc, queue, mem, ref)
    BY <2>2, RunHas
  <2>4. Synced(blocks, queue', mem', ref) /\ Owed(blocks, queue', mem', ref) /\ CopiesCurrent(blocks, pc, mem', ref)
    BY <2>0, <2>1, <2>3, FinishData
  <2> QED BY <2>1, <2>2, <2>4, RunKeeps
<1>13. CASE UNCHANGED vars
  BY <1>13 DEF vars, DataInv, NoContents, Contents
<1> QED BY <1>1, <1>2, <1>3, <1>4, <1>5, <1>6, <1>7, <1>8, <1>9, <1>10, <1>11, <1>12, <1>13 DEF Next, Step

\* If no loop rewrites an activation that its cim.mvms read from outside, every
\* cim.mvm a device finishes has computed what a sequential run computes, with
\* no barriers and no copies: for every number of devices, every nest of loops
\* and every length of the function.
THEOREM ComputesSequentially == Spec => [](~ LoopsRewrite => ResultsAreSequential)
<1>1. Init => (~ LoopsRewrite => DataInv)
  BY InitData
<1>2. Inv /\ (~ LoopsRewrite => DataInv) /\ [Next]_vars => (~ LoopsRewrite => DataInv)'
  BY DataStep
<1>3. Inv /\ (~ LoopsRewrite => DataInv) => (~ LoopsRewrite => ResultsAreSequential)
  <2> SUFFICES ASSUME Inv, DataInv, NEW x \in AllOps, x.kind = "mvm", x.id \in DOMAIN ref, x.id \notin Outstanding
               PROVE  x.id \in DOMAIN mem /\ mem[x.id] = ref[x.id]
    BY DEF ResultsAreSequential
  <2>1. ~ NoContents
    BY DEF NoContents
  <2>2. phase \in {"run", "done"} /\ RunData(blocks) /\ Contents
    BY <2>1 DEF DataInv
  <2>3. PICK b \in Blocks : x \in OpsIn(blocks, b)
    BY OpsAre
  <2>4. Typed(blocks)
    BY <2>2, RunFields DEF RunOK, Sites, Lasting
  <2>5. x.id \in Nat /\ x.id \notin IdsOf(blocks, "copy")
    BY <2>2, <2>3, <2>4, IdsAre DEF RunData, Apart
  <2>6. ~ ToCome(queue, x.id)
    BY DEF ToCome, Outstanding, Unfinished
  <2>7. SameIn(mem, ref, x.id)
    BY <2>2, <2>5, <2>6 DEF Contents, Synced
  <2> QED BY <2>7 DEF SameIn, Get
<1> QED BY <1>1, <1>2, <1>3, Invariant, PTL DEF Spec
=============================================================================
