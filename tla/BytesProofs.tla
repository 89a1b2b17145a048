---------------------------- MODULE BytesProofs ----------------------------
(***************************************************************************)
(* What the proofs about the modules over Bytes share: functions defined by   *)
(* recursion on the naturals, pieces of sequences, and that the bytes a       *)
(* number is packed into are the bytes it is unpacked from.                   *)
(*                                                                         *)
(* The induction theorems of the library take an operator; here a set or a    *)
(* function takes its place.                                                 *)
(***************************************************************************)
EXTENDS Bytes, SequenceTheorems, WellFoundedInduction, TLAPS

\* A set of naturals that is not empty has a least element.
LEMMA Least ==
    ASSUME NEW T \in SUBSET Nat, T # {}
    PROVE  \E x \in T : \A y \in T : x <= y
<1>. DEFINE R == {p \in Nat \X Nat : p[1] < p[2]}
<1>1. R = OpToRel(<, Nat)
  BY DEF OpToRel
<1>2. IsWellFoundedOn(R, Nat)
  BY <1>1, NatLessThanWellFounded
<1>3. PICK x \in T : \A y \in T : ~(<<y, x>> \in R)
  BY <1>2, WFMin
<1>4. ASSUME NEW y \in T PROVE x <= y
  <2>1. <<y, x>> \notin R /\ <<y, x>> \in Nat \X Nat
    BY <1>3, <1>4
  <2>. QED
    BY <2>1
<1>. QED
  BY <1>4

\* Induction: a set that has 0, and with a number the next, has all of them.
LEMMA Induction ==
    ASSUME NEW S, 0 \in S, \A n \in Nat : n \in S => n + 1 \in S
    PROVE  Nat \subseteq S
<1>. DEFINE T == {n \in Nat : n \notin S}
<1>1. SUFFICES ASSUME T # {} PROVE FALSE
  OBVIOUS
<1>2. PICK x \in T : \A y \in T : x <= y
  BY <1>1, Least
<1>3. x - 1 \in Nat /\ x - 1 \in S
  BY <1>2
<1>. QED
  BY <1>2, <1>3

\* Induction up to a bound.
LEMMA BoundedInduction ==
    ASSUME NEW N \in Nat, NEW S, 0 \in S, \A n \in 1 .. N : n - 1 \in S => n \in S
    PROVE  0 .. N \subseteq S
<1>. DEFINE T == {n \in Nat : n <= N => n \in S}
<1>1. Nat \subseteq T
  <2>1. 0 \in T
    OBVIOUS
  <2>2. ASSUME NEW n \in Nat, n \in T PROVE n + 1 \in T
    BY <2>2
  <2>. HIDE DEF T
  <2>. QED
    BY <2>1, <2>2, Induction
<1>. QED
  BY <1>1

\* Induction over all smaller numbers.
LEMMA StrongInduction ==
    ASSUME NEW N \in Nat, NEW S, \A n \in 0 .. N : (\A m \in 0 .. n - 1 : m \in S) => n \in S
    PROVE  0 .. N \subseteq S
<1>. DEFINE T == {n \in 0 .. N : n \notin S}
<1>1. SUFFICES ASSUME T # {} PROVE FALSE
  OBVIOUS
<1>2. PICK x \in T : \A y \in T : x <= y
  <2>1. T \in SUBSET Nat
    OBVIOUS
  <2>. HIDE DEF T
  <2>. QED
    BY <1>1, <2>1, Least
<1>3. x \in 0 .. N /\ x \notin S /\ \A m \in 0 .. x - 1 : m \in S
  BY <1>2
<1>4. x \in S
  BY <1>3
<1>. QED
  BY <1>3, <1>4

------------------------------------------------------------------------------
(* The equation f[0] = a, f[n] = G[n, f[Pre[n]]] for n in 1 .. N, where Pre[n] is less     *)
(* than n.                                                                            *)

\* f solves it up to M.
Solves(f, M, a, Pre, G) ==
    f[0] = a /\ \A n \in 1 .. M : f[n] = G[<<n, f[Pre[n]]>>]

\* A function that solves it exists.
LEMMA Solution ==
    ASSUME NEW N \in Nat, NEW V, NEW a \in V,
           NEW Pre \in [1 .. N -> Nat], \A n \in 1 .. N : Pre[n] < n,
           NEW G \in [(1 .. N) \X V -> V]
    PROVE  \E f \in [0 .. N -> V] : Solves(f, N, a, Pre, G)
<1>. DEFINE S == {M \in 0 .. N : \E f \in [0 .. M -> V] : Solves(f, M, a, Pre, G)}
<1>1. 0 \in S
  <2>1. [n \in 0 .. 0 |-> a] \in [0 .. 0 -> V]
    OBVIOUS
  <2>2. Solves([n \in 0 .. 0 |-> a], 0, a, Pre, G)
    BY DEF Solves
  <2>. QED
    BY <2>1, <2>2
<1>2. ASSUME NEW M \in 1 .. N, M - 1 \in S PROVE M \in S
  <2>1. PICK f \in [0 .. M - 1 -> V] : Solves(f, M - 1, a, Pre, G)
    BY <1>2
  <2>2. Pre[M] \in 0 .. M - 1
    OBVIOUS
  <2>. DEFINE g == [n \in 0 .. M |-> IF n = M THEN G[<<M, f[Pre[M]]>>] ELSE f[n]]
  <2>3. G[<<M, f[Pre[M]]>>] \in V
    BY <2>2
  <2>4. g \in [0 .. M -> V]
    BY <2>3
  <2>5. g[0] = a
    BY <2>1 DEF Solves
  <2>6. ASSUME NEW n \in 1 .. M PROVE g[n] = G[<<n, g[Pre[n]]>>]
    <3>1. Pre[n] \in 0 .. M - 1 /\ g[Pre[n]] = f[Pre[n]]
      OBVIOUS
    <3>2. CASE n = M
      <4>1. g[M] = G[<<M, f[Pre[M]]>>]
        OBVIOUS
      <4>2. g[Pre[M]] = f[Pre[M]]
        BY <3>1, <3>2
      <4>. HIDE DEF g
      <4>. QED
        BY <3>2, <4>1, <4>2
    <3>3. CASE n # M
      <4>1. g[n] = f[n] /\ n \in 1 .. M - 1
        BY <3>3
      <4>. QED
        BY <2>1, <3>1, <4>1 DEF Solves
    <3>. QED
      BY <3>2, <3>3
  <2>. HIDE DEF g
  <2>7. Solves(g, M, a, Pre, G)
    BY <2>5, <2>6 DEF Solves
  <2>. QED
    BY <2>4, <2>7
<1>. HIDE DEF S
<1>3. 0 .. N \subseteq S
  BY <1>1, <1>2, BoundedInduction
<1>4. N \in S
  BY <1>3
<1>. QED
  BY <1>4 DEF S

\* Whatever solves it has its values in V.
LEMMA SolutionType ==
    ASSUME NEW N \in Nat, NEW V, NEW a \in V,
           NEW Pre \in [1 .. N -> Nat], \A n \in 1 .. N : Pre[n] < n,
           NEW W, NEW g \in [0 .. N -> W], g[0] = a,
           \A n \in 1 .. N : g[Pre[n]] \in V => g[n] \in V
    PROVE  g \in [0 .. N -> V]
<1>. DEFINE S == {n \in 0 .. N : g[n] \in V}
<1>1. ASSUME NEW n \in 0 .. N, \A m \in 0 .. n - 1 : m \in S PROVE n \in S
  <2>1. CASE n = 0
    BY <2>1
  <2>2. CASE n # 0
    <3>1. Pre[n] \in 0 .. n - 1 /\ n \in 1 .. N
      BY <2>2
    <3>2. g[Pre[n]] \in V
      BY <1>1, <3>1
    <3>. QED
      BY <3>1, <3>2
  <2>. QED
    BY <2>1, <2>2
<1>. HIDE DEF S
<1>2. 0 .. N \subseteq S
  BY <1>1, StrongInduction
<1>. QED
  BY <1>2 DEF S

------------------------------------------------------------------------------
(* The same where Pre[n] is n - 1. *)

StepSolves(f, N, a, G) == f[0] = a /\ \A n \in 1 .. N : f[n] = G[<<n, f[n - 1]>>]

LEMMA StepSolution ==
    ASSUME NEW N \in Nat, NEW V, NEW a \in V, NEW G \in [(1 .. N) \X V -> V]
    PROVE  \E f \in [0 .. N -> V] : StepSolves(f, N, a, G)
<1>. DEFINE Pre == [n \in 1 .. N |-> n - 1]
<1>1. Pre \in [1 .. N -> Nat] /\ \A n \in 1 .. N : Pre[n] = n - 1 /\ Pre[n] < n
  OBVIOUS
<1>. HIDE DEF Pre
<1>2. PICK f \in [0 .. N -> V] : Solves(f, N, a, Pre, G)
  BY <1>1, Solution
<1>3. StepSolves(f, N, a, G)
  BY <1>1, <1>2 DEF Solves, StepSolves
<1>. QED
  BY <1>3

LEMMA StepType ==
    ASSUME NEW N \in Nat, NEW V, NEW W, NEW g \in [0 .. N -> W], g[0] \in V,
           \A n \in 1 .. N : g[n - 1] \in V => g[n] \in V
    PROVE  g \in [0 .. N -> V]
<1>. DEFINE Pre == [n \in 1 .. N |-> n - 1]
<1>1. Pre \in [1 .. N -> Nat] /\ \A n \in 1 .. N : Pre[n] = n - 1 /\ Pre[n] < n
  OBVIOUS
<1>. HIDE DEF Pre
<1>2. \A n \in 1 .. N : g[Pre[n]] \in V => g[n] \in V
  BY <1>1
<1>. QED
  BY <1>1, <1>2, SolutionType

------------------------------------------------------------------------------
(* Sequences and functions. *)

\* A function that its values are known of, and their set.
LEMMA FunctionIn ==
    ASSUME NEW S, NEW f, f = [x \in S |-> f[x]]
    PROVE  f \in [S -> {f[x] : x \in S}]
<1>. DEFINE W == {f[x] : x \in S}
<1>1. \A x \in S : f[x] \in W
  OBVIOUS
<1>. HIDE DEF W
<1>2. f \in [S -> W]
  BY <1>1
<1>. QED
  BY <1>2 DEF W

\* A sequence of n elements.
LEMMA SeqN ==
    ASSUME NEW V, NEW s \in Seq(V)
    PROVE  s \in [1 .. Len(s) -> V]
  OBVIOUS

\* A function on 1 .. n is a sequence of n elements.
LEMMA NSeq ==
    ASSUME NEW V, NEW n \in Nat, NEW s \in [1 .. n -> V]
    PROVE  s \in Seq(V) /\ Len(s) = n
  OBVIOUS

\* A piece of a sequence.
LEMMA Piece ==
    ASSUME NEW V, NEW s \in Seq(V), NEW m \in 1 .. Len(s) + 1, NEW n \in m - 1 .. Len(s)
    PROVE  /\ SubSeq(s, m, n) \in Seq(V)
           /\ Len(SubSeq(s, m, n)) = n + 1 - m
           /\ \A j \in 1 .. n + 1 - m : SubSeq(s, m, n)[j] = s[m + j - 1]
<1>. DEFINE u == SubSeq(s, m, n)
<1>1. Len(s) \in Nat /\ m \in Int /\ n \in Int /\ \A j \in m .. n : s[j] \in V
  OBVIOUS
<1>2. /\ u \in Seq(V)
      /\ Len(u) = (IF m <= n THEN n - m + 1 ELSE 0)
      /\ \A j \in 1 .. n - m + 1 : u[j] = s[m + j - 1]
  BY <1>1, SubSeqProperties
<1>. HIDE DEF u
<1>3. Len(u) = n + 1 - m /\ \A j \in 1 .. n + 1 - m : u[j] = s[m + j - 1]
  BY <1>1, <1>2
<1>. QED
  BY <1>2, <1>3 DEF u

\* The two parts of a sequence put together.
LEMMA Parts ==
    ASSUME NEW V, NEW a \in Seq(V), NEW b \in Seq(V)
    PROVE  /\ a \o b \in Seq(V) /\ Len(a \o b) = Len(a) + Len(b)
           /\ SubSeq(a \o b, 1, Len(a)) = a
           /\ SubSeq(a \o b, Len(a) + 1, Len(a \o b)) = b
<1>. DEFINE s == a \o b
<1>1. /\ s \in Seq(V) /\ Len(s) = Len(a) + Len(b) /\ Len(a) \in Nat /\ Len(b) \in Nat
      /\ \A j \in 1 .. Len(a) : s[j] = a[j]
      /\ \A j \in 1 .. Len(b) : s[Len(a) + j] = b[j]
  BY ConcatProperties
<1>. HIDE DEF s
<1>2. /\ SubSeq(s, 1, Len(a)) \in Seq(V) /\ Len(SubSeq(s, 1, Len(a))) = Len(a)
      /\ \A j \in 1 .. Len(a) : SubSeq(s, 1, Len(a))[j] = s[j]
  <2>1. 1 \in 1 .. Len(s) + 1 /\ Len(a) \in 1 - 1 .. Len(s) /\ Len(a) + 1 - 1 = Len(a)
    BY <1>1
  <2>2. /\ SubSeq(s, 1, Len(a)) \in Seq(V) /\ Len(SubSeq(s, 1, Len(a))) = Len(a) + 1 - 1
        /\ \A j \in 1 .. Len(a) + 1 - 1 : SubSeq(s, 1, Len(a))[j] = s[1 + j - 1]
    BY <1>1, <2>1, Piece
  <2>. QED
    BY <2>1, <2>2
<1>3. SubSeq(s, 1, Len(a)) = a
  BY <1>1, <1>2, SeqEqual
<1>. DEFINE u == SubSeq(s, Len(a) + 1, Len(s))
<1>4. /\ u \in Seq(V) /\ Len(u) = Len(b)
      /\ \A j \in 1 .. Len(b) : u[j] = b[j]
  <2>1. Len(a) + 1 \in 1 .. Len(s) + 1 /\ Len(s) \in (Len(a) + 1) - 1 .. Len(s)
        /\ Len(s) + 1 - (Len(a) + 1) = Len(b)
    BY <1>1
  <2>2. /\ u \in Seq(V) /\ Len(u) = Len(s) + 1 - (Len(a) + 1)
        /\ \A j \in 1 .. Len(s) + 1 - (Len(a) + 1) : u[j] = s[(Len(a) + 1) + j - 1]
    BY <1>1, <2>1, Piece
  <2>. QED
    BY <1>1, <2>1, <2>2
<1>5. u = b
  <2>. HIDE DEF u
  <2>. QED
    BY <1>4, SeqEqual
<1>. QED
  BY <1>1, <1>3, <1>5 DEF s

\* A sequence is its two parts put together.
LEMMA Halves ==
    ASSUME NEW V, NEW s \in Seq(V), NEW n \in 0 .. Len(s)
    PROVE  s = SubSeq(s, 1, n) \o SubSeq(s, n + 1, Len(s))
<1>. DEFINE a == SubSeq(s, 1, n)
            b == SubSeq(s, n + 1, Len(s))
            t == a \o b
<1>0. Len(s) \in Nat
  OBVIOUS
<1>1. a \in Seq(V) /\ Len(a) = n /\ \A j \in 1 .. n : a[j] = s[j]
  <2>1. 1 \in 1 .. Len(s) + 1 /\ n \in 1 - 1 .. Len(s) /\ n + 1 - 1 = n
    BY <1>0
  <2>2. a \in Seq(V) /\ Len(a) = n + 1 - 1 /\ \A j \in 1 .. n + 1 - 1 : a[j] = s[1 + j - 1]
    BY <2>1, Piece
  <2>. QED
    BY <2>1, <2>2
<1>2. b \in Seq(V) /\ Len(b) = Len(s) - n /\ \A j \in 1 .. Len(s) - n : b[j] = s[n + j]
  <2>1. n + 1 \in 1 .. Len(s) + 1 /\ Len(s) \in (n + 1) - 1 .. Len(s)
        /\ Len(s) + 1 - (n + 1) = Len(s) - n
    BY <1>0
  <2>2. /\ b \in Seq(V) /\ Len(b) = Len(s) + 1 - (n + 1)
        /\ \A j \in 1 .. Len(s) + 1 - (n + 1) : b[j] = s[(n + 1) + j - 1]
    BY <2>1, Piece
  <2>. QED
    BY <1>0, <2>1, <2>2
<1>. HIDE DEF a, b
<1>3. /\ t \in Seq(V) /\ Len(t) = Len(s)
      /\ \A j \in 1 .. Len(s) : t[j] = IF j <= n THEN a[j] ELSE b[j - n]
  BY <1>0, <1>1, <1>2, ConcatProperties
<1>. HIDE DEF t
<1>4. \A j \in 1 .. Len(s) : t[j] = s[j]
  <2>. SUFFICES ASSUME NEW j \in 1 .. Len(s) PROVE t[j] = s[j]
    OBVIOUS
  <2>1. CASE j <= n
    BY <1>1, <1>3, <2>1
  <2>2. CASE ~(j <= n)
    <3>1. j - n \in 1 .. Len(s) - n /\ n + (j - n) = j
      BY <1>0, <2>2
    <3>2. b[j - n] = s[j]
      BY <1>2, <3>1
    <3>. QED
      BY <1>3, <2>2, <3>2
  <2>. QED
    BY <2>1, <2>2
<1>5. t = s
  BY <1>3, <1>4, SeqEqual
<1>. QED
  BY <1>5 DEF a, b, t

\* A longer piece of a sequence.
LEMMA SubSeqAppend ==
    ASSUME NEW V, NEW s \in Seq(V), NEW m \in 1 .. Len(s) + 1, NEW n \in m .. Len(s)
    PROVE  SubSeq(s, m, n) = Append(SubSeq(s, m, n - 1), s[n])
<1>. DEFINE a == SubSeq(s, m, n)
            c == SubSeq(s, m, n - 1)
            d == Append(c, s[n])
<1>1. Len(s) \in Nat /\ \A j \in m .. n : j \in 1 .. Len(s) /\ s[j] \in V
  OBVIOUS
<1>2. /\ a \in Seq(V) /\ Len(a) = n - m + 1
      /\ \A j \in 1 .. n - m + 1 : a[j] = s[m + j - 1]
  BY <1>1, SubSeqProperties
<1>3. /\ c \in Seq(V) /\ Len(c) = n - m
      /\ \A j \in 1 .. n - m : c[j] = s[m + j - 1]
  <2>1. /\ c \in Seq(V) /\ Len(c) = (IF m <= n - 1 THEN (n - 1) - m + 1 ELSE 0)
        /\ \A j \in 1 .. (n - 1) - m + 1 : c[j] = s[m + j - 1]
    BY <1>1, SubSeqProperties
  <2>. QED
    BY <2>1
<1>. HIDE DEF a, c
<1>4. s[n] \in V
  BY <1>1
<1>5. d \in Seq(V) /\ Len(d) = n - m + 1 /\ d[n - m + 1] = s[n] /\ \A j \in 1 .. n - m : d[j] = c[j]
  BY <1>3, <1>4, AppendProperties
<1>. HIDE DEF d
<1>6. \A j \in 1 .. n - m + 1 : a[j] = d[j]
  BY <1>2, <1>3, <1>5, SMTT(60)
<1>7. a = d
  BY <1>2, <1>5, <1>6, SeqEqual
<1>. QED
  BY <1>7 DEF a, c, d

\* What is turned round twice is as it was.
LEMMA Turned ==
    ASSUME NEW V, NEW s \in Seq(V)
    PROVE  Reversed(s) \in Seq(V) /\ Len(Reversed(s)) = Len(s) /\ Reversed(Reversed(s)) = s
<1>. DEFINE N == Len(s)
            r == Reversed(s)
            t == Reversed(r)
<1>1. N \in Nat /\ \A j \in 1 .. N : N + 1 - j \in 1 .. N /\ N + 1 - (N + 1 - j) = j /\ s[j] \in V
  OBVIOUS
<1>2. r = [j \in 1 .. N |-> s[N + 1 - j]]
  BY DEF Reversed
<1>. HIDE DEF N, r
<1>3. r \in Seq(V) /\ Len(r) = N /\ \A j \in 1 .. N : r[j] = s[N + 1 - j]
  <2>1. r \in [1 .. N -> V]
    BY <1>1, <1>2
  <2>. QED
    BY <1>1, <1>2, <2>1, NSeq
<1>4. t = [j \in 1 .. N |-> r[N + 1 - j]]
  BY <1>3 DEF Reversed
<1>. HIDE DEF t
<1>5. t \in Seq(V) /\ Len(t) = N /\ \A j \in 1 .. N : t[j] = s[j]
  <2>1. \A j \in 1 .. N : r[N + 1 - j] = s[j]
    BY <1>1, <1>3
  <2>2. \A j \in 1 .. N : t[j] = s[j]
    BY <1>4, <2>1
  <2>3. t \in [1 .. N -> V]
    BY <1>1, <1>4, <2>1
  <2>4. t \in Seq(V) /\ Len(t) = N
    BY <1>1, <2>3, NSeq
  <2>. QED
    BY <2>2, <2>4
<1>6. t = s
  BY <1>5, SeqEqual DEF N
<1>. QED
  BY <1>3, <1>6 DEF N, r, t

------------------------------------------------------------------------------
(* Numbers and their bytes. *)

\* Products of naturals, in one order.
LEMMA Assoc ==
    ASSUME NEW a \in Nat, NEW b \in Nat, NEW c \in Nat
    PROVE  (a * b) * c = a * (b * c) /\ a * b \in Nat
  OBVIOUS

\* Quotient and remainder of naturals.
LEMMA Division ==
    ASSUME NEW a \in Int, NEW d \in Nat, d > 0
    PROVE  /\ a \div d \in Int /\ a % d \in Nat /\ a % d < d /\ a = (a % d) + d * (a \div d)
           /\ a \in Nat => a \div d \in Nat
  OBVIOUS

\* A square is greater, of a number that is.
LEMMA Greater ==
    ASSUME NEW a \in Nat, a > 3
    PROVE  a * a > a
  <1>1. a * a >= 4 * a
    OBVIOUS
  <1>. QED
    BY <1>1

\* The digits of a number in base b.
Figures(b) == 0 .. b - 1

\* Division with a remainder is unique.
LEMMA Quotient ==
    ASSUME NEW b \in Nat, b > 0, NEW q \in Int, NEW r \in Figures(b)
    PROVE  (b * q + r) \div b = q /\ (b * q + r) % b = r
<1>. DEFINE x == b * q + r
            p == x \div b
            u == x % b
<1>1. r \in Nat /\ r < b /\ b * q \in Int
  BY DEF Figures
<1>2. x \in Int
  BY <1>1
<1>3. p \in Int /\ u \in Nat /\ u < b /\ x = u + b * p
  <2>. HIDE DEF x
  <2>. QED
    BY <1>2, Division
<1>4. u + b * p = b * q + r
  BY <1>3
<1>. HIDE DEF p, u, x
<1>5. ASSUME p > q PROVE FALSE
  <2>1. PICK d \in Nat : p = q + 1 + d
    <3>1. p - q - 1 \in Nat /\ p = q + 1 + (p - q - 1)
      BY <1>3, <1>5
    <3>. QED
      BY <3>1
  <2>2. b * p = b * q + b + b * d /\ b * d \in Nat
    BY <2>1
  <2>. QED
    BY <1>1, <1>3, <1>4, <2>2
<1>6. ASSUME p < q PROVE FALSE
  <2>1. PICK d \in Nat : q = p + 1 + d
    <3>1. q - p - 1 \in Nat /\ q = p + 1 + (q - p - 1)
      BY <1>3, <1>6
    <3>. QED
      BY <3>1
  <2>2. b * q = b * p + b + b * d /\ b * d \in Nat /\ b * p \in Int
    BY <1>3, <2>1
  <2>. QED
    BY <1>1, <1>3, <1>4, <2>2
<1>7. p = q
  BY <1>3, <1>5, <1>6
<1>8. u = r
  <2>. DEFINE m == b * q
  <2>1. u + m = m + r /\ m \in Int
    BY <1>1, <1>4, <1>7
  <2>. HIDE DEF m
  <2>. QED
    BY <1>1, <1>3, <2>1
<1>. QED
  BY <1>7, <1>8 DEF p, u, x

\* One step of packing: the low byte, and the rest.
LEMMA Split ==
    ASSUME NEW v \in Nat
    PROVE  /\ v \div Base \in Nat
           /\ v % Base \in Byte
           /\ v = (v % Base) + Base * (v \div Base)
  <1>. Base \in Nat /\ Base > 3
    BY BaseAssumption DEF BaseAssumption
  <1>. QED
    BY DEF Byte

\* The rest of a number of n + 1 bytes has n bytes.
LEMMA Shrink ==
    ASSUME NEW v \in Nat, NEW c \in Nat, v < Base * c
    PROVE  v \div Base < c
  <1>. Base \in Nat /\ Base > 3
    BY BaseAssumption DEF BaseAssumption
  <1>1. v \div Base \in Nat /\ v >= Base * (v \div Base)
    BY Split DEF Byte
  <1>2. ASSUME v \div Base >= c PROVE FALSE
    <2>1. Base * (v \div Base) >= Base * c
      BY <1>1, <1>2
    <2>. QED
      BY <1>1, <2>1
  <1>. QED
    BY <1>1, <1>2

\* The widths of two, four and eight bytes, as products of the values of one.
LEMMA Powers ==
    /\ Base \in Nat /\ Base > 3 /\ Short \in Nat /\ Long \in Nat /\ Quad \in Nat
    /\ Short = Base * Base
    /\ Long = Base * (Base * (Base * Base))
    /\ Quad = Base * (Base * (Base * (Base * (Base * (Base * (Base * Base))))))
    /\ Base < Short /\ Short < Long /\ Long < Quad
  <1>1. Base \in Nat /\ Base > 3
    BY BaseAssumption DEF BaseAssumption
  <1>2. Short \in Nat /\ Short = Base * Base /\ Base < Short
    BY <1>1, Greater, Assoc DEF Short
  <1>3. Long \in Nat /\ Short < Long
    BY <1>1, <1>2, Greater, Assoc DEF Long
  <1>4. Long = Base * (Base * (Base * Base))
    <2>1. Long = Base * (Base * Short)
      BY <1>1, <1>2, Assoc DEF Long
    <2>. QED
      BY <1>2, <2>1
  <1>5. Quad \in Nat /\ Long < Quad
    BY <1>1, <1>2, <1>3, Greater, Assoc DEF Quad
  <1>6. Quad = Base * (Base * (Base * (Base * (Base * (Base * (Base * Base))))))
    <2>1. \A x \in Nat : Long * x = Base * (Base * (Base * (Base * x)))
      <3>. SUFFICES ASSUME NEW x \in Nat PROVE Long * x = Base * (Base * (Base * (Base * x)))
        OBVIOUS
      <3>1. Base * Base \in Nat /\ Base * (Base * Base) \in Nat
        BY <1>1, Assoc
      <3>2. Long * x = Base * ((Base * (Base * Base)) * x)
        BY <1>1, <1>4, <3>1, Assoc
      <3>3. (Base * (Base * Base)) * x = Base * ((Base * Base) * x)
        BY <1>1, <3>1, Assoc
      <3>4. (Base * Base) * x = Base * (Base * x)
        BY <1>1, Assoc
      <3>. QED
        BY <3>2, <3>3, <3>4
    <2>. QED
      BY <1>3, <1>4, <2>1 DEF Quad
  <1>. QED
    BY <1>1, <1>2, <1>3, <1>4, <1>5, <1>6

\* The digits a buffer is made of.
LEMMA ByteFigures == Base \in Nat /\ Base > 1 /\ Figures(Base) = Byte
  BY Powers DEF Figures, Byte

\* The bytes of a number.
Low(v) ==
    LET v1 == v \div Base   v2 == v1 \div Base   v3 == v2 \div Base   v4 == v3 \div Base
        v5 == v4 \div Base  v6 == v5 \div Base   v7 == v6 \div Base
    IN  <<v % Base, v1 % Base, v2 % Base, v3 % Base,
          v4 % Base, v5 % Base, v6 % Base, v7 % Base>>

\* They are eight bytes.
LEMMA LowBytes ==
    ASSUME NEW v \in Nat
    PROVE  Len(Low(v)) = 8 /\ \A j \in 1 .. 8 : Low(v)[j] \in Byte
  <1>. DEFINE v1 == v \div Base   v2 == v1 \div Base   v3 == v2 \div Base   v4 == v3 \div Base
              v5 == v4 \div Base  v6 == v5 \div Base   v7 == v6 \div Base
  <1>1. v1 \in Nat /\ v % Base \in Byte
    BY Split
  <1>2. v2 \in Nat /\ v1 % Base \in Byte
    BY <1>1, Split
  <1>3. v3 \in Nat /\ v2 % Base \in Byte
    BY <1>2, Split
  <1>4. v4 \in Nat /\ v3 % Base \in Byte
    BY <1>3, Split
  <1>5. v5 \in Nat /\ v4 % Base \in Byte
    BY <1>4, Split
  <1>6. v6 \in Nat /\ v5 % Base \in Byte
    BY <1>5, Split
  <1>7. v7 \in Nat /\ v6 % Base \in Byte
    BY <1>6, Split
  <1>8. v7 % Base \in Byte
    BY <1>7, Split
  <1>. HIDE DEF v1, v2, v3, v4, v5, v6, v7
  <1>9. Low(v) = <<v % Base, v1 % Base, v2 % Base, v3 % Base,
                   v4 % Base, v5 % Base, v6 % Base, v7 % Base>>
    BY DEF Low, v1, v2, v3, v4, v5, v6, v7
  <1>. QED
    BY <1>1, <1>2, <1>3, <1>4, <1>5, <1>6, <1>7, <1>8, <1>9

\* The packed number has n bytes, the first n of those.
LEMMA LEBytes ==
    ASSUME NEW v \in Nat, NEW n \in 1 .. 8
    PROVE  /\ LE(v, n) \in Seq(Byte)
           /\ Len(LE(v, n)) = n
           /\ \A j \in 1 .. n : LE(v, n)[j] = Low(v)[j]
  <1>1. LE(v, n) = SubSeq(Low(v), 1, n)
    BY DEF LE, Low
  <1>2. \A j \in 1 .. n : Low(v)[j] \in Byte
    BY LowBytes
  <1>3. /\ SubSeq(Low(v), 1, n) \in Seq(Byte)
        /\ Len(SubSeq(Low(v), 1, n)) = IF 1 <= n THEN n - 1 + 1 ELSE 0
        /\ \A j \in 1 .. n - 1 + 1 : SubSeq(Low(v), 1, n)[j] = Low(v)[1 + j - 1]
    BY <1>2, SubSeqProperties
  <1>. QED
    BY <1>1, <1>3

\* A number v that has n bytes.
Fits(v, n) == (n = 2 => v < Short) /\ (n = 4 => v < Long) /\ (n = 8 => v < Quad)

\* It has no more than those.
LEMMA NoMore ==
    ASSUME NEW v \in Nat, NEW n \in {2, 4, 8},
           Fits(v, n)
    PROVE  /\ v = Low(v)[1] + Base * (Low(v)[2] + Base * (Low(v)[3] + Base * (Low(v)[4]
                  + Base * (Low(v)[5] + Base * (Low(v)[6] + Base * (Low(v)[7]
                      + Base * Low(v)[8]))))))
           /\ \A j \in n + 1 .. 8 : Low(v)[j] = 0
  <1>. DEFINE v1 == v \div Base   v2 == v1 \div Base   v3 == v2 \div Base   v4 == v3 \div Base
              v5 == v4 \div Base  v6 == v5 \div Base   v7 == v6 \div Base   v8 == v7 \div Base
  <1>1. v1 \in Nat /\ v = (v % Base) + Base * v1
    BY Split
  <1>2. v2 \in Nat /\ v1 = (v1 % Base) + Base * v2
    BY <1>1, Split
  <1>3. v3 \in Nat /\ v2 = (v2 % Base) + Base * v3
    BY <1>2, Split
  <1>4. v4 \in Nat /\ v3 = (v3 % Base) + Base * v4
    BY <1>3, Split
  <1>5. v5 \in Nat /\ v4 = (v4 % Base) + Base * v5
    BY <1>4, Split
  <1>6. v6 \in Nat /\ v5 = (v5 % Base) + Base * v6
    BY <1>5, Split
  <1>7. v7 \in Nat /\ v6 = (v6 % Base) + Base * v7
    BY <1>6, Split
  <1>8. v8 \in Nat /\ v7 = (v7 % Base) + Base * v8
    BY <1>7, Split
  <1>9. 0 \div Base = 0 /\ 0 % Base = 0
    BY Powers
  <1>10. n = 2 => v2 = 0
    <2>. SUFFICES ASSUME n = 2 PROVE v2 = 0
      OBVIOUS
    <2>1. v1 < Base * 1
      BY Powers, Shrink DEF Fits
    <2>2. v2 < 1
      BY <1>1, <2>1, Powers, Shrink
    <2>. QED
      BY <1>2, <2>2
  <1>11. n = 4 => v4 = 0
    <2>. SUFFICES ASSUME n = 4 PROVE v4 = 0
      OBVIOUS
    <2>1. v1 < Base * (Base * Base)
      BY Powers, Shrink DEF Fits
    <2>2. v2 < Base * Base
      BY <1>1, <2>1, Powers, Shrink
    <2>3. v3 < Base * 1
      BY <1>2, <2>2, Powers, Shrink
    <2>4. v4 < 1
      BY <1>3, <2>3, Powers, Shrink
    <2>. QED
      BY <1>4, <2>4
  <1>12. n = 8 => v8 = 0
    <2>. SUFFICES ASSUME n = 8 PROVE v8 = 0
      OBVIOUS
    <2>1. v1 < Base * (Base * (Base * (Base * (Base * (Base * Base)))))
      BY Powers, Shrink DEF Fits
    <2>2. v2 < Base * (Base * (Base * (Base * (Base * Base))))
      BY <1>1, <2>1, Powers, Shrink
    <2>3. v3 < Base * (Base * (Base * (Base * Base)))
      BY <1>2, <2>2, Powers, Shrink
    <2>4. v4 < Base * (Base * (Base * Base))
      BY <1>3, <2>3, Powers, Shrink
    <2>5. v5 < Base * (Base * Base)
      BY <1>4, <2>4, Powers, Shrink
    <2>6. v6 < Base * Base
      BY <1>5, <2>5, Powers, Shrink
    <2>7. v7 < Base * 1
      BY <1>6, <2>6, Powers, Shrink
    <2>8. v8 < 1
      BY <1>7, <2>7, Powers, Shrink
    <2>. QED
      BY <1>8, <2>8
  <1>. HIDE DEF v1, v2, v3, v4, v5, v6, v7, v8
  <1>13. /\ v2 = 0 => v2 % Base = 0 /\ v3 = 0
         /\ v3 = 0 => v3 % Base = 0 /\ v4 = 0
         /\ v4 = 0 => v4 % Base = 0 /\ v5 = 0
         /\ v5 = 0 => v5 % Base = 0 /\ v6 = 0
         /\ v6 = 0 => v6 % Base = 0 /\ v7 = 0
         /\ v7 = 0 => v7 % Base = 0 /\ v8 = 0
    BY <1>9 DEF v3, v4, v5, v6, v7, v8
  <1>14. v8 = 0
    BY <1>10, <1>11, <1>12, <1>13
  <1>15. Low(v) = <<v % Base, v1 % Base, v2 % Base, v3 % Base,
                    v4 % Base, v5 % Base, v6 % Base, v7 % Base>>
    BY DEF Low, v1, v2, v3, v4, v5, v6, v7
  <1>16. \A j \in n + 1 .. 8 : Low(v)[j] = 0
    BY <1>10, <1>11, <1>12, <1>13, <1>15
  <1>17. v7 = v7 % Base
    BY <1>7, <1>8, <1>14, Powers, Split DEF Byte
  <1>18. v6 = (v6 % Base) + Base * (v7 % Base)
    BY <1>7, <1>17
  <1>19. v5 = (v5 % Base) + Base * ((v6 % Base) + Base * (v7 % Base))
    BY <1>6, <1>18
  <1>20. v4 = (v4 % Base) + Base * ((v5 % Base) + Base * ((v6 % Base) + Base * (v7 % Base)))
    BY <1>5, <1>19
  <1>21. v3 = (v3 % Base) + Base * ((v4 % Base) + Base * ((v5 % Base) + Base * ((v6 % Base)
                  + Base * (v7 % Base))))
    BY <1>4, <1>20
  <1>22. v2 = (v2 % Base) + Base * ((v3 % Base) + Base * ((v4 % Base) + Base * ((v5 % Base)
                  + Base * ((v6 % Base) + Base * (v7 % Base)))))
    BY <1>3, <1>21
  <1>23. v1 = (v1 % Base) + Base * ((v2 % Base) + Base * ((v3 % Base) + Base * ((v4 % Base)
                  + Base * ((v5 % Base) + Base * ((v6 % Base) + Base * (v7 % Base))))))
    BY <1>2, <1>22
  <1>24. v = (v % Base) + Base * ((v1 % Base) + Base * ((v2 % Base) + Base * ((v3 % Base)
                 + Base * ((v4 % Base) + Base * ((v5 % Base) + Base * ((v6 % Base) + Base * (v7 % Base)))))))
    BY <1>1, <1>23
  <1>. QED
    BY <1>15, <1>16, <1>24

\* Whatever packi16, packi32 or packi64 packs, the least significant byte first,
\* unpacku64_little unpacks, from any place of a buffer.
LEMMA WordRead ==
    ASSUME NEW v \in Nat, NEW n \in {2, 4, 8},
           Fits(v, n)
    PROVE  Num(LE(v, n)) = v
  <1>. n \in 1 .. 8
    OBVIOUS
  <1>1. Len(LE(v, n)) = n /\ \A j \in 1 .. n : LE(v, n)[j] = Low(v)[j]
    BY LEBytes
  <1>2. \A j \in n + 1 .. 8 : Low(v)[j] = 0
    BY NoMore
  <1>. DEFINE s == LE(v, n)
              Placed(j) == IF j <= Len(s) THEN s[j] ELSE 0
  <1>3. Num(s) = Placed(1) + Base * (Placed(2) + Base * (Placed(3) + Base * (Placed(4)
              + Base * (Placed(5) + Base * (Placed(6) + Base * (Placed(7) + Base * Placed(8)))))))
    BY DEF Num
  <1>. HIDE DEF s
  <1>4. \A j \in 1 .. 8 : Placed(j) = Low(v)[j]
    <2>1. Len(s) = n /\ \A j \in 1 .. n : s[j] = Low(v)[j]
      BY <1>1 DEF s
    <2>. QED
      BY <1>2, <2>1
  <1>. HIDE DEF Placed
  <1>5. Num(s) = v
    BY <1>3, <1>4, NoMore
  <1>. QED
    BY <1>5 DEF s

\* Four bytes and eight.
LEMMA Word ==
    ASSUME NEW v \in Nat
    PROVE  /\ LE(v, 4) \in Seq(Byte) /\ Len(LE(v, 4)) = 4
           /\ LE(v, 8) \in Seq(Byte) /\ Len(LE(v, 8)) = 8
<1>1. 4 \in 1 .. 8 /\ 8 \in 1 .. 8
  OBVIOUS
<1>. QED
  BY <1>1, LEBytes

\* Four bytes are packed as they were read.
LEMMA WordWritten ==
    ASSUME NEW s \in Seq(Byte), Len(s) = 4
    PROVE  LE(Num(s), 4) = s /\ Num(s) \in Nat
<1>1. s[1] \in Byte /\ s[2] \in Byte /\ s[3] \in Byte /\ s[4] \in Byte
  <2>1. \A j \in 1 .. Len(s) : s[j] \in Byte
    BY ElementOfSeq
  <2>2. 1 \in 1 .. Len(s) /\ 2 \in 1 .. Len(s) /\ 3 \in 1 .. Len(s) /\ 4 \in 1 .. Len(s)
    OBVIOUS
  <2>. QED
    BY <2>1, <2>2
<1>. DEFINE x3 == s[4] + Base * 0
            x2 == s[3] + Base * x3
            x1 == s[2] + Base * x2
            x == s[1] + Base * x1
<1>2. Base \in Nat /\ Base > 1 /\ Byte = Figures(Base) /\ Byte \subseteq Nat
  BY ByteFigures DEF Byte
<1>3. ASSUME NEW d \in Byte, NEW q \in Nat
      PROVE  d + Base * q \in Nat /\ (d + Base * q) \div Base = q /\ (d + Base * q) % Base = d
  <2>. Base > 0 /\ d \in Figures(Base) /\ q \in Int
    BY <1>2
  <2>1. (Base * q + d) \div Base = q /\ (Base * q + d) % Base = d
    BY <1>2, Quotient
  <2>2. d + Base * q = Base * q + d /\ d + Base * q \in Nat
    BY <1>2
  <2>. QED
    BY <2>1, <2>2
<1>4. x3 \in Nat /\ x3 \div Base = 0 /\ x3 % Base = s[4]
  BY <1>1, <1>3
<1>. HIDE DEF x3
<1>5. x2 \in Nat /\ x2 \div Base = x3 /\ x2 % Base = s[3]
  BY <1>1, <1>3, <1>4
<1>. HIDE DEF x2
<1>6. x1 \in Nat /\ x1 \div Base = x2 /\ x1 % Base = s[2]
  BY <1>1, <1>3, <1>5
<1>. HIDE DEF x1
<1>7. x \in Nat /\ x \div Base = x1 /\ x % Base = s[1]
  BY <1>1, <1>3, <1>6
<1>8. Num(s) = x
  <2>1. Base * 0 = 0
    BY <1>2
  <2>2. Num(s) = s[1] + Base * (s[2] + Base * (s[3] + Base * (s[4] + Base * (0 + Base * (0 + Base * (0 + Base * 0))))))
    BY DEF Num
  <2>3. 0 + Base * (0 + Base * (0 + Base * 0)) = 0
    BY <2>1
  <2>. QED
    BY <2>2, <2>3 DEF x, x1, x2, x3
<1>. HIDE DEF x
<1>9. Low(x)[1] = s[1] /\ Low(x)[2] = s[2] /\ Low(x)[3] = s[3] /\ Low(x)[4] = s[4]
  BY <1>4, <1>5, <1>6, <1>7 DEF Low
<1>10. LE(x, 4) \in Seq(Byte) /\ Len(LE(x, 4)) = 4 /\ \A j \in 1 .. 4 : LE(x, 4)[j] = Low(x)[j]
  BY <1>7, LEBytes
<1>11. \A j \in 1 .. 4 : LE(x, 4)[j] = s[j]
  BY <1>9, <1>10
<1>12. LE(x, 4) = s
  BY <1>10, <1>11, SeqEqual
<1>. QED
  BY <1>7, <1>8, <1>12

\* The number of any bytes is a natural.
LEMMA NumTyped ==
    ASSUME NEW s \in Seq(Byte)
    PROVE  Num(s) \in Nat
<1>. DEFINE d(j) == IF j <= Len(s) THEN s[j] ELSE 0
<1>1. \A j \in Nat \ {0} : d(j) \in Nat
  <2>1. Byte \subseteq Nat
    BY DEF Byte
  <2>2. \A j \in 1 .. Len(s) : s[j] \in Byte
    BY ElementOfSeq
  <2>3. ASSUME NEW j \in Nat \ {0} PROVE d(j) \in Nat
    <3>1. CASE j <= Len(s)
      <4>1. j \in 1 .. Len(s)
        BY <3>1
      <4>2. s[j] \in Nat
        BY <2>1, <2>2, <4>1
      <4>. QED
        BY <3>1, <4>2
    <3>2. CASE ~(j <= Len(s))
      BY <3>2
    <3>. QED
      BY <3>1, <3>2
  <2>. QED
    BY <2>3
<1>2. \A x, y \in Nat : x + Base * y \in Nat
  BY Powers
<1>3. /\ d(1) \in Nat /\ d(2) \in Nat /\ d(3) \in Nat /\ d(4) \in Nat
      /\ d(5) \in Nat /\ d(6) \in Nat /\ d(7) \in Nat /\ d(8) \in Nat
  <2>. HIDE DEF d
  <2>. QED
    BY <1>1
<1>4. Num(s) = d(1) + Base * (d(2) + Base * (d(3) + Base * (d(4)
                 + Base * (d(5) + Base * (d(6) + Base * (d(7) + Base * d(8)))))))
  BY DEF Num
<1>. HIDE DEF d
<1>5. Base * d(8) \in Nat
  BY <1>3, Powers, SMTT(60)
<1>6. d(7) + Base * d(8) \in Nat
  BY <1>3, <1>2
<1>7. d(6) + Base * (d(7) + Base * d(8)) \in Nat
  BY <1>3, <1>2, <1>6
<1>8. d(5) + Base * (d(6) + Base * (d(7) + Base * d(8))) \in Nat
  BY <1>3, <1>2, <1>7
<1>9. d(4) + Base * (d(5) + Base * (d(6) + Base * (d(7) + Base * d(8)))) \in Nat
  BY <1>3, <1>2, <1>8
<1>10. d(3) + Base * (d(4) + Base * (d(5) + Base * (d(6) + Base * (d(7) + Base * d(8))))) \in Nat
  BY <1>3, <1>2, <1>9
<1>11. d(2) + Base * (d(3) + Base * (d(4) + Base * (d(5) + Base * (d(6) + Base * (d(7) + Base * d(8)))))) \in Nat
  BY <1>3, <1>2, <1>10
<1>. QED
  BY <1>3, <1>2, <1>11, <1>4, ZenonT(60)

\* Sequences put together one behind the other, in either order.
LEMMA Rest ==
    ASSUME NEW a \in Seq(Byte), NEW b \in Seq(Byte), NEW c \in Seq(Byte)
    PROVE  (a \o b) \o c = a \o (b \o c) /\ a \o b \in Seq(Byte)
<1>1. a \o b \in Seq(Byte)
  OBVIOUS
<1>2. (a \o b) \o c = a \o (b \o c)
  BY ConcatAssociative
<1>. QED
  BY <1>1, <1>2
============================================================================
