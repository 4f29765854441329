---------------------------- MODULE SharedLemmas ----------------------------
(***************************************************************************)
(* Every search loop of the service runs over an array from index 0 and    *)
(* stops at the first match.  The models write it as Min of the matching   *)
(* indices; MinIsLeast and MinOfOne are what the proofs need of it.        *)
(*                                                                         *)
(* A socket's queue is a sequence: datagrams are appended, and taken from  *)
(* the front or, where the network reorders, from a place behind it.       *)
(***************************************************************************)
EXTENDS Integers, FiniteSetsExt, SequencesExt, SequenceTheorems, WellFoundedInduction, TLAPS

\* A search over a nonempty set of naturals returns its least element.
LEMMA MinIsLeast ==
    ASSUME NEW S, S \subseteq Nat, S # {}
    PROVE  Min(S) \in S /\ \A y \in S : Min(S) <= y
<1> DEFINE Less == {ss \in Nat \X Nat : ss[1] < ss[2]}
<1>1. IsWellFoundedOn(Less, Nat)
  BY NatLessThanWellFounded DEF OpToRel
<1>2. PICK x \in S : \A y \in S : ~(<<y, x>> \in Less)
  <2> HIDE DEF Less
  <2>. QED  BY <1>1, WFMin
<1>3. \A a, b \in Nat : a < b => <<a, b>> \in Less
  OBVIOUS
<1>4. ASSUME NEW y \in S  PROVE x <= y
  <2>1. x \in Nat /\ y \in Nat
    OBVIOUS
  <2>2. ~(<<y, x>> \in Less)
    BY <1>2
  <2>3. ~(y < x)
    <3> HIDE DEF Less
    <3>. QED  BY <1>3, <2>1, <2>2
  <2>. QED  BY <2>1, <2>3
<1>. QED
  BY <1>4 DEF Min

\* A search that only one candidate satisfies finds it.
LEMMA MinOfOne ==
    ASSUME NEW x
    PROVE  Min({x}) = x
  BY DEF Min

-----------------------------------------------------------------------------
\* What a channel holds after something was appended to it.
LEMMA RangeAppend ==
    ASSUME NEW S, NEW ch \in Seq(S), NEW x \in S
    PROVE  Append(ch, x) \in Seq(S) /\ Range(Append(ch, x)) = Range(ch) \cup {x}
<1>1. Append(ch, x) \in Seq(S) /\ DOMAIN Append(ch, x) = 1 .. (Len(ch) + 1)
  OBVIOUS
<1>2. \A i \in 1 .. Len(ch) : Append(ch, x)[i] = ch[i]
  OBVIOUS
<1>3. Append(ch, x)[Len(ch) + 1] = x
  OBVIOUS
<1>4. DOMAIN ch = 1 .. Len(ch) /\ Len(ch) \in Nat
  OBVIOUS
<1>5. ASSUME NEW y \in Range(ch) \cup {x}  PROVE y \in Range(Append(ch, x))
  <2>1. CASE y = x
    <3>1. Len(ch) + 1 \in DOMAIN Append(ch, x)
      BY <1>1, <1>4
    <3>. QED  BY <2>1, <3>1, <1>3 DEF Range
  <2>2. CASE y \in Range(ch)
    <3>1. PICK i \in 1 .. Len(ch) : y = ch[i]
      BY <2>2, <1>4 DEF Range
    <3>2. i \in DOMAIN Append(ch, x)
      BY <1>1, <1>4
    <3>. QED  BY <3>1, <3>2, <1>2 DEF Range
  <2>. QED  BY <1>5, <2>1, <2>2
<1>6. ASSUME NEW y \in Range(Append(ch, x))  PROVE y \in Range(ch) \cup {x}
  <2>1. PICK i \in 1 .. (Len(ch) + 1) : y = Append(ch, x)[i]
    BY <1>1 DEF Range
  <2>2. CASE i = Len(ch) + 1
    BY <2>1, <2>2, <1>3
  <2>3. CASE i \in 1 .. Len(ch)
    BY <2>1, <2>3, <1>2, <1>4 DEF Range
  <2>. QED  BY <2>2, <2>3, <1>4
<1>. QED  BY <1>1, <1>5, <1>6

\* What a channel holds after several datagrams were appended to it.
LEMMA RangeConcat ==
    ASSUME NEW S, NEW s \in Seq(S), NEW t \in Seq(S)
    PROVE  s \o t \in Seq(S) /\ Range(s \o t) \subseteq Range(s) \cup Range(t)
<1>1. /\ s \o t \in Seq(S)
      /\ DOMAIN (s \o t) = 1 .. (Len(s) + Len(t))
      /\ \A i \in 1 .. (Len(s) + Len(t)) :
            (s \o t)[i] = IF i <= Len(s) THEN s[i] ELSE t[i - Len(s)]
  OBVIOUS
<1>2. ASSUME NEW y \in Range(s \o t)  PROVE y \in Range(s) \cup Range(t)
  <2>1. PICK i \in 1 .. (Len(s) + Len(t)) : y = (s \o t)[i]
    BY <1>1 DEF Range
  <2>2. CASE i <= Len(s)
    <3>1. i \in DOMAIN s /\ y = s[i]
      BY <1>1, <2>1, <2>2
    <3>. QED  BY <3>1 DEF Range
  <2>3. CASE ~(i <= Len(s))
    <3>1. i - Len(s) \in DOMAIN t /\ y = t[i - Len(s)]
      BY <1>1, <2>1, <2>3
    <3>. QED  BY <3>1 DEF Range
  <2>. QED  BY <2>2, <2>3
<1>. QED  BY <1>1, <1>2

\* What RemoveAt leaves: the other elements, in their order.
LEMMA RemoveAtElements ==
    ASSUME NEW S, NEW s \in Seq(S), NEW k \in 1 .. Len(s)
    PROVE  /\ RemoveAt(s, k) \in Seq(S)
           /\ Len(RemoveAt(s, k)) = Len(s) - 1
           /\ \A i \in 1 .. (Len(s) - 1) :
                 RemoveAt(s, k)[i] = IF i < k THEN s[i] ELSE s[i + 1]
<1> DEFINE a == SubSeq(s, 1, k - 1)
           b == SubSeq(s, k + 1, Len(s))
<1>0. Len(s) \in Nat /\ \A i \in 1 .. Len(s) : s[i] \in S
  OBVIOUS
<1>1. a \in Seq(S) /\ Len(a) = k - 1 /\ \A i \in 1 .. (k - 1) : a[i] = s[i]
  OBVIOUS
<1>2. b \in Seq(S) /\ Len(b) = Len(s) - k /\ \A i \in 1 .. (Len(s) - k) : b[i] = s[k + i]
  OBVIOUS
<1>3. RemoveAt(s, k) = a \o b
  BY DEF RemoveAt
<1> HIDE DEF a, b
<1>4. /\ a \o b \in Seq(S)
      /\ Len(a \o b) = Len(a) + Len(b)
      /\ \A i \in 1 .. (Len(a) + Len(b)) :
            (a \o b)[i] = IF i <= Len(a) THEN a[i] ELSE b[i - Len(a)]
  BY <1>1, <1>2, ConcatProperties
<1>5. ASSUME NEW i \in 1 .. (Len(s) - 1)
      PROVE  (a \o b)[i] = IF i < k THEN s[i] ELSE s[i + 1]
  <2>1. CASE i < k
    BY <1>1, <1>2, <1>4, <2>1
  <2>2. CASE ~(i < k)
    <3> DEFINE j == i - (k - 1)
    <3>1. j \in 1 .. (Len(s) - k) /\ k + j = i + 1
      BY <2>2, <1>0
    <3>2. i \in 1 .. (Len(a) + Len(b)) /\ ~(i <= Len(a)) /\ i - Len(a) = j
      BY <1>0, <1>1, <1>2, <2>2
    <3>3. (a \o b)[i] = b[j]
      BY <1>4, <3>2
    <3> HIDE DEF j
    <3>. QED  BY <1>2, <2>2, <3>1, <3>3
  <2>. QED  BY <2>1, <2>2
<1>. QED  BY <1>1, <1>2, <1>3, <1>4, <1>5

\* Removing a datagram adds none.
LEMMA RangeRemoveAt ==
    ASSUME NEW S, NEW s \in Seq(S), NEW k \in 1 .. Len(s)
    PROVE  RemoveAt(s, k) \in Seq(S) /\ Range(RemoveAt(s, k)) \subseteq Range(s)
<1>1. ASSUME NEW y \in Range(RemoveAt(s, k))  PROVE y \in Range(s)
  <2>1. PICK i \in 1 .. (Len(s) - 1) : y = RemoveAt(s, k)[i]
    BY RemoveAtElements DEF Range
  <2>2. i \in DOMAIN s /\ i + 1 \in DOMAIN s
    OBVIOUS
  <2>. QED  BY <2>1, <2>2, RemoveAtElements DEF Range
<1>. QED  BY <1>1, RemoveAtElements

-----------------------------------------------------------------------------
(***************************************************************************)
(* What a reader will show once everything in its channel has arrived is a *)
(* FoldLeft of its handler over the channel.  FoldLeft is defined by a     *)
(* function on the sets of indices: it exists (FoldFunctionExists), it     *)
(* steps through the channel in order (FoldSteps), and so one datagram at  *)
(* the end is one more step (FoldsToAppend) and taking the first one       *)
(* leaves the result alone (FoldsToTail).  The handler is a function F     *)
(* here, on sets A of states and B of datagrams; each proof module applies *)
(* this to its own handler.                                                *)
(***************************************************************************)

\* Induction over an interval, with a set for the statement.
LEMMA IntervalInduction ==
    ASSUME NEW n \in Nat, NEW T, 0 \in T, \A k \in 1 .. n : k - 1 \in T => k \in T
    PROVE  \A k \in 0 .. n : k \in T
<1> SUFFICES ASSUME NEW k \in 0 .. n, k \notin T PROVE FALSE
  OBVIOUS
<1> DEFINE S == {j \in 0 .. n : j \notin T}
<1>1. S \subseteq Nat /\ S # {}
  OBVIOUS
<1>2. Min(S) \in S /\ \A y \in S : Min(S) <= y
  BY <1>1, MinIsLeast
<1>3. PICK m \in S : \A y \in S : m <= y
  <2> HIDE DEF S
  <2>. QED  BY <1>2
<1>4. m # 0 /\ m \in 1 .. n
  BY <1>3
<1>5. m - 1 \in 0 .. n /\ m - 1 \notin S
  BY <1>3, <1>4
<1>6. m - 1 \in T
  BY <1>5
<1>. QED  BY <1>3, <1>4, <1>6

\* The last element of a set of indices.
LEMMA MaxOfTop ==
    ASSUME NEW n \in Nat, NEW s \in SUBSET (1 .. n), n \in s
    PROVE  Max(s) = n
<1>1. \A y \in s : n >= y
  OBVIOUS
<1>2. \A x \in s : (\A y \in s : x >= y) => x = n
  OBVIOUS
<1>. QED  BY <1>1, <1>2 DEF Max

\* Every nonempty set of indices has a last one.
LEMMA MaxIsIn ==
    ASSUME NEW n \in Nat, NEW s \in SUBSET (1 .. n), s # {}
    PROVE  Max(s) \in s
<1> DEFINE R == {k \in Nat : n - k \in s}
<1>1. PICK z \in s : TRUE
  OBVIOUS
<1>2. n - z \in R
  BY <1>1
<1>3. R \subseteq Nat /\ R # {}
  BY <1>2
<1>4. PICK r \in R : \A y \in R : r <= y
  <2>1. Min(R) \in R /\ \A y \in R : Min(R) <= y
    BY <1>3, MinIsLeast
  <2> HIDE DEF R
  <2>. QED  BY <2>1
<1>5. n - r \in s
  OBVIOUS
<1>6. ASSUME NEW y \in s  PROVE n - r >= y
  <2>1. n - y \in R
    OBVIOUS
  <2>2. r <= n - y
    BY <1>4, <2>1
  <2>. QED  BY <2>2
<1>7. \E x \in s : \A y \in s : x >= y
  BY <1>5, <1>6
<1>. QED  BY <1>7 DEF Max

\* The function FoldLeft is defined by exists, for a total step function.
FoldsOver(F, b, w, n, g) ==
    g = [s \in SUBSET (1 .. n) |-> IF s = {} THEN b ELSE F[<<g[s \ {Max(s)}], w[Max(s)]>>]]

LEMMA FoldFunctionExists ==
    ASSUME NEW A, NEW B, NEW F \in [A \X B -> A], NEW b \in A, NEW w \in Seq(B)
    PROVE  \E g \in [SUBSET (1 .. Len(w)) -> A] : FoldsOver(F, b, w, Len(w), g)
<1> DEFINE T == {k \in 0 .. Len(w) : \E g \in [SUBSET (1 .. k) -> A] : FoldsOver(F, b, w, k, g)}
<1>1. 0 \in T
  <2> DEFINE g == [s \in SUBSET (1 .. 0) |-> b]
  <2>1. \A s \in SUBSET (1 .. 0) : s = {}
    OBVIOUS
  <2>2. FoldsOver(F, b, w, 0, g)
    BY <2>1 DEF FoldsOver
  <2>3. g \in [SUBSET (1 .. 0) -> A]
    OBVIOUS
  <2>. QED  BY <2>2, <2>3
<1>2. ASSUME NEW k \in 1 .. Len(w), k - 1 \in T  PROVE k \in T
  <2>1. PICK g \in [SUBSET (1 .. (k - 1)) -> A] : FoldsOver(F, b, w, k - 1, g)
    BY <1>2
  <2> DEFINE e == [s \in SUBSET (1 .. k) |-> IF k \in s THEN F[<<g[s \ {k}], w[k]>>] ELSE g[s]]
  <2>2. ASSUME NEW s \in SUBSET (1 .. k)
        PROVE  /\ e[s] \in A
               /\ e[s] = IF s = {} THEN b ELSE F[<<e[s \ {Max(s)}], w[Max(s)]>>]
    <3>1. CASE k \in s
      <4>1. Max(s) = k
        BY <3>1, MaxOfTop
      <4>2. s \ {k} \in SUBSET (1 .. (k - 1)) /\ s \ {k} \in SUBSET (1 .. k)
        OBVIOUS
      <4>3. e[s] = F[<<g[s \ {k}], w[k]>>] /\ e[s \ {k}] = g[s \ {k}]
        BY <3>1, <4>2
      <4>4. g[s \ {k}] \in A /\ w[k] \in B
        BY <4>2
      <4> HIDE DEF e
      <4>. QED  BY <3>1, <4>1, <4>3, <4>4
    <3>2. CASE k \notin s
      <4>1. s \in SUBSET (1 .. (k - 1))
        BY <3>2
      <4>2. e[s] = g[s] /\ e[s] \in A
        BY <3>2, <4>1
      <4>3. g[s] = IF s = {} THEN b ELSE F[<<g[s \ {Max(s)}], w[Max(s)]>>]
        BY <2>1, <4>1 DEF FoldsOver
      <4>4. k \notin s \ {Max(s)} /\ s \ {Max(s)} \in SUBSET (1 .. k)
            /\ s \ {Max(s)} \in SUBSET (1 .. (k - 1))
        BY <3>2, <4>1
      <4>5. e[s \ {Max(s)}] = g[s \ {Max(s)}]
        BY <4>4
      <4> HIDE DEF e
      <4>. QED  BY <4>2, <4>3, <4>5
    <3>. QED  BY <3>1, <3>2
  <2>3. e \in [SUBSET (1 .. k) -> A]
    <3>1. \A s \in SUBSET (1 .. k) : e[s] \in A
      BY <2>2
    <3>. QED  BY <3>1
  <2>4. FoldsOver(F, b, w, k, e)
    <3>1. e = [s \in SUBSET (1 .. k) |-> e[s]]
      OBVIOUS
    <3> HIDE DEF e
    <3>2. [s \in SUBSET (1 .. k) |-> e[s]]
            = [s \in SUBSET (1 .. k) |-> IF s = {} THEN b ELSE F[<<e[s \ {Max(s)}], w[Max(s)]>>]]
      BY <2>2
    <3>. QED  BY <3>1, <3>2 DEF FoldsOver
  <2> HIDE DEF e
  <2>. QED  BY <2>3, <2>4
<1>3. Len(w) \in Nat
  OBVIOUS
<1> HIDE DEF T
<1>4. \A k \in 0 .. Len(w) : k \in T
  BY <1>1, <1>2, <1>3, IntervalInduction
<1>5. Len(w) \in T
  BY <1>3, <1>4
<1>. QED  BY <1>5 DEF T

\* The values a fold goes through.
IsTrace(F, b, w, h) == h[0] = b /\ \A k \in 1 .. Len(w) : h[k] = F[<<h[k - 1], w[k]>>]

\* One more element at the end: one more step at the end.
LEMMA TraceAppend ==
    ASSUME NEW B, NEW F, NEW b, NEW w \in Seq(B), NEW m \in B,
           NEW h, IsTrace(F, b, w, h), NEW e, IsTrace(F, b, Append(w, m), e)
    PROVE  e[Len(w) + 1] = F[<<h[Len(w)], m>>]
<1> DEFINE T == {k \in 0 .. Len(w) : e[k] = h[k]}
<1>1. Len(w) \in Nat /\ Len(Append(w, m)) = Len(w) + 1
  OBVIOUS
<1>2. 0 \in T
  BY <1>1 DEF IsTrace
<1>3. ASSUME NEW k \in 1 .. Len(w), k - 1 \in T  PROVE k \in T
  <2>1. e[k - 1] = h[k - 1] /\ Append(w, m)[k] = w[k]
    BY <1>3
  <2>2. k \in 1 .. Len(Append(w, m))
    BY <1>1
  <2>3. e[k] = F[<<e[k - 1], Append(w, m)[k]>>] /\ h[k] = F[<<h[k - 1], w[k]>>]
    BY <2>2 DEF IsTrace
  <2>. QED  BY <1>1, <2>1, <2>3
<1> HIDE DEF T
<1>4. \A k \in 0 .. Len(w) : k \in T
  BY <1>1, <1>2, <1>3, IntervalInduction
<1>5. e[Len(w)] = h[Len(w)]
  <2>1. Len(w) \in T
    BY <1>1, <1>4
  <2>. QED  BY <2>1 DEF T
<1>6. Len(w) + 1 \in 1 .. Len(Append(w, m)) /\ (Len(w) + 1) - 1 = Len(w)
  BY <1>1
<1>7. e[Len(w) + 1] = F[<<e[Len(w)], Append(w, m)[Len(w) + 1]>>]
  BY <1>6 DEF IsTrace
<1>. QED  BY <1>5, <1>7

StartsWith(F, b, w, c) == w # <<>> /\ c = F[<<b, w[1]>>]

\* The first element taken: the fold of the rest starts one step later.
LEMMA TraceTail ==
    ASSUME NEW B, NEW F, NEW b, NEW c, NEW w \in Seq(B), StartsWith(F, b, w, c),
           NEW h, IsTrace(F, b, w, h), NEW e, IsTrace(F, c, Tail(w), e)
    PROVE  e[Len(w) - 1] = h[Len(w)]
<1> DEFINE T == {k \in 0 .. (Len(w) - 1) : e[k] = h[k + 1]}
<1>1. /\ Len(w) - 1 \in Nat /\ Len(Tail(w)) = Len(w) - 1
      /\ \A k \in 1 .. (Len(w) - 1) : Tail(w)[k] = w[k + 1]
      /\ c = F[<<b, w[1]>>]
  BY DEF StartsWith
<1>2. 0 \in T
  <2>1. 1 \in 1 .. Len(w)
    BY <1>1
  <2>2. h[1] = F[<<h[1 - 1], w[1]>>]
    BY <2>1 DEF IsTrace
  <2>. QED  BY <1>1, <2>2 DEF IsTrace
<1>3. ASSUME NEW k \in 1 .. (Len(w) - 1), k - 1 \in T  PROVE k \in T
  <2>1. e[k - 1] = h[k] /\ Tail(w)[k] = w[k + 1]
    BY <1>1, <1>3
  <2>2. k + 1 \in 1 .. Len(w) /\ (k + 1) - 1 = k
    BY <1>1
  <2>3. h[k + 1] = F[<<h[k], w[k + 1]>>]
    BY <2>2 DEF IsTrace
  <2>4. e[k] = F[<<e[k - 1], Tail(w)[k]>>]
    BY <1>1 DEF IsTrace
  <2>. QED  BY <2>1, <2>3, <2>4
<1> HIDE DEF T
<1>4. \A k \in 0 .. (Len(w) - 1) : k \in T
  BY <1>1, <1>2, <1>3, IntervalInduction
<1>5. Len(w) - 1 \in T
  BY <1>1, <1>4
<1>6. (Len(w) - 1) + 1 = Len(w)
  BY <1>1
<1>. QED  BY <1>5, <1>6 DEF T

\* r is what the fold of w from b with F ends in.
FoldsTo(A, F, b, w, r) == \E h \in [0 .. Len(w) -> A] : IsTrace(F, b, w, h) /\ h[Len(w)] = r

StepsBy(A, F, b, w, g) ==
    /\ g[{}] = b
    /\ \A s \in SUBSET (1 .. Len(w)) :
          s # {} /\ g[s \ {Max(s)}] \in A => g[s] = F[<<g[s \ {Max(s)}], w[Max(s)]>>]

\* What the function FoldLeft is defined by goes through, set of indices by set.
LEMMA FoldSteps ==
    ASSUME NEW A, NEW B, NEW F \in [A \X B -> A], NEW b \in A, NEW w \in Seq(B), NEW g,
           StepsBy(A, F, b, w, g)
    PROVE  FoldsTo(A, F, b, w, g[1 .. Len(w)])
<1> DEFINE T == {k \in 0 .. Len(w) : g[1 .. k] \in A}
           h == [k \in 0 .. Len(w) |-> g[1 .. k]]
<1>1. Len(w) \in Nat
  OBVIOUS
<1>2. g[1 .. 0] = b
  <2>1. 1 .. 0 = {}
    OBVIOUS
  <2>. QED  BY <2>1 DEF StepsBy
<1>3. ASSUME NEW k \in 1 .. Len(w), g[1 .. (k - 1)] \in A
      PROVE  g[1 .. k] = F[<<g[1 .. (k - 1)], w[k]>>] /\ w[k] \in B
  <2> DEFINE s == 1 .. k
  <2>1. s \in SUBSET (1 .. Len(w)) /\ k \in Nat /\ k \in s /\ s \in SUBSET (1 .. k)
    <3>1. \A y \in 1 .. k : y \in 1 .. Len(w)
      BY <1>1
    <3>. QED  BY <1>1, <3>1
  <2>2. s \ {k} = 1 .. (k - 1)
    BY <1>1
  <2>3. w[k] \in B
    BY <1>1
  <2> HIDE DEF s
  <2>4. Max(s) = k
    BY <2>1, MaxOfTop
  <2>5. g[s] = F[<<g[s \ {k}], w[k]>>]
    BY <1>3, <2>1, <2>2, <2>4 DEF StepsBy
  <2>. QED  BY <2>2, <2>3, <2>5 DEF s
<1>4. 0 \in T
  BY <1>1, <1>2
<1>5. ASSUME NEW k \in 1 .. Len(w), k - 1 \in T  PROVE k \in T
  <2>1. g[1 .. (k - 1)] \in A
    BY <1>5
  <2>2. g[1 .. k] \in A
    BY <1>3, <2>1
  <2>. QED  BY <1>1, <2>2
<1> HIDE DEF T
<1>6. \A k \in 0 .. Len(w) : k \in T
  BY <1>1, <1>4, <1>5, IntervalInduction
<1>7. h \in [0 .. Len(w) -> A]
  BY <1>6 DEF T
<1>8. IsTrace(F, b, w, h)
  <2>1. h[0] = b
    BY <1>1, <1>2
  <2>2. ASSUME NEW k \in 1 .. Len(w)  PROVE h[k] = F[<<h[k - 1], w[k]>>]
    <3>1. k - 1 \in 0 .. Len(w) /\ k \in 0 .. Len(w)
      BY <1>1
    <3>2. g[1 .. (k - 1)] \in A
      BY <1>6, <3>1 DEF T
    <3>. QED  BY <1>3, <3>1, <3>2
  <2>. QED  BY <2>1, <2>2 DEF IsTrace
<1>9. h[Len(w)] = g[1 .. Len(w)]
  BY <1>1
<1>. QED  BY <1>7, <1>8, <1>9 DEF FoldsTo

\* What a fold ends in: over no element ...
LEMMA FoldsToOfEmpty ==
    ASSUME NEW A, NEW F, NEW b, NEW r, FoldsTo(A, F, b, <<>>, r)
    PROVE  r = b
<1>1. PICK h : h[0] = b /\ h[Len(<<>>)] = r
  BY DEF FoldsTo, IsTrace
<1>. QED  BY <1>1

LEMMA FoldsToIsIn ==
    ASSUME NEW A, NEW B, NEW F, NEW b, NEW w \in Seq(B), NEW r, FoldsTo(A, F, b, w, r)
    PROVE  r \in A
<1>1. Len(w) \in Nat
  OBVIOUS
<1>. QED  BY <1>1 DEF FoldsTo

\* ... over one more ...
LEMMA FoldsToAppend ==
    ASSUME NEW A, NEW B, NEW F, NEW b, NEW w \in Seq(B), NEW m \in B,
           NEW r, FoldsTo(A, F, b, w, r), NEW q, FoldsTo(A, F, b, Append(w, m), q)
    PROVE  q = F[<<r, m>>]
<1>1. PICK h : IsTrace(F, b, w, h) /\ h[Len(w)] = r
  BY DEF FoldsTo
<1>2. PICK e : IsTrace(F, b, Append(w, m), e) /\ e[Len(Append(w, m))] = q
  BY DEF FoldsTo
<1>3. e[Len(w) + 1] = F[<<h[Len(w)], m>>]
  BY <1>1, <1>2, TraceAppend
<1>4. Len(Append(w, m)) = Len(w) + 1
  OBVIOUS
<1>. QED  BY <1>1, <1>2, <1>3, <1>4

\* ... and over one fewer.
LEMMA FoldsToTail ==
    ASSUME NEW A, NEW B, NEW F, NEW b, NEW c, NEW w \in Seq(B), StartsWith(F, b, w, c),
           NEW r, FoldsTo(A, F, b, w, r), NEW q, FoldsTo(A, F, c, Tail(w), q)
    PROVE  q = r
<1>1. PICK h : IsTrace(F, b, w, h) /\ h[Len(w)] = r
  BY DEF FoldsTo
<1>2. PICK e : IsTrace(F, c, Tail(w), e) /\ e[Len(Tail(w))] = q
  BY DEF FoldsTo
<1>3. e[Len(w) - 1] = h[Len(w)]
  BY <1>1, <1>2, TraceTail
<1>4. Len(Tail(w)) = Len(w) - 1
  BY DEF StartsWith
<1>. QED  BY <1>1, <1>2, <1>3, <1>4

-----------------------------------------------------------------------------
\* FlattenSeq puts the blocks behind each other, one after the other.
IsFlattened(s, h) == h[0] = <<>> /\ \A k \in 1 .. Len(s) : h[k] = h[k - 1] \o s[k]

LEMMA FlattenSteps ==
    ASSUME NEW B, NEW s \in Seq(Seq(B))
    PROVE  \E h \in [0 .. Len(s) -> Seq(B)] : IsFlattened(s, h) /\ FlattenSeq(s) = h[Len(s)]
<1> DEFINE n == Len(s)
           Upto(k, h) == h[0] = <<>> /\ \A i \in 1 .. k : h[i] = h[i - 1] \o s[i]
           T == {k \in 0 .. n : \E h \in [0 .. k -> Seq(B)] : Upto(k, h)}
<1>1. n \in Nat /\ \A i \in 1 .. n : s[i] \in Seq(B)
  OBVIOUS
<1>2. 0 \in T
  <2> DEFINE h == [i \in 0 .. 0 |-> <<>>]
  <2>1. h \in [0 .. 0 -> Seq(B)]
    BY EmptySeq
  <2>2. Upto(0, h)
    OBVIOUS
  <2> HIDE DEF h
  <2>3. \E g \in [0 .. 0 -> Seq(B)] : Upto(0, g)
    BY <2>1, <2>2, Zenon
  <2>4. 0 \in 0 .. n
    BY <1>1
  <2>. QED  BY <2>3, <2>4, Zenon
<1>3. ASSUME NEW k \in 1 .. n, k - 1 \in T  PROVE k \in T
  <2>1. PICK g \in [0 .. (k - 1) -> Seq(B)] : Upto(k - 1, g)
    BY <1>3
  <2> DEFINE y == g[k - 1] \o s[k]
             h == [i \in 0 .. k |-> IF i = k THEN y ELSE g[i]]
  <2>2. y \in Seq(B)
    <3>1. g[k - 1] \in Seq(B) /\ s[k] \in Seq(B)
      BY <1>1
    <3>. QED  BY <3>1, ConcatProperties
  <2> HIDE DEF y
  <2>3. h \in [0 .. k -> Seq(B)]
    <3>1. \A i \in 0 .. k : i # k => g[i] \in Seq(B)
      BY <1>1
    <3>. QED  BY <2>2, <3>1
  <2>4. h[0] = <<>>
    BY <1>1, <2>1
  <2>5. ASSUME NEW i \in 1 .. k  PROVE h[i] = h[i - 1] \o s[i]
    <3>1. CASE i = k
      <4>1. h[i] = y /\ h[i - 1] = g[k - 1]
        BY <1>1, <3>1
      <4>. QED  BY <3>1, <4>1 DEF y
    <3>2. CASE i # k
      <4>1. i \in 1 .. (k - 1) /\ h[i] = g[i] /\ h[i - 1] = g[i - 1]
        BY <1>1, <3>2
      <4>. QED  BY <2>1, <4>1
    <3>. QED  BY <3>1, <3>2
  <2> HIDE DEF h
  <2>6. \E e \in [0 .. k -> Seq(B)] : Upto(k, e)
    BY <2>3, <2>4, <2>5, Zenon
  <2>7. k \in 0 .. n
    BY <1>1
  <2>. QED  BY <2>6, <2>7, Zenon
<1> HIDE DEF T
<1>4. \A k \in 0 .. n : k \in T
  BY <1>1, <1>2, <1>3, IntervalInduction
<1>5. n \in T
  BY <1>1, <1>4
<1>6. PICK h \in [0 .. n -> Seq(B)] : Upto(n, h)
  BY <1>5 DEF T
<1>7. FlattenSeq(s) = h[n]
  <2>1. CASE n = 0
    <3>1. FlattenSeq(s) = s /\ s = <<>>
      BY <2>1 DEF FlattenSeq
    <3>. QED  BY <1>6, <2>1, <3>1
  <2>2. CASE n # 0
    <3> DEFINE R(f) == f = [i \in 1 .. n |-> IF i = 1 THEN s[i] ELSE f[i - 1] \o s[i]]
               e == [i \in 1 .. n |-> h[i]]
               flat == CHOOSE f : R(f)
    <3>1. FlattenSeq(s) = flat[n]
      BY <2>2 DEF FlattenSeq
    <3>2. h[1] = s[1]
      <4>1. 1 \in 1 .. n /\ 1 - 1 = 0 /\ s[1] \in Seq(B)
        BY <1>1, <2>2
      <4>2. h[1] = <<>> \o s[1]
        BY <1>6, <4>1
      <4>. QED  BY <4>1, <4>2
    <3>3. ASSUME NEW i \in 1 .. n, i # 1  PROVE h[i] = e[i - 1] \o s[i]
      <4>1. i - 1 \in 1 .. n
        BY <1>1, <3>3
      <4>. QED  BY <1>6, <4>1
    <3>4. e = [i \in 1 .. n |-> IF i = 1 THEN s[i] ELSE e[i - 1] \o s[i]]
      <4>1. \A i \in 1 .. n : h[i] = IF i = 1 THEN s[i] ELSE e[i - 1] \o s[i]
        BY <3>2, <3>3
      <4>2. e = [i \in 1 .. n |-> h[i]]
        OBVIOUS
      <4> HIDE DEF e
      <4>. QED  BY <4>1, <4>2
    <3>5. R(flat)
      <4>1. R(e)
        BY <3>4
      <4> HIDE DEF e
      <4>. QED  BY <4>1
    <3> HIDE DEF flat, e
    <3> DEFINE U == {k \in 0 .. n : k = 0 \/ flat[k] = h[k]}
    <3>6. 0 \in U
      BY <1>1
    <3>7. ASSUME NEW k \in 1 .. n, k - 1 \in U  PROVE k \in U
      <4>1. flat[k] = IF k = 1 THEN s[k] ELSE flat[k - 1] \o s[k]
        BY <3>5
      <4>2. CASE k = 1
        BY <3>2, <4>1, <4>2
      <4>3. CASE k # 1
        <5>1. flat[k - 1] = h[k - 1]
          BY <1>1, <3>7, <4>3
        <5>2. h[k] = h[k - 1] \o s[k]
          BY <1>6
        <5>3. flat[k] = flat[k - 1] \o s[k]
          BY <4>1, <4>3, Zenon
        <5>4. flat[k] = h[k]
          BY <5>1, <5>2, <5>3, Zenon
        <5>5. k \in 0 .. n
          BY <1>1
        <5>. QED  BY <5>4, <5>5, Zenon
      <4>. QED  BY <4>2, <4>3
    <3> HIDE DEF U
    <3>8. \A k \in 0 .. n : k \in U
      BY <1>1, <3>6, <3>7, IntervalInduction
    <3>9. n \in U
      BY <1>1, <3>8
    <3>10. flat[n] = h[n]
      BY <2>2, <3>9 DEF U
    <3>. QED  BY <3>1, <3>10
  <2>. QED  BY <2>1, <2>2
<1>. QED  BY <1>6, <1>7 DEF IsFlattened

LEMMA FlattenTyped ==
    ASSUME NEW B, NEW s \in Seq(Seq(B))
    PROVE  FlattenSeq(s) \in Seq(B)
<1>1. Len(s) \in Nat
  OBVIOUS
<1>2. PICK h \in [0 .. Len(s) -> Seq(B)] : FlattenSeq(s) = h[Len(s)]
  BY FlattenSteps
<1>. QED  BY <1>1, <1>2

=============================================================================
