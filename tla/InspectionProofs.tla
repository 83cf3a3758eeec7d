-------------------------- MODULE InspectionProofs --------------------------
(***************************************************************************)
(* Proofs about what the PEP computes from the text of one request, for    *)
(* any requests and any list: a listing covers the domain below it and     *)
(* nothing else, a mistyped card number is not a card number, the spelling *)
(* of a request does not reach the stages after normalization, and the     *)
(* canonical form is a fixed point of normalization exactly when nothing   *)
(* is left to decode in it.                                                *)
(*                                                                         *)
(* The loops of the code are recursive functions over a sequence.  Such a  *)
(* function is a Loop (LoopIsIt), a Loop is unfolded one element at a time *)
(* (LoopUnfolds), and what it keeps is shown by induction over a set that  *)
(* the indices, or the sequences, fill.                                    *)
(***************************************************************************)
EXTENDS Inspection, SequenceTheorems, FiniteSetTheorems, WellFoundedInduction, TLAPS

-----------------------------------------------------------------------------
(* Induction and loops.                                                    *)

\* Induction over the naturals, for a set instead of a predicate.
LEMMA NatSetInduction ==
  ASSUME NEW S, 0 \in S, \A n \in Nat : n \in S => n + 1 \in S
  PROVE  Nat \subseteq S
<1> DEFINE T == Nat \ S
           R == {p \in Nat \X Nat : p[1] < p[2]}
<1> SUFFICES ASSUME T # {} PROVE FALSE
  OBVIOUS
<1>1. IsWellFoundedOn(R, Nat)
  BY NatLessThanWellFounded DEF OpToRel
<1>2. T \subseteq Nat
  OBVIOUS
<1>3. PICK x \in T : \A y \in T : ~ (<<y, x>> \in R)
  <2> HIDE DEF T, R
  <2> QED
    BY <1>1, <1>2, WFMin
<1>4. \A y \in T : ~ (y < x)
  BY <1>3
<1>5. x \in Nat /\ x # 0 /\ x - 1 \in Nat
  OBVIOUS
<1>6. x - 1 \in S
  BY <1>4, <1>5
<1> QED
  BY <1>5, <1>6

\* The same up to a bound.
LEMMA UpToInduction ==
  ASSUME NEW N \in Nat, NEW S, 0 \in S, \A n \in 1 .. N : n - 1 \in S => n \in S
  PROVE  0 .. N \subseteq S
<1> DEFINE G == {n \in Nat : n <= N => n \in S}
<1>1. 0 \in G
  OBVIOUS
<1>2. ASSUME NEW n \in Nat, n \in G PROVE n + 1 \in G
  <2> SUFFICES ASSUME n + 1 <= N PROVE n + 1 \in S
    OBVIOUS
  <2>1. n + 1 \in 1 .. N /\ (n + 1) - 1 \in S
    BY <1>2
  <2> QED
    BY <2>1
<1>3. Nat \subseteq G
  <2> HIDE DEF G
  <2> QED
    BY <1>1, <1>2, NatSetInduction
<1> QED
  BY <1>3

\* A set that holds the empty sequence and is closed under appending holds
\* every sequence.
LEMMA SeqSetInduction ==
  ASSUME NEW T, NEW S, <<>> \in S,
         \A s \in Seq(T), t \in T : s \in S => Append(s, t) \in S
  PROVE  Seq(T) \subseteq S
<1> DEFINE G == {n \in Nat : \A s \in Seq(T) : Len(s) = n => s \in S}
<1>1. 0 \in G
  OBVIOUS
<1>2. ASSUME NEW n \in Nat, n \in G PROVE n + 1 \in G
  <2> SUFFICES ASSUME NEW s \in Seq(T), Len(s) = n + 1 PROVE s \in S
    OBVIOUS
  <2> DEFINE front == SubSeq(s, 1, n)
  <2>1. front \in Seq(T) /\ Len(front) = n /\ s[n + 1] \in T
    OBVIOUS
  <2>2. s = Append(front, s[n + 1])
    OBVIOUS
  <2>3. front \in S
    BY <1>2, <2>1
  <2> HIDE DEF front
  <2> QED
    BY <2>1, <2>2, <2>3
<1>3. Nat \subseteq G
  <2> HIDE DEF G
  <2> QED
    BY <1>1, <1>2, NatSetInduction
<1> QED
  BY <1>3

\* What a loop over s computes: step takes the value so far and an element.
Steps(A, T) == [A \X T -> A]

LoopSteps(g, base, step, s) ==
  g[0] = base /\ \A n \in 1 .. Len(s) : g[n] = step[<<g[n - 1], s[n]>>]

Loop(base, step, s) ==
  LET g == CHOOSE g : LoopSteps(g, base, step, s) IN g[Len(s)]

\* A loop has its values, and no others.
LEMMA LoopValues ==
  ASSUME NEW A, NEW T, NEW base \in A, NEW step \in Steps(A, T), NEW s \in Seq(T)
  PROVE  \E g \in [0 .. Len(s) -> A] : LoopSteps(g, base, step, s)
<1> DEFINE N == Len(s)
           Has(m) == \E g \in [0 .. m -> A] :
                       /\ g[0] = base
                       /\ \A n \in 1 .. m : g[n] = step[<<g[n - 1], s[n]>>]
           G == {m \in 0 .. N : Has(m)}
<1>n. N \in Nat /\ N \in 0 .. N
  OBVIOUS
<1>1. 0 \in G
  <2> DEFINE g == [n \in 0 .. 0 |-> base]
  <2>1. g \in [0 .. 0 -> A] /\ g[0] = base /\ 1 .. 0 = {}
    OBVIOUS
  <2> HIDE DEF g
  <2>2. Has(0)
    BY <2>1
  <2> QED
    BY <2>2
<1>2. ASSUME NEW m \in 1 .. N, m - 1 \in G PROVE m \in G
  <2>1. PICK g \in [0 .. m - 1 -> A] :
          g[0] = base /\ \A n \in 1 .. m - 1 : g[n] = step[<<g[n - 1], s[n]>>]
    BY <1>2
  <2> DEFINE v == step[<<g[m - 1], s[m]>>]
             h == [n \in 0 .. m |-> IF n = m THEN v ELSE g[n]]
  <2>2. v \in A
    <3>1. g[m - 1] \in A /\ s[m] \in T
      BY <2>1
    <3> QED
      BY <3>1 DEF Steps
  <2>3. h \in [0 .. m -> A]
    BY <2>2
  <2>4. h[0] = base /\ h[m] = v /\ \A n \in 0 .. m - 1 : h[n] = g[n]
    BY <2>1
  <2>5. \A n \in 1 .. m : h[n] = step[<<h[n - 1], s[n]>>]
    <3> SUFFICES ASSUME NEW n \in 1 .. m PROVE h[n] = step[<<h[n - 1], s[n]>>]
      OBVIOUS
    <3>1. n - 1 \in 0 .. m - 1
      OBVIOUS
    <3>2. h[n - 1] = g[n - 1]
      BY <2>4, <3>1
    <3>3. CASE n = m
      <4>1. h[m - 1] = g[m - 1]
        BY <3>2, <3>3
      <4>2. h[m] = v
        BY <2>4
      <4> HIDE DEF h
      <4> QED
        BY <3>3, <4>1, <4>2
    <3>4. CASE n # m
      <4>1. n \in 1 .. m - 1 /\ h[n] = g[n]
        BY <3>4, <2>4
      <4> HIDE DEF h
      <4> QED
        BY <2>1, <3>2, <4>1
    <3> QED
      BY <3>3, <3>4
  <2> HIDE DEF h
  <2>6. Has(m)
    BY <2>3, <2>4, <2>5
  <2> QED
    BY <2>6
<1>3. 0 .. N \subseteq G
  <2> HIDE DEF G
  <2> QED
    BY <1>1, <1>2, <1>n, UpToInduction
<1>4. Has(N)
  <2> HIDE DEF Has
  <2> QED
    BY <1>3, <1>n
<1> QED
  BY <1>4 DEF LoopSteps

\* A function that takes the steps of the loop as long as its values are in A,
\* and ends with v.
StepsTo(v, f, A, base, step, s) ==
  /\ f[0] = base
  /\ \A n \in 1 .. Len(s) : f[n - 1] \in A => f[n] = step[<<f[n - 1], s[n]>>]
  /\ v = f[Len(s)]

\* Such a function is the loop.
LEMMA LoopIsIt ==
  ASSUME NEW A, NEW T, NEW base \in A, NEW step \in Steps(A, T), NEW s \in Seq(T),
         NEW f, NEW v, StepsTo(v, f, A, base, step, s)
  PROVE  v \in A /\ v = Loop(base, step, s)
<1> DEFINE N == Len(s)
           g == CHOOSE g : LoopSteps(g, base, step, s)
           G == {n \in 0 .. N : g[n] \in A /\ f[n] = g[n]}
<1>n. N \in Nat /\ N \in 0 .. N
  OBVIOUS
<1>1. \E h : LoopSteps(h, base, step, s)
  BY LoopValues
<1>2. LoopSteps(g, base, step, s)
  BY <1>1
<1>3. Loop(base, step, s) = g[N]
  BY DEF Loop
<1> HIDE DEF g
<1>4. 0 \in G
  BY <1>2, <1>n DEF LoopSteps, StepsTo
<1>5. ASSUME NEW n \in 1 .. N, n - 1 \in G PROVE n \in G
  <2>1. g[n - 1] \in A /\ f[n - 1] = g[n - 1] /\ s[n] \in T
    BY <1>5
  <2>2. <<g[n - 1], s[n]>> \in A \X T
    BY <2>1
  <2>3. step[<<g[n - 1], s[n]>>] \in A
    BY <2>2 DEF Steps
  <2>4. g[n] = step[<<g[n - 1], s[n]>>] /\ f[n] = step[<<g[n - 1], s[n]>>]
    BY <1>2, <2>1 DEF LoopSteps, StepsTo
  <2> QED
    BY <2>3, <2>4
<1>6. 0 .. N \subseteq G
  <2> HIDE DEF G
  <2> QED
    BY <1>4, <1>5, <1>n, UpToInduction
<1>7. v = f[N]
  BY DEF StepsTo
<1> QED
  BY <1>3, <1>6, <1>7, <1>n

\* Loops, element by element.
LEMMA LoopUnfolds ==
  ASSUME NEW A, NEW T, NEW base \in A, NEW step \in Steps(A, T)
  PROVE  /\ Loop(base, step, <<>>) = base
         /\ \A s \in Seq(T) : Loop(base, step, s) \in A
         /\ \A s \in Seq(T), t \in T :
              Loop(base, step, Append(s, t)) = step[<<Loop(base, step, s), t>>]
<1>0. ASSUME NEW s \in Seq(T), NEW f, LoopSteps(f, base, step, s)
      PROVE  StepsTo(f[Len(s)], f, A, base, step, s)
  BY <1>0 DEF LoopSteps, StepsTo
<1>1. ASSUME NEW s \in Seq(T)
      PROVE  /\ Loop(base, step, s) \in A
             /\ \E f \in [0 .. Len(s) -> A] :
                       /\ LoopSteps(f, base, step, s)
                       /\ Loop(base, step, s) = f[Len(s)]
  <2>1. PICK f \in [0 .. Len(s) -> A] : LoopSteps(f, base, step, s)
    BY LoopValues
  <2> DEFINE v == f[Len(s)]
  <2>2. StepsTo(v, f, A, base, step, s)
    BY <1>0, <2>1
  <2> HIDE DEF v
  <2>3. v \in A /\ v = Loop(base, step, s)
    BY <2>2, LoopIsIt
  <2> QED
    BY <2>1, <2>3 DEF v
<1>2. Loop(base, step, <<>>) = base
  <2>1. <<>> \in Seq(T) /\ Len(<<>>) = 0
    OBVIOUS
  <2> QED
    BY <1>1, <2>1 DEF LoopSteps
<1>3. ASSUME NEW s \in Seq(T), NEW f, NEW v, StepsTo(v, f, A, base, step, s)
      PROVE  v = Loop(base, step, s)
  BY <1>3, LoopIsIt
<1>4. ASSUME NEW s \in Seq(T), NEW t \in T
      PROVE  Loop(base, step, Append(s, t)) = step[<<Loop(base, step, s), t>>]
  <2> DEFINE u == Append(s, t)
             N == Len(s)
  <2>1. N \in Nat /\ u \in Seq(T) /\ Len(u) = N + 1 /\ u[N + 1] = t
        /\ \A n \in 1 .. N : u[n] = s[n]
    OBVIOUS
  <2> HIDE DEF u
  <2>2. PICK f \in [0 .. Len(u) -> A] :
           LoopSteps(f, base, step, u) /\ Loop(base, step, u) = f[Len(u)]
    BY <1>1, <2>1
  <2>3. LoopSteps(f, base, step, s)
    BY <2>1, <2>2 DEF LoopSteps
  <2> DEFINE v == f[N]
  <2>4. StepsTo(v, f, A, base, step, s)
    BY <1>0, <2>3
  <2>5. f[N + 1] = step[<<v, t>>]
    BY <2>1, <2>2 DEF LoopSteps
  <2>6. Loop(base, step, u) = f[N + 1]
    BY <2>1, <2>2
  <2> HIDE DEF v
  <2>7. v = Loop(base, step, s)
    BY <2>4, <1>3
  <2>8. Loop(base, step, u) = step[<<Loop(base, step, s), t>>]
    BY <2>5, <2>6, <2>7
  <2> QED
    BY <2>8 DEF u
<1> QED
  BY <1>1, <1>2, <1>4

-----------------------------------------------------------------------------
(* What the stages know.                                                   *)

\* What a stage knows of the ones before it.
IInv ==
  /\ request \in Requests
  /\ stage \in {"normalize", "threat_intel", "dlp", "done"}
  /\ stage # "normalize" => canonical = NormalizeArguments(request)
  /\ stage \in {"dlp", "done"} => knownBad = IsKnownBad(ExtractTarget(canonical).fqdn)
  /\ stage = "done" => verdict = Outcome(Scan(canonical.text))

\* The stages do what IInv says of them.
THEOREM InspectionInvariant == Spec => []IInv
<1>1. Init => IInv
  BY DEF Init, IInv
<1>2. IInv /\ [Next]_vars => IInv'
  <2> SUFFICES ASSUME IInv, [Next]_vars PROVE IInv'
    OBVIOUS
  <2>1. CASE Normalize
    BY <2>1 DEF IInv, Normalize
  <2>2. CASE LookUp
    BY <2>2 DEF IInv, LookUp
  <2>3. CASE Inspect
    BY <2>3 DEF IInv, Inspect
  <2>4. CASE UNCHANGED vars
    BY <2>4 DEF IInv, vars
  <2> QED
    BY <2>1, <2>2, <2>3, <2>4 DEF Next
<1> QED
  BY <1>1, <1>2, PTL DEF Spec

-----------------------------------------------------------------------------
(* Threat intelligence: a listing covers the domain below it.              *)

\* Cutting labels off the front of l leaves s exactly when s is the end of l.
LEMMA SuffixIsCut ==
  ASSUME NEW S, NEW s \in Seq(S), NEW l \in Seq(S), s # <<>>
  PROVE  IsSuffix(s, l) <=> \E i \in 1 .. Len(l) : SubSeq(l, i, Len(l)) = s
<1> DEFINE m == Len(s)
           n == Len(l)
           rs == [j \in 1 .. m |-> s[(m - j) + 1]]
           rl == [j \in 1 .. n |-> l[(n - j) + 1]]
<1>l. m \in Nat \ {0} /\ n \in Nat
  OBVIOUS
<1>r. /\ rs \in Seq(S) /\ Len(rs) = m
      /\ rl \in Seq(S) /\ Len(rl) = n
  BY <1>l
<1>p. IsSuffix(s, l) <=> m <= n /\ SubSeq(rs, 1, m) = SubSeq(rl, 1, m)
  BY <1>l, <1>r DEF IsSuffix, IsPrefix, Reverse
<1>q. ASSUME m <= n
      PROVE  SubSeq(rs, 1, m) = SubSeq(rl, 1, m)
               <=> \A j \in 1 .. m : s[(m - j) + 1] = l[(n - j) + 1]
  <2>1. /\ SubSeq(rs, 1, m) = [j \in 1 .. m |-> rs[j]]
        /\ SubSeq(rl, 1, m) = [j \in 1 .. m |-> rl[j]]
    BY <1>l, <1>r, <1>q
  <2>2. (\A j \in 1 .. m : rs[j] = rl[j])
          <=> \A j \in 1 .. m : s[(m - j) + 1] = l[(n - j) + 1]
    <3>1. \A j \in 1 .. m : j \in 1 .. n
      BY <1>l, <1>q
    <3>2. \A j \in 1 .. m : rs[j] = s[(m - j) + 1] /\ rl[j] = l[(n - j) + 1]
      BY <3>1
    <3> HIDE DEF m, n, rs, rl
    <3> QED
      BY <3>2
  <2>3. SubSeq(rs, 1, m) = SubSeq(rl, 1, m) <=> \A j \in 1 .. m : rs[j] = rl[j]
    <3> HIDE DEF m, n, rs, rl
    <3> QED
      BY <2>1
  <2> QED
    BY <2>2, <2>3
<1>c. ASSUME m <= n
      PROVE  (\A j \in 1 .. m : s[(m - j) + 1] = l[(n - j) + 1])
               <=> \A k \in 1 .. m : s[k] = l[(n - m) + k]
  <2>1. ASSUME \A j \in 1 .. m : s[(m - j) + 1] = l[(n - j) + 1], NEW k \in 1 .. m
        PROVE  s[k] = l[(n - m) + k]
    <3>1. (m - k) + 1 \in 1 .. m
      BY <1>l
    <3>2. (m - ((m - k) + 1)) + 1 = k /\ (n - ((m - k) + 1)) + 1 = (n - m) + k
      BY <1>l
    <3> QED
      BY <2>1, <3>1, <3>2
  <2>2. ASSUME \A k \in 1 .. m : s[k] = l[(n - m) + k], NEW j \in 1 .. m
        PROVE  s[(m - j) + 1] = l[(n - j) + 1]
    <3>1. (m - j) + 1 \in 1 .. m
      BY <1>l
    <3>2. (n - m) + ((m - j) + 1) = (n - j) + 1
      BY <1>l
    <3> QED
      BY <2>2, <3>1, <3>2
  <2> QED
    BY <2>1, <2>2
<1>s. ASSUME NEW i \in 1 .. n
      PROVE  SubSeq(l, i, n) = s
               <=> m = (n - i) + 1 /\ \A k \in 1 .. m : s[k] = l[(i + k) - 1]
  <2>1. /\ SubSeq(l, i, n) \in Seq(S)
        /\ Len(SubSeq(l, i, n)) = (n - i) + 1
        /\ \A k \in 1 .. (n - i) + 1 : SubSeq(l, i, n)[k] = l[(i + k) - 1]
    BY <1>l, <1>s
  <2>2. ASSUME m = (n - i) + 1, \A k \in 1 .. m : s[k] = l[(i + k) - 1]
        PROVE  SubSeq(l, i, n) = s
    BY <2>1, <2>2, <1>l, SeqEqual
  <2>3. ASSUME SubSeq(l, i, n) = s
        PROVE  m = (n - i) + 1 /\ \A k \in 1 .. m : s[k] = l[(i + k) - 1]
    BY <2>1, <2>3
  <2> QED
    BY <2>2, <2>3
<1>1. ASSUME IsSuffix(s, l)
      PROVE  \E i \in 1 .. n : SubSeq(l, i, n) = s
  <2>1. m <= n /\ \A k \in 1 .. m : s[k] = l[(n - m) + k]
    BY <1>1, <1>p, <1>q, <1>c
  <2> DEFINE i == (n - m) + 1
  <2>2. i \in 1 .. n /\ m = (n - i) + 1
    BY <2>1, <1>l
  <2>3. \A k \in 1 .. m : (i + k) - 1 = (n - m) + k
    BY <1>l
  <2>4. SubSeq(l, i, n) = s
    BY <2>1, <2>2, <2>3, <1>s
  <2> QED
    BY <2>2, <2>4
<1>2. ASSUME NEW i \in 1 .. n, SubSeq(l, i, n) = s
      PROVE  IsSuffix(s, l)
  <2>1. m = (n - i) + 1 /\ \A k \in 1 .. m : s[k] = l[(i + k) - 1]
    BY <1>2, <1>s
  <2>2. m <= n /\ \A k \in 1 .. m : (i + k) - 1 = (n - m) + k
    BY <2>1, <1>l
  <2> QED
    BY <2>1, <2>2, <1>p, <1>q, <1>c
<1> QED
  BY <1>1, <1>2

\* is_known_bad, as a statement about the list.
LEMMA KnownBadIsSuffix ==
  ASSUME NEW fqdn \in Seq(STRING)
  PROVE  IsKnownBad(fqdn) <=> \E name \in Listed : IsSuffix(name, fqdn)
<1>1. \A name \in Listed :
        IsSuffix(name, fqdn) <=> \E i \in 1 .. Len(fqdn) : SubSeq(fqdn, i, Len(fqdn)) = name
  BY ListedAssumption, SuffixIsCut
<1> QED
  BY <1>1 DEF IsKnownBad

\* A listed parent domain covers all its subdomains, however deep: putting
\* labels in front of a known bad name never clears it.
THEOREM SubdomainsAreCovered ==
  ASSUME NEW fqdn \in Seq(STRING), NEW labels \in Seq(STRING), IsKnownBad(fqdn)
  PROVE  IsKnownBad(labels \o fqdn)
<1> DEFINE deep == labels \o fqdn
<1>1. PICK i \in 1 .. Len(fqdn) : SubSeq(fqdn, i, Len(fqdn)) \in Listed
  BY DEF IsKnownBad
<1> DEFINE j == Len(labels) + i
<1>2. deep \in Seq(STRING) /\ Len(deep) = Len(labels) + Len(fqdn)
  OBVIOUS
<1>3. j \in 1 .. Len(deep)
  BY <1>2
<1>4. SubSeq(deep, j, Len(deep)) = SubSeq(fqdn, i, Len(fqdn))
  <2>1. /\ SubSeq(deep, j, Len(deep)) \in Seq(STRING)
        /\ Len(SubSeq(deep, j, Len(deep))) = (Len(fqdn) - i) + 1
        /\ \A k \in 1 .. (Len(fqdn) - i) + 1 :
             SubSeq(deep, j, Len(deep))[k] = deep[(j + k) - 1]
    BY <1>2, <1>3
  <2>2. /\ SubSeq(fqdn, i, Len(fqdn)) \in Seq(STRING)
        /\ Len(SubSeq(fqdn, i, Len(fqdn))) = (Len(fqdn) - i) + 1
        /\ \A k \in 1 .. (Len(fqdn) - i) + 1 :
             SubSeq(fqdn, i, Len(fqdn))[k] = fqdn[(i + k) - 1]
    OBVIOUS
  <2>3. \A k \in 1 .. (Len(fqdn) - i) + 1 : deep[(j + k) - 1] = fqdn[(i + k) - 1]
    OBVIOUS
  <2> QED
    BY <2>1, <2>2, <2>3, SeqEqual
<1> QED
  BY <1>1, <1>3, <1>4 DEF IsKnownBad

\* The spellings of a host.
HostRecord == [labels : Seq(STRING), plain : BOOLEAN]

\* IDNA leaves what it made of a host as it is, and takes it again.
LEMMA IdnaIsStable ==
  ASSUME NEW labels \in Seq(STRING), IdnaTakes(labels)
  PROVE  /\ Idna(labels) \in Seq(STRING)
         /\ IdnaTakes(Idna(labels)) /\ Idna(Idna(labels)) = Idna(labels)
<1> DEFINE ascii == Idna(labels)
<1>1. DOMAIN ascii = DOMAIN labels /\ DOMAIN labels = 1 .. Len(labels) /\ Len(labels) \in Nat
  BY DEF Idna
<1>2. \A i \in DOMAIN labels :
        ascii[i] = IF labels[i] \in DOMAIN ToAscii THEN ToAscii[labels[i]] ELSE labels[i]
  BY DEF Idna
<1>3. \A i \in DOMAIN labels : ascii[i] \in STRING
  BY <1>1, <1>2, IdnaAssumption
<1>4. ascii \in Seq(STRING) /\ Len(ascii) = Len(labels)
  <2>1. ascii \in [1 .. Len(labels) -> STRING]
    BY <1>1, <1>3 DEF Idna
  <2> HIDE DEF ascii
  <2> QED
    BY <1>1, <2>1
<1>5. IdnaTakes(ascii)
  BY <1>1, <1>2, <1>4, IdnaAssumption DEF IdnaTakes
<1>6. \A i \in DOMAIN ascii :
        ascii[i] = IF ascii[i] \in DOMAIN ToAscii THEN ToAscii[ascii[i]] ELSE ascii[i]
  BY <1>1, <1>2, IdnaAssumption
<1>7. Idna(ascii) = ascii
  <2> HIDE DEF ascii
  <2>1. ascii = [i \in DOMAIN ascii |-> ascii[i]]
    BY <1>4
  <2> QED
    BY <1>6, <2>1 DEF Idna
<1> QED
  BY <1>4, <1>5, <1>7

\* A normalized host is a host, and is normalized again to itself.
LEMMA HostIsStable ==
  ASSUME NEW h \in HostRecord
  PROVE  /\ NormalizeHost(h) \in HostRecord
         /\ NormalizeHost(NormalizeHost(h)) = NormalizeHost(h)
<1> DEFINE Out(l) == IF IdnaTakes(l) THEN Idna(l) ELSE l
<1>1. h = [labels |-> h.labels, plain |-> h.plain] /\ h.labels \in Seq(STRING)
  BY DEF HostRecord
<1>2. Out(h.labels) \in Seq(STRING) /\ Out(Out(h.labels)) = Out(h.labels)
  <2>1. CASE IdnaTakes(h.labels)
    <3>1. Out(h.labels) = Idna(h.labels) /\ Out(Idna(h.labels)) = Idna(h.labels)
      BY <1>1, <2>1, IdnaIsStable
    <3>2. Idna(h.labels) \in Seq(STRING)
      BY <1>1, <2>1, IdnaIsStable
    <3> HIDE DEF Out
    <3> QED
      BY <3>1, <3>2
  <2>2. CASE ~IdnaTakes(h.labels)
    BY <1>1, <2>2
  <2> QED
    BY <2>1, <2>2
<1>3. ASSUME NEW l, NEW b
      PROVE  NormalizeHost([labels |-> l, plain |-> b]) = [labels |-> Out(l), plain |-> TRUE]
  BY DEF NormalizeHost
<1> HIDE DEF Out
<1>4. NormalizeHost(h) = [labels |-> Out(h.labels), plain |-> TRUE]
  BY <1>1, <1>3
<1> QED
  BY <1>2, <1>3, <1>4 DEF HostRecord

\* The name that is looked up is that of the normalized host.
LEMMA TargetIsTheHost ==
  ASSUME NEW r \in Requests, r.tool \in HttpTools
  PROVE  /\ ExtractTarget(NormalizeArguments(r)).fqdn = NormalizeHost(r.url.host).labels
         /\ NormalizeHost(r.url.host).labels \in Seq(STRING)
<1>1. r.url \in UrlRecord /\ r.url.host \in HostRecord
  BY RequestsAssumption DEF UrlRecord, HostRecord
<1>2. NormalizeUrl(r.url).host = NormalizeHost(r.url.host)
  BY <1>1 DEF NormalizeUrl, UrlRecord
<1>3. NormalizeHost(r.url.host).labels \in Seq(STRING)
  BY <1>1, HostIsStable DEF HostRecord
<1>4. NormalizeArguments(r) = [r EXCEPT !.url = NormalizeUrl(r.url)]
  BY Zenon DEF NormalizeArguments, HttpTools
<1>5. NormalizeArguments(r).tool = r.tool /\ NormalizeArguments(r).url = NormalizeUrl(r.url)
  BY <1>4, RequestsAssumption
<1> QED
  BY <1>2, <1>3, <1>5 DEF ExtractTarget, HttpTools

\* Threat intelligence refuses exactly the listed names and the names below
\* them, for every list and every request.
THEOREM ListingCoversSubdomainsHolds == Spec => []ListingCoversSubdomains
<1>1. IInv => ListingCoversSubdomains
  <2> SUFFICES ASSUME IInv, stage \in {"dlp", "done"}, request.tool \in HttpTools
               PROVE  knownBad <=> \E name \in Listed : IsSuffix(name, NormalizeHost(request.url.host).labels)
    BY DEF ListingCoversSubdomains
  <2>1. request \in Requests /\ canonical = NormalizeArguments(request)
    BY DEF IInv
  <2> DEFINE labels == NormalizeHost(request.url.host).labels
  <2>2. ExtractTarget(canonical).fqdn = labels /\ labels \in Seq(STRING)
    BY <2>1, TargetIsTheHost
  <2> HIDE DEF labels
  <2>3. knownBad <=> \E name \in Listed : IsSuffix(name, labels)
    BY <2>2, KnownBadIsSuffix DEF IInv
  <2> QED
    BY <2>3 DEF labels
<1> QED
  BY <1>1, InspectionInvariant, PTL

-----------------------------------------------------------------------------
(* Data loss prevention: a typo is not a card.                             *)

\* What one position adds to the checksum is a number.
LEMMA WeightedIsInt ==
  ASSUME NEW digits \in Seq(0 .. 9), NEW n \in 1 .. Len(digits)
  PROVE  Weighted(digits, n) \in Int
<1>1. digits[n] \in 0 .. 9
  OBVIOUS
<1> QED
  BY <1>1 DEF Weighted, Doubled

\* _luhn_valid's loop, position by position.
LEMMA ChecksumValues ==
  ASSUME NEW digits \in Seq(0 .. 9)
  PROVE  \E f \in [0 .. Len(digits) -> Int] :
           /\ f[0] = 0
           /\ \A n \in 1 .. Len(digits) : f[n] = f[n - 1] + Weighted(digits, n)
           /\ Checksum(digits) = f[Len(digits)]
<1> DEFINE N == Len(digits)
           ws == [n \in 1 .. N |-> Weighted(digits, n)]
           plus == [x \in Int \X Int |-> x[1] + x[2]]
           Sums(h) == h = [n \in 0 .. N |-> IF n = 0 THEN 0 ELSE h[n - 1] + Weighted(digits, n)]
           f == CHOOSE h : Sums(h)
<1>n. N \in Nat /\ N \in 0 .. N
  OBVIOUS
<1>w. \A n \in 1 .. N : Weighted(digits, n) \in Int
  BY WeightedIsInt
<1>1. ws \in Seq(Int) /\ Len(ws) = N
  BY <1>n, <1>w
<1>2. plus \in Steps(Int, Int)
  BY DEF Steps
<1>3. PICK g \in [0 .. N -> Int] : LoopSteps(g, 0, plus, ws)
  <2>1. \E g \in [0 .. Len(ws) -> Int] : LoopSteps(g, 0, plus, ws)
    <3> DEFINE zero == 0
    <3>1. zero \in Int
      OBVIOUS
    <3> HIDE DEF ws, plus, zero
    <3>2. \E g \in [0 .. Len(ws) -> Int] : LoopSteps(g, zero, plus, ws)
      BY <1>1, <1>2, <3>1, LoopValues
    <3> QED
      BY <3>2 DEF zero
  <2> HIDE DEF ws, plus
  <2> QED
    BY <1>1, <2>1
<1>4. g[0] = 0 /\ \A n \in 1 .. N : g[n] = g[n - 1] + Weighted(digits, n)
  <2>1. g[0] = 0 /\ \A n \in 1 .. N : g[n] = plus[<<g[n - 1], ws[n]>>]
    BY <1>1, <1>3 DEF LoopSteps
  <2>2. ASSUME NEW n \in 1 .. N PROVE g[n] = g[n - 1] + Weighted(digits, n)
    <3>1. g[n - 1] \in Int /\ ws[n] = Weighted(digits, n) /\ ws[n] \in Int
      BY <1>w
    <3> HIDE DEF ws
    <3>2. plus[<<g[n - 1], ws[n]>>] = g[n - 1] + ws[n]
      BY <3>1
    <3> QED
      BY <2>1, <3>1, <3>2
  <2> QED
    BY <2>1, <2>2
<1>5. Sums(g)
  BY <1>4
<1>6. Sums(f)
  <2>1. \E h : Sums(h)
    BY <1>5
  <2> HIDE DEF Sums
  <2> QED
    BY <2>1
<1>7. Checksum(digits) = f[N]
  BY DEF Checksum
<1> HIDE DEF f
<1>8. f[0] = 0 /\ \A n \in 1 .. N : f[n] = f[n - 1] + Weighted(digits, n)
  BY <1>6, <1>n
<1>9. f \in [0 .. N -> Int]
  <2> DEFINE G == {n \in 0 .. N : f[n] \in Int}
  <2>1. 0 \in G
    BY <1>8, <1>n
  <2>2. ASSUME NEW n \in 1 .. N, n - 1 \in G PROVE n \in G
    BY <2>2, <1>8, <1>w
  <2>3. 0 .. N \subseteq G
    <3> HIDE DEF G
    <3> QED
      BY <2>1, <2>2, <1>n, UpToInduction
  <2> QED
    BY <2>3, <1>6
<1> QED
  BY <1>7, <1>8, <1>9

\* Changing one digit changes the checksum by the change of its weight.
LEMMA ChecksumChanges ==
  ASSUME NEW digits \in Seq(0 .. 9), NEW p \in 1 .. Len(digits), NEW d \in 0 .. 9,
         NEW other, other = [digits EXCEPT ![p] = d]
  PROVE  /\ Checksum(digits) \in Int /\ Checksum(other) \in Int
         /\ Checksum(other) - Checksum(digits) = Weighted(other, p) - Weighted(digits, p)
<1> DEFINE N == Len(digits)
<1>n. N \in Nat /\ N \in 0 .. N /\ p \in 1 .. N /\ p \in Int
  OBVIOUS
<1>1. other \in Seq(0 .. 9) /\ Len(other) = N /\ \A i \in 1 .. N : i # p => other[i] = digits[i]
  OBVIOUS
<1>2. PICK f \in [0 .. N -> Int] :
        /\ f[0] = 0
        /\ \A n \in 1 .. N : f[n] = f[n - 1] + Weighted(digits, n)
        /\ Checksum(digits) = f[N]
  BY ChecksumValues
<1>3. PICK g \in [0 .. N -> Int] :
        /\ g[0] = 0
        /\ \A n \in 1 .. N : g[n] = g[n - 1] + Weighted(other, n)
        /\ Checksum(other) = g[N]
  BY <1>1, ChecksumValues
<1>4. \A n \in 1 .. N : n # p => Weighted(other, n) = Weighted(digits, n)
  BY <1>1 DEF Weighted
<1>5. \A n \in 1 .. N : Weighted(other, n) \in Int /\ Weighted(digits, n) \in Int
  BY <1>1, WeightedIsInt
<1> DEFINE delta == Weighted(other, p) - Weighted(digits, p)
           G == {n \in 0 .. N : g[n] = f[n] + (IF n < p THEN 0 ELSE delta)}
<1>6. delta \in Int
  <2>1. Weighted(other, p) \in Int /\ Weighted(digits, p) \in Int
    BY <1>5, <1>n, Zenon
  <2> QED
    BY <2>1
<1>7. 0 \in G
  <2>1. 0 \in 0 .. N /\ 0 < p
    BY <1>n
  <2> HIDE DEF delta
  <2> QED
    BY <1>2, <1>3, <2>1
<1>8. ASSUME NEW n \in 1 .. N, n - 1 \in G PROVE n \in G
  <2>1. /\ g[n] = g[n - 1] + Weighted(other, n) /\ f[n] = f[n - 1] + Weighted(digits, n)
        /\ f[n] \in Int /\ g[n] \in Int /\ f[n - 1] \in Int /\ g[n - 1] \in Int
        /\ Weighted(other, n) \in Int /\ Weighted(digits, n) \in Int
    <3>1. n \in 0 .. N /\ n - 1 \in 0 .. N
      BY <1>n
    <3>2. f[n] \in Int /\ g[n] \in Int /\ f[n - 1] \in Int /\ g[n - 1] \in Int
      BY <3>1
    <3> QED
      BY <3>2, <1>2, <1>3, <1>5
  <2>2. g[n - 1] = f[n - 1] + (IF n - 1 < p THEN 0 ELSE delta)
    BY <1>8
  <2>3. CASE n = p
    <3>1. g[n - 1] = f[n - 1]
      BY <2>1, <2>2, <2>3
    <3>2. delta = Weighted(other, n) - Weighted(digits, n)
      BY <2>3
    <3> HIDE DEF delta
    <3> QED
      BY <2>1, <2>3, <3>1, <3>2, <1>n
  <2>4. CASE n # p
    <3>1. Weighted(other, n) = Weighted(digits, n)
      BY <1>4, <2>4
    <3> HIDE DEF delta
    <3> QED
      BY <2>1, <2>2, <2>4, <3>1, <1>n, <1>6
  <2> QED
    BY <2>3, <2>4
<1>9. 0 .. N \subseteq G
  <2> HIDE DEF G
  <2> QED
    BY <1>7, <1>8, <1>n, UpToInduction
<1>10. g[N] = f[N] + delta
  <2> HIDE DEF delta
  <2> QED
    BY <1>9, <1>n
<1> HIDE DEF delta
<1>11. g[N] \in Int /\ f[N] \in Int /\ g[N] - f[N] = delta
  BY <1>10, <1>6, <1>n
<1> QED
  BY <1>2, <1>3, <1>11 DEF delta

\* Doubling and reducing tells all ten digits apart.
LEMMA DoubledIsInjective ==
  ASSUME NEW a \in 0 .. 9, NEW b \in 0 .. 9, a # b
  PROVE  Doubled(a) \in 0 .. 9 /\ Doubled(b) \in 0 .. 9 /\ Doubled(a) # Doubled(b)
BY DEF Doubled

\* A multiple of ten, changed by a nonzero amount below ten, is none.
LEMMA NoSmallMultiple ==
  ASSUME NEW c \in Int, NEW e \in Int, NEW x \in 0 .. 9, NEW y \in 0 .. 9, x # y,
         e - c = y - x, c % 10 = 0
  PROVE  e % 10 # 0
<1>1. c = 10 * (c \div 10) /\ c \div 10 \in Int
  OBVIOUS
<1>2. e = 10 * (e \div 10) + (e % 10) /\ e \div 10 \in Int
  OBVIOUS
<1>3. ASSUME e % 10 = 0 PROVE FALSE
  <2> DEFINE q == e \div 10
             r == c \div 10
  <2>1. q \in Int /\ r \in Int /\ e = 10 * q /\ c = 10 * r
    BY <1>1, <1>2, <1>3
  <2> HIDE DEF q, r
  <2>2. 10 * (q - r) = y - x
    BY <2>1
  <2>3. q - r \in Int /\ y - x \in -9 .. 9 /\ y - x # 0
    BY <2>1
  <2> QED
    BY <2>2, <2>3
<1> QED
  BY <1>3

\* No two numbers that differ in one digit are both valid.
LEMMA OneDigitBreaksLuhn ==
  ASSUME NEW digits \in Seq(0 .. 9), NEW p \in 1 .. Len(digits), NEW d \in 0 .. 9,
         d # digits[p], LuhnValid(digits)
  PROVE  ~ LuhnValid([digits EXCEPT ![p] = d])
<1> DEFINE other == [digits EXCEPT ![p] = d]
<1>1. Len(other) = Len(digits) /\ other[p] = d /\ digits[p] \in 0 .. 9
  OBVIOUS
<1> HIDE DEF other
<1> DEFINE x == Weighted(digits, p)
           y == Weighted(other, p)
<1>2. x \in 0 .. 9 /\ y \in 0 .. 9 /\ x # y
  BY <1>1, DoubledIsInjective DEF Weighted
<1>3. /\ Checksum(digits) \in Int /\ Checksum(other) \in Int
      /\ Checksum(other) - Checksum(digits) = y - x
  BY ChecksumChanges DEF other
<1> HIDE DEF x, y
<1>4. Checksum(digits) % 10 = 0
  BY DEF LuhnValid
<1>5. Checksum(other) % 10 # 0
  BY <1>2, <1>3, <1>4, NoSmallMultiple
<1> QED
  BY <1>5 DEF LuhnValid, other

\* A word is blocked as a card number only if its digits are valid.
LEMMA BlockedDigits ==
  ASSUME NEW word, word.kind = "digits"
  PROVE  "BLOCK" \in Findings(word) <=> LuhnValid(word.digits)
<1> DEFINE card == IF LuhnValid(word.digits) THEN {"BLOCK"} ELSE {}
           phone == IF Len(word.digits) = 12 THEN {"REDACT"} ELSE {}
<1>1. Findings(word) = card \union phone
  BY Zenon DEF Findings
<1>2. "BLOCK" \notin phone
  OBVIOUS
<1>3. "BLOCK" \in card <=> LuhnValid(word.digits)
  OBVIOUS
<1> QED
  BY <1>1, <1>2, <1>3

\* The scan blocks exactly when a finding says so.
LEMMA BlockMeansFound ==
  ASSUME NEW findings
  PROVE  Outcome(findings) = "BLOCK" <=> "BLOCK" \in findings
BY DEF Outcome

\* A text of one word is blocked when the word is.
LEMMA OneWordBlocked ==
  ASSUME NEW text, DOMAIN text = 1 .. 1, text[1].kind = "digits"
  PROVE  Outcome(Scan(text)) = "BLOCK" <=> LuhnValid(text[1].digits)
<1>1. Scan(text) = Findings(text[1])
  <2>1. {Findings(text[i]) : i \in DOMAIN text} = {Findings(text[1])}
    OBVIOUS
  <2> QED
    BY <2>1 DEF Scan
<1> QED
  BY <1>1, BlockedDigits, BlockMeansFound

\* One digit of a text of one card number, changed.
LEMMA TypoLemma ==
  ASSUME NEW text \in Seq([kind : STRING, digits : Seq(0 .. 9)]),
         Outcome(Scan(text)) = "BLOCK", Len(text) = 1,
         NEW i \in DOMAIN text, text[i].kind = "digits",
         NEW p \in DOMAIN text[i].digits, NEW d \in 0 .. 9, d # text[i].digits[p]
  PROVE  Outcome(Scan([text EXCEPT ![i].digits[p] = d])) # "BLOCK"
<1> DEFINE word == text[1]
           other == [text EXCEPT ![i].digits[p] = d]
<1>0. DOMAIN text = 1 .. 1
  OBVIOUS
<1>1. i = 1 /\ DOMAIN text = 1 .. 1 /\ word \in [kind : STRING, digits : Seq(0 .. 9)]
  <2>1. i = 1 /\ 1 \in DOMAIN text
    BY <1>0
  <2>2. text[1] \in [kind : STRING, digits : Seq(0 .. 9)]
    <3> DEFINE W == [kind : STRING, digits : Seq(0 .. 9)]
    <3>1. text \in Seq(W)
      OBVIOUS
    <3> HIDE DEF W
    <3>2. \A t \in Seq(W) : \A j \in DOMAIN t : t[j] \in W
      OBVIOUS
    <3> QED
      BY <2>1, <3>1, <3>2 DEF W
  <2> QED
    BY <1>0, <2>1, <2>2
<1>2. word.digits \in Seq(0 .. 9) /\ p \in 1 .. Len(word.digits) /\ word.kind = "digits"
  BY <1>1
<1>3. /\ DOMAIN other = 1 .. 1
      /\ other[1].kind = "digits"
      /\ other[1].digits = [word.digits EXCEPT ![p] = d]
  BY <1>1, <1>2
<1> HIDE DEF other
<1>4. LuhnValid(word.digits)
  BY <1>1, <1>2, OneWordBlocked
<1> DEFINE digits == word.digits
<1>5. digits \in Seq(0 .. 9) /\ p \in 1 .. Len(digits) /\ d # digits[p] /\ LuhnValid(digits)
  BY <1>1, <1>2, <1>4
<1>6. other[1].digits = [digits EXCEPT ![p] = d]
  BY <1>3
<1> HIDE DEF digits, word
<1>7. ~ LuhnValid(other[1].digits)
  <2>1. ~ LuhnValid([digits EXCEPT ![p] = d])
    BY <1>5, OneDigitBreaksLuhn
  <2> QED
    BY <2>1, <1>6
<1>8. Outcome(Scan(other)) # "BLOCK"
  BY <1>3, <1>7, OneWordBlocked
<1> QED
  BY <1>8 DEF other

\* Normalization is about the URL: the text that is scanned is the caller's.
LEMMA NormalizeKeepsText ==
  ASSUME NEW r \in Requests
  PROVE  NormalizeArguments(r).text = r.text
<1>1. r \in [tool : STRING, url : UrlRecord, text : Seq([kind : STRING, digits : Seq(0 .. 9)])]
  BY RequestsAssumption
<1>2. CASE r.tool \in HttpTools
  <2>1. NormalizeArguments(r) = [r EXCEPT !.url = NormalizeUrl(r.url)]
    BY <1>2, Zenon DEF NormalizeArguments, HttpTools
  <2> QED
    BY <1>1, <2>1
<1>3. CASE r.tool = "file.read"
  <2>1. r.tool \notin HttpTools
    BY <1>3 DEF HttpTools
  <2>2. NormalizeArguments(r) = [r EXCEPT !.url.path = NormalizePath(r.url.path)]
    BY <1>3, <2>1, Zenon DEF NormalizeArguments
  <2> QED
    BY <1>1, <2>2
<1>4. CASE r.tool \notin HttpTools /\ r.tool # "file.read"
  <2>1. NormalizeArguments(r) = r
    BY <1>4, Zenon DEF NormalizeArguments
  <2> QED
    BY <2>1
<1> QED
  BY <1>2, <1>3, <1>4

\* A card number the DLP scan blocks has no other valid one a digit away, for
\* every text and every length _luhn_valid accepts.
THEOREM TypoIsNotACardHolds == Spec => []TypoIsNotACard
<1>1. IInv => TypoIsNotACard
  <2> SUFFICES ASSUME IInv, stage = "done", verdict = "BLOCK", Len(request.text) = 1,
                      NEW i \in DOMAIN request.text, request.text[i].kind = "digits",
                      NEW p \in DOMAIN request.text[i].digits, NEW d \in 0 .. 9,
                      d # request.text[i].digits[p]
               PROVE  Outcome(Scan([request.text EXCEPT ![i].digits[p] = d])) # "BLOCK"
    BY DEF TypoIsNotACard
  <2>1. request \in Requests /\ canonical = NormalizeArguments(request)
    BY DEF IInv
  <2>2. canonical.text = request.text
    BY <2>1, NormalizeKeepsText
  <2>3. Outcome(Scan(request.text)) = "BLOCK"
    BY <2>2 DEF IInv
  <2>4. request.text \in Seq([kind : STRING, digits : Seq(0 .. 9)])
    BY <2>1, RequestsAssumption
  <2> DEFINE text == request.text
  <2> HIDE DEF text
  <2>5. Outcome(Scan([text EXCEPT ![i].digits[p] = d])) # "BLOCK"
    BY <2>3, <2>4, TypoLemma DEF text
  <2> QED
    BY <2>5 DEF text
<1> QED
  BY <1>1, InspectionInvariant, PTL

-----------------------------------------------------------------------------
(* Normalization: decoding.                                                *)

\* The tokens over a set of symbols.
Toks(Y) == [symbol : Y, encoded : Nat]

\* A path after n rounds.
Peeled(path, n) ==
  [i \in DOMAIN path |->
     [symbol |-> path[i].symbol,
      encoded |-> IF path[i].encoded <= n THEN 0 ELSE path[i].encoded - n]]

\* A peeled path is a path of the same length; no round changes nothing.
LEMMA PeeledIsPath ==
  ASSUME NEW Y, NEW path \in Seq(Toks(Y)), NEW n \in Nat
  PROVE  Peeled(path, n) \in Seq(Toks(Y)) /\ DOMAIN Peeled(path, n) = DOMAIN path
         /\ Len(Peeled(path, n)) = Len(path)
         /\ Peeled(path, 0) = path
<1>1. \A i \in 1 .. Len(path) : path[i] \in Toks(Y)
  OBVIOUS
<1>2. \A i \in 1 .. Len(path) :
        [symbol |-> path[i].symbol,
         encoded |-> IF path[i].encoded <= n THEN 0 ELSE path[i].encoded - n] \in Toks(Y)
  BY <1>1 DEF Toks
<1>3. DOMAIN path = 1 .. Len(path)
  OBVIOUS
<1>4. Peeled(path, n) \in Seq(Toks(Y)) /\ DOMAIN Peeled(path, n) = DOMAIN path
         /\ Len(Peeled(path, n)) = Len(path)
  BY <1>2, <1>3 DEF Peeled
<1>5. Peeled(path, 0) = path
  <2>1. \A i \in 1 .. Len(path) :
        [symbol |-> path[i].symbol,
         encoded |-> IF path[i].encoded <= 0 THEN 0 ELSE path[i].encoded - 0] = path[i]
    BY <1>1 DEF Toks
  <2>2. Peeled(path, 0) = [i \in 1 .. Len(path) |-> path[i]]
    BY <2>1, <1>3 DEF Peeled
  <2> QED
    BY <2>2
<1> QED
  BY <1>4, <1>5

\* One more round.
LEMMA UnquotePeels ==
  ASSUME NEW Y, NEW path \in Seq(Toks(Y)), NEW n \in Nat
  PROVE  Unquote(Peeled(path, n)) = Peeled(path, n + 1)
<1> DEFINE q == Peeled(path, n)
<1>1. DOMAIN q = DOMAIN path
  BY PeeledIsPath
<1>2. ASSUME NEW i \in DOMAIN path
      PROVE  [q[i] EXCEPT !.encoded = IF q[i].encoded = 0 THEN 0 ELSE q[i].encoded - 1]
               = Peeled(path, n + 1)[i]
  <2>1. path[i].encoded \in Nat
    <3>1. path[i] \in Toks(Y)
      OBVIOUS
    <3> QED
      BY <3>1 DEF Toks
  <2>2. q[i] = [symbol |-> path[i].symbol,
                encoded |-> IF path[i].encoded <= n THEN 0 ELSE path[i].encoded - n]
    BY DEF Peeled
  <2>3. Peeled(path, n + 1)[i] =
          [symbol |-> path[i].symbol,
           encoded |-> IF path[i].encoded <= n + 1 THEN 0 ELSE path[i].encoded - (n + 1)]
    BY DEF Peeled
  <2> HIDE DEF q
  <2>4. [q[i] EXCEPT !.encoded = IF q[i].encoded = 0 THEN 0 ELSE q[i].encoded - 1]
          = [symbol |-> path[i].symbol,
             encoded |-> IF q[i].encoded = 0 THEN 0 ELSE q[i].encoded - 1]
    BY <2>2
  <2>5. q[i].encoded = IF path[i].encoded <= n THEN 0 ELSE path[i].encoded - n
    BY <2>2
  <2>6. (IF q[i].encoded = 0 THEN 0 ELSE q[i].encoded - 1)
          = (IF path[i].encoded <= n + 1 THEN 0 ELSE path[i].encoded - (n + 1))
    BY <2>1, <2>5
  <2> QED
    BY <2>3, <2>4, <2>6
<1>3. Unquote(q) = [i \in DOMAIN path |-> Peeled(path, n + 1)[i]]
  <2> HIDE DEF q
  <2> QED
    BY <1>1, <1>2 DEF Unquote
<1>4. Peeled(path, n + 1) = [i \in DOMAIN path |-> Peeled(path, n + 1)[i]]
  BY DEF Peeled
<1> QED
  BY <1>3, <1>4

\* _decode_repeatedly takes five layers off every token.
LEMMA DecodeIsPeeled ==
  ASSUME NEW Y, NEW path \in Seq(Toks(Y))
  PROVE  DecodeRepeatedly(path) = Peeled(path, MAX_DECODE_ROUNDS)
<1> DEFINE M == MAX_DECODE_ROUNDS
           Rounds(h) == h = [n \in 0 .. M |-> IF n = 0 THEN path ELSE Unquote(h[n - 1])]
           g == [n \in 0 .. M |-> Peeled(path, n)]
           f == CHOOSE h : Rounds(h)
<1>m. M \in Nat
  BY DEF MAX_DECODE_ROUNDS
<1>1. \A n \in 0 .. M : g[n] = IF n = 0 THEN path ELSE Unquote(g[n - 1])
  <2> SUFFICES ASSUME NEW n \in 0 .. M
               PROVE  g[n] = IF n = 0 THEN path ELSE Unquote(g[n - 1])
    OBVIOUS
  <2> HIDE DEF M
  <2>1. CASE n = 0
    BY <2>1, PeeledIsPath
  <2>2. CASE n # 0
    <3>1. n - 1 \in Nat /\ n - 1 \in 0 .. M /\ (n - 1) + 1 = n
      BY <2>2, <1>m
    <3>2. g[n - 1] = Peeled(path, n - 1)
      BY <3>1
    <3>3. Unquote(Peeled(path, n - 1)) = Peeled(path, n)
      BY <3>1, UnquotePeels
    <3> QED
      BY <2>2, <3>2, <3>3
  <2> QED
    BY <2>1, <2>2
<1>2. Rounds(g)
  <2> HIDE DEF M
  <2>1. g = [n \in 0 .. M |-> g[n]]
    OBVIOUS
  <2> HIDE DEF g
  <2>2. [n \in 0 .. M |-> g[n]] = [n \in 0 .. M |-> IF n = 0 THEN path ELSE Unquote(g[n - 1])]
    BY <1>1
  <2> QED
    BY <2>1, <2>2
<1>3. Rounds(f)
  <2> HIDE DEF Rounds, g
  <2> QED
    BY <1>2
<1>4. DecodeRepeatedly(path) = f[M]
  BY DEF DecodeRepeatedly
<1> HIDE DEF f, M
<1>5. \A n \in 0 .. M : f[n] = IF n = 0 THEN path ELSE Unquote(f[n - 1])
  BY <1>3
<1> DEFINE G == {n \in 0 .. M : f[n] = Peeled(path, n)}
<1>6. 0 \in G
  BY <1>5, <1>m, PeeledIsPath
<1>7. ASSUME NEW n \in 1 .. M, n - 1 \in G PROVE n \in G
  <2>1. n - 1 \in Nat /\ (n - 1) + 1 = n /\ n \in 0 .. M /\ n # 0
    BY <1>m
  <2>2. f[n] = Unquote(f[n - 1]) /\ f[n - 1] = Peeled(path, n - 1)
    BY <1>5, <1>7, <2>1
  <2>3. Unquote(Peeled(path, n - 1)) = Peeled(path, n)
    BY <2>1, UnquotePeels
  <2> QED
    BY <2>1, <2>2, <2>3
<1>8. 0 .. M \subseteq G
  <2> HIDE DEF G
  <2> QED
    BY <1>6, <1>7, <1>m, UpToInduction
<1>9. f[M] = Peeled(path, M)
  BY <1>8, <1>m
<1> QED
  BY <1>4, <1>9 DEF M

\* A path that the rounds suffice for decodes to its plain form, which decodes
\* to itself.
LEMMA DecodableDecodes ==
  ASSUME NEW Y, NEW path \in Seq(Toks(Y)), Decodable(path)
  PROVE  /\ DecodeRepeatedly(path) = Decoded(path)
         /\ DecodeRepeatedly(Decoded(path)) = Decoded(path)
         /\ Decoded(path) \in Seq(Toks(Y)) /\ Len(Decoded(path)) = Len(path)
<1> DEFINE M == MAX_DECODE_ROUNDS
           d == Decoded(path)
<1>m. M \in Nat
  BY DEF MAX_DECODE_ROUNDS
<1>1. DecodeRepeatedly(path) = Peeled(path, M)
  BY DecodeIsPeeled
<1>2. Peeled(path, M) = d
  <2>1. \A i \in DOMAIN path : path[i].encoded <= M
    BY DEF Decodable
  <2> QED
    BY <2>1 DEF Peeled, Decoded, Token
<1>3. d \in Seq(Toks(Y)) /\ DOMAIN d = DOMAIN path /\ Len(d) = Len(path)
  BY <1>2, <1>m, PeeledIsPath
<1>4. DecodeRepeatedly(d) = Peeled(d, M)
  <2> HIDE DEF d
  <2> QED
    BY <1>3, DecodeIsPeeled
<1>5. Peeled(d, M) = d
  <2>1. \A i \in DOMAIN path : d[i] = [symbol |-> path[i].symbol, encoded |-> 0]
    BY DEF Decoded, Token
  <2> HIDE DEF d, M
  <2>2. Peeled(d, M) = [i \in DOMAIN path |-> [symbol |-> path[i].symbol, encoded |-> 0]]
    BY <2>1, <1>3, <1>m DEF Peeled
  <2>3. d = [i \in DOMAIN path |-> [symbol |-> path[i].symbol, encoded |-> 0]]
    BY DEF d, Decoded, Token
  <2> QED
    BY <2>2, <2>3
<1> QED
  BY <1>1, <1>2, <1>3, <1>4, <1>5

\* The spelling of a path does not reach its canonical form.
LEMMA PathSpelling ==
  ASSUME NEW Y, NEW path \in Seq(Toks(Y)), Decodable(path)
  PROVE  NormalizePath(Decoded(path)) = NormalizePath(path)
<1>1. path = <<>> <=> Decoded(path) = <<>>
  BY DecodableDecodes, EmptySeq
<1> QED
  BY <1>1, DecodableDecodes, Zenon DEF NormalizePath

-----------------------------------------------------------------------------
(* Normalization: sorting.                                                 *)

\* A finite set without one of its elements.
LEMMA RemoveOne ==
  ASSUME NEW U, IsFiniteSet(U), NEW x \in U, NEW n \in Nat, Cardinality(U) = n + 1
  PROVE  IsFiniteSet(U \ {x}) /\ Cardinality(U \ {x}) = n
<1>1. /\ IsFiniteSet(U \ {x})
      /\ Cardinality(U \ {x}) = IF x \in U THEN Cardinality(U) - 1 ELSE Cardinality(U)
  BY FS_RemoveElement
<1> QED
  BY <1>1

\* A finite set of integers that is not empty has a maximum.
LEMMA FiniteSetHasMax ==
  ASSUME NEW S \in SUBSET Int, IsFiniteSet(S), S # {}
  PROVE  Max(S) \in S /\ \A y \in S : y <= Max(S)
<1> DEFINE HasMax(U) == \E x \in U : \A y \in U : x >= y
           G == {n \in Nat : \A U \in SUBSET Int :
                               IsFiniteSet(U) /\ Cardinality(U) = n /\ U # {} => HasMax(U)}
<1>1. 0 \in G
  BY FS_EmptySet
<1>2. ASSUME NEW n \in Nat, n \in G PROVE n + 1 \in G
  <2> SUFFICES ASSUME NEW U \in SUBSET Int, IsFiniteSet(U), Cardinality(U) = n + 1, U # {}
               PROVE  HasMax(U)
    OBVIOUS
  <2>1. PICK x \in U : TRUE
    OBVIOUS
  <2> DEFINE V == U \ {x}
  <2>2. V \in SUBSET Int /\ IsFiniteSet(V) /\ Cardinality(V) = n
    BY <2>1, RemoveOne
  <2>3. CASE V = {}
    BY <2>1, <2>3
  <2>4. CASE V # {}
    <3>1. PICK y \in V : \A z \in V : y >= z
      BY <2>2, <2>4, <1>2
    <3>2. CASE x >= y
      BY <2>1, <3>1, <3>2
    <3>3. CASE ~ (x >= y)
      BY <2>1, <3>1, <3>3
    <3> QED
      BY <3>2, <3>3
  <2> QED
    BY <2>3, <2>4
<1>3. Nat \subseteq G
  <2> HIDE DEF G
  <2> QED
    BY <1>1, <1>2, NatSetInduction
<1>4. HasMax(S)
  BY <1>3, FS_CardinalityType
<1> QED
  BY <1>4 DEF Max

Increasing(f) == \A i, j \in DOMAIN f : i < j => f[i] < f[j]

\* It can be listed in increasing order.
LEMMA SortedExists ==
  ASSUME NEW S \in SUBSET Int, IsFiniteSet(S)
  PROVE  \E f \in [1 .. Cardinality(S) -> S] : Increasing(f)
<1> DEFINE HasOrder(U, n) == \E f \in [1 .. n -> U] : Increasing(f)
           G == {n \in Nat : \A U \in SUBSET Int :
                               IsFiniteSet(U) /\ Cardinality(U) = n => HasOrder(U, n)}
<1>1. 0 \in G
  <2> SUFFICES ASSUME NEW U \in SUBSET Int PROVE HasOrder(U, 0)
    OBVIOUS
  <2> DEFINE f == [i \in 1 .. 0 |-> 0]
  <2>1. 1 .. 0 = {}
    OBVIOUS
  <2>2. f \in [1 .. 0 -> U] /\ Increasing(f)
    BY <2>1 DEF Increasing
  <2> QED
    BY <2>2
<1>2. ASSUME NEW n \in Nat, n \in G PROVE n + 1 \in G
  <2> SUFFICES ASSUME NEW U \in SUBSET Int, IsFiniteSet(U), Cardinality(U) = n + 1
               PROVE  HasOrder(U, n + 1)
    OBVIOUS
  <2> DEFINE m == Max(U)
             V == U \ {m}
  <2>1. U # {}
    BY FS_EmptySet
  <2>2. m \in U /\ m \in Int /\ \A y \in U : y <= m
    BY <2>1, FiniteSetHasMax
  <2> HIDE DEF m
  <2>3. V \in SUBSET Int /\ IsFiniteSet(V) /\ Cardinality(V) = n
    BY <2>2, RemoveOne
  <2>4. PICK f \in [1 .. n -> V] : Increasing(f)
    BY <2>3, <1>2
  <2> DEFINE g == [i \in 1 .. n + 1 |-> IF i = n + 1 THEN m ELSE f[i]]
  <2>5. \A i \in 1 .. n : f[i] \in U /\ f[i] \in Int /\ f[i] < m
    <3> SUFFICES ASSUME NEW i \in 1 .. n PROVE f[i] \in U /\ f[i] \in Int /\ f[i] < m
      OBVIOUS
    <3>1. f[i] \in V
      BY <2>4
    <3>2. f[i] \in U /\ f[i] # m /\ f[i] \in Int
      BY <3>1
    <3> QED
      BY <3>2, <2>2
  <2>6. g \in [1 .. n + 1 -> U]
    <3>1. \A i \in 1 .. n + 1 : i # n + 1 => i \in 1 .. n
      OBVIOUS
    <3> QED
      BY <2>2, <2>5, <3>1
  <2>7. Increasing(g)
    <3> SUFFICES ASSUME NEW i \in 1 .. n + 1, NEW j \in 1 .. n + 1, i < j PROVE g[i] < g[j]
      BY DEF Increasing
    <3>1. i \in 1 .. n /\ g[i] = f[i]
      OBVIOUS
    <3>2. CASE j = n + 1
      BY <3>1, <3>2, <2>5
    <3>3. CASE j # n + 1
      <4>1. j \in 1 .. n /\ g[j] = f[j]
        BY <3>3
      <4> HIDE DEF g
      <4> QED
        BY <3>1, <4>1, <2>4 DEF Increasing
    <3> QED
      BY <3>2, <3>3
  <2> QED
    BY <2>6, <2>7
<1>3. Nat \subseteq G
  <2> HIDE DEF G
  <2> QED
    BY <1>1, <1>2, NatSetInduction
<1> QED
  BY <1>3, FS_CardinalityType

\* sorted() lists every element once.
LEMMA SortedListsAll ==
  ASSUME NEW S \in SUBSET Int, IsFiniteSet(S)
  PROVE  /\ Cardinality(S) \in Nat
         /\ Sorted(S) \in [1 .. Cardinality(S) -> S]
         /\ \A i, j \in 1 .. Cardinality(S) : i # j => Sorted(S)[i] # Sorted(S)[j]
         /\ \A x \in S : \E i \in 1 .. Cardinality(S) : Sorted(S)[i] = x
<1> DEFINE n == Cardinality(S)
           f == Sorted(S)
<1>n. n \in Nat
  BY FS_CardinalityType
<1>1. f \in [1 .. n -> S] /\ Increasing(f)
  <2>1. f = CHOOSE h \in [1 .. n -> S] : Increasing(h)
    BY DEF Sorted, Increasing
  <2> HIDE DEF f
  <2> QED
    BY <2>1, SortedExists
<1> HIDE DEF f
<1>2. \A i, j \in 1 .. n : i # j => f[i] # f[j]
  <2> SUFFICES ASSUME NEW i \in 1 .. n, NEW j \in 1 .. n, i # j, f[i] = f[j] PROVE FALSE
    OBVIOUS
  <2>1. f[i] \in Int /\ f[j] \in Int
    BY <1>1
  <2>2. i < j => f[i] < f[j]
    BY <1>1 DEF Increasing
  <2>3. j < i => f[j] < f[i]
    BY <1>1 DEF Increasing
  <2> QED
    BY <2>1, <2>2, <2>3
<1>3. f \in Injection(1 .. n, S)
  BY <1>1, <1>2 DEF Injection, IsInjective
<1>4. Cardinality(1 .. n) = n
  BY <1>n, FS_Interval
<1>5. f \in Surjection(1 .. n, S)
  <2> DEFINE D == 1 .. n
  <2>1. f \in Injection(D, S) /\ Cardinality(D) = Cardinality(S)
    BY <1>3, <1>4
  <2> HIDE DEF D
  <2>2. f \in Surjection(D, S)
    BY <2>1, FS_Injection
  <2> QED
    BY <2>2 DEF D
<1>6. \A x \in S : \E i \in 1 .. n : f[i] = x
  BY <1>5 DEF Surjection
<1> QED
  BY <1>1, <1>2, <1>6, <1>n DEF f

-----------------------------------------------------------------------------
(* Normalization: queries.                                                 *)

\* The pairs over a set of values.
Pairs(Y) == [key : Nat, value : Y]

\* The pair at a position of a query.
LEMMA PairOfQuery ==
  ASSUME NEW Y, NEW query \in Seq(Pairs(Y)), NEW i \in DOMAIN query
  PROVE  /\ DOMAIN query = 1 .. Len(query) /\ Len(query) \in Nat
         /\ query[i] \in Pairs(Y) /\ query[i].key \in Nat
<1>1. query[i] \in Pairs(Y)
  OBVIOUS
<1>2. query[i].key \in Nat
  BY <1>1 DEF Pairs
<1> QED
  BY <1>1, <1>2

\* The keys of a query can be sorted.
LEMMA KeysAreFinite ==
  ASSUME NEW Y, NEW query \in Seq(Pairs(Y))
  PROVE  KeysOf(query) \in SUBSET Int /\ IsFiniteSet(KeysOf(query))
<1> DEFINE D == 1 .. Len(query)
           S == KeysOf(query)
           f == [i \in D |-> query[i].key]
<1>1. \A i \in D : query[i].key \in Nat
  BY PairOfQuery
<1>2. S = {query[i].key : i \in D}
  BY DEF KeysOf
<1>3. f \in Surjection(D, S)
  <2>1. f \in [D -> S]
    BY <1>2
  <2>2. \A x \in S : \E i \in D : f[i] = x
    BY <1>2
  <2> QED
    BY <2>1, <2>2 DEF Surjection
<1>4. IsFiniteSet(D)
  BY FS_Interval
<1>5. IsFiniteSet(S)
  <2> HIDE DEF D, S, f
  <2> QED
    BY <1>3, <1>4, FS_Surjection
<1>6. S \in SUBSET Int
  BY <1>1, <1>2
<1> QED
  BY <1>5, <1>6

\* The positions of a key, and the last of them.
Places(query, k) == {i \in DOMAIN query : query[i].key = k}

\* dict assignment: the pair that stays is at the last place of its key.
LEMMA LastPlace ==
  ASSUME NEW Y, NEW query \in Seq(Pairs(Y)), NEW k \in KeysOf(query)
  PROVE  /\ Max(Places(query, k)) \in DOMAIN query
         /\ query[Max(Places(query, k))].key = k
         /\ \A i \in DOMAIN query : query[i].key = k => i <= Max(Places(query, k))
         /\ LastOccurrence(query, k)
              = [query[Max(Places(query, k))] EXCEPT !.value = IF @ = "none" THEN "" ELSE @]
<1> DEFINE P == Places(query, k)
<1>1. P # {} /\ P \subseteq 1 .. Len(query) /\ P \in SUBSET Int
  BY DEF Places, KeysOf
<1>2. IsFiniteSet(P)
  <2>1. IsFiniteSet(1 .. Len(query))
    BY FS_Interval
  <2> HIDE DEF P
  <2> QED
    BY <2>1, <1>1, FS_Subset
<1>3. Max(P) \in P /\ \A i \in P : i <= Max(P)
  <2> HIDE DEF P
  <2> QED
    BY <1>1, <1>2, FiniteSetHasMax
<1>4. LastOccurrence(query, k) = [query[Max(P)] EXCEPT !.value = IF @ = "none" THEN "" ELSE @]
  BY DEF LastOccurrence, Places
<1> HIDE DEF P
<1>5. /\ Max(P) \in DOMAIN query /\ query[Max(P)].key = k
      /\ \A i \in DOMAIN query : query[i].key = k => i <= Max(P)
  <2>1. P = {i \in DOMAIN query : query[i].key = k}
    BY DEF P, Places
  <2> QED
    BY <2>1, <1>3
<1> QED
  BY <1>4, <1>5 DEF P

\* A key that occurs once is found where it occurs.
LEMMA OnlyPlace ==
  ASSUME NEW Y, NEW query \in Seq(Pairs(Y)), NEW m \in DOMAIN query,
         \A i \in DOMAIN query : query[i].key = query[m].key => i = m
  PROVE  LastOccurrence(query, query[m].key)
           = [query[m] EXCEPT !.value = IF @ = "none" THEN "" ELSE @]
<1> DEFINE k == query[m].key
<1>1. k \in KeysOf(query)
  BY DEF KeysOf
<1> HIDE DEF k
<1>2. /\ Max(Places(query, k)) \in DOMAIN query
      /\ query[Max(Places(query, k))].key = k
  BY <1>1, LastPlace
<1>3. Max(Places(query, k)) = m
  BY <1>2 DEF k
<1>4. LastOccurrence(query, k)
        = [query[Max(Places(query, k))] EXCEPT !.value = IF @ = "none" THEN "" ELSE @]
  BY <1>1, LastPlace
<1> QED
  BY <1>3, <1>4 DEF k

\* The places that Undisputed keeps.
LastPlaces(query) ==
  {i \in DOMAIN query : \A j \in DOMAIN query : j > i => query[j].key # query[i].key}

\* Undisputed keeps the last occurrence of every key, in order.
LEMMA UndisputedKeepsLast ==
  ASSUME NEW Y, NEW query \in Seq(Pairs(Y))
  PROVE  LET q == Undisputed(query)
         IN /\ q \in Seq(Pairs(Y))
            /\ KeysOf(q) = KeysOf(query)
            /\ \A k \in KeysOf(query) : LastOccurrence(q, k) = LastOccurrence(query, k)
<1> DEFINE L == LastPlaces(query)
           n == Cardinality(L)
           order == Sorted(L)
           q == Undisputed(query)
<1>1. L \in SUBSET Int /\ IsFiniteSet(L)
  <2>1. IsFiniteSet(1 .. Len(query)) /\ L \subseteq 1 .. Len(query)
    BY FS_Interval DEF LastPlaces
  <2> HIDE DEF L
  <2>2. L \in SUBSET Int
    BY <2>1
  <2>3. IsFiniteSet(L)
    BY <2>1, FS_Subset
  <2> QED
    BY <2>2, <2>3
<1>2. /\ n \in Nat /\ order \in [1 .. n -> L]
      /\ \A i, j \in 1 .. n : i # j => order[i] # order[j]
      /\ \A x \in L : \E i \in 1 .. n : order[i] = x
  <2> HIDE DEF L
  <2> QED
    BY <1>1, SortedListsAll
<1>3. q = [i \in 1 .. n |-> query[order[i]]]
  <2>1. q = [i \in DOMAIN order |-> query[order[i]]]
    BY DEF Undisputed, LastPlaces
  <2> HIDE DEF q, order, n
  <2> QED
    BY <2>1, <1>2
<1> HIDE DEF n, order, q
<1>4. \A i \in 1 .. n : order[i] \in L /\ order[i] \in DOMAIN query /\ query[order[i]] \in Pairs(Y)
  <2> SUFFICES ASSUME NEW i \in 1 .. n
               PROVE  order[i] \in L /\ order[i] \in DOMAIN query /\ query[order[i]] \in Pairs(Y)
    OBVIOUS
  <2>1. order[i] \in L
    BY <1>2
  <2>2. order[i] \in DOMAIN query
    BY <2>1 DEF LastPlaces
  <2> QED
    BY <2>1, <2>2, PairOfQuery
<1>5. q \in Seq(Pairs(Y)) /\ DOMAIN q = 1 .. n /\ \A i \in 1 .. n : q[i] = query[order[i]]
  BY <1>2, <1>3, <1>4
<1>6. ASSUME NEW i \in L, NEW j \in L, query[i].key = query[j].key
      PROVE  i = j
  <2>1. i \in Int /\ j \in Int /\ i \in DOMAIN query /\ j \in DOMAIN query
    BY <1>1 DEF LastPlaces
  <2>2. ~ (i < j) /\ ~ (j < i)
    BY <1>6, <2>1 DEF LastPlaces
  <2> QED
    BY <2>1, <2>2
<1>7. ASSUME NEW k \in KeysOf(query)
      PROVE  \E i \in 1 .. n : order[i] = Max(Places(query, k))
  <2> DEFINE m == Max(Places(query, k))
  <2>1. m \in DOMAIN query /\ query[m].key = k
        /\ \A i \in DOMAIN query : query[i].key = k => i <= m
    BY LastPlace
  <2> HIDE DEF m
  <2>2. m \in L
    BY <2>1 DEF LastPlaces
  <2> HIDE DEF L
  <2> QED
    BY <2>2, <1>2 DEF m
<1>8. KeysOf(q) = KeysOf(query)
  <2>1. ASSUME NEW k \in KeysOf(q) PROVE k \in KeysOf(query)
    <3>1. PICK i \in 1 .. n : k = q[i].key
      BY <1>5 DEF KeysOf
    <3> QED
      BY <3>1, <1>4, <1>5 DEF KeysOf
  <2>2. ASSUME NEW k \in KeysOf(query) PROVE k \in KeysOf(q)
    <3>1. PICK i \in 1 .. n : order[i] = Max(Places(query, k))
      BY <1>7
    <3>2. q[i] = query[order[i]] /\ query[Max(Places(query, k))].key = k
      BY <1>5, LastPlace
    <3>3. q[i].key = k
      BY <3>1, <3>2
    <3> QED
      BY <3>3, <1>5 DEF KeysOf
  <2> QED
    BY <2>1, <2>2
<1>9. ASSUME NEW k \in KeysOf(query)
      PROVE  LastOccurrence(q, k) = LastOccurrence(query, k)
  <2>1. PICK i \in 1 .. n : order[i] = Max(Places(query, k))
    BY <1>7
  <2>2. /\ i \in DOMAIN q /\ q[i] = query[Max(Places(query, k))] /\ q[i].key = k
    <3>1. i \in DOMAIN q /\ q[i] = query[order[i]] /\ query[Max(Places(query, k))].key = k
      BY <1>5, LastPlace
    <3> QED
      BY <2>1, <3>1
  <2>3. ASSUME NEW j \in DOMAIN q, q[j].key = q[i].key PROVE j = i
    <3>1. j \in 1 .. n /\ order[j] \in L /\ order[i] \in L
      BY <1>4, <1>5
    <3>2. query[order[j]].key = query[order[i]].key
      BY <2>3, <3>1, <1>5
    <3>3. order[j] = order[i]
      BY <3>1, <3>2, <1>6
    <3> QED
      BY <3>1, <3>3, <1>2
  <2>4. LastOccurrence(q, q[i].key) = [q[i] EXCEPT !.value = IF @ = "none" THEN "" ELSE @]
    BY <1>5, <2>2, <2>3, OnlyPlace
  <2>5. LastOccurrence(query, k)
          = [query[Max(Places(query, k))] EXCEPT !.value = IF @ = "none" THEN "" ELSE @]
    BY LastPlace
  <2> QED
    BY <2>2, <2>4, <2>5
<1> QED
  BY <1>5, <1>8, <1>9 DEF q

\* Earlier values of a key do not reach the canonical query.
LEMMA QuerySpelling ==
  ASSUME NEW Y, NEW query \in Seq(Pairs(Y))
  PROVE  NormalizeQuery(Undisputed(query)) = NormalizeQuery(query)
<1> DEFINE q == Undisputed(query)
           keys == Sorted(KeysOf(query))
           n == Cardinality(KeysOf(query))
<1>1. /\ KeysOf(q) = KeysOf(query)
      /\ \A k \in KeysOf(query) : LastOccurrence(q, k) = LastOccurrence(query, k)
  BY UndisputedKeepsLast
<1>2. keys \in [1 .. n -> KeysOf(query)]
  BY KeysAreFinite, SortedListsAll
<1>3. NormalizeQuery(query) = [i \in DOMAIN keys |-> LastOccurrence(query, keys[i])]
  BY DEF NormalizeQuery
<1>4. NormalizeQuery(q) = [i \in DOMAIN keys |-> LastOccurrence(q, keys[i])]
  <2> HIDE DEF q
  <2> QED
    BY <1>1 DEF NormalizeQuery
<1> HIDE DEF q, keys, n
<1>5. \A i \in DOMAIN keys : LastOccurrence(q, keys[i]) = LastOccurrence(query, keys[i])
  BY <1>1, <1>2
<1>6. NormalizeQuery(q) = NormalizeQuery(query)
  BY <1>3, <1>4, <1>5
<1> QED
  BY <1>6 DEF q

-----------------------------------------------------------------------------
(* Normalization: the spelling does not matter.                            *)

\* A record of a URL's parts.
UrlParts(u) ==
  u = [scheme |-> u.scheme, host |-> u.host, port |-> u.port, userinfo |-> u.userinfo,
       path |-> u.path, query |-> u.query]

\* The canonical form of a URL, part by part.
LEMMA NormalizeUrlParts ==
  ASSUME NEW u, UrlParts(u)
  PROVE  NormalizeUrl(u) =
           [scheme |-> u.scheme, host |-> NormalizeHost(u.host),
            port |-> FoldPort(u.scheme, u.port), userinfo |-> FALSE,
            path |-> NormalizePath(u.path), query |-> NormalizeQuery(u.query)]
<1> DEFINE h == NormalizeHost(u.host)
           n == FoldPort(u.scheme, u.port)
           p == NormalizePath(u.path)
           q == NormalizeQuery(u.query)
<1>1. NormalizeUrl(u) = [u EXCEPT !.userinfo = FALSE, !.host = h, !.port = n, !.path = p, !.query = q]
  <2> DEFINE s == u.scheme
             uh == u.host
             up == u.port
             uu == u.userinfo
             ut == u.path
             uq == u.query
  <2>1. u = [scheme |-> s, host |-> uh, port |-> up, userinfo |-> uu, path |-> ut, query |-> uq]
    BY DEF UrlParts
  <2> QED
    BY <2>1 DEF NormalizeUrl
<1> HIDE DEF h, n, p, q
<1>2. NormalizeUrl(u) = [scheme |-> u.scheme, host |-> h, port |-> n, userinfo |-> FALSE,
                         path |-> p, query |-> q]
  BY <1>1 DEF UrlParts
<1> QED
  BY <1>2 DEF h, n, p, q

\* The plainest spelling of a URL, part by part; it is a URL.
LEMMA PlainUrlParts ==
  ASSUME NEW u \in UrlRecord, Decodable(u.path)
  PROVE  /\ PlainUrl(u) =
              [scheme |-> u.scheme, host |-> NormalizeHost(u.host),
               port |-> IF u.port = NoPort THEN DefaultPort[u.scheme] ELSE u.port,
               userinfo |-> FALSE, path |-> Decoded(u.path), query |-> Undisputed(u.query)]
         /\ PlainUrl(u) \in UrlRecord
<1>1. /\ u.path \in Seq(Toks(STRING)) /\ u.query \in Seq(Pairs(STRING))
      /\ u.host \in HostRecord
      /\ u.scheme \in DOMAIN DefaultPort /\ u.port \in Nat
  BY DEF UrlRecord, HostRecord, Toks, Pairs
<1>2. PlainUrl(u) =
        [scheme |-> u.scheme, host |-> NormalizeHost(u.host),
         port |-> IF u.port = NoPort THEN DefaultPort[u.scheme] ELSE u.port,
         userinfo |-> FALSE, path |-> Decoded(u.path), query |-> Undisputed(u.query)]
  <2>1. u = [scheme |-> u.scheme, host |-> u.host, port |-> u.port, userinfo |-> u.userinfo,
             path |-> u.path, query |-> u.query]
    BY DEF UrlRecord
  <2> DEFINE n == IF u.port = NoPort THEN DefaultPort[u.scheme] ELSE u.port
             p == Decoded(u.path)
             q == Undisputed(u.query)
             h == NormalizeHost(u.host)
  <2>2. PlainUrl(u) = [u EXCEPT !.userinfo = FALSE, !.host = h, !.port = n, !.path = p, !.query = q]
    BY <2>1 DEF PlainUrl
  <2> HIDE DEF n, p, q, h
  <2>3. PlainUrl(u) = [scheme |-> u.scheme, host |-> h, port |-> n, userinfo |-> FALSE,
                       path |-> p, query |-> q]
    BY <2>1, <2>2
  <2> QED
    BY <2>3 DEF n, p, q, h
<1>3. Decoded(u.path) \in Seq(Toks(STRING))
  BY <1>1, DecodableDecodes
<1>4. Undisputed(u.query) \in Seq(Pairs(STRING))
  BY <1>1, UndisputedKeepsLast
<1>5. NormalizeHost(u.host) \in HostRecord
  BY <1>1, HostIsStable
<1>6. DefaultPort[u.scheme] \in Nat
  BY <1>1 DEF DefaultPort, NoPort
<1> QED
  BY <1>1, <1>2, <1>3, <1>4, <1>5, <1>6 DEF UrlRecord, HostRecord, Toks, Pairs

\* A URL and its plainest spelling have one canonical form.
LEMMA UrlSpelling ==
  ASSUME NEW u \in UrlRecord, Decodable(u.path)
  PROVE  NormalizeUrl(PlainUrl(u)) = NormalizeUrl(u)
<1> DEFINE v == PlainUrl(u)
<1>1. u.path \in Seq(Toks(STRING)) /\ u.query \in Seq(Pairs(STRING))
      /\ u.host \in HostRecord
  BY DEF UrlRecord, HostRecord, Toks, Pairs
<1>2. /\ v \in UrlRecord /\ v.scheme = u.scheme /\ v.host = NormalizeHost(u.host)
      /\ v.port = IF u.port = NoPort THEN DefaultPort[u.scheme] ELSE u.port
      /\ v.path = Decoded(u.path) /\ v.query = Undisputed(u.query)
  BY PlainUrlParts
<1> HIDE DEF v
<1>3. NormalizeHost(v.host) = NormalizeHost(u.host)
  BY <1>1, <1>2, HostIsStable
<1>4. FoldPort(v.scheme, v.port) = FoldPort(u.scheme, u.port)
  BY <1>2 DEF FoldPort
<1>5. NormalizePath(v.path) = NormalizePath(u.path)
  BY <1>1, <1>2, PathSpelling
<1>6. NormalizeQuery(v.query) = NormalizeQuery(u.query)
  BY <1>1, <1>2, QuerySpelling
<1>7. UrlParts(u) /\ UrlParts(v)
  BY <1>2 DEF UrlParts, UrlRecord
<1>8. NormalizeUrl(v) = NormalizeUrl(u)
  BY <1>2, <1>3, <1>4, <1>5, <1>6, <1>7, NormalizeUrlParts
<1> QED
  BY <1>8 DEF v

\* So have the requests, whatever the tool.
LEMMA RequestSpelling ==
  ASSUME NEW r \in Requests, Decodable(r.url.path)
  PROVE  NormalizeArguments(Plain(r)) = NormalizeArguments(r)
<1>1. /\ r \in [tool : STRING, url : UrlRecord, text : Seq([kind : STRING, digits : Seq(0 .. 9)])]
      /\ r.url \in UrlRecord
  BY RequestsAssumption
<1>2. CASE r.tool \in HttpTools
  <2>1. Plain(r) = [r EXCEPT !.url = PlainUrl(r.url)]
    BY <1>2, Zenon DEF Plain, HttpTools
  <2>2. Plain(r).tool = r.tool /\ Plain(r).url = PlainUrl(r.url)
    BY <1>1, <2>1
  <2>3. NormalizeArguments(Plain(r)) = [Plain(r) EXCEPT !.url = NormalizeUrl(Plain(r).url)]
    BY <1>2, <2>2, Zenon DEF NormalizeArguments, HttpTools
  <2>4. NormalizeArguments(r) = [r EXCEPT !.url = NormalizeUrl(r.url)]
    BY <1>2, Zenon DEF NormalizeArguments, HttpTools
  <2>5. NormalizeUrl(PlainUrl(r.url)) = NormalizeUrl(r.url)
    BY <1>1, UrlSpelling
  <2> QED
    BY <1>1, <2>1, <2>2, <2>3, <2>4, <2>5
<1>3. CASE r.tool = "file.read"
  <2>0. r.tool \notin HttpTools
    BY <1>3 DEF HttpTools
  <2> DEFINE p == r.url.path
  <2>1. p \in Seq(Toks(STRING))
    BY <1>1 DEF UrlRecord, Toks
  <2>2. Plain(r) = [r EXCEPT !.url.path = Decoded(p)]
    BY <1>3, <2>0, Zenon DEF Plain
  <2>3. Plain(r).tool = r.tool /\ Plain(r).url = [r.url EXCEPT !.path = Decoded(p)]
    BY <1>1, <2>2
  <2>4. Plain(r).url.path = Decoded(p)
    BY <1>1, <2>3 DEF UrlRecord
  <2>5. NormalizeArguments(Plain(r)) = [Plain(r) EXCEPT !.url.path = NormalizePath(Decoded(p))]
    BY <1>3, <2>0, <2>3, <2>4, Zenon DEF NormalizeArguments, HttpTools
  <2>6. NormalizeArguments(r) = [r EXCEPT !.url.path = NormalizePath(p)]
    BY <1>3, <2>0, Zenon DEF NormalizeArguments, HttpTools
  <2>7. NormalizePath(Decoded(p)) = NormalizePath(p)
    BY <2>1, PathSpelling
  <2> DEFINE u == r.url
             a == Decoded(p)
             b == NormalizePath(p)
  <2>8. /\ r = [tool |-> r.tool, url |-> u, text |-> r.text]
        /\ u = [scheme |-> u.scheme, host |-> u.host, port |-> u.port,
                userinfo |-> u.userinfo, path |-> u.path, query |-> u.query]
    BY <1>1 DEF UrlRecord
  <2>9. /\ Plain(r) = [r EXCEPT !.url.path = a]
        /\ NormalizeArguments(Plain(r)) = [Plain(r) EXCEPT !.url.path = b]
        /\ NormalizeArguments(r) = [r EXCEPT !.url.path = b]
    BY <2>2, <2>5, <2>6, <2>7
  <2> HIDE DEF p, u, a, b
  <2> DEFINE Full(x) == [tool |-> r.tool,
                         url |-> [scheme |-> u.scheme, host |-> u.host, port |-> u.port,
                                  userinfo |-> u.userinfo, path |-> x, query |-> u.query],
                         text |-> r.text]
  <2>10. Plain(r) = Full(a)
    BY <2>8, <2>9
  <2>11. NormalizeArguments(Plain(r)) = Full(b)
    <3>1. [Full(a) EXCEPT !.url.path = b] = Full(b)
      OBVIOUS
    <3>2. NormalizeArguments(Plain(r)) = [Plain(r) EXCEPT !.url.path = b]
      BY <2>9
    <3> HIDE DEF Full
    <3>3. [Plain(r) EXCEPT !.url.path = b] = [Full(a) EXCEPT !.url.path = b]
      BY <2>10, Zenon
    <3> QED
      BY <3>1, <3>2, <3>3, Zenon
  <2>12. NormalizeArguments(r) = Full(b)
    BY <2>8, <2>9
  <2> QED
    BY <2>11, <2>12
<1>4. CASE r.tool \notin HttpTools /\ r.tool # "file.read"
  <2>1. Plain(r) = r
    BY <1>4, Zenon DEF Plain
  <2> QED
    BY <2>1
<1> QED
  BY <1>2, <1>3, <1>4

\* normalize.py: for every request whose path is encoded at most five times,
\* what the stages after normalization judge is what they would for its
\* plainest spelling.
THEOREM SpellingIsIrrelevantHolds == Spec => []SpellingIsIrrelevant
<1>1. IInv => SpellingIsIrrelevant
  BY RequestSpelling DEF IInv, SpellingIsIrrelevant
<1> QED
  BY <1>1, InspectionInvariant, PTL

-----------------------------------------------------------------------------
(* Normalization: splitting, collapsing and joining.                       *)

\* The symbols of the normalization are known apart.
LEMMA SlashIsSlash ==
  Slash # Parent /\ Slash # Question /\ Slash.encoded = 0
<1>1. Slash.symbol = "/" /\ Parent.symbol = ".." /\ Question.symbol = "?" /\ Slash.encoded = 0
  BY DEF Slash, Parent, Question, Token
<1> QED
  BY <1>1, Zenon

\* A sequence that is not empty is its front and its last element.
LEMMA FrontAndLast ==
  ASSUME NEW Z, NEW s \in Seq(Z), s # <<>>
  PROVE  /\ Front(s) \in Seq(Z) /\ Last(s) \in Z /\ s = Append(Front(s), Last(s))
         /\ Len(s) \in Nat /\ Len(Front(s)) = Len(s) - 1
         /\ \A i \in 1 .. Len(s) - 1 : Front(s)[i] = s[i]
<1> DEFINE n == Len(s)
           front == SubSeq(s, 1, n - 1)
<1>1. n \in Nat /\ n # 0 /\ s[n] \in Z
  OBVIOUS
<1>2. front \in Seq(Z) /\ Len(front) = n - 1 /\ \A i \in 1 .. n - 1 : front[i] = s[i]
  <2> DEFINE m == n - 1
  <2>1. m \in Nat /\ \A i \in 1 .. m : s[i] \in Z
    BY <1>1
  <2>2. SubSeq(s, 1, m) \in Seq(Z) /\ Len(SubSeq(s, 1, m)) = m
        /\ \A i \in 1 .. m : SubSeq(s, 1, m)[i] = s[i]
    <3> HIDE DEF m
    <3> QED
      BY <2>1, SubSeqProperties
  <2> QED
    BY <2>2
<1>3. s = Append(front, s[n])
  BY <1>1, <1>2
<1> HIDE DEF front
<1> QED
  BY <1>1, <1>2, <1>3 DEF Front, Last, front

\* Changing the last element.
LEMMA ReplaceLast ==
  ASSUME NEW Z, NEW s \in Seq(Z), s # <<>>, NEW new \in Z
  PROVE  [s EXCEPT ![Len(s)] = new] = Append(Front(s), new)
<1> DEFINE n == Len(s)
           a == [s EXCEPT ![n] = new]
           b == Append(Front(s), new)
<1>1. n \in Nat /\ n # 0
  OBVIOUS
<1>2. /\ Front(s) \in Seq(Z) /\ Len(Front(s)) = n - 1
      /\ \A i \in 1 .. n - 1 : Front(s)[i] = s[i]
  BY FrontAndLast
<1>3. a \in Seq(Z) /\ Len(a) = n /\ \A i \in 1 .. n : a[i] = IF i = n THEN new ELSE s[i]
  BY <1>1
<1>4. b \in Seq(Z) /\ Len(b) = n /\ \A i \in 1 .. n : b[i] = IF i = n THEN new ELSE s[i]
  BY <1>1, <1>2
<1> HIDE DEF a, b
<1>5. a = b
  BY <1>3, <1>4, SeqEqual
<1> QED
  BY <1>5 DEF a, b

\* AddToken, on what it is called with.
LEMMA AddTokenCases ==
  ASSUME NEW V, NEW segs \in Seq(Seq(V)), segs # <<>>, NEW t
  PROVE  /\ t = Slash => AddToken(segs, t) = Append(segs, <<>>)
         /\ t # Slash /\ t \in V => AddToken(segs, t) = Append(Front(segs), Append(Last(segs), t))
         /\ t = Slash \/ t \in V => AddToken(segs, t) \in Seq(Seq(V)) \ {<<>>}
<1> DEFINE Z == Seq(V)
           last == Last(segs)
           new == Append(last, t)
<1>1. segs \in Seq(Z) /\ <<>> \in Z /\ \A s \in Z, u \in V : Append(s, u) \in Z
  OBVIOUS
<1> HIDE DEF Z
<1>2. Front(segs) \in Seq(Z) /\ last \in Z
  BY <1>1, FrontAndLast
<1> HIDE DEF last
<1>3. \A s \in Seq(Z), z \in Z : Append(s, z) \in Seq(Z) /\ Append(s, z) # <<>>
  BY AppendProperties
<1>4. ASSUME t = Slash
      PROVE  AddToken(segs, t) = Append(segs, <<>>) /\ AddToken(segs, t) \in Seq(Z) \ {<<>>}
  <2>1. AddToken(segs, t) = Append(segs, <<>>)
    BY <1>4 DEF AddToken
  <2> QED
    BY <1>1, <1>3, <2>1
<1>5. ASSUME t # Slash, t \in V
      PROVE  /\ AddToken(segs, t) = Append(Front(segs), new)
             /\ AddToken(segs, t) \in Seq(Z) \ {<<>>}
  <2>1. segs[Len(segs)] = last
    BY DEF Last, last
  <2>2. AddToken(segs, t) = [segs EXCEPT ![Len(segs)] = new]
    BY <1>5, <2>1 DEF AddToken
  <2>3. new \in Z
    BY <1>1, <1>2, <1>5
  <2> HIDE DEF new
  <2>4. AddToken(segs, t) = Append(Front(segs), new)
    BY <1>1, <2>2, <2>3, ReplaceLast
  <2> QED
    BY <1>2, <1>3, <2>3, <2>4
<1> QED
  BY <1>4, <1>5 DEF Z, last, new

\* str.split, one character more.
LEMMA SegmentsUnfold ==
  ASSUME NEW V
  PROVE  /\ Segments(<<>>) = << <<>> >>
         /\ \A path \in Seq(V) : Segments(path) \in Seq(Seq(V \ {Slash})) \ {<<>>}
         /\ \A path \in Seq(V), t \in V :
              Segments(Append(path, t)) = AddToken(Segments(path), t)
<1> DEFINE A == Seq(Seq(V \ {Slash})) \ {<<>>}
           base == << <<>> >>
           step == [x \in A \X V |-> AddToken(x[1], x[2])]
<1>1. base \in A
  OBVIOUS
<1>2. step \in Steps(A, V)
  <2>1. \A x \in A \X V : AddToken(x[1], x[2]) \in A
    <3> SUFFICES ASSUME NEW segs \in A, NEW t \in V PROVE AddToken(segs, t) \in A
      OBVIOUS
    <3>1. t = Slash \/ t \in V \ {Slash}
      OBVIOUS
    <3> DEFINE W == V \ {Slash}
    <3>2. segs \in Seq(Seq(W)) /\ segs # <<>> /\ (t = Slash \/ t \in W)
      BY <3>1
    <3> HIDE DEF W
    <3>3. AddToken(segs, t) \in Seq(Seq(W)) \ {<<>>}
      BY <3>2, AddTokenCases
    <3> QED
      BY <3>3 DEF W
  <2> HIDE DEF A
  <2> QED
    BY <2>1 DEF Steps
<1>3. ASSUME NEW path \in Seq(V) PROVE Segments(path) = Loop(base, step, path)
  <2> DEFINE N == Len(path)
             Is(h) == h = [n \in 0 .. N |-> IF n = 0 THEN base ELSE AddToken(h[n - 1], path[n])]
             f == CHOOSE h : Is(h)
  <2>n. N \in Nat /\ N \in 0 .. N /\ 0 \in 0 .. N /\ \A n \in 1 .. N : path[n] \in V
    OBVIOUS
  <2>0. \A x \in A, t \in V : step[<<x, t>>] = AddToken(x, t)
    <3> HIDE DEF A
    <3> QED
      OBVIOUS
  <2>1. Segments(path) = f[N]
    BY DEF Segments
  <2> HIDE DEF A, base, step
  <2>2. PICK g \in [0 .. N -> A] : LoopSteps(g, base, step, path)
    BY <1>1, <1>2, LoopValues
  <2>3. g[0] = base /\ \A n \in 1 .. N : g[n] = AddToken(g[n - 1], path[n])
    <3>1. \A n \in 1 .. N : n - 1 \in 0 .. N /\ g[n - 1] \in A
      BY <2>n
    <3> QED
      BY <2>0, <2>2, <2>n, <3>1 DEF LoopSteps
  <2>4. Is(g)
    BY <2>3
  <2>5. Is(f)
    <3> HIDE DEF Is
    <3> QED
      BY <2>4
  <2> HIDE DEF f
  <2>6. f[0] = base /\ \A n \in 1 .. N : f[n] = AddToken(f[n - 1], path[n])
    BY <2>5, <2>n
  <2> DEFINE v == f[N]
  <2>7. StepsTo(v, f, A, base, step, path)
    BY <2>0, <2>6, <2>n DEF StepsTo
  <2> HIDE DEF v
  <2>8. v = Loop(base, step, path)
    BY <1>1, <1>2, <2>7, LoopIsIt
  <2> QED
    BY <2>1, <2>8 DEF v
<1> HIDE DEF A, base
<1>4. /\ Loop(base, step, <<>>) = base
      /\ \A s \in Seq(V) : Loop(base, step, s) \in A
      /\ \A s \in Seq(V), t \in V :
           Loop(base, step, Append(s, t)) = step[<<Loop(base, step, s), t>>]
  <2> HIDE DEF step
  <2> QED
    BY <1>1, <1>2, LoopUnfolds
<1>5. \A s \in Seq(V), t \in V : step[<<Loop(base, step, s), t>>] = AddToken(Loop(base, step, s), t)
  BY <1>4
<1> HIDE DEF step
<1>6. <<>> \in Seq(V) /\ \A s \in Seq(V), t \in V : Append(s, t) \in Seq(V)
  OBVIOUS
<1>7. Segments(<<>>) = base
  BY <1>3, <1>4, <1>6
<1>8. \A path \in Seq(V) : Segments(path) \in A
  BY <1>3, <1>4
<1>9. \A path \in Seq(V), t \in V : Segments(Append(path, t)) = AddToken(Segments(path), t)
  <2> SUFFICES ASSUME NEW path \in Seq(V), NEW t \in V
               PROVE  Segments(Append(path, t)) = AddToken(Segments(path), t)
    OBVIOUS
  <2>1. Segments(Append(path, t)) = Loop(base, step, Append(path, t))
    BY <1>3, <1>6
  <2>2. Loop(base, step, Append(path, t)) = AddToken(Loop(base, step, path), t)
    BY <1>4, <1>5
  <2>3. Loop(base, step, path) = Segments(path)
    BY <1>3
  <2> QED
    BY <2>1, <2>2, <2>3, Zenon
<1> QED
  BY <1>7, <1>8, <1>9 DEF A, base

\* The segments that stay on normpath's stack.
Clean(V) == Seq(V) \ {<<>>, <<Parent>>}

\* AddSegment, case by case.
LEMMA AddSegmentCases ==
  ASSUME NEW V, NEW stack \in Seq(Clean(V)), NEW s \in Seq(V)
  PROVE  /\ s = <<>> => AddSegment(stack, s) = stack
         /\ s = <<Parent>> /\ stack = <<>> => AddSegment(stack, s) = stack
         /\ s = <<Parent>> /\ stack # <<>> => AddSegment(stack, s) = Front(stack)
         /\ s # <<>> /\ s # <<Parent>> => AddSegment(stack, s) = Append(stack, s)
         /\ AddSegment(stack, s) \in Seq(Clean(V))
<1>0. <<>> # <<Parent>>
  OBVIOUS
<1> DEFINE C == Clean(V)
<1>1. ASSUME s = <<>> PROVE AddSegment(stack, s) = stack
  BY <1>0, <1>1, Zenon DEF AddSegment
<1>2. ASSUME s = <<Parent>>, stack = <<>> PROVE AddSegment(stack, s) = stack
  BY <1>0, <1>2, Zenon DEF AddSegment
<1>3. ASSUME s = <<Parent>>, stack # <<>> PROVE AddSegment(stack, s) = Front(stack)
  BY <1>0, <1>3, Zenon DEF AddSegment
<1>4. ASSUME s # <<>>, s # <<Parent>> PROVE AddSegment(stack, s) = Append(stack, s)
  BY <1>4, Zenon DEF AddSegment
<1>5. s # <<>> /\ s # <<Parent>> => s \in C
  BY DEF Clean
<1>6. stack \in Seq(C)
  OBVIOUS
<1> HIDE DEF C
<1>7. stack # <<>> => Front(stack) \in Seq(C)
  BY <1>6, FrontAndLast
<1>8. s \in C => Append(stack, s) \in Seq(C)
  BY <1>6, AppendProperties
<1>9. AddSegment(stack, s) \in Seq(C)
  BY <1>1, <1>2, <1>3, <1>4, <1>5, <1>6, <1>7, <1>8
<1> QED
  BY <1>1, <1>2, <1>3, <1>4, <1>9 DEF C

\* posixpath.normpath, one segment more.
LEMMA CollapseUnfold ==
  ASSUME NEW V
  PROVE  /\ Collapse(<<>>) = <<>>
         /\ \A segs \in Seq(Seq(V)) : Collapse(segs) \in Seq(Clean(V))
         /\ \A segs \in Seq(Seq(V)), t \in Seq(V) :
              Collapse(Append(segs, t)) = AddSegment(Collapse(segs), t)
<1> DEFINE A == Seq(Clean(V))
           T == Seq(V)
           base == <<>>
           step == [x \in A \X T |-> AddSegment(x[1], x[2])]
<1>1. base \in A
  OBVIOUS
<1>2. step \in Steps(A, T)
  <2>1. \A x \in A \X T : AddSegment(x[1], x[2]) \in A
    <3> SUFFICES ASSUME NEW stack \in A, NEW s \in T PROVE AddSegment(stack, s) \in A
      OBVIOUS
    <3> QED
      BY AddSegmentCases
  <2> HIDE DEF A, T
  <2> QED
    BY <2>1 DEF Steps
<1> HIDE DEF T
<1>3. ASSUME NEW segs \in Seq(T) PROVE Collapse(segs) = Loop(base, step, segs)
  <2> DEFINE N == Len(segs)
             Is(h) == h = [n \in 0 .. N |-> IF n = 0 THEN base ELSE AddSegment(h[n - 1], segs[n])]
             f == CHOOSE h : Is(h)
  <2>n. N \in Nat /\ N \in 0 .. N /\ 0 \in 0 .. N /\ \A n \in 1 .. N : segs[n] \in T
    OBVIOUS
  <2>0. \A x \in A, t \in T : step[<<x, t>>] = AddSegment(x, t)
    <3> HIDE DEF A
    <3> QED
      OBVIOUS
  <2>1. Collapse(segs) = f[N]
    BY DEF Collapse
  <2> HIDE DEF A, base, step
  <2>2. PICK g \in [0 .. N -> A] : LoopSteps(g, base, step, segs)
    BY <1>1, <1>2, LoopValues
  <2>3. g[0] = base /\ \A n \in 1 .. N : g[n] = AddSegment(g[n - 1], segs[n])
    <3>1. \A n \in 1 .. N : n - 1 \in 0 .. N /\ g[n - 1] \in A
      BY <2>n
    <3> QED
      BY <2>0, <2>2, <2>n, <3>1 DEF LoopSteps
  <2>4. Is(g)
    BY <2>3
  <2>5. Is(f)
    <3> HIDE DEF Is
    <3> QED
      BY <2>4
  <2> HIDE DEF f
  <2>6. f[0] = base /\ \A n \in 1 .. N : f[n] = AddSegment(f[n - 1], segs[n])
    BY <2>5, <2>n
  <2> DEFINE v == f[N]
  <2>7. StepsTo(v, f, A, base, step, segs)
    BY <2>0, <2>6, <2>n DEF StepsTo
  <2> HIDE DEF v
  <2>8. v = Loop(base, step, segs)
    BY <1>1, <1>2, <2>7, LoopIsIt
  <2> QED
    BY <2>1, <2>8 DEF v
<1> HIDE DEF A, base
<1>4. /\ Loop(base, step, <<>>) = base
      /\ \A s \in Seq(T) : Loop(base, step, s) \in A
      /\ \A s \in Seq(T), t \in T :
           Loop(base, step, Append(s, t)) = step[<<Loop(base, step, s), t>>]
  <2> HIDE DEF step
  <2> QED
    BY <1>1, <1>2, LoopUnfolds
<1>5. \A s \in Seq(T), t \in T : step[<<Loop(base, step, s), t>>] = AddSegment(Loop(base, step, s), t)
  BY <1>4
<1> HIDE DEF step
<1>6. <<>> \in Seq(T) /\ \A s \in Seq(T), t \in T : Append(s, t) \in Seq(T)
  OBVIOUS
<1>7. Collapse(<<>>) = base
  BY <1>3, <1>4, <1>6
<1>8. \A segs \in Seq(T) : Collapse(segs) \in A
  BY <1>3, <1>4
<1>9. \A segs \in Seq(T), t \in T : Collapse(Append(segs, t)) = AddSegment(Collapse(segs), t)
  <2> SUFFICES ASSUME NEW segs \in Seq(T), NEW t \in T
               PROVE  Collapse(Append(segs, t)) = AddSegment(Collapse(segs), t)
    OBVIOUS
  <2>1. Collapse(Append(segs, t)) = Loop(base, step, Append(segs, t))
    BY <1>3, <1>6
  <2>2. Loop(base, step, Append(segs, t)) = AddSegment(Loop(base, step, segs), t)
    BY <1>4, <1>5
  <2>3. Loop(base, step, segs) = Collapse(segs)
    BY <1>3
  <2> QED
    BY <2>1, <2>2, <2>3, Zenon
<1> QED
  BY <1>7, <1>8, <1>9 DEF A, base, T

\* The text of a stack, one segment more.
LEMMA JoinUnfold ==
  ASSUME NEW V
  PROVE  /\ Join(<<>>) = <<>>
         /\ \A stack \in Seq(Seq(V)) : Join(stack) \in Seq(V \union {Slash})
         /\ \A stack \in Seq(Seq(V)), t \in Seq(V) :
              Join(Append(stack, t)) = Join(stack) \o <<Slash>> \o t
<1> DEFINE A == Seq(V \union {Slash})
           T == Seq(V)
           base == <<>>
           Onto(p, s) == p \o <<Slash>> \o s
           step == [x \in A \X T |-> Onto(x[1], x[2])]
<1>1. base \in A
  OBVIOUS
<1>2. step \in Steps(A, T)
  <2>1. \A x \in A \X T : Onto(x[1], x[2]) \in A
    <3> SUFFICES ASSUME NEW p \in A, NEW s \in T PROVE p \o <<Slash>> \o s \in A
      OBVIOUS
    <3> DEFINE W == V \union {Slash}
    <3>1. <<Slash>> \in Seq(W) /\ s \in Seq(W) /\ p \in Seq(W)
      OBVIOUS
    <3> HIDE DEF W
    <3>2. p \o <<Slash>> \o s \in Seq(W)
      BY <3>1, ConcatProperties
    <3> QED
      BY <3>2 DEF W
  <2> HIDE DEF A, T
  <2> QED
    BY <2>1 DEF Steps
<1> HIDE DEF T, Onto
<1>3. ASSUME NEW stack \in Seq(T) PROVE Join(stack) = Loop(base, step, stack)
  <2> DEFINE N == Len(stack)
             Is(h) == h = [n \in 0 .. N |-> IF n = 0 THEN base ELSE Onto(h[n - 1], stack[n])]
             f == CHOOSE h : Is(h)
  <2>n. N \in Nat /\ N \in 0 .. N /\ 0 \in 0 .. N /\ \A n \in 1 .. N : stack[n] \in T
    OBVIOUS
  <2>0. \A x \in A, t \in T : step[<<x, t>>] = Onto(x, t)
    <3> HIDE DEF A
    <3> QED
      OBVIOUS
  <2>1. Join(stack) = f[N]
    BY DEF Join, Onto
  <2> HIDE DEF A, base, step
  <2>2. PICK g \in [0 .. N -> A] : LoopSteps(g, base, step, stack)
    BY <1>1, <1>2, LoopValues
  <2>3. g[0] = base /\ \A n \in 1 .. N : g[n] = Onto(g[n - 1], stack[n])
    <3>1. \A n \in 1 .. N : n - 1 \in 0 .. N /\ g[n - 1] \in A
      BY <2>n
    <3> QED
      BY <2>0, <2>2, <2>n, <3>1 DEF LoopSteps
  <2>4. Is(g)
    BY <2>3
  <2>5. Is(f)
    <3> HIDE DEF Is
    <3> QED
      BY <2>4
  <2> HIDE DEF f
  <2>6. f[0] = base /\ \A n \in 1 .. N : f[n] = Onto(f[n - 1], stack[n])
    BY <2>5, <2>n
  <2> DEFINE v == f[N]
  <2>7. StepsTo(v, f, A, base, step, stack)
    BY <2>0, <2>6, <2>n DEF StepsTo
  <2> HIDE DEF v
  <2>8. v = Loop(base, step, stack)
    BY <1>1, <1>2, <2>7, LoopIsIt
  <2> QED
    BY <2>1, <2>8 DEF v
<1> HIDE DEF A, base
<1>4. /\ Loop(base, step, <<>>) = base
      /\ \A s \in Seq(T) : Loop(base, step, s) \in A
      /\ \A s \in Seq(T), t \in T :
           Loop(base, step, Append(s, t)) = step[<<Loop(base, step, s), t>>]
  <2> HIDE DEF step
  <2> QED
    BY <1>1, <1>2, LoopUnfolds
<1>5. \A s \in Seq(T), t \in T : step[<<Loop(base, step, s), t>>] = Onto(Loop(base, step, s), t)
  BY <1>4
<1> HIDE DEF step
<1>6. <<>> \in Seq(T) /\ \A s \in Seq(T), t \in T : Append(s, t) \in Seq(T)
  OBVIOUS
<1>7. Join(<<>>) = base
  BY <1>3, <1>4, <1>6
<1>8. \A stack \in Seq(T) : Join(stack) \in A
  BY <1>3, <1>4
<1>9. \A stack \in Seq(T), t \in T : Join(Append(stack, t)) = Join(stack) \o <<Slash>> \o t
  <2> SUFFICES ASSUME NEW stack \in Seq(T), NEW t \in T
               PROVE  Join(Append(stack, t)) = Join(stack) \o <<Slash>> \o t
    OBVIOUS
  <2>1. Join(Append(stack, t)) = Loop(base, step, Append(stack, t))
    BY <1>3, <1>6
  <2>2. Loop(base, step, Append(stack, t)) = Onto(Loop(base, step, stack), t)
    BY <1>4, <1>5
  <2>3. Loop(base, step, stack) = Join(stack)
    BY <1>3
  <2> QED
    BY <2>1, <2>2, <2>3, Zenon DEF Onto
<1> QED
  BY <1>7, <1>8, <1>9 DEF A, base, T

\* A separator and a segment at the end of a path are a segment at the end of
\* its split.
LEMMA SplitAtTheEnd ==
  ASSUME NEW V, Slash \in V, NEW p \in Seq(V), NEW s \in Seq(V \ {Slash})
  PROVE  Segments(p \o <<Slash>> \o s) = Append(Segments(p), s)
<1> DEFINE W == V \ {Slash}
           G == {x \in Seq(W) : Segments(p \o <<Slash>> \o x) = Append(Segments(p), x)}
           segs == Segments(p)
           front == Append(p, Slash)
<1>1. front \in Seq(V) /\ p \o <<Slash>> = front /\ \A x \in Seq(W) : x \in Seq(V)
  OBVIOUS
<1>2. segs \in Seq(Seq(W)) /\ segs # <<>> /\ Segments(front) = Append(segs, <<>>)
  BY SegmentsUnfold DEF AddToken
<1> HIDE DEF segs, W, front
<1>3. <<>> \in G
  <2>1. <<>> \in Seq(W) /\ front \o <<>> = front
    BY <1>1
  <2> QED
    BY <1>1, <1>2, <2>1 DEF segs
<1>4. ASSUME NEW x \in Seq(W), NEW t \in W, x \in G PROVE Append(x, t) \in G
  <2>1. Append(x, t) \in Seq(W)
    BY AppendProperties
  <2>2. t \in V /\ t # Slash
    BY DEF W
  <2>3. front \o Append(x, t) = Append(front \o x, t) /\ front \o x \in Seq(V)
    BY <1>1, <2>2
  <2>4. Segments(front \o x) = Append(segs, x)
    BY <1>1, <1>4 DEF segs
  <2>5. Segments(Append(front \o x, t)) = AddToken(Append(segs, x), t)
    BY <2>2, <2>3, <2>4, SegmentsUnfold
  <2> DEFINE more == Append(segs, x)
             T == Seq(W)
  <2>6. more \in Seq(T) /\ more # <<>> /\ Front(more) = segs /\ Last(more) = x
    <3>1. segs \in Seq(T) /\ x \in T
      BY <1>2
    <3> HIDE DEF T
    <3>2. more \in Seq(T) /\ more # <<>> /\ Len(more) = Len(segs) + 1 /\ more[Len(segs) + 1] = x
      BY <3>1, AppendProperties
    <3>3. Last(more) = x
      BY <3>2 DEF Last
    <3>4. more = Append(Front(more), Last(more)) /\ Front(more) \in Seq(T)
      BY <3>2, FrontAndLast
    <3>5. Front(more) = segs
      <4> HIDE DEF more
      <4>1. Append(segs, x) = Append(Front(more), x)
        BY <3>3, <3>4 DEF more
      <4> DEFINE f == Front(more)
      <4>2. f \in Seq(T) /\ segs \in Seq(T) /\ x \in T /\ Append(segs, x) = Append(f, x)
        BY <3>1, <3>4, <4>1
      <4> HIDE DEF f
      <4>3. f = segs
        BY <4>2, AppendInjective
      <4> QED
        BY <4>3 DEF f
    <3> QED
      BY <3>2, <3>3, <3>5
  <2>7. AddToken(more, t) = Append(segs, Append(x, t))
    <3> HIDE DEF more
    <3>1. AddToken(more, t) = Append(Front(more), Append(Last(more), t))
      BY <2>2, <2>6, AddTokenCases
    <3> QED
      BY <2>6, <3>1
  <2>8. Segments(front \o Append(x, t)) = Append(segs, Append(x, t))
    BY <2>3, <2>5, <2>7
  <2> QED
    BY <1>1, <2>1, <2>8 DEF segs
<1>5. Seq(W) \subseteq G
  <2> HIDE DEF G
  <2> QED
    BY <1>3, <1>4, SeqSetInduction
<1> QED
  BY <1>5 DEF W

\* Splitting gets back what joining put together, behind an empty segment.
LEMMA SegmentsOfJoin ==
  ASSUME NEW V, Slash \in V, NEW stack \in Seq(Seq(V \ {Slash}))
  PROVE  Join(stack) \in Seq(V) /\ Segments(Join(stack)) = << <<>> >> \o stack
<1> DEFINE W == V \ {Slash}
           T == Seq(W)
           G == {x \in Seq(T) : Segments(Join(x)) = << <<>> >> \o x}
<1>0. /\ Join(<<>>) = <<>>
      /\ \A x \in Seq(T) : Join(x) \in Seq(V)
      /\ \A x \in Seq(T), s \in T : Join(Append(x, s)) = Join(x) \o <<Slash>> \o s
  <2>1. V = W \union {Slash}
    OBVIOUS
  <2> HIDE DEF W
  <2> QED
    BY <2>1, JoinUnfold
<1>1. <<>> \in G
  BY <1>0, SegmentsUnfold
<1>2. ASSUME NEW x \in Seq(T), NEW s \in T, x \in G PROVE Append(x, s) \in G
  <2>1. Segments(Join(x) \o <<Slash>> \o s) = Append(Segments(Join(x)), s)
    BY <1>0, SplitAtTheEnd
  <2>2. <<>> \in T
    OBVIOUS
  <2> HIDE DEF T
  <2>3. Append(<< <<>> >> \o x, s) = << <<>> >> \o Append(x, s) /\ Append(x, s) \in Seq(T)
    BY <2>2
  <2> QED
    BY <1>0, <1>2, <2>1, <2>3
<1>3. Seq(T) \subseteq G
  <2> HIDE DEF G, T
  <2> QED
    BY <1>1, <1>2, SeqSetInduction
<1> QED
  BY <1>0, <1>3

\* A stack of clean segments is what is left of it.
LEMMA CollapseOfClean ==
  ASSUME NEW V, NEW stack \in Seq(Clean(V))
  PROVE  Collapse(<< <<>> >> \o stack) = stack
<1> DEFINE C == Clean(V)
           T == Seq(V)
           root == << <<>> >>
           G == {x \in Seq(C) : Collapse(root \o x) = x}
<1>0. /\ <<>> \in T /\ C \subseteq T /\ \A s \in C : s # <<>> /\ s # <<Parent>>
      /\ Append(<<>>, <<>>) = root /\ root \in Seq(T)
  BY DEF Clean
<1>1. Collapse(root) = <<>>
  <2>1. Collapse(Append(<<>>, <<>>)) = AddSegment(Collapse(<<>>), <<>>)
    <3> DEFINE none == <<>>
    <3>1. none \in Seq(T) /\ none \in T
      OBVIOUS
    <3> HIDE DEF none
    <3>2. Collapse(Append(none, none)) = AddSegment(Collapse(none), none)
      BY <3>1, CollapseUnfold
    <3> QED
      BY <3>2 DEF none
  <2>2. Collapse(<<>>) = <<>> /\ <<>> \in Seq(Clean(V))
    BY CollapseUnfold
  <2>3. AddSegment(<<>>, <<>>) = <<>>
    BY <1>0, <2>2, AddSegmentCases
  <2> QED
    BY <1>0, <2>1, <2>2, <2>3
<1>2. <<>> \in G
  <2>1. <<>> \in Seq(C) /\ root \o <<>> = root
    OBVIOUS
  <2> QED
    BY <1>1, <2>1
<1>3. ASSUME NEW x \in Seq(C), NEW s \in C, x \in G PROVE Append(x, s) \in G
  <2>1. s \in T /\ s # <<>> /\ s # <<Parent>>
    BY <1>0
  <2>2. x \in Seq(T) /\ x \in Seq(Clean(V))
    <3> HIDE DEF C, T
    <3>1. x \in Seq(T)
      BY <1>0
    <3> QED
      BY <3>1 DEF C
  <2>3. AddSegment(x, s) = Append(x, s)
    BY <2>1, <2>2, AddSegmentCases
  <2> HIDE DEF T, root
  <2>4. root \o Append(x, s) = Append(root \o x, s) /\ root \o x \in Seq(T)
    BY <1>0, <2>1, <2>2
  <2>5. Collapse(Append(root \o x, s)) = AddSegment(Collapse(root \o x), s)
    <3>1. \A a \in Seq(T), b \in T : Collapse(Append(a, b)) = AddSegment(Collapse(a), b)
      BY CollapseUnfold DEF T
    <3> QED
      BY <2>1, <2>4, <3>1
  <2>6. Append(x, s) \in Seq(C)
    <3> HIDE DEF C
    <3> QED
      BY AppendProperties
  <2> QED
    BY <1>3, <2>3, <2>4, <2>5, <2>6
<1>4. Seq(C) \subseteq G
  <2> HIDE DEF G, C
  <2> QED
    BY <1>2, <1>3, SeqSetInduction
<1> QED
  BY <1>4

-----------------------------------------------------------------------------
(* Normalization: canonical paths.                                         *)

\* What a canonical path looks like.
Shape(p) ==
  /\ p # <<>> => Head(p) = Slash
  /\ \A i \in 1 .. Len(p) - 1 : ~ (p[i] = Slash /\ p[i + 1] = Slash)
  /\ \A s \in ToSet(Segments(p)) : s # <<Parent>>

\* The canonical paths over an alphabet.
Forms(V) ==
  {<<>>, <<Slash>>} \union {Join(stack) : stack \in Seq(Clean(V \ {Slash})) \ {<<>>}}

\* Whatever the rounds leave, it is brought into such a form.
LEMMA NormalizePathForms ==
  ASSUME NEW V, Slash \in V, NEW path, DecodeRepeatedly(path) \in Seq(V)
  PROVE  NormalizePath(path) \in Forms(V)
<1> DEFINE stack == Collapse(Segments(DecodeRepeatedly(path)))
           W == V \ {Slash}
<1>1. stack \in Seq(Clean(W))
  <2>1. Segments(DecodeRepeatedly(path)) \in Seq(Seq(W))
    BY SegmentsUnfold
  <2> HIDE DEF W
  <2> QED
    BY <2>1, CollapseUnfold
<1>2. CASE path = <<>>
  <2>1. NormalizePath(path) = <<>>
    BY <1>2, Zenon DEF NormalizePath
  <2> QED
    BY <2>1 DEF Forms
<1>3. CASE path # <<>> /\ stack = <<>>
  <2>1. NormalizePath(path) = <<Slash>>
    BY <1>3, Zenon DEF NormalizePath
  <2> QED
    BY <2>1 DEF Forms
<1>4. CASE path # <<>> /\ stack # <<>>
  <2>1. NormalizePath(path) = Join(stack)
    BY <1>4, Zenon DEF NormalizePath
  <2> HIDE DEF stack
  <2> QED
    BY <2>1, <1>1, <1>4 DEF Forms
<1> QED
  BY <1>2, <1>3, <1>4

\* A slash in front of every segment, none at the end, none after another.
LEMMA JoinShape ==
  ASSUME NEW W, Slash \notin W, NEW stack \in Seq(Clean(W))
  PROVE  LET p == Join(stack)
         IN /\ p # <<>> => Head(p) = Slash /\ p[Len(p)] # Slash
            /\ p = <<>> => stack = <<>>
            /\ \A i \in 1 .. Len(p) - 1 : ~ (p[i] = Slash /\ p[i + 1] = Slash)
<1> DEFINE C == Clean(W)
           V == W \union {Slash}
           Good(p) == /\ p # <<>> => Head(p) = Slash /\ p[Len(p)] # Slash
                      /\ \A i \in 1 .. Len(p) - 1 : ~ (p[i] = Slash /\ p[i + 1] = Slash)
           G == {x \in Seq(C) : Good(Join(x)) /\ (Join(x) = <<>> => x = <<>>)}
<1>0. /\ Join(<<>>) = <<>>
      /\ \A x \in Seq(C) : Join(x) \in Seq(V)
      /\ \A x \in Seq(C), s \in C : Join(Append(x, s)) = Join(x) \o <<Slash>> \o s
      /\ \A s \in C : s \in Seq(W) /\ s # <<>>
  <2>1. C \subseteq Seq(W) /\ \A s \in C : s \in Seq(W) /\ s # <<>>
    BY DEF Clean
  <2> DEFINE T == Seq(W)
  <2> HIDE DEF C, T
  <2>2. \A x \in Seq(C) : x \in Seq(T)
    BY <2>1 DEF T
  <2> QED
    BY <2>1, <2>2, JoinUnfold DEF T
<1>1. <<>> \in G
  BY <1>0
<1>2. ASSUME NEW x \in Seq(C), NEW s \in C, x \in G PROVE Append(x, s) \in G
  <2> DEFINE p == Join(x)
             q == Join(Append(x, s))
             n == Len(p)
  <2>1. p \in Seq(V) /\ s \in Seq(W) /\ s # <<>> /\ q = p \o <<Slash>> \o s /\ Good(p)
    BY <1>0, <1>2
  <2>2. Append(x, s) \in Seq(C)
    BY AppendProperties
  <2> HIDE DEF p, q, C
  <2>3. /\ s \in Seq(V) /\ n \in Nat /\ Len(s) \in Nat \ {0}
        /\ \A j \in 1 .. Len(s) : s[j] # Slash
    BY <2>1
  <2>4. /\ q \in Seq(V) /\ Len(q) = n + 1 + Len(s) /\ q # <<>>
        /\ \A i \in 1 .. n : q[i] = p[i]
        /\ q[n + 1] = Slash
        /\ \A j \in 1 .. Len(s) : q[n + 1 + j] = s[j]
    <3> DEFINE a == Append(p, Slash)
    <3>1. a \in Seq(V) /\ Len(a) = n + 1 /\ a[n + 1] = Slash /\ \A i \in 1 .. n : a[i] = p[i]
      BY <2>1, AppendProperties
    <3>2. q = a \o s
      BY <2>1, <2>3
    <3> HIDE DEF a, V
    <3>3. q \in Seq(V) /\ Len(q) = Len(a) + Len(s)
          /\ \A i \in 1 .. Len(a) + Len(s) : q[i] = IF i <= Len(a) THEN a[i] ELSE s[i - Len(a)]
      BY <3>1, <3>2, <2>3, ConcatProperties
    <3> HIDE DEF n
    <3> QED
      BY <3>1, <3>3, <2>3
  <2> HIDE DEF n, V
  <2>5. Head(q) = Slash
    <3>1. n = 0 => q[1] = Slash
      BY <2>4
    <3>2. n # 0 => q[1] = p[1] /\ p[1] = Slash
      BY <2>1, <2>3, <2>4 DEF n
    <3> QED
      BY <3>1, <3>2, <2>4
  <2>6. q[Len(q)] # Slash
    BY <2>3, <2>4
  <2>7. ASSUME NEW i \in 1 .. Len(q) - 1, q[i] = Slash, q[i + 1] = Slash PROVE FALSE
    <3>1. CASE i + 1 <= n
      BY <3>1, <2>1, <2>3, <2>4, <2>7 DEF n
    <3>2. CASE i = n
      <4>1. n \in 1 .. n /\ q[n] = p[n] /\ p[n] # Slash
        BY <3>2, <2>1, <2>3, <2>4 DEF n
      <4> QED
        BY <4>1, <3>2, <2>7
    <3>3. CASE i > n
      <4>1. i - n \in 1 .. Len(s) /\ i + 1 = n + 1 + (i - n)
        BY <3>3, <2>3, <2>4
      <4> QED
        BY <4>1, <2>3, <2>4, <2>7
    <3> QED
      BY <3>1, <3>2, <3>3, <2>3
  <2>8. Good(q) /\ q # <<>>
    BY <2>4, <2>5, <2>6, <2>7
  <2> HIDE DEF Good
  <2> QED
    BY <2>2, <2>8 DEF q
<1>3. Seq(C) \subseteq G
  <2> HIDE DEF G, C
  <2> QED
    BY <1>1, <1>2, SeqSetInduction
<1> QED
  BY <1>3

\* Appending to a sequence of one.
LEMMA AppendToOne ==
  ASSUME NEW t, NEW u
  PROVE  Append(<<t>>, u) = <<t, u>>
<1> DEFINE Z == {t, u}
           a == Append(<<t>>, u)
           b == <<t, u>>
<1>1. <<t>> \in Seq(Z) /\ Len(<<t>>) = 1 /\ <<t>>[1] = t /\ t \in Z /\ u \in Z
  OBVIOUS
<1>2. b \in Seq(Z) /\ Len(b) = 2 /\ b[1] = t /\ b[2] = u
  OBVIOUS
<1>3. a \in Seq(Z) /\ Len(a) = 2 /\ a[1] = t /\ a[2] = u
  <2> HIDE DEF Z
  <2> QED
    BY <1>1, AppendProperties
<1> HIDE DEF a, b, Z
<1>4. \A i \in 1 .. 2 : i = 1 \/ i = 2
  OBVIOUS
<1>5. a = b
  BY <1>2, <1>3, <1>4, SeqEqual
<1> QED
  BY <1>5 DEF a, b

\* The root alone: two empty segments, of which nothing is left.
LEMMA RootIsCanonical ==
  Segments(<<Slash>>) = << <<>>, <<>> >> /\ Collapse(Segments(<<Slash>>)) = <<>>
<1> DEFINE V == {Slash}
           none == <<>>
<1>1. Segments(<<Slash>>) = << <<>>, <<>> >>
  <2>1. none \in Seq(V) /\ Slash \in V /\ Append(none, Slash) = <<Slash>>
    OBVIOUS
  <2> HIDE DEF V
  <2>2. Segments(Append(none, Slash)) = AddToken(Segments(none), Slash)
    BY <2>1, SegmentsUnfold
  <2>3. Segments(none) = << <<>> >>
    BY SegmentsUnfold
  <2>4. \A segs : AddToken(segs, Slash) = Append(segs, <<>>)
    BY DEF AddToken
  <2>5. Append(<< <<>> >>, <<>>) = << <<>>, <<>> >>
    BY AppendToOne, Zenon
  <2> QED
    BY <2>1, <2>2, <2>3, <2>4, <2>5
<1>2. /\ Append(none, <<>>) = << <<>> >> /\ Append(<< <<>> >>, none) = << <<>>, <<>> >>
      /\ << <<>> >> \in Seq(Seq(V)) /\ none \in Seq(Seq(V)) /\ none \in Seq(V)
      /\ none \in Seq(Clean(V))
  <2>0. \A t : Append(<<>>, t) = <<t>>
    OBVIOUS
  <2>1. Append(none, <<>>) = << <<>> >> /\ Append(<< <<>> >>, none) = << <<>>, <<>> >>
    <3>1. Append(<<>>, <<>>) = << <<>> >>
      BY <2>0, Zenon
    <3>2. Append(<< <<>> >>, <<>>) = << <<>>, <<>> >>
      BY AppendToOne, Zenon
    <3> QED
      BY <3>1, <3>2
  <2>2. none \in Seq(V) /\ none \in Seq(Clean(V)) /\ none \in Seq(Seq(V))
    OBVIOUS
  <2> DEFINE T == Seq(V)
  <2>3. none \in T
    OBVIOUS
  <2> HIDE DEF T, none
  <2>4. <<none>> \in Seq(T)
    BY <2>3
  <2> QED
    BY <2>1, <2>2, <2>4 DEF T, none
<1>3. Collapse(none) = <<>>
  BY CollapseUnfold
<1>4. AddSegment(none, none) = none
  <2> HIDE DEF none, V
  <2> QED
    BY <1>2, AddSegmentCases DEF none
<1>5. Collapse(<< <<>> >>) = AddSegment(none, none)
  <2> HIDE DEF V
  <2>1. \A a \in Seq(Seq(V)), b \in Seq(V) : Collapse(Append(a, b)) = AddSegment(Collapse(a), b)
    BY CollapseUnfold
  <2> QED
    BY <2>1, <1>2, <1>3
<1>6. Collapse(<< <<>>, <<>> >>) = AddSegment(Collapse(<< <<>> >>), none)
  <2> HIDE DEF V
  <2>1. \A a \in Seq(Seq(V)), b \in Seq(V) : Collapse(Append(a, b)) = AddSegment(Collapse(a), b)
    BY CollapseUnfold
  <2> QED
    BY <2>1, <1>2
<1> QED
  BY <1>1, <1>4, <1>5, <1>6

\* A canonical path has the shape, and if there is nothing to decode in it,
\* normalization leaves it alone.
LEMMA FormIsCanonical ==
  ASSUME NEW V, Slash \in V, NEW c \in Forms(V)
  PROVE  /\ c \in Seq(V)
         /\ Shape(c)
         /\ DecodeRepeatedly(c) = c => NormalizePath(c) = c
<1> DEFINE W == V \ {Slash}
<1>0. <<>> # <<Parent>>
  OBVIOUS
<1>1. CASE c = <<>>
  <2>1. NormalizePath(c) = c
    BY <1>1, Zenon DEF NormalizePath
  <2>2. Segments(c) = << <<>> >>
    BY <1>1, SegmentsUnfold
  <2>3. Shape(c)
    BY <1>0, <1>1, <2>2 DEF Shape, ToSet
  <2> QED
    BY <1>1, <2>1, <2>3
<1>2. CASE c = <<Slash>>
  <2>1. DecodeRepeatedly(c) = c => NormalizePath(c) = c
    <3>1. <<Slash>> # <<>>
      OBVIOUS
    <3> QED
      BY <1>2, <3>1, RootIsCanonical, Zenon DEF NormalizePath
  <2>2. Segments(c) = << <<>>, <<>> >>
    BY <1>2, RootIsCanonical
  <2>3. Shape(c)
    <3>1. Head(c) = Slash /\ Len(c) = 1
      BY <1>2
    <3> DEFINE segs == Segments(c)
    <3>2. \A i \in DOMAIN segs : segs[i] = <<>>
      BY <2>2
    <3> HIDE DEF segs
    <3>3. \A s \in ToSet(segs) : s # <<Parent>>
      BY <1>0, <3>2, Zenon DEF ToSet
    <3> QED
      BY <3>1, <3>3 DEF Shape, segs
  <2>4. c \in Seq(V)
    BY <1>2
  <2> QED
    BY <2>1, <2>3, <2>4
<1>3. ASSUME NEW stack \in Seq(Clean(W)), stack # <<>>, c = Join(stack)
      PROVE  c \in Seq(V) /\ Shape(c) /\ (DecodeRepeatedly(c) = c => NormalizePath(c) = c)
  <2> DEFINE C == Clean(W)
             T == Seq(W)
  <2>0. stack \in Seq(T) /\ \A s \in C : s # <<Parent>>
    <3>1. C \subseteq T /\ \A s \in C : s # <<Parent>>
      BY DEF Clean
    <3>2. stack \in Seq(C)
      OBVIOUS
    <3> HIDE DEF C, T
    <3> QED
      BY <3>1, <3>2
  <2>1. c \in Seq(V) /\ Segments(c) = << <<>> >> \o stack
    BY <1>3, <2>0, SegmentsOfJoin
  <2>2. Collapse(Segments(c)) = stack
    <3> HIDE DEF W
    <3> QED
      BY <2>1, CollapseOfClean
  <2>3. /\ c # <<>> /\ Head(c) = Slash
        /\ \A i \in 1 .. Len(c) - 1 : ~ (c[i] = Slash /\ c[i + 1] = Slash)
    <3>1. Slash \notin W
      OBVIOUS
    <3> HIDE DEF W
    <3> QED
      BY <1>3, <3>1, JoinShape
  <2>4. \A s \in ToSet(Segments(c)) : s # <<Parent>>
    <3>1. <<>> \in T /\ stack \in Seq(T)
      BY <2>0
    <3>2. stack \in Seq(C)
      OBVIOUS
    <3> HIDE DEF C, T
    <3> DEFINE all == << <<>> >> \o stack
    <3>3. /\ DOMAIN all = 1 .. 1 + Len(stack) /\ Len(stack) \in Nat
          /\ all[1] = <<>> /\ \A i \in 2 .. 1 + Len(stack) : all[i] = stack[i - 1]
      BY <3>1
    <3>4. \A i \in 1 .. Len(stack) : stack[i] \in C
      BY <3>2
    <3> HIDE DEF all
    <3>5. \A i \in DOMAIN all : all[i] # <<Parent>>
      <4> SUFFICES ASSUME NEW i \in DOMAIN all PROVE all[i] # <<Parent>>
        OBVIOUS
      <4>1. CASE i = 1
        BY <1>0, <3>3, <4>1
      <4>2. CASE i # 1
        <5>1. i - 1 \in 1 .. Len(stack) /\ all[i] = stack[i - 1]
          BY <3>3, <4>2
        <5> QED
          BY <2>0, <3>4, <5>1
      <4> QED
        BY <4>1, <4>2
    <3> QED
      BY <2>1, <3>5 DEF ToSet, all
  <2>5. DecodeRepeatedly(c) = c => NormalizePath(c) = c
    BY <1>3, <2>2, <2>3, Zenon DEF NormalizePath
  <2> QED
    BY <2>1, <2>3, <2>4, <2>5 DEF Shape
<1> QED
  BY <1>1, <1>2, <1>3 DEF Forms

-----------------------------------------------------------------------------
(* Normalization: layers of encoding.                                      *)

\* The provers do not know the symbols of the source to be strings.
Symbols == STRING \union {"/", "..", "?"}

\* The tokens with no more than n layers.
Layer(n) == {t \in Toks(Symbols) : t.encoded <= n}

\* The separator has none.
LEMMA SlashIsPlain ==
  \A n \in Nat : Slash \in Layer(n) /\ Slash \in Toks(Symbols)
BY DEF Slash, Token, Layer, Toks, Symbols

\* A path has a greatest number of layers.
LEMMA LayersAreBounded ==
  ASSUME NEW p \in Seq(Toks(Symbols))
  PROVE  \E n \in Nat : p \in Seq(Layer(n))
<1> DEFINE T == Toks(Symbols)
           G == {s \in Seq(T) : \E n \in Nat : s \in Seq(Layer(n))}
<1>1. <<>> \in G
  <2>1. <<>> \in Seq(Layer(0)) /\ 0 \in Nat
    OBVIOUS
  <2> QED
    BY <2>1
<1>2. ASSUME NEW s \in Seq(T), NEW t \in T, s \in G PROVE Append(s, t) \in G
  <2>1. PICK n \in Nat : s \in Seq(Layer(n))
    BY <1>2
  <2>2. t.encoded \in Nat
    BY DEF Toks
  <2> DEFINE m == IF n >= t.encoded THEN n ELSE t.encoded
  <2>3. m \in Nat /\ n <= m /\ t.encoded <= m
    BY <2>2
  <2>4. Layer(n) \subseteq Layer(m) /\ t \in Layer(m)
    <3> HIDE DEF m
    <3>1. \A x \in Toks(Symbols) : x.encoded \in Nat
      BY DEF Toks
    <3> QED
      BY <2>3, <3>1 DEF Layer
  <2>5. Append(s, t) \in Seq(Layer(m))
    <3> DEFINE A == Layer(n)
               B == Layer(m)
    <3>1. s \in Seq(A) /\ A \subseteq B /\ t \in B
      BY <2>1, <2>4
    <3> HIDE DEF A, B
    <3>2. s \in Seq(B)
      BY <3>1, SeqMonotonic
    <3>3. Append(s, t) \in Seq(B)
      BY <3>1, <3>2, AppendProperties
    <3> QED
      BY <3>3 DEF B
  <2>6. Append(s, t) \in Seq(T)
    <3> HIDE DEF T
    <3> QED
      BY AppendProperties
  <2> QED
    BY <2>3, <2>5, <2>6
<1>3. Seq(T) \subseteq G
  <2> HIDE DEF G, T
  <2> QED
    BY <1>1, <1>2, SeqSetInduction
<1> QED
  BY <1>3

\* The rounds take a layer off, or there was none.
LEMMA DecodeDescends ==
  ASSUME NEW n \in Nat, NEW p \in Seq(Layer(n + 1))
  PROVE  DecodeRepeatedly(p) \in Seq(Layer(n))
<1> DEFINE M == MAX_DECODE_ROUNDS
           d == Peeled(p, M)
<1>m. M \in Nat /\ M >= 1
  BY DEF MAX_DECODE_ROUNDS
<1>1. p \in Seq(Toks(Symbols))
  <2>1. Layer(n + 1) \subseteq Toks(Symbols)
    BY DEF Layer
  <2> QED
    BY <2>1, SeqMonotonic
<1>2. DecodeRepeatedly(p) = d
  BY <1>1, DecodeIsPeeled
<1>3. ASSUME NEW i \in 1 .. Len(p)
      PROVE  /\ d[i] = [symbol |-> p[i].symbol,
                        encoded |-> IF p[i].encoded <= M THEN 0 ELSE p[i].encoded - M]
             /\ d[i] \in Layer(n)
  <2>1. p[i] \in Layer(n + 1) /\ i \in DOMAIN p
    OBVIOUS
  <2>2. p[i].symbol \in Symbols /\ p[i].encoded \in Nat /\ p[i].encoded <= n + 1
    BY <2>1 DEF Layer, Toks
  <2> DEFINE e == IF p[i].encoded <= M THEN 0 ELSE p[i].encoded - M
  <2>3. d[i] = [symbol |-> p[i].symbol, encoded |-> e]
    BY <2>1 DEF Peeled
  <2> HIDE DEF M, d
  <2>4. e \in Nat /\ e <= n
    BY <2>2, <1>m
  <2> HIDE DEF e
  <2>5. d[i] \in Layer(n)
    BY <2>2, <2>3, <2>4 DEF Layer, Toks
  <2> QED
    BY <2>3, <2>5 DEF e
<1>4. d = [i \in 1 .. Len(p) |-> d[i]]
  <2>1. DOMAIN p = 1 .. Len(p)
    OBVIOUS
  <2> QED
    BY <2>1 DEF Peeled
<1> HIDE DEF d
<1>5. d \in Seq(Layer(n))
  BY <1>3, <1>4
<1> QED
  BY <1>2, <1>5

\* A path with nothing encoded in it decodes to itself.
LEMMA DecodedIsStable ==
  ASSUME NEW p \in Seq(Toks(Symbols)), \A i \in DOMAIN p : p[i].encoded = 0
  PROVE  DecodeRepeatedly(p) = p
<1> DEFINE M == MAX_DECODE_ROUNDS
<1>m. M \in Nat
  BY DEF MAX_DECODE_ROUNDS
<1>1. DecodeRepeatedly(p) = Peeled(p, M)
  BY DecodeIsPeeled
<1>2. Peeled(p, 0) = p
  BY PeeledIsPath
<1>3. Peeled(p, M) = Peeled(p, 0)
  BY <1>m DEF Peeled
<1> QED
  BY <1>1, <1>2, <1>3

\* A path that comes back from normalization, whole or cut, has nothing encoded:
\* each time around would take a layer off.
LEMMA StableIsDecoded ==
  ASSUME NEW p \in Forms(Toks(Symbols)), NEW q, NormalizePath(q) = p,
         \A V : p \in Seq(V) => q \in Seq(V)
  PROVE  p \in Seq(Layer(0))
<1> DEFINE G == {n \in Nat : p \in Seq(Layer(n)) => p \in Seq(Layer(0))}
<1>1. 0 \in G
  OBVIOUS
<1>2. ASSUME NEW n \in Nat, n \in G PROVE n + 1 \in G
  <2> SUFFICES ASSUME p \in Seq(Layer(n + 1)) PROVE p \in Seq(Layer(0))
    OBVIOUS
  <2> DEFINE V == Layer(n)
  <2>1. q \in Seq(Layer(n + 1))
    OBVIOUS
  <2>2. DecodeRepeatedly(q) \in Seq(V)
    BY <2>1, DecodeDescends
  <2>3. Slash \in V
    BY SlashIsPlain
  <2> HIDE DEF V
  <2>4. NormalizePath(q) \in Forms(V)
    BY <2>2, <2>3, NormalizePathForms
  <2>5. NormalizePath(q) \in Seq(V)
    BY <2>3, <2>4, FormIsCanonical
  <2> QED
    BY <2>5, <1>2 DEF V
<1>3. Nat \subseteq G
  <2> HIDE DEF G
  <2> QED
    BY <1>1, <1>2, NatSetInduction
<1>4. p \in Seq(Toks(Symbols))
  BY SlashIsPlain, FormIsCanonical
<1>5. PICK n \in Nat : p \in Seq(Layer(n))
  BY <1>4, LayersAreBounded
<1> QED
  BY <1>3, <1>5

\* A path cut before its first question mark has none, and comes back without.
LEMMA CutStaysCut ==
  ASSUME NEW p \in Seq(Layer(0)), NEW m \in 1 .. Len(p),
         \A i \in 1 .. m - 1 : p[i] # Question
  PROVE  NormalizePath(SubSeq(p, 1, m - 1)) \in Seq(Layer(0) \ {Question})
<1> DEFINE V == Layer(0) \ {Question}
           q == SubSeq(p, 1, m - 1)
<1>1. \A i \in 1 .. m - 1 : p[i] \in V
  OBVIOUS
<1>2. q \in Seq(V)
  <2> HIDE DEF V
  <2> QED
    BY <1>1, SubSeqProperties
<1>3. Slash \in V
  BY SlashIsPlain, SlashIsSlash
<1>4. V \subseteq Toks(Symbols) /\ \A t \in V : t.encoded = 0
  BY DEF Layer, Toks
<1> HIDE DEF V, q
<1>5. q \in Seq(Toks(Symbols)) /\ \A i \in DOMAIN q : q[i].encoded = 0
  <2>1. q \in Seq(Toks(Symbols))
    BY <1>2, <1>4, SeqMonotonic
  <2>2. \A i \in DOMAIN q : q[i] \in V
    BY <1>2
  <2> QED
    BY <1>4, <2>1, <2>2
<1>6. DecodeRepeatedly(q) \in Seq(V)
  BY <1>2, <1>5, DecodedIsStable
<1>7. NormalizePath(q) \in Forms(V)
  BY <1>3, <1>6, NormalizePathForms
<1>8. NormalizePath(q) \in Seq(V)
  BY <1>3, <1>7, FormIsCanonical
<1> QED
  BY <1>8 DEF V, q

\* The smallest of a set of positions.
LEMMA FirstPlace ==
  ASSUME NEW n \in Nat, NEW S \in SUBSET (1 .. n), S # {}
  PROVE  Min(S) \in S /\ \A i \in S : Min(S) <= i
<1> DEFINE G == {m \in 0 .. n : (\E i \in S : i <= m) => \E x \in S : \A i \in S : x <= i}
<1>0. n \in 0 .. n /\ \A i \in S : i \in Int /\ 1 <= i /\ i <= n
  OBVIOUS
<1>1. 0 \in G
  BY <1>0
<1>2. ASSUME NEW m \in 1 .. n, m - 1 \in G PROVE m \in G
  <2> SUFFICES ASSUME NEW x \in S, x <= m, ~ \E i \in S : i <= m - 1
               PROVE  \E y \in S : \A i \in S : y <= i
    BY <1>2
  <2>1. \A i \in S : x <= i
    BY <1>0
  <2> QED
    BY <2>1
<1>3. 0 .. n \subseteq G
  <2> HIDE DEF G
  <2> QED
    BY <1>1, <1>2, UpToInduction
<1>4. \E x \in S : \A i \in S : x <= i
  BY <1>0, <1>3
<1> QED
  BY <1>4 DEF Min

\* A canonical query is in order already, with one pair for a key.
LEMMA QueryIsStable ==
  ASSUME NEW Y, NEW query \in Seq(Pairs(Y))
  PROVE  NormalizeQuery(NormalizeQuery(query)) = NormalizeQuery(query)
<1> DEFINE K == KeysOf(query)
           keys == Sorted(K)
           n == Cardinality(K)
           q == NormalizeQuery(query)
           Z == Y \union {""}
<1>1. /\ n \in Nat /\ keys \in [1 .. n -> K]
      /\ \A i, j \in 1 .. n : i # j => keys[i] # keys[j]
      /\ \A k \in K : \E i \in 1 .. n : keys[i] = k
  BY KeysAreFinite, SortedListsAll
<1>2. q = [i \in 1 .. n |-> LastOccurrence(query, keys[i])]
  <2>1. q = [i \in DOMAIN keys |-> LastOccurrence(query, keys[i])]
    BY DEF NormalizeQuery
  <2> HIDE DEF q, keys, n
  <2> QED
    BY <1>1, <2>1
<1> HIDE DEF q, keys, n, K
<1>3. ASSUME NEW i \in 1 .. n
      PROVE  /\ q[i] \in Pairs(Z) /\ q[i].key = keys[i]
             /\ [q[i] EXCEPT !.value = IF @ = "none" THEN "" ELSE @] = q[i]
  <2>1. keys[i] \in KeysOf(query)
    BY <1>1 DEF K
  <2> DEFINE m == Max(Places(query, keys[i]))
             pair == query[m]
  <2>2. /\ m \in DOMAIN query /\ pair.key = keys[i]
        /\ LastOccurrence(query, keys[i]) = [pair EXCEPT !.value = IF @ = "none" THEN "" ELSE @]
    BY <2>1, LastPlace
  <2> HIDE DEF m
  <2>3. pair \in Pairs(Y)
    BY <2>2, PairOfQuery
  <2> HIDE DEF pair
  <2>4. pair.key \in Nat /\ pair.value \in Y /\ pair = [key |-> pair.key, value |-> pair.value]
    BY <2>3 DEF Pairs
  <2> DEFINE v == IF pair.value = "none" THEN "" ELSE pair.value
  <2>5. q[i] = [key |-> keys[i], value |-> v]
    BY <1>2, <2>2, <2>4
  <2>6. v \in Z /\ v # "none"
    BY <2>4
  <2> HIDE DEF v, Z
  <2> DEFINE k == keys[i]
  <2>7. q[i] \in Pairs(Z) /\ q[i].key = keys[i]
    <3>1. k \in Nat
      BY <2>2, <2>4
    <3> HIDE DEF k
    <3>2. [key |-> k, value |-> v] \in [key : Nat, value : Z]
      BY <2>6, <3>1
    <3>3. q[i] = [key |-> k, value |-> v]
      BY <2>5 DEF k
    <3> DEFINE r == q[i]
    <3>4. r \in [key : Nat, value : Z] /\ r.key = k
      <4> HIDE DEF r
      <4>1. r = [key |-> k, value |-> v]
        BY <3>3 DEF r
      <4> QED
        BY <3>2, <4>1
    <3> QED
      BY <3>4 DEF k, Pairs
  <2>8. [q[i] EXCEPT !.value = IF @ = "none" THEN "" ELSE @] = q[i]
    BY <2>5, <2>6
  <2> QED
    BY <2>7, <2>8
<1>4. q \in Seq(Pairs(Z)) /\ DOMAIN q = 1 .. n
  <2> HIDE DEF Z
  <2> DEFINE R == Pairs(Z)
  <2>1. q = [i \in 1 .. n |-> q[i]]
    BY <1>2
  <2>2. \A i \in 1 .. n : q[i] \in R
    BY <1>3
  <2> HIDE DEF R
  <2>3. q \in Seq(R) /\ DOMAIN q = 1 .. n
    BY <1>1, <2>1, <2>2
  <2> QED
    BY <2>3 DEF R
<1>5. KeysOf(q) = K
  <2>1. \A i \in 1 .. n : q[i].key \in K
    BY <1>1, <1>3
  <2>2. \A k \in K : \E i \in 1 .. n : q[i].key = k
    BY <1>1, <1>3
  <2> QED
    BY <1>4, <2>1, <2>2, Zenon DEF KeysOf
<1>6. ASSUME NEW i \in 1 .. n PROVE LastOccurrence(q, keys[i]) = q[i]
  <2>1. \A j \in DOMAIN q : q[j].key = q[i].key => j = i
    <3> SUFFICES ASSUME NEW j \in 1 .. n, q[j].key = q[i].key PROVE j = i
      BY <1>4
    <3>1. q[j].key = keys[j] /\ q[i].key = keys[i]
      BY <1>3
    <3> QED
      BY <1>1, <3>1
  <2>2. LastOccurrence(q, q[i].key) = [q[i] EXCEPT !.value = IF @ = "none" THEN "" ELSE @]
    <3> HIDE DEF Z
    <3> QED
      BY <1>4, <2>1, OnlyPlace
  <2> QED
    BY <1>3, <2>2
<1>7. NormalizeQuery(q) = [i \in 1 .. n |-> LastOccurrence(q, keys[i])]
  <2>1. NormalizeQuery(q) = [i \in DOMAIN keys |-> LastOccurrence(q, keys[i])]
    BY <1>5 DEF NormalizeQuery, keys
  <2> QED
    BY <1>1, <2>1
<1>8. q = [i \in 1 .. n |-> q[i]]
  BY <1>2
<1>9. NormalizeQuery(q) = q
  BY <1>6, <1>7, <1>8
<1> QED
  BY <1>9 DEF q

-----------------------------------------------------------------------------
(* Normalization: the canonical form, read and normalized again.           *)

\* normalize_path brings every path into canonical form.
LEMMA NormalizedForm ==
  ASSUME NEW path \in Seq(Toks(STRING))
  PROVE  NormalizePath(path) \in Forms(Toks(Symbols))
<1> DEFINE T == Toks(Symbols)
<1>1. path \in Seq(T)
  <2> DEFINE S == Toks(STRING)
  <2>1. S \subseteq T
    BY DEF Toks, Symbols
  <2> HIDE DEF S, T
  <2> QED
    BY <2>1, SeqMonotonic DEF S
<1>2. DecodeRepeatedly(path) \in Seq(T)
  <2>1. MAX_DECODE_ROUNDS \in Nat
    BY DEF MAX_DECODE_ROUNDS
  <2> QED
    BY <1>1, <2>1, DecodeIsPeeled, PeeledIsPath
<1>3. Slash \in T
  BY SlashIsPlain
<1> HIDE DEF T
<1> QED
  BY <1>2, <1>3, NormalizePathForms DEF T

\* extract_target's urlsplit: the path is whole, or it ends at its first
\* question mark.
LEMMA ReadBackCuts ==
  ASSUME NEW url, UrlParts(url), NEW T, url.path \in Seq(T)
  PROVE  /\ Question \notin ToSet(url.path) => ReadBack(url) = url
         /\ Question \in ToSet(url.path) =>
              \E m \in 1 .. Len(url.path) :
                /\ url.path[m] = Question
                /\ \A i \in 1 .. m - 1 : url.path[i] # Question
                /\ UrlParts(ReadBack(url))
                /\ ReadBack(url).path = SubSeq(url.path, 1, m - 1)
<1> DEFINE p == url.path
           cuts == {i \in DOMAIN p : p[i] = Question}
           left == [key |-> 0, value |-> "none"]
           m == Min(cuts)
           short == SubSeq(p, 1, m - 1)
           more == IF m = Len(p) THEN url.query ELSE <<left>> \o url.query
<1>1. Question \in ToSet(p) <=> cuts # {}
  BY DEF ToSet
<1>2. ASSUME cuts = {} PROVE ReadBack(url) = url
  BY <1>2, Zenon DEF ReadBack
<1>3. ASSUME cuts # {} PROVE ReadBack(url) = [url EXCEPT !.path = short, !.query = more]
  <2>1. ReadBack(url) =
          [url EXCEPT !.path  = SubSeq(@, 1, m - 1),
                      !.query = IF m = Len(p) THEN @ ELSE <<left>> \o @]
    BY <1>3, Zenon DEF ReadBack
  <2> DEFINE s == url.scheme
             h == url.host
             n == url.port
             w == url.userinfo
             q == url.query
  <2>2. url = [scheme |-> s, host |-> h, port |-> n, userinfo |-> w, path |-> p, query |-> q]
    BY DEF UrlParts
  <2> HIDE DEF m, cuts, left
  <2> QED
    BY <2>1, <2>2
<1>4. ASSUME cuts # {}
      PROVE  m \in 1 .. Len(p) /\ p[m] = Question /\ \A i \in 1 .. m - 1 : p[i] # Question
  <2> DEFINE n == Len(p)
  <2>1. n \in Nat /\ cuts \in SUBSET (1 .. n) /\ DOMAIN p = 1 .. n
    OBVIOUS
  <2>2. m \in cuts /\ \A i \in cuts : m <= i
    <3> HIDE DEF cuts, n
    <3> QED
      BY <1>4, <2>1, FirstPlace
  <2> HIDE DEF m
  <2>3. \A i \in 1 .. m - 1 : i \in DOMAIN p /\ i \notin cuts
    BY <2>1, <2>2
  <2> QED
    BY <2>1, <2>2, <2>3
<1> HIDE DEF cuts, m, left, short, more
<1>5. ASSUME cuts # {} PROVE UrlParts(ReadBack(url)) /\ ReadBack(url).path = short
  BY <1>3, <1>5 DEF UrlParts
<1> QED
  BY <1>1, <1>2, <1>4, <1>5 DEF short

\* Plain tokens, and only those, are in the lowest layer.
LEMMA PlainIsLowest ==
  ASSUME NEW p \in Seq(Toks(Symbols))
  PROVE  p \in Seq(Layer(0)) <=> \A t \in ToSet(p) : t.encoded = 0
<1> DEFINE T == Toks(Symbols)
           L == Layer(0)
<1>1. L \subseteq T /\ \A t \in T : t \in L <=> t.encoded = 0
  BY DEF Layer, Toks
<1>2. p \in Seq(T)
  OBVIOUS
<1> HIDE DEF T, L
<1>3. ToSet(p) = {p[i] : i \in 1 .. Len(p)}
  BY <1>2 DEF ToSet
<1>4. \A i \in 1 .. Len(p) : p[i] \in T
  BY <1>2
<1>5. p \in Seq(L) <=> \A i \in 1 .. Len(p) : p[i] \in L
  BY <1>2
<1> QED
  BY <1>1, <1>3, <1>4, <1>5 DEF L

\* The canonical form of a URL, read and normalized again.
LEMMA UrlIsStable ==
  ASSUME NEW u \in UrlRecord, NEW c, c = NormalizeUrl(u)
  PROVE  /\ c.path = NormalizePath(u.path)
         /\ NormalizeUrl(ReadBack(c)) = c
              <=> c.path \in Seq(Layer(0)) /\ Question \notin ToSet(c.path)
<1> DEFINE p == c.path
<1>0. /\ u.path \in Seq(Toks(STRING)) /\ u.query \in Seq(Pairs(STRING))
      /\ u.host \in HostRecord /\ UrlParts(u)
  BY DEF UrlRecord, HostRecord, Toks, Pairs, UrlParts
<1>1. c = [scheme |-> u.scheme, host |-> NormalizeHost(u.host),
           port |-> FoldPort(u.scheme, u.port), userinfo |-> FALSE,
           path |-> NormalizePath(u.path), query |-> NormalizeQuery(u.query)]
  BY <1>0, NormalizeUrlParts
<1>2. /\ UrlParts(c) /\ p = NormalizePath(u.path) /\ c.query = NormalizeQuery(u.query)
      /\ c.scheme = u.scheme /\ c.host = NormalizeHost(u.host)
      /\ c.port = FoldPort(u.scheme, u.port) /\ c.userinfo = FALSE
  BY <1>1 DEF UrlParts
<1>3. p \in Forms(Toks(Symbols)) /\ p \in Seq(Toks(Symbols))
  BY <1>0, <1>2, NormalizedForm, SlashIsPlain, FormIsCanonical
<1>4. ASSUME p \in Seq(Layer(0)), Question \notin ToSet(p)
      PROVE  NormalizeUrl(ReadBack(c)) = c
  <2>1. ReadBack(c) = c
    BY <1>2, <1>3, <1>4, ReadBackCuts
  <2>2. NormalizePath(p) = p
    <3>1. \A i \in DOMAIN p : p[i].encoded = 0
      <4>1. \A t \in ToSet(p) : t.encoded = 0
        BY <1>3, <1>4, PlainIsLowest
      <4> QED
        BY <4>1 DEF ToSet
    <3>2. DecodeRepeatedly(p) = p
      BY <1>3, <3>1, DecodedIsStable
    <3> QED
      BY <1>3, <3>2, SlashIsPlain, FormIsCanonical
  <2>3. NormalizeHost(c.host) = c.host
    BY <1>0, <1>2, HostIsStable
  <2>4. FoldPort(c.scheme, c.port) = c.port
    BY <1>2 DEF FoldPort
  <2>5. NormalizeQuery(c.query) = c.query
    BY <1>0, <1>2, QueryIsStable
  <2>6. NormalizeUrl(c) = c
    BY <1>2, <2>2, <2>3, <2>4, <2>5, NormalizeUrlParts DEF UrlParts
  <2> QED
    BY <2>1, <2>6
<1>5. ASSUME NormalizeUrl(ReadBack(c)) = c
      PROVE  p \in Seq(Layer(0)) /\ Question \notin ToSet(p)
  <2>1. CASE Question \notin ToSet(p)
    <3>1. ReadBack(c) = c
      BY <1>2, <1>3, <2>1, ReadBackCuts
    <3>2. NormalizePath(p) = p
      BY <1>2, <1>5, <3>1, NormalizeUrlParts
    <3>3. p \in Seq(Layer(0))
      <4> HIDE DEF p
      <4> QED
        BY <1>3, <3>2, StableIsDecoded
    <3> QED
      BY <2>1, <3>3
  <2>2. CASE Question \in ToSet(p)
    <3>1. PICK m \in 1 .. Len(p) :
            /\ p[m] = Question
            /\ \A i \in 1 .. m - 1 : p[i] # Question
            /\ UrlParts(ReadBack(c))
            /\ ReadBack(c).path = SubSeq(p, 1, m - 1)
      BY <1>2, <1>3, <2>2, ReadBackCuts
    <3> DEFINE q == SubSeq(p, 1, m - 1)
    <3>2. NormalizePath(q) = p
      <4> DEFINE d == ReadBack(c)
      <4>1. UrlParts(d) /\ d.path = q /\ NormalizeUrl(d) = c
        BY <1>5, <3>1
      <4> HIDE DEF d, q
      <4>2. NormalizeUrl(d).path = NormalizePath(d.path)
        BY <4>1, NormalizeUrlParts
      <4> QED
        BY <4>1, <4>2
    <3>3. ASSUME NEW V, p \in Seq(V) PROVE q \in Seq(V)
      <4>0. m \in 1 .. Len(p) /\ Len(p) \in Nat /\ \A i \in 1 .. m - 1 : i \in 1 .. Len(p)
        <5>1. Len(p) \in Nat
          <6> HIDE DEF p
          <6> QED
            BY <3>3
        <5> QED
          BY <5>1
      <4>1. m \in Int /\ m - 1 \in Int /\ \A i \in 1 .. m - 1 : p[i] \in V
        <5> HIDE DEF p
        <5> QED
          BY <3>3, <4>0
      <4> HIDE DEF p
      <4> QED
        BY <4>1, SubSeqProperties
    <3>4. p \in Seq(Layer(0))
      <4> HIDE DEF p, q
      <4> QED
        BY <1>3, <3>2, <3>3, StableIsDecoded
    <3>5. NormalizePath(q) \in Seq(Layer(0) \ {Question})
      <4> HIDE DEF p
      <4> QED
        BY <3>1, <3>4, CutStaysCut
    <3>6. p[m] # Question
      BY <3>2, <3>5
    <3> QED
      BY <3>1, <3>6
  <2> QED
    BY <2>1, <2>2
<1> QED
  BY <1>2, <1>4, <1>5

\* The canonical form of a request, read and normalized again.
LEMMA RequestIsStable ==
  ASSUME NEW r \in Requests, PathDecides(r), NEW c, c = NormalizeArguments(r)
  PROVE  /\ c.url.path \in Forms(Toks(Symbols))
         /\ NormalizeArguments(Reread(c)) = c
              <=> /\ c.url.path \in Seq(Layer(0))
                  /\ r.tool \in HttpTools => Question \notin ToSet(c.url.path)
<1>1. /\ r \in [tool : STRING, url : UrlRecord, text : Seq([kind : STRING, digits : Seq(0 .. 9)])]
      /\ r.url \in UrlRecord
  BY RequestsAssumption
<1>2. r.url.path \in Seq(Toks(STRING))
  BY <1>1 DEF UrlRecord, Toks
<1>3. CASE r.tool \in HttpTools
  <2> DEFINE u == r.url
             v == NormalizeUrl(u)
             w == NormalizeUrl(ReadBack(v))
             x == r.text
             tool == r.tool
  <2>1. r = [tool |-> tool, url |-> u, text |-> x]
    BY <1>1
  <2>2. c = [r EXCEPT !.url = v]
    BY <1>3, Zenon DEF NormalizeArguments, HttpTools
  <2>3. Reread(c) = [c EXCEPT !.url = ReadBack(v)] /\ c.tool = tool /\ c.url = v /\ c.text = x
    <3> HIDE DEF u, v, x, tool
    <3>1. c.tool = tool /\ c.url = v /\ c.text = x
      BY <2>1, <2>2
    <3>2. tool \in HttpTools
      BY <1>3 DEF tool
    <3>3. Reread(c) = [c EXCEPT !.url = ReadBack(v)]
      BY <3>1, <3>2 DEF Reread
    <3> QED
      BY <3>1, <3>3
  <2>4. c = [tool |-> tool, url |-> v, text |-> x]
    <3> HIDE DEF u, v, x, tool
    <3> QED
      BY <2>1, <2>2
  <2> DEFINE y == ReadBack(v)
             d == Reread(c)
  <2>5. d = [tool |-> tool, url |-> y, text |-> x]
    <3> HIDE DEF u, v, x, tool, y
    <3> QED
      BY <2>3, <2>4 DEF y
  <2>6. NormalizeArguments(d) = [tool |-> tool, url |-> w, text |-> x]
    <3>1. d.tool \in HttpTools /\ d.url = y
      BY <1>3, <2>5
    <3> HIDE DEF d, u, x, v, y, w, tool
    <3>2. NormalizeArguments(d) = [d EXCEPT !.url = NormalizeUrl(y)]
      BY <3>1, Zenon DEF NormalizeArguments, HttpTools
    <3>3. [d EXCEPT !.url = NormalizeUrl(y)] = [tool |-> tool, url |-> NormalizeUrl(y), text |-> x]
      BY <2>5
    <3> QED
      BY <3>2, <3>3 DEF w, y
  <2> HIDE DEF w
  <2>7. NormalizeArguments(d) = c <=> w = v
    <3> HIDE DEF d, u, x, v, y, tool
    <3> QED
      BY <2>4, <2>6
  <2>8. v.path \in Forms(Toks(Symbols))
    BY <1>1, <1>2, UrlIsStable, NormalizedForm
  <2>9. w = v <=> v.path \in Seq(Layer(0)) /\ Question \notin ToSet(v.path)
    BY <1>1, UrlIsStable DEF w
  <2> HIDE DEF v
  <2> QED
    BY <1>3, <2>3, <2>7, <2>8, <2>9
<1>4. CASE r.tool = "file.read"
  <2>0. r.tool \notin HttpTools
    BY <1>4 DEF HttpTools
  <2> DEFINE u == r.url
             p == NormalizePath(u.path)
             q == NormalizePath(p)
             x == r.text
             Full(a) == [tool |-> r.tool,
                         url |-> [scheme |-> u.scheme, host |-> u.host, port |-> u.port,
                                  userinfo |-> u.userinfo, path |-> a, query |-> u.query],
                         text |-> x]
  <2>1. r = Full(u.path)
    BY <1>1 DEF UrlRecord
  <2>2. \A a, b : [Full(a) EXCEPT !.url.path = b] = Full(b)
    OBVIOUS
  <2>3. \A a : Full(a).tool = r.tool /\ Full(a).url.path = a
    OBVIOUS
  <2>4. \A a, b : Full(a) = Full(b) => a = b
    BY <2>3, Zenon
  <2>5. \A a : NormalizeArguments(Full(a)) = [Full(a) EXCEPT !.url.path = NormalizePath(a)]
    <3>1. ASSUME NEW f, NEW a, f.tool = "file.read", f.url.path = a
          PROVE  NormalizeArguments(f) = [f EXCEPT !.url.path = NormalizePath(a)]
      <4>1. f.tool \notin HttpTools
        BY <1>4, <2>0, <3>1
      <4> QED
        BY <3>1, <4>1, Zenon DEF NormalizeArguments
    <3> HIDE DEF Full
    <3>2. \A a : Full(a).tool = "file.read" /\ Full(a).url.path = a
      BY <1>4, <2>3
    <3> QED
      BY <3>1, <3>2, Zenon
  <2> HIDE DEF Full
  <2>6. c = Full(p)
    <3> DEFINE a == u.path
    <3>1. c = NormalizeArguments(Full(a))
      BY <2>1
    <3>2. p = NormalizePath(a)
      OBVIOUS
    <3> HIDE DEF a, p
    <3> QED
      BY <2>2, <2>5, <3>1, <3>2
  <2>7. Reread(c) = c
    BY <2>0, <2>3, <2>6, Zenon DEF Reread
  <2>8. NormalizeArguments(c) = Full(q)
    <3> HIDE DEF p
    <3> QED
      BY <2>2, <2>5, <2>6
  <2>9. c.url.path = p
    BY <2>3, <2>6, Zenon
  <2>10. p \in Forms(Toks(Symbols))
    BY <1>2, NormalizedForm
  <2> HIDE DEF q, p
  <2>11. NormalizeArguments(Reread(c)) = c <=> q = p
    BY <2>4, <2>6, <2>7, <2>8
  <2>12. q = p => p \in Seq(Layer(0))
    BY <2>10, StableIsDecoded DEF q
  <2>13. ASSUME p \in Seq(Layer(0)) PROVE q = p
    <3>1. p \in Seq(Toks(Symbols))
      BY <2>10, SlashIsPlain, FormIsCanonical
    <3>2. \A t \in ToSet(p) : t.encoded = 0
      BY <2>13, <3>1, PlainIsLowest
    <3>3. DecodeRepeatedly(p) = p
      BY <3>1, <3>2, DecodedIsStable DEF ToSet
    <3> QED
      BY <2>10, <3>3, SlashIsPlain, FormIsCanonical DEF q
  <2> QED
    BY <2>0, <2>9, <2>10, <2>11, <2>12, <2>13
<1> QED
  BY <1>3, <1>4 DEF PathDecides

\* normalize.py: for every request with a path, its canonical form has the
\* shape, and it is a fixed point of normalization exactly when nothing is left
\* encoded and no "?" was decoded in the path of a URL.
THEOREM CanonicalIsStableHolds == Spec => []CanonicalIsStable
<1>1. IInv => CanonicalIsStable
  <2> SUFFICES ASSUME IInv, stage # "normalize", PathDecides(request)
               PROVE  LET path == canonical.url.path
                          settled == /\ \A t \in ToSet(path) : t.encoded = 0
                                     /\ request.tool \in HttpTools => Question \notin ToSet(path)
                      IN /\ NormalizeArguments(Reread(canonical)) = canonical <=> settled
                         /\ path # <<>> => Head(path) = Slash
                         /\ \A i \in 1 .. Len(path) - 1 : ~ (path[i] = Slash /\ path[i + 1] = Slash)
                         /\ \A s \in ToSet(Segments(path)) : s # <<Parent>>
    BY DEF CanonicalIsStable
  <2> DEFINE path == canonical.url.path
             stable == NormalizeArguments(Reread(canonical)) = canonical
  <2>1. request \in Requests /\ canonical = NormalizeArguments(request)
    BY DEF IInv
  <2>2. /\ path \in Forms(Toks(Symbols))
        /\ stable <=> /\ path \in Seq(Layer(0))
                      /\ request.tool \in HttpTools => Question \notin ToSet(path)
    BY <2>1, RequestIsStable
  <2>3. path \in Seq(Toks(Symbols)) /\ Shape(path)
    <3> HIDE DEF path
    <3> QED
      BY <2>2, SlashIsPlain, FormIsCanonical
  <2>4. path \in Seq(Layer(0)) <=> \A t \in ToSet(path) : t.encoded = 0
    <3> HIDE DEF path
    <3> QED
      BY <2>3, PlainIsLowest
  <2> HIDE DEF stable
  <2> QED
    BY <2>2, <2>3, <2>4 DEF Shape, stable
<1> QED
  BY <1>1, InspectionInvariant, PTL
=============================================================================
