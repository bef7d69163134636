--------------------------- MODULE JobRequestProofs ---------------------------
(***************************************************************************)
(* From the configuration to the job, for texts over any atoms, price      *)
(* lists of any length and integers of any width: what splitting, joining  *)
(* and trimming do to a text, what is read of a configuration, of what the *)
(* NixOS module renders and of a request, and the four properties the run  *)
(* checks.  Functions defined by recursion are reasoned about by induction *)
(* on sets of numbers (UpToBound), after it is shown that such a function  *)
(* exists and is the only one (RecursionExists, RecursionIsUnique).        *)
(***************************************************************************)
EXTENDS JobRequestCheck, FiniteSetTheorems, SequenceTheorems, TLAPS

BP == INSTANCE BillingProofs

\* A non-empty set of natural numbers has a least element.
LEMMA LeastNatural ==
  ASSUME NEW S, S \subseteq Nat, S # {}
  PROVE  \E least \in S : \A n \in S : least <= n
BY BP!LeastElement, SettingsAssumption

\* Induction up to a bound, over the set of numbers for which something holds.
LEMMA UpToBound ==
  ASSUME NEW n \in Nat, NEW S, 0 \in S, \A k \in 0..n - 1 : k \in S => k + 1 \in S
  PROVE  \A k \in 0..n : k \in S
<1> DEFINE Missed == (0..n) \ S
<1>1. SUFFICES ASSUME Missed # {} PROVE FALSE
  OBVIOUS
<1>2. Missed \subseteq Nat
  OBVIOUS
<1>3. PICK least \in Missed : \A k \in Missed : least <= k
  BY <1>1, <1>2, LeastNatural
<1>4. least - 1 \in 0..n - 1 /\ least - 1 \notin Missed /\ (least - 1) + 1 = least
  BY <1>3
<1>5. least - 1 \in S
  BY <1>4
<1> QED  BY <1>3, <1>4, <1>5

\* A function of the numbers up to a bound that is defined by recursion.
StepFunctions(n, V) == [(1..n) \X V -> V]

Recursive(f, n, V, base, next) ==
  /\ f \in [0..n -> V]
  /\ f[0] = base
  /\ \A k \in 1..n : f[k] = next[<<k, f[k - 1]>>]

\* Such a function exists.
LEMMA RecursionExists ==
  ASSUME NEW n \in Nat, NEW V, NEW base \in V, NEW next \in StepFunctions(n, V)
  PROVE  \E f : Recursive(f, n, V, base, next)
<1> USE DEF StepFunctions
<1> DEFINE Good(f, m) == f[0] = base /\ \A k \in 1..m : f[k] = next[<<k, f[k - 1]>>]
           Reached    == {m \in 0..n : \E f \in [0..m -> V] : Good(f, m)}
<1>1. 0 \in Reached
  <2> DEFINE f == [i \in 0..0 |-> base]
  <2>1. f \in [0..0 -> V] /\ Good(f, 0)
    OBVIOUS
  <2> HIDE DEF f, Good
  <2> QED  BY <2>1
<1>2. ASSUME NEW m \in 0..n - 1, m \in Reached
      PROVE  m + 1 \in Reached
  <2>1. PICK f \in [0..m -> V] : Good(f, m)
    BY <1>2
  <2> DEFINE g == [i \in 0..m + 1 |-> IF i = m + 1 THEN next[<<m + 1, f[m]>>] ELSE f[i]]
  <2>2. g \in [0..m + 1 -> V]
    BY <2>1
  <2>3. g[0] = base
    BY <2>1
  <2>4. ASSUME NEW k \in 1..m + 1 PROVE g[k] = next[<<k, g[k - 1]>>]
    <3>1. CASE k = m + 1
      <4>1. g[k] = next[<<m + 1, f[m]>>] /\ g[k - 1] = f[m]
        BY <3>1
      <4> QED  BY <3>1, <4>1
    <3>2. CASE k # m + 1
      <4>1. k \in 1..m /\ g[k] = f[k] /\ g[k - 1] = f[k - 1]
        BY <3>2
      <4> QED  BY <2>1, <4>1
    <3> QED  BY <3>1, <3>2
  <2>5. Good(g, m + 1)
    BY <2>3, <2>4
  <2> HIDE DEF g, Good
  <2>6. m + 1 \in 0..n
    OBVIOUS
  <2> QED  BY <2>2, <2>5, <2>6
<1> HIDE DEF Reached
<1>3. n \in Reached
  BY <1>1, <1>2, UpToBound
<1> QED  BY <1>3 DEF Reached, Recursive

\* What follows the recursion wherever it has kept to the values is that function.
Follows(g, n, V, base, next) ==
  /\ g = [k \in 0..n |-> g[k]]
  /\ g[0] = base
  /\ \A k \in 1..n : g[k - 1] \in V => g[k] = next[<<k, g[k - 1]>>]

\* Two functions that follow the same recursion are one.
LEMMA RecursionIsUnique ==
  ASSUME NEW n \in Nat, NEW V, NEW base \in V, NEW next \in StepFunctions(n, V),
         NEW f, Recursive(f, n, V, base, next), NEW g, Follows(g, n, V, base, next)
  PROVE  g = f
<1> USE DEF Recursive, Follows
<1> DEFINE Same == {k \in 0..n : g[k] = f[k]}
<1>1. 0 \in Same
  OBVIOUS
<1>2. ASSUME NEW k \in 0..n - 1, k \in Same PROVE k + 1 \in Same
  <2>1. k + 1 \in 1..n /\ (k + 1) - 1 = k /\ k + 1 \in 0..n /\ k \in 0..n
    OBVIOUS
  <2>2. f[k] \in V /\ g[k] = f[k]
    BY <1>2, <2>1
  <2>3. g[k + 1] = next[<<k + 1, g[k]>>] /\ f[k + 1] = next[<<k + 1, f[k]>>]
    BY <2>1, <2>2
  <2> QED  BY <2>1, <2>2, <2>3
<1> HIDE DEF Same
<1>3. \A k \in 0..n : k \in Same
  BY <1>1, <1>2, UpToBound
<1>4. \A k \in 0..n : g[k] = f[k]
  BY <1>3 DEF Same
<1>5. f = [k \in 0..n |-> f[k]] /\ g = [k \in 0..n |-> g[k]]
  OBVIOUS
<1> QED  BY <1>4, <1>5
-----------------------------------------------------------------------------
(***************************************************************************)
(* Sequences.                                                              *)
(***************************************************************************)
\* A prefix grows by the next item.
LEMMA PrefixGrows ==
  ASSUME NEW A, NEW t \in Seq(A), NEW k \in 0..Len(t) - 1
  PROVE  /\ SubSeq(t, 1, k) \in Seq(A)
         /\ SubSeq(t, 1, k + 1) = Append(SubSeq(t, 1, k), t[k + 1])
         /\ t[k + 1] \in A
  OBVIOUS

\* A sequence that is not empty has a length.
LEMMA NotEmpty ==
  ASSUME NEW A, NEW s \in Seq(A), s # <<>>
  PROVE  Len(s) \in Nat \ {0}
BY EmptySeq, LenProperties

\* A sequence of length one is its item.
LEMMA OneItem ==
  ASSUME NEW A, NEW s \in Seq(A), Len(s) = 1
  PROVE  s = <<s[1]>>
OBVIOUS

\* All of a sequence is the sequence.
LEMMA WholeSubSeq ==
  ASSUME NEW A, NEW s \in Seq(A)
  PROVE  SubSeq(s, 1, Len(s)) = s
BY SubSeqFull

\* A sequence is its front and its last item.
LEMMA Ends ==
  ASSUME NEW A, NEW s \in Seq(A), s # <<>>
  PROVE  /\ Front(s) \in Seq(A) /\ Last(s) \in A
         /\ Len(Front(s)) = Len(s) - 1
         /\ s = Append(Front(s), Last(s))
<1> DEFINE n == Len(s)
           f == SubSeq(s, 1, n - 1)
<1>1. n \in Nat \ {0} /\ \A i \in 1..n : s[i] \in A
  <2>1. n \in Nat \ {0}
    BY NotEmpty
  <2>2. \A i \in 1..n : s[i] \in A
    BY ElementOfSeq
  <2> QED  BY <2>1, <2>2
<1>2. f \in Seq(A) /\ Len(f) = n - 1 /\ \A i \in 1..n - 1 : f[i] = s[i]
  <2>1. \A i \in 1..n - 1 : s[i] \in A
    BY <1>1
  <2>2. /\ f \in Seq(A) /\ Len(f) = (IF 1 <= n - 1 THEN (n - 1) - 1 + 1 ELSE 0)
        /\ \A i \in 1..(n - 1) - 1 + 1 : f[i] = s[1 + i - 1]
    BY <1>1, <2>1, SubSeqProperties
  <2> HIDE DEF f, n
  <2>3. Len(f) = n - 1
    BY <1>1, <2>2
  <2>4. ASSUME NEW i \in 1..n - 1 PROVE f[i] = s[i]
    <3>1. i \in 1..(n - 1) - 1 + 1 /\ 1 + i - 1 = i
      BY <1>1
    <3> QED  BY <2>2, <3>1
  <2> QED  BY <2>2, <2>3, <2>4
<1>3. s = Append(f, s[n])
  BY <1>1, <1>2
<1>4. Front(s) = f /\ Last(s) = s[n]
  BY DEF Front, Last
<1> HIDE DEF f
<1>5. s[n] \in A
  BY <1>1
<1> QED  BY <1>2, <1>3, <1>4, <1>5

\* What is appended is the last item, and the front what it is appended to.
LEMMA EndsOfAppend ==
  ASSUME NEW A, NEW s \in Seq(A), NEW x \in A
  PROVE  Append(s, x) # <<>> /\ Front(Append(s, x)) = s /\ Last(Append(s, x)) = x
BY DEF Front, Last

\* Appending to the second of two sequences appends to both together.
LEMMA ConcatAppend ==
  ASSUME NEW A, NEW s \in Seq(A), NEW t \in Seq(A), NEW x \in A
  PROVE  s \o Append(t, x) = Append(s \o t, x)
OBVIOUS

\* How appending and putting together go with one another.
LEMMA AppendConcat ==
  ASSUME NEW A, NEW s \in Seq(A), NEW t \in Seq(A), NEW x \in A
  PROVE  /\ s \o Append(t, x) = Append(s \o t, x)
         /\ s \o <<x>> = Append(s, x)
         /\ s \o <<>> = s
         /\ s \o t \in Seq(A)
OBVIOUS

-----------------------------------------------------------------------------
(***************************************************************************)
(* Splitting.                                                              *)
(***************************************************************************)
Fields(A) == Seq(Seq(A)) \ {<<>>}

\* What the next atom of a text does to the fields found so far.
Extend(fields, atom, mark) ==
  IF atom = mark THEN Append(fields, <<>>)
  ELSE Append(Front(fields), Append(Last(fields), atom))

\* Extending fields leaves fields.
LEMMA ExtendKeepsFields ==
  ASSUME NEW A, NEW fields \in Fields(A), NEW atom \in A, NEW mark
  PROVE  Extend(fields, atom, mark) \in Fields(A)
<1>1. fields \in Seq(Seq(A)) /\ <<>> \in Seq(A)
  BY DEF Fields
<1>2. Front(fields) \in Seq(Seq(A)) /\ Last(fields) \in Seq(A)
  BY <1>1, Ends DEF Fields
<1>3. Append(Last(fields), atom) \in Seq(A)
  BY <1>2
<1>4. Append(fields, <<>>) \in Fields(A)
  BY <1>1, EndsOfAppend DEF Fields
<1>5. Append(Front(fields), Append(Last(fields), atom)) \in Fields(A)
  <2>1. Append(Front(fields), Append(Last(fields), atom)) # <<>>
    BY <1>2, <1>3, EndsOfAppend
  <2> QED  BY <1>2, <1>3, <2>1 DEF Fields
<1> QED  BY <1>4, <1>5 DEF Extend

\* Split goes through the text atom by atom.
LEMMA SplitWalk ==
  ASSUME NEW A, NEW text \in Seq(A), NEW mark
  PROVE  \E f \in [0..Len(text) -> Fields(A)] :
           /\ f[0] = <<<<>>>>
           /\ \A n \in 1..Len(text) : f[n] = Extend(f[n - 1], text[n], mark)
           /\ Split(text, mark) = f[Len(text)]
<1> DEFINE V    == Fields(A)
           next == [p \in (1..Len(text)) \X V |-> Extend(p[2], text[p[1]], mark)]
           base == <<<<>>>>
<1>1. Len(text) \in Nat /\ \A n \in 1..Len(text) : text[n] \in A
  OBVIOUS
<1>2. base \in V
  BY DEF Fields
<1>3. ASSUME NEW p \in (1..Len(text)) \X V PROVE Extend(p[2], text[p[1]], mark) \in V
  <2>1. p[1] \in 1..Len(text) /\ p[2] \in V
    OBVIOUS
  <2> HIDE DEF V
  <2> QED  BY <1>1, <2>1, ExtendKeepsFields DEF V
<1>4. next \in StepFunctions(Len(text), V)
  BY <1>3 DEF StepFunctions
<1> HIDE DEF V
<1>5. \A n \in 1..Len(text), v \in V : next[<<n, v>>] = Extend(v, text[n], mark)
  OBVIOUS
<1> HIDE DEF next, base
<1>0. PICK f : Recursive(f, Len(text), V, base, next)
  BY <1>1, <1>2, <1>4, RecursionExists
<1>6. /\ f \in [0..Len(text) -> V]
      /\ f[0] = base /\ \A n \in 1..Len(text) : f[n] = next[<<n, f[n - 1]>>]
  BY <1>0 DEF Recursive
<1>7. ASSUME NEW n \in 1..Len(text) PROVE f[n] = Extend(f[n - 1], text[n], mark)
  <2>1. n - 1 \in 0..Len(text)
    BY <1>1
  <2>2. f[n - 1] \in V
    BY <1>6, <2>1
  <2> QED  BY <1>5, <1>6, <2>2
<1>8. f = [n \in 0..Len(text) |->
             IF n = 0 THEN <<<<>>>> ELSE Extend(f[n - 1], text[n], mark)]
  <2>1. ASSUME NEW n \in 0..Len(text)
        PROVE  f[n] = IF n = 0 THEN <<<<>>>> ELSE Extend(f[n - 1], text[n], mark)
    <3>1. CASE n = 0
      BY <1>6, <3>1 DEF base
    <3>2. CASE n # 0
      <4>1. n \in 1..Len(text)
        BY <1>1, <3>2
      <4> QED  BY <1>7, <3>2, <4>1
    <3> QED  BY <3>1, <3>2
  <2>2. f = [n \in 0..Len(text) |-> f[n]]
    BY <1>6
  <2> QED  BY <2>1, <2>2
<1> DEFINE upto[n \in 0..Len(text)] ==
             IF n = 0 THEN <<<<>>>> ELSE Extend(upto[n - 1], text[n], mark)
<1>9. upto = [n \in 0..Len(text) |->
               IF n = 0 THEN <<<<>>>> ELSE Extend(upto[n - 1], text[n], mark)]
  BY <1>8
<1>10. Split(text, mark) = upto[Len(text)]
  BY DEF Split, Extend
<1> HIDE DEF upto
<1>11. ASSUME NEW n \in 0..Len(text) PROVE upto[n] = f[n]
  <2> DEFINE Same == {k \in 0..Len(text) : upto[k] = f[k]}
  <2>1. 0 \in Same
    BY <1>1, <1>6, <1>9 DEF base
  <2>2. ASSUME NEW k \in 0..Len(text) - 1, k \in Same PROVE k + 1 \in Same
    <3>1. k + 1 \in 1..Len(text) /\ (k + 1) - 1 = k /\ k + 1 \in 0..Len(text) /\ k + 1 # 0
      BY <1>1
    <3>2. upto[k + 1] = Extend(upto[k], text[k + 1], mark)
      BY <1>9, <3>1
    <3>3. f[k + 1] = Extend(f[k], text[k + 1], mark)
      BY <1>7, <3>1
    <3> QED  BY <2>2, <3>1, <3>2, <3>3
  <2> HIDE DEF Same
  <2>3. n \in Same
    BY <1>1, <2>1, <2>2, UpToBound
  <2> QED  BY <2>3 DEF Same
<1>12. Split(text, mark) = f[Len(text)]
  BY <1>1, <1>10, <1>11
<1> QED  BY <1>6, <1>7, <1>12 DEF V, base

\* Splitting nothing, and splitting one atom more.
LEMMA SplitEmpty ==
  ASSUME NEW mark
  PROVE  Split(<<>>, mark) = <<<<>>>>
<1> DEFINE text == <<>>
<1>1. text \in Seq({}) /\ Len(text) = 0
  OBVIOUS
<1> HIDE DEF text
<1>2. \E f \in [0..Len(text) -> Fields({})] :
        /\ f[0] = <<<<>>>>
        /\ \A n \in 1..Len(text) : f[n] = Extend(f[n - 1], text[n], mark)
        /\ Split(text, mark) = f[Len(text)]
  BY <1>1, SplitWalk
<1> QED  BY <1>1, <1>2 DEF text

\* Splitting a longer text is extending the fields of the shorter.
LEMMA SplitAppend ==
  ASSUME NEW A, NEW text \in Seq(A), NEW atom \in A, NEW mark
  PROVE  /\ Split(text, mark) \in Fields(A)
         /\ Split(Append(text, atom), mark) = Extend(Split(text, mark), atom, mark)
<1> DEFINE N == Len(text)
           more == Append(text, atom)
<1>1. /\ N \in Nat /\ more \in Seq(A) /\ Len(more) = N + 1
      /\ \A n \in 1..N : more[n] = text[n]
      /\ more[N + 1] = atom
  OBVIOUS
<1>2. PICK f \in [0..N -> Fields(A)] :
        /\ f[0] = <<<<>>>>
        /\ \A n \in 1..N : f[n] = Extend(f[n - 1], text[n], mark)
        /\ Split(text, mark) = f[N]
  BY SplitWalk
<1>3. PICK g \in [0..N + 1 -> Fields(A)] :
        /\ g[0] = <<<<>>>>
        /\ \A n \in 1..N + 1 : g[n] = Extend(g[n - 1], more[n], mark)
        /\ Split(more, mark) = g[N + 1]
  <2>1. \E g \in [0..Len(more) -> Fields(A)] :
          /\ g[0] = <<<<>>>>
          /\ \A n \in 1..Len(more) : g[n] = Extend(g[n - 1], more[n], mark)
          /\ Split(more, mark) = g[Len(more)]
    BY <1>1, SplitWalk
  <2> HIDE DEF more
  <2> QED  BY <1>1, <2>1
<1> HIDE DEF more, N
<1> DEFINE Same == {n \in 0..N : g[n] = f[n]}
<1>4. 0 \in Same
  BY <1>1, <1>2, <1>3
<1>5. ASSUME NEW k \in 0..N - 1, k \in Same PROVE k + 1 \in Same
  <2>1. k + 1 \in 1..N /\ k + 1 \in 1..N + 1 /\ (k + 1) - 1 = k /\ k + 1 \in 0..N
    BY <1>1
  <2>2. g[k + 1] = Extend(g[k], text[k + 1], mark)
    BY <1>1, <1>3, <2>1
  <2>3. f[k + 1] = Extend(f[k], text[k + 1], mark)
    BY <1>2, <2>1
  <2> QED  BY <1>5, <2>1, <2>2, <2>3
<1> HIDE DEF Same
<1>6. \A n \in 0..N : n \in Same
  BY <1>1, <1>4, <1>5, UpToBound
<1>7. g[N] = f[N]
  BY <1>1, <1>6 DEF Same
<1>8. N + 1 \in 1..N + 1 /\ (N + 1) - 1 = N /\ N \in 0..N
  BY <1>1
<1>9. g[N + 1] = Extend(g[N], atom, mark)
  BY <1>1, <1>3, <1>8
<1> QED  BY <1>2, <1>3, <1>7, <1>8, <1>9 DEF more

\* A text splits into at least one field.
LEMMA SplitIsFields ==
  ASSUME NEW A, NEW text \in Seq(A), NEW mark
  PROVE  Split(text, mark) \in Fields(A)
<1>1. Len(text) \in 0..Len(text)
  OBVIOUS
<1> QED  BY <1>1, SplitWalk

\* A text in which a mark does not occur.
Lacks(text, mark) == \A i \in 1..Len(text) : text[i] # mark

\* A text without the mark is one field.
LEMMA SplitWithoutMark ==
  ASSUME NEW A, NEW text \in Seq(A), NEW mark, Lacks(text, mark)
  PROVE  Split(text, mark) = <<text>>
<1> DEFINE Done == {n \in 0..Len(text) : Split(SubSeq(text, 1, n), mark) = <<SubSeq(text, 1, n)>>}
<1>1. Len(text) \in Nat
  OBVIOUS
<1>2. 0 \in Done
  <2>1. SubSeq(text, 1, 0) = <<>> /\ 0 \in 0..Len(text)
    OBVIOUS
  <2>2. Split(SubSeq(text, 1, 0), mark) = <<SubSeq(text, 1, 0)>>
    BY <2>1, SplitEmpty
  <2> QED  BY <2>1, <2>2
<1>3. ASSUME NEW k \in 0..Len(text) - 1, k \in Done PROVE k + 1 \in Done
  <2> DEFINE t == SubSeq(text, 1, k)
             a == text[k + 1]
  <2>1. t \in Seq(A) /\ SubSeq(text, 1, k + 1) = Append(t, a) /\ a \in A
    BY PrefixGrows
  <2>2. a # mark /\ k + 1 \in 0..Len(text)
    BY <1>1 DEF Lacks
  <2>3. Split(t, mark) = <<t>>
    BY <1>3
  <2> HIDE DEF t, a
  <2>4. Split(Append(t, a), mark) = Extend(<<t>>, a, mark)
    BY <2>1, <2>3, SplitAppend
  <2>5. Extend(<<t>>, a, mark) = Append(Front(<<t>>), Append(Last(<<t>>), a))
    BY <2>2 DEF Extend
  <2>6. Front(<<t>>) = <<>> /\ Last(<<t>>) = t
    BY DEF Front, Last
  <2>7. Extend(<<t>>, a, mark) = <<Append(t, a)>>
    BY <2>5, <2>6
  <2> QED  BY <2>1, <2>2, <2>4, <2>7
<1> HIDE DEF Done
<1>4. \A n \in 0..Len(text) : n \in Done
  BY <1>1, <1>2, <1>3, UpToBound
<1>5. Len(text) \in 0..Len(text) /\ SubSeq(text, 1, Len(text)) = text
  BY <1>1, WholeSubSeq
<1> QED  BY <1>4, <1>5 DEF Done

\* What stands before a mark and what stands after it are split by themselves.
LEMMA ExtendConcat ==
  ASSUME NEW V, NEW F \in Seq(V), NEW G \in Seq(V), G # <<>>, NEW atom, NEW mark,
         <<>> \in V, Append(Last(G), atom) \in V
  PROVE  Extend(F \o G, atom, mark) = F \o Extend(G, atom, mark)
<1> DEFINE front  == Front(G)
           last   == Last(G)
           longer == Append(last, atom)
           none   == <<>>
<1>1. front \in Seq(V) /\ last \in V /\ G = Append(front, last)
  BY Ends
<1>2. longer \in V /\ none \in V
  OBVIOUS
<1>3. Extend(G, atom, mark) = IF atom = mark THEN Append(G, none) ELSE Append(front, longer)
  BY DEF Extend
<1>4. Extend(F \o G, atom, mark) = IF atom = mark THEN Append(F \o G, none)
                                   ELSE Append(Front(F \o G), Append(Last(F \o G), atom))
  BY DEF Extend
<1> HIDE DEF front, last, none
<1>5. F \o G = Append(F \o front, last) /\ F \o front \in Seq(V)
  BY <1>1, AppendConcat
<1>6. Front(F \o G) = F \o front /\ Last(F \o G) = last
  <2> DEFINE w == F \o front
  <2>1. w \in Seq(V) /\ F \o G = Append(w, last)
    BY <1>5
  <2> HIDE DEF w
  <2>2. Front(Append(w, last)) = w /\ Last(Append(w, last)) = last
    BY <1>1, <2>1, EndsOfAppend
  <2> QED  BY <2>1, <2>2 DEF w
<1>7. F \o Append(G, none) = Append(F \o G, none)
  BY <1>2, ConcatAppend
<1>8. F \o Append(front, longer) = Append(F \o front, longer)
  <2> HIDE DEF longer
  <2> QED  BY <1>1, <1>2, ConcatAppend
<1> QED  BY <1>3, <1>4, <1>6, <1>7, <1>8

\* Texts on both sides of a mark are split each by itself.
LEMMA SplitAtMark ==
  ASSUME NEW A, NEW t \in Seq(A), NEW u \in Seq(A), NEW mark \in A
  PROVE  Split(Append(t, mark) \o u, mark) = Split(t, mark) \o Split(u, mark)
<1> DEFINE T == Append(t, mark)
           Done == {n \in 0..Len(u) : Split(T \o SubSeq(u, 1, n), mark)
                                        = Split(t, mark) \o Split(SubSeq(u, 1, n), mark)}
<1>1. Len(u) \in Nat /\ T \in Seq(A)
  OBVIOUS
<1>2. Split(t, mark) \in Seq(Seq(A))
  BY SplitIsFields DEF Fields
<1>3. 0 \in Done
  <2>1. SubSeq(u, 1, 0) = <<>> /\ T \o <<>> = T /\ 0 \in 0..Len(u)
    OBVIOUS
  <2>2. Split(T, mark) = Append(Split(t, mark), <<>>)
    BY SplitAppend DEF Extend
  <2>3. <<>> \in Seq(A)
    OBVIOUS
  <2>4. Split(t, mark) \o <<<<>>>> = Append(Split(t, mark), <<>>)
    BY <1>2, <2>3, AppendConcat
  <2> HIDE DEF T
  <2>5. Split(T \o SubSeq(u, 1, 0), mark) = Split(t, mark) \o Split(SubSeq(u, 1, 0), mark)
    BY <2>1, <2>2, <2>4, SplitEmpty
  <2> QED  BY <2>1, <2>5
<1>4. ASSUME NEW k \in 0..Len(u) - 1, k \in Done PROVE k + 1 \in Done
  <2> DEFINE v == SubSeq(u, 1, k)
             a == u[k + 1]
  <2>1. v \in Seq(A) /\ SubSeq(u, 1, k + 1) = Append(v, a) /\ a \in A
    BY PrefixGrows
  <2>2. Split(T \o v, mark) = Split(t, mark) \o Split(v, mark)
    BY <1>4
  <2>3. k + 1 \in 0..Len(u)
    BY <1>1
  <2> HIDE DEF v, a, T
  <2>4. T \o Append(v, a) = Append(T \o v, a) /\ T \o v \in Seq(A)
    BY <1>1, <2>1, AppendConcat
  <2> HIDE DEF Done
  <2>5. Split(T \o Append(v, a), mark) = Extend(Split(t, mark) \o Split(v, mark), a, mark)
    <3> DEFINE w == T \o v
    <3>1. w \in Seq(A)
      BY <2>4
    <3> HIDE DEF w
    <3>2. Split(Append(w, a), mark) = Extend(Split(w, mark), a, mark)
      BY <2>1, <3>1, SplitAppend
    <3> QED  BY <2>2, <2>4, <3>2 DEF w
  <2>6. Split(v, mark) \in Fields(A) /\ Split(Append(v, a), mark) = Extend(Split(v, mark), a, mark)
    BY <2>1, SplitAppend
  <2>7. Split(v, mark) \in Seq(Seq(A)) /\ Split(v, mark) # <<>>
    BY <2>6 DEF Fields
  <2>8. <<>> \in Seq(A) /\ Append(Last(Split(v, mark)), a) \in Seq(A)
    <3>1. Last(Split(v, mark)) \in Seq(A)
      BY <2>7, Ends
    <3> QED  BY <2>1, <3>1
  <2> DEFINE V == Seq(A)
  <2>9. Split(t, mark) \in Seq(V) /\ Split(v, mark) \in Seq(V)
        /\ <<>> \in V /\ Append(Last(Split(v, mark)), a) \in V
    BY <1>2, <2>7, <2>8
  <2> HIDE DEF V
  <2>10. Split(T \o Append(v, a), mark) = Split(t, mark) \o Split(Append(v, a), mark)
    BY <2>5, <2>6, <2>7, <2>9, ExtendConcat
  <2> QED  BY <2>1, <2>3, <2>10 DEF Done, v
<1> HIDE DEF Done, T
<1>5. \A n \in 0..Len(u) : n \in Done
  BY <1>1, <1>3, <1>4, UpToBound
<1>6. Len(u) \in 0..Len(u) /\ SubSeq(u, 1, Len(u)) = u
  BY <1>1, WholeSubSeq
<1> QED  BY <1>5, <1>6 DEF Done, T
-----------------------------------------------------------------------------
(***************************************************************************)
(* Joining.                                                                *)
(***************************************************************************)
\* FlattenSeq strings the sequences together one by one.
LEMMA FlattenWalk ==
  ASSUME NEW A, NEW seqs \in Seq(Seq(A)), seqs # <<>>
  PROVE  \E f \in [0..Len(seqs) - 1 -> Seq(A)] :
           /\ f[0] = seqs[1]
           /\ \A n \in 1..Len(seqs) - 1 : f[n] = f[n - 1] \o seqs[n + 1]
           /\ FlattenSeq(seqs) = f[Len(seqs) - 1]
<1> DEFINE V    == Seq(A)
           N    == Len(seqs) - 1
           base == seqs[1]
           next == [p \in (1..N) \X V |-> p[2] \o seqs[p[1] + 1]]
<1>1. N \in Nat /\ Len(seqs) = N + 1 /\ \A n \in 1..N + 1 : seqs[n] \in V
  <2>1. Len(seqs) \in Nat \ {0}
    BY NotEmpty
  <2>2. \A n \in 1..Len(seqs) : seqs[n] \in Seq(A)
    OBVIOUS
  <2> QED  BY <2>1, <2>2
<1>2. \A v \in V, w \in V : v \o w \in V
  OBVIOUS
<1> HIDE DEF V
<1>3. base \in V
  BY <1>1
<1>4. ASSUME NEW p \in (1..N) \X V PROVE p[2] \o seqs[p[1] + 1] \in V
  <2>1. p[1] + 1 \in 1..N + 1 /\ p[2] \in V
    BY <1>1
  <2> QED  BY <1>1, <1>2, <2>1
<1>5. next \in StepFunctions(N, V)
  BY <1>4 DEF StepFunctions
<1>6. \A n \in 1..N, v \in V : next[<<n, v>>] = v \o seqs[n + 1]
  OBVIOUS
<1> HIDE DEF next, base, N
<1>7. PICK f : Recursive(f, N, V, base, next)
  BY <1>1, <1>3, <1>5, RecursionExists
<1>8. /\ f \in [0..N -> V] /\ f[0] = base
      /\ \A n \in 1..N : f[n] = next[<<n, f[n - 1]>>]
  BY <1>7 DEF Recursive
<1>9. ASSUME NEW n \in 1..N PROVE f[n] = f[n - 1] \o seqs[n + 1]
  <2>1. f[n - 1] \in V
    BY <1>1, <1>8
  <2> QED  BY <1>6, <1>8, <2>1
<1> DEFINE g == [i \in 1..Len(seqs) |-> f[i - 1]]
<1>10. g = [i \in 1..Len(seqs) |-> IF i = 1 THEN seqs[i] ELSE g[i - 1] \o seqs[i]]
  <2>1. ASSUME NEW i \in 1..Len(seqs)
        PROVE  g[i] = IF i = 1 THEN seqs[i] ELSE g[i - 1] \o seqs[i]
    <3>1. CASE i = 1
      BY <1>1, <1>8, <3>1 DEF base
    <3>2. CASE i # 1
      <4>1. i - 1 \in 1..N /\ i - 1 \in 1..Len(seqs) /\ (i - 1) + 1 = i
        BY <1>1, <3>2
      <4>2. g[i] = f[i - 1] /\ g[i - 1] = f[(i - 1) - 1]
        BY <4>1
      <4>3. f[i - 1] = f[(i - 1) - 1] \o seqs[i]
        BY <1>9, <4>1
      <4> QED  BY <3>2, <4>2, <4>3
    <3> QED  BY <3>1, <3>2
  <2>2. g = [i \in 1..Len(seqs) |-> g[i]]
    OBVIOUS
  <2> HIDE DEF g
  <2> QED  BY <2>1, <2>2
<1> HIDE DEF g
<1> DEFINE flatten[i \in 1..Len(seqs)] ==
             IF i = 1 THEN seqs[i] ELSE flatten[i - 1] \o seqs[i]
<1>11. flatten = [i \in 1..Len(seqs) |-> IF i = 1 THEN seqs[i] ELSE flatten[i - 1] \o seqs[i]]
  BY <1>10
<1>12. FlattenSeq(seqs) = flatten[Len(seqs)]
  BY <1>1 DEF FlattenSeq
<1> HIDE DEF flatten
<1> DEFINE Same == {k \in 0..N : flatten[k + 1] = f[k]}
<1>13. 0 \in Same
  BY <1>1, <1>8, <1>11 DEF base
<1>14. ASSUME NEW k \in 0..N - 1, k \in Same PROVE k + 1 \in Same
  <2>1. /\ k + 1 \in 1..N /\ k + 1 \in 0..N /\ (k + 1) - 1 = k
        /\ (k + 1) + 1 \in 1..Len(seqs) /\ (k + 1) + 1 # 1 /\ ((k + 1) + 1) - 1 = k + 1
    BY <1>1
  <2>2. flatten[(k + 1) + 1] = flatten[k + 1] \o seqs[(k + 1) + 1]
    BY <1>11, <2>1
  <2>3. f[k + 1] = f[k] \o seqs[(k + 1) + 1]
    BY <1>9, <2>1
  <2> QED  BY <1>14, <2>1, <2>2, <2>3
<1> HIDE DEF Same
<1>15. \A k \in 0..N : k \in Same
  BY <1>1, <1>13, <1>14, UpToBound
<1>16. flatten[N + 1] = f[N]
  BY <1>1, <1>15 DEF Same
<1>17. FlattenSeq(seqs) = f[N]
  BY <1>1, <1>12, <1>16
<1>18. f[0] = seqs[1]
  BY <1>8 DEF base
<1> QED  BY <1>8, <1>9, <1>17, <1>18 DEF V, N

\* Flattening one sequence more puts it at the end.
LEMMA FlattenAppend ==
  ASSUME NEW A, NEW seqs \in Seq(Seq(A)), seqs # <<>>, NEW seq \in Seq(A)
  PROVE  /\ FlattenSeq(seqs) \in Seq(A)
         /\ FlattenSeq(<<seq>>) = seq
         /\ FlattenSeq(Append(seqs, seq)) = FlattenSeq(seqs) \o seq
<1> DEFINE V    == Seq(A)
           N    == Len(seqs) - 1
           more == Append(seqs, seq)
           one  == <<seq>>
<1>1. N \in Nat /\ Len(seqs) = N + 1
  BY NotEmpty
<1>2. /\ more \in Seq(V) /\ more # <<>> /\ Len(more) = N + 2
      /\ \A n \in 1..N + 1 : more[n] = seqs[n]
      /\ more[N + 2] = seq
  BY <1>1
<1>3. one \in Seq(V) /\ one # <<>> /\ Len(one) = 1 /\ one[1] = seq
  OBVIOUS
<1> HIDE DEF N, more, one
<1>4. PICK f \in [0..N -> V] :
        /\ f[0] = seqs[1]
        /\ \A n \in 1..N : f[n] = f[n - 1] \o seqs[n + 1]
        /\ FlattenSeq(seqs) = f[N]
  BY FlattenWalk DEF N
<1>5. PICK g \in [0..N + 1 -> V] :
        /\ g[0] = more[1]
        /\ \A n \in 1..N + 1 : g[n] = g[n - 1] \o more[n + 1]
        /\ FlattenSeq(more) = g[N + 1]
  <2>1. Len(more) - 1 = N + 1
    BY <1>1, <1>2
  <2>2. \E h \in [0..Len(more) - 1 -> Seq(A)] :
           /\ h[0] = more[1]
           /\ \A n \in 1..Len(more) - 1 : h[n] = h[n - 1] \o more[n + 1]
           /\ FlattenSeq(more) = h[Len(more) - 1]
    BY <1>2, FlattenWalk
  <2> QED  BY <2>1, <2>2
<1>6. FlattenSeq(one) = seq
  <2>1. Len(one) - 1 = 0
    BY <1>3
  <2>2. \E h \in [0..Len(one) - 1 -> Seq(A)] :
           /\ h[0] = one[1]
           /\ \A n \in 1..Len(one) - 1 : h[n] = h[n - 1] \o one[n + 1]
           /\ FlattenSeq(one) = h[Len(one) - 1]
    BY <1>3, FlattenWalk
  <2> QED  BY <1>3, <2>1, <2>2
<1> HIDE DEF V
<1> DEFINE Same == {k \in 0..N : g[k] = f[k]}
<1>7. 0 \in Same
  BY <1>1, <1>2, <1>4, <1>5
<1>8. ASSUME NEW k \in 0..N - 1, k \in Same PROVE k + 1 \in Same
  <2>1. /\ k + 1 \in 1..N /\ k + 1 \in 1..N + 1 /\ k + 1 \in 0..N /\ (k + 1) - 1 = k
        /\ (k + 1) + 1 \in 1..N + 1
    BY <1>1
  <2>2. g[k + 1] = g[k] \o more[(k + 1) + 1]
    BY <1>5, <2>1
  <2>3. f[k + 1] = f[k] \o seqs[(k + 1) + 1]
    BY <1>4, <2>1
  <2> QED  BY <1>2, <1>8, <2>1, <2>2, <2>3
<1> HIDE DEF Same
<1>9. \A k \in 0..N : k \in Same
  BY <1>1, <1>7, <1>8, UpToBound
<1>10. g[N] = f[N]
  BY <1>1, <1>9 DEF Same
<1>11. N + 1 \in 1..N + 1 /\ (N + 1) - 1 = N /\ (N + 1) + 1 = N + 2 /\ N \in 0..N
  BY <1>1
<1>12. g[N + 1] = g[N] \o seq
  BY <1>2, <1>5, <1>11
<1>13. FlattenSeq(seqs) \in Seq(A)
  BY <1>4, <1>11 DEF V
<1> QED  BY <1>4, <1>5, <1>6, <1>10, <1>12, <1>13 DEF more, one

\* What Join strings together.
Marked(fields, mark) ==
  [k \in DOMAIN fields |-> IF k = 1 THEN fields[1] ELSE <<mark>> \o fields[k]]

\* One field joined is that field.
LEMMA JoinOne ==
  ASSUME NEW A, NEW field \in Seq(A), NEW mark
  PROVE  Join(<<field>>, mark) = field
<1>1. Marked(<<field>>, mark) = <<field>>
  BY DEF Marked
<1>2. <<field>> \in Seq(Seq(A)) /\ <<field>> # <<>>
  OBVIOUS
<1>3. FlattenSeq(<<field>>) = field
  BY <1>2, FlattenAppend
<1> QED  BY <1>1, <1>3 DEF Join, Marked

\* Joining a field more puts the mark and the field at the end.
LEMMA JoinAppend ==
  ASSUME NEW A, NEW fields \in Fields(A), NEW field \in Seq(A), NEW mark \in A
  PROVE  /\ Join(fields, mark) \in Seq(A)
         /\ Join(Append(fields, field), mark) = Join(fields, mark) \o (<<mark>> \o field)
<1> DEFINE V      == Seq(A)
           marked == Marked(fields, mark)
           last   == <<mark>> \o field
           more   == Append(fields, field)
<1>1. fields \in Seq(V) /\ fields # <<>> /\ Len(fields) \in Nat \ {0}
  BY NotEmpty DEF Fields
<1>2. last \in V /\ \A v \in V : <<mark>> \o v \in V
  OBVIOUS
<1>3. \A k \in 1..Len(fields) : fields[k] \in V
  BY <1>1
<1>4. field \in V
  OBVIOUS
<1> HIDE DEF V, last
<1>5. /\ more \in Seq(V) /\ Len(more) = Len(fields) + 1 /\ more[Len(fields) + 1] = field
      /\ \A k \in 1..Len(fields) : more[k] = fields[k]
  BY <1>1, <1>4
<1>6. marked \in Seq(V) /\ Len(marked) = Len(fields) /\ marked # <<>>
  <2>1. ASSUME NEW k \in 1..Len(fields)
        PROVE  (IF k = 1 THEN fields[1] ELSE <<mark>> \o fields[k]) \in V
    BY <1>2, <1>3
  <2>2. DOMAIN fields = 1..Len(fields)
    BY <1>1
  <2>3. [k \in 1..Len(fields) |-> IF k = 1 THEN fields[1] ELSE <<mark>> \o fields[k]] \in Seq(V)
    BY <1>1, <2>1
  <2>4. marked \in Seq(V) /\ Len(marked) = Len(fields)
    BY <1>1, <2>2, <2>3 DEF Marked
  <2> QED  BY <1>1, <2>4
<1>7. Marked(more, mark) = Append(marked, last)
  <2> DEFINE full == Marked(more, mark)
             N    == Len(fields)
  <2>1. DOMAIN full = 1..N + 1 /\ N \in Nat \ {0}
        /\ \A k \in 1..N + 1 : full[k] = IF k = 1 THEN more[1] ELSE <<mark>> \o more[k]
    BY <1>1, <1>5 DEF Marked
  <2>2. \A k \in 1..N : marked[k] = IF k = 1 THEN fields[1] ELSE <<mark>> \o fields[k]
    BY <1>1 DEF Marked
  <2> HIDE DEF more
  <2>3. ASSUME NEW k \in 1..N PROVE full[k] = marked[k]
    <3>1. 1 \in 1..N /\ k \in 1..N + 1
      BY <2>1
    <3>2. more[1] = fields[1] /\ more[k] = fields[k]
      BY <1>5, <3>1
    <3> HIDE DEF full, marked
    <3> QED  BY <2>1, <2>2, <3>1, <3>2
  <2>4. full[N + 1] = last
    <3>1. N + 1 \in 1..N + 1 /\ N + 1 # 1
      BY <2>1
    <3> HIDE DEF full
    <3> QED  BY <1>5, <2>1, <3>1 DEF last
  <2>5. full = [k \in 1..N + 1 |-> full[k]]
    <3>1. full = [k \in DOMAIN full |-> full[k]]
      BY DEF Marked
    <3> QED  BY <2>1, <3>1
  <2> HIDE DEF full, marked, N
  <2>6. marked \in Seq(V) /\ Len(marked) = N /\ last \in V
    BY <1>2, <1>6 DEF N
  <2> DEFINE app == Append(marked, last)
  <2>7. /\ app \in Seq(V) /\ Len(app) = N + 1 /\ app[N + 1] = last
        /\ \A k \in 1..N : app[k] = marked[k]
    BY <2>6, AppendProperties
  <2> HIDE DEF app
  <2>8. \A k \in 1..N + 1 : k \in 1..N \/ k = N + 1
    BY <2>1
  <2>9. \A k \in 1..N + 1 : full[k] = app[k]
    BY <2>3, <2>4, <2>7, <2>8
  <2>10. N + 1 \in Nat /\ \A k \in 1..N + 1 : app[k] \in V
    BY <2>1, <2>7
  <2>11. full \in Seq(V) /\ Len(full) = N + 1
    BY <2>5, <2>9, <2>10
  <2>12. full = app
    BY <2>7, <2>9, <2>11, SeqEqual
  <2> QED  BY <2>12 DEF full, app
<1> HIDE DEF more, marked
<1>8. /\ FlattenSeq(marked) \in Seq(A)
      /\ FlattenSeq(Append(marked, last)) = FlattenSeq(marked) \o last
  BY <1>2, <1>6, FlattenAppend DEF V
<1>9. Join(fields, mark) = FlattenSeq(marked) /\ Join(more, mark) = FlattenSeq(Marked(more, mark))
  BY DEF Join, Marked, marked
<1> QED  BY <1>7, <1>8, <1>9 DEF more, last

\* A mark in the middle belongs to either side.
LEMMA MarkBetween ==
  ASSUME NEW A, NEW s \in Seq(A), NEW t \in Seq(A), NEW x \in A
  PROVE  /\ s \o (<<x>> \o t) = Append(s, x) \o t
         /\ <<x>> \o t \in Seq(A)
<1>1. <<x>> \in Seq(A)
  OBVIOUS
<1>2. (s \o <<x>>) \o t = s \o (<<x>> \o t)
  BY <1>1, ConcatAssociative
<1>3. s \o <<x>> = Append(s, x)
  BY AppendConcat
<1> QED  BY <1>1, <1>2, <1>3

\* Fields without the mark are found again in what they are joined to.
LEMMA SplitJoinAppend ==
  ASSUME NEW A, NEW fields \in Fields(A), NEW field \in Seq(A), NEW mark \in A,
         Lacks(field, mark), Split(Join(fields, mark), mark) = fields
  PROVE  Split(Join(Append(fields, field), mark), mark) = Append(fields, field)
<1> DEFINE joined == Join(fields, mark)
<1>1. joined \in Seq(A) /\ Join(Append(fields, field), mark) = joined \o (<<mark>> \o field)
  BY JoinAppend
<1> HIDE DEF joined
<1>2. joined \o (<<mark>> \o field) = Append(joined, mark) \o field
  BY <1>1, MarkBetween
<1>3. Split(Append(joined, mark) \o field, mark) = Split(joined, mark) \o Split(field, mark)
  BY <1>1, SplitAtMark
<1>4. Split(joined, mark) = fields /\ Split(field, mark) = <<field>>
  BY SplitWithoutMark DEF joined
<1> DEFINE V == Seq(A)
<1>5. fields \in Seq(V) /\ field \in V
  BY DEF Fields
<1> HIDE DEF V
<1>6. fields \o <<field>> = Append(fields, field)
  BY <1>5, AppendConcat
<1> QED  BY <1>1, <1>2, <1>3, <1>4, <1>6

\* Fields without the mark, joined by it, are split as they were.
LEMMA SplitOfJoin ==
  ASSUME NEW A, NEW fields \in Fields(A), NEW mark \in A,
         \A k \in 1..Len(fields) : Lacks(fields[k], mark)
  PROVE  Split(Join(fields, mark), mark) = fields
<1> DEFINE V    == Seq(A)
           N    == Len(fields) - 1
           P(n) == SubSeq(fields, 1, n + 1)
           Done == {n \in 0..N : Split(Join(P(n), mark), mark) = P(n)}
<1>1. fields \in Seq(V) /\ fields # <<>> /\ N \in Nat /\ Len(fields) = N + 1
  BY NotEmpty DEF Fields
<1>2. \A k \in 1..N + 1 : fields[k] \in V
  BY <1>1
<1> HIDE DEF V
<1>3. ASSUME NEW n \in 0..N PROVE P(n) \in Seq(V) /\ Len(P(n)) = n + 1 /\ P(n) # <<>>
  <2>1. 1 <= n + 1 /\ \A i \in 1..n + 1 : i \in 1..N + 1
    BY <1>1
  <2>2. P(n) \in Seq(V) /\ Len(P(n)) = n + 1
    BY <1>1, <1>2, <2>1, SubSeqProperties
  <2> QED  BY <2>1, <2>2
<1>4. 0 \in Done
  <2>1. P(0) = <<fields[1]>>
    <3>1. P(0) \in Seq(V) /\ Len(P(0)) = 1
      BY <1>1, <1>3
    <3>2. P(0)[1] = fields[1]
      BY <1>1
    <3> HIDE DEF P
    <3> QED  BY <3>1, <3>2, OneItem
  <2>2. fields[1] \in Seq(A) /\ Lacks(fields[1], mark)
    BY <1>1, <1>2 DEF V
  <2>3. Join(P(0), mark) = fields[1]
    BY <2>1, <2>2, JoinOne
  <2>4. Split(fields[1], mark) = P(0)
    BY <2>1, <2>2, SplitWithoutMark
  <2> HIDE DEF P
  <2> QED  BY <1>1, <2>3, <2>4
<1>5. ASSUME NEW k \in 0..N - 1, k \in Done PROVE k + 1 \in Done
  <2>1. k + 1 \in 1..N + 1 /\ (k + 1) + 1 \in 1..N + 1 /\ k \in 0..N /\ k + 1 \in 0..N
        /\ k + 1 \in 0..Len(fields) - 1
    BY <1>1
  <2>2. P(k + 1) = Append(P(k), fields[(k + 1) + 1])
    BY <1>1, <2>1, PrefixGrows
  <2>3. P(k) \in Fields(A)
    BY <1>3, <2>1 DEF Fields, V
  <2>4. fields[(k + 1) + 1] \in Seq(A) /\ Lacks(fields[(k + 1) + 1], mark)
    BY <1>1, <1>2, <2>1 DEF V
  <2>5. Split(Join(P(k), mark), mark) = P(k)
    BY <1>5
  <2> DEFINE p == P(k)
             next == fields[(k + 1) + 1]
  <2>6. p \in Fields(A) /\ next \in Seq(A) /\ Lacks(next, mark)
        /\ Split(Join(p, mark), mark) = p
    BY <2>3, <2>4, <2>5
  <2> HIDE DEF p, next, Done
  <2>7. Split(Join(Append(p, next), mark), mark) = Append(p, next)
    BY <2>6, SplitJoinAppend
  <2>8. P(k + 1) = Append(p, next)
    BY <2>2 DEF p, next
  <2> HIDE DEF P
  <2>9. Split(Join(P(k + 1), mark), mark) = P(k + 1)
    BY <2>7, <2>8
  <2> QED  BY <2>1, <2>9 DEF Done
<1> HIDE DEF Done
<1>6. \A n \in 0..N : n \in Done
  BY <1>1, <1>4, <1>5, UpToBound
<1>7. N \in Done /\ P(N) = fields
  BY <1>1, <1>6, WholeSubSeq
<1> HIDE DEF P
<1> QED  BY <1>7 DEF Done

\* The fields of a text, joined again, are the text.
LEMMA JoinExtend ==
  ASSUME NEW A, NEW fields \in Fields(A), NEW atom \in A, NEW mark \in A
  PROVE  Join(Extend(fields, atom, mark), mark) = Append(Join(fields, mark), atom)
<1> DEFINE V      == Seq(A)
           front  == Front(fields)
           last   == Last(fields)
           longer == Append(last, atom)
           joined == Join(fields, mark)
           none   == <<>>
<1>1. fields \in Seq(V) /\ fields # <<>> /\ none \in V
  BY DEF Fields
<1>2. front \in Seq(V) /\ last \in V /\ fields = Append(front, last)
  <2> HIDE DEF V
  <2> QED  BY <1>1, Ends
<1>3. longer \in V
  BY <1>2
<1>4. joined \in Seq(A) /\ Join(Append(fields, none), mark) = joined \o (<<mark>> \o none)
  BY <1>1, JoinAppend
<1>5. Extend(fields, atom, mark) = IF atom = mark THEN Append(fields, none)
                                   ELSE Append(front, longer)
  BY DEF Extend
<1> HIDE DEF front, last, joined, none
<1>6. CASE atom = mark
  <2>1. joined \o (<<mark>> \o none) = Append(joined, mark)
    <3>1. <<mark>> \o none = <<mark>>
      BY DEF none
    <3>2. joined \o <<mark>> = Append(joined, mark)
      BY <1>4, AppendConcat
    <3> QED  BY <3>1, <3>2
  <2> QED  BY <1>4, <1>5, <1>6, <2>1 DEF joined
<1>7. CASE atom # mark /\ front = <<>>
  <2>1. fields = <<last>> /\ Append(front, longer) = <<longer>>
    BY <1>2, <1>7
  <2>2. Join(fields, mark) = last /\ Join(<<longer>>, mark) = longer
    BY <1>2, <1>3, <2>1, JoinOne
  <2> QED  BY <1>5, <1>7, <2>1, <2>2
<1>8. CASE atom # mark /\ front # <<>>
  <2>1. front \in Fields(A)
    BY <1>2, <1>8 DEF Fields
  <2>2. Join(front, mark) \in Seq(A)
        /\ Join(Append(front, last), mark) = Join(front, mark) \o (<<mark>> \o last)
    BY <1>2, <2>1, JoinAppend
  <2> HIDE DEF longer
  <2>3. Join(Append(front, longer), mark) = Join(front, mark) \o (<<mark>> \o longer)
    BY <1>3, <2>1, JoinAppend
  <2> DEFINE j == Join(front, mark)
             w == <<mark>> \o last
  <2>4. j \in Seq(A) /\ w \in Seq(A)
    BY <1>2, <2>2, MarkBetween
  <2>5. <<mark>> \o Append(last, atom) = Append(<<mark>> \o last, atom)
    <3>1. <<mark>> \in Seq(A) /\ last \in Seq(A)
      BY <1>2
    <3> QED  BY <3>1, ConcatAppend
  <2> HIDE DEF j
  <2>6. j \o Append(w, atom) = Append(j \o w, atom)
    <3> HIDE DEF w
    <3> QED  BY <2>4, ConcatAppend
  <2> QED  BY <1>2, <1>5, <1>8, <2>2, <2>3, <2>5, <2>6 DEF j, longer
<1> QED  BY <1>6, <1>7, <1>8

\* A text split and joined by the same mark is as it was.
LEMMA JoinOfSplit ==
  ASSUME NEW A, NEW text \in Seq(A), NEW mark \in A
  PROVE  Join(Split(text, mark), mark) = text
<1> DEFINE P(n) == SubSeq(text, 1, n)
           Done == {n \in 0..Len(text) : Join(Split(P(n), mark), mark) = P(n)}
<1>1. Len(text) \in Nat
  OBVIOUS
<1>2. 0 \in Done
  <2> DEFINE none == <<>>
  <2>1. P(0) = none /\ none \in Seq(A) /\ 0 \in 0..Len(text)
    OBVIOUS
  <2>2. Split(none, mark) = <<none>>
    BY SplitEmpty
  <2> HIDE DEF none, P
  <2>3. Join(<<none>>, mark) = none
    BY <2>1, JoinOne
  <2> QED  BY <2>1, <2>2, <2>3
<1>3. ASSUME NEW k \in 0..Len(text) - 1, k \in Done PROVE k + 1 \in Done
  <2>1. P(k) \in Seq(A) /\ P(k + 1) = Append(P(k), text[k + 1]) /\ text[k + 1] \in A
        /\ k + 1 \in 0..Len(text)
    BY PrefixGrows
  <2>2. Join(Split(P(k), mark), mark) = P(k)
    BY <1>3
  <2> DEFINE p == P(k)
             a == text[k + 1]
  <2>3. p \in Seq(A) /\ a \in A /\ P(k + 1) = Append(p, a) /\ Join(Split(p, mark), mark) = p
    BY <2>1, <2>2
  <2> HIDE DEF p, a, Done, P
  <2>4. Split(p, mark) \in Fields(A) /\ Split(Append(p, a), mark) = Extend(Split(p, mark), a, mark)
    BY <2>3, SplitAppend
  <2>5. Join(Split(Append(p, a), mark), mark) = Append(p, a)
    <3> DEFINE fields == Split(p, mark)
    <3>1. fields \in Fields(A) /\ Join(fields, mark) = p
      BY <2>3, <2>4
    <3> HIDE DEF fields
    <3>2. Join(Extend(fields, a, mark), mark) = Append(Join(fields, mark), a)
      BY <2>3, <3>1, JoinExtend
    <3> QED  BY <2>4, <3>1, <3>2 DEF fields
  <2>6. Join(Split(P(k + 1), mark), mark) = P(k + 1)
    BY <2>3, <2>5
  <2> QED  BY <2>1, <2>6 DEF Done
<1> HIDE DEF Done
<1>4. \A n \in 0..Len(text) : n \in Done
  BY <1>1, <1>2, <1>3, UpToBound
<1>5. Len(text) \in Done /\ P(Len(text)) = text
  BY <1>1, <1>4, WholeSubSeq
<1> HIDE DEF P
<1> QED  BY <1>5 DEF Done
-----------------------------------------------------------------------------
(***************************************************************************)
(* Trimming.                                                               *)
(***************************************************************************)
\* The least and the greatest of some positions of a text.
LEMMA Extremes ==
  ASSUME NEW n \in Nat, NEW S, S \subseteq 1..n, S # {}
  PROVE  /\ Min(S) \in S /\ \A k \in S : Min(S) <= k
         /\ Max(S) \in S /\ \A k \in S : k <= Max(S)
<1>0. S \subseteq Nat /\ \A k \in S : k \in Nat /\ n - k \in Nat
  OBVIOUS
<1>1. PICK least \in S : \A k \in S : least <= k
  BY <1>0, LeastNatural
<1> DEFINE Mirror == {n - k : k \in S}
<1>2. Mirror \subseteq Nat /\ Mirror # {}
  BY <1>0
<1> HIDE DEF Mirror
<1>3. PICK mirrored \in Mirror : \A k \in Mirror : mirrored <= k
  BY <1>2, LeastNatural
<1>4. PICK greatest \in S : mirrored = n - greatest
  BY DEF Mirror
<1>5. \A k \in S : n - greatest <= n - k
  BY <1>3, <1>4 DEF Mirror
<1>6. \A k \in S : k <= greatest
  BY <1>0, <1>5
<1>7. \E k \in S : \A j \in S : k <= j
  BY <1>1
<1>8. \E k \in S : \A j \in S : j <= k
  BY <1>6
<1>9. Min(S) \in S /\ \A k \in S : Min(S) <= k
  BY <1>7 DEF Min
<1>10. Max(S) \in S /\ \A k \in S : k <= Max(S)
  BY <1>8 DEF Max
<1> QED  BY <1>9, <1>10

\* Trimming a text leaves a text.
LEMMA TrimIsText ==
  ASSUME NEW A, NEW text \in Seq(A)
  PROVE  Trim(text) \in Seq(A)
<1> DEFINE ink == {i \in DOMAIN text : text[i] # Space}
<1>1. Len(text) \in Nat /\ ink \subseteq 1..Len(text)
  OBVIOUS
<1> HIDE DEF ink
<1>2. CASE ink = {}
  BY <1>2 DEF Trim, ink
<1>3. CASE ink # {}
  <2>1. Min(ink) \in 1..Len(text) /\ Max(ink) \in 1..Len(text)
    BY <1>1, <1>3, Extremes
  <2>2. SubSeq(text, Min(ink), Max(ink)) \in Seq(A)
    BY <2>1
  <2> QED  BY <1>3, <2>2 DEF Trim, ink
<1> QED  BY <1>2, <1>3

\* So does trimming each of its fields.
LEMMA TrimmedFields ==
  ASSUME NEW A, NEW fields \in Seq(Seq(A))
  PROVE  TrimEach(fields) \in Seq(Seq(A))
<1>1. ASSUME NEW k \in 1..Len(fields) PROVE Trim(fields[k]) \in Seq(A)
  BY TrimIsText
<1>2. Len(fields) \in Nat /\ DOMAIN fields = 1..Len(fields)
  OBVIOUS
<1>3. [k \in 1..Len(fields) |-> Trim(fields[k])] \in Seq(Seq(A))
  BY <1>1, <1>2
<1> QED  BY <1>2, <1>3 DEF TrimEach

\* A text that neither begins nor ends with a blank stays as it is.
LEMMA TrimmedStays ==
  ASSUME NEW A, NEW text \in Seq(A), Trimmed(text)
  PROVE  Trim(text) = text
<1> DEFINE ink == {i \in DOMAIN text : text[i] # Space}
<1>0. Len(text) \in Nat /\ 1 \in 1..Len(text) /\ Len(text) \in 1..Len(text)
  BY NotEmpty DEF Trimmed
<1>1. DOMAIN text = 1..Len(text)
  OBVIOUS
<1>2. ink \subseteq 1..Len(text) /\ 1 \in ink /\ Len(text) \in ink
  BY <1>0, <1>1 DEF Trimmed
<1> HIDE DEF ink
<1>3. /\ Min(ink) \in ink /\ \A k \in ink : Min(ink) <= k
      /\ Max(ink) \in ink /\ \A k \in ink : k <= Max(ink)
  BY <1>0, <1>2, Extremes
<1>4. Min(ink) = 1 /\ Max(ink) = Len(text)
  <2>1. Min(ink) \in 1..Len(text) /\ Max(ink) \in 1..Len(text)
    BY <1>2, <1>3
  <2>2. Min(ink) <= 1 /\ Len(text) <= Max(ink)
    BY <1>2, <1>3
  <2> HIDE DEF Trimmed
  <2> QED  BY <1>0, <2>1, <2>2
<1>5. SubSeq(text, 1, Len(text)) = text
  BY WholeSubSeq
<1>6. ink # {}
  BY <1>2
<1> QED  BY <1>4, <1>5, <1>6 DEF Trim, ink
-----------------------------------------------------------------------------
(***************************************************************************)
(* Dropping empty fields.                                                  *)
(***************************************************************************)
Keep(kept, field) == IF field = <<>> THEN kept ELSE Append(kept, field)

\* Filled goes through the fields one by one.
LEMMA FilledWalk ==
  ASSUME NEW F, NEW fields \in Seq(F)
  PROVE  \E f \in [0..Len(fields) -> Seq(F \ {<<>>})] :
           /\ f[0] = <<>>
           /\ \A n \in 1..Len(fields) : f[n] = Keep(f[n - 1], fields[n])
           /\ Filled(fields) = f[Len(fields)]
<1> DEFINE V    == Seq(F \ {<<>>})
           N    == Len(fields)
           base == <<>>
           next == [p \in (1..N) \X V |-> Keep(p[2], fields[p[1]])]
<1>1. N \in Nat /\ \A n \in 1..N : fields[n] \in F
  OBVIOUS
<1>2. base \in V
  OBVIOUS
<1>3. ASSUME NEW p \in (1..N) \X V PROVE Keep(p[2], fields[p[1]]) \in V
  <2>1. p[1] \in 1..N /\ p[2] \in V /\ fields[p[1]] \in F
    BY <1>1
  <2> QED  BY <2>1 DEF Keep
<1>4. next \in StepFunctions(N, V)
  BY <1>3 DEF StepFunctions
<1> HIDE DEF V
<1>5. \A n \in 1..N, v \in V : next[<<n, v>>] = Keep(v, fields[n])
  OBVIOUS
<1> HIDE DEF next, base
<1>6. PICK f : Recursive(f, N, V, base, next)
  BY <1>1, <1>2, <1>4, RecursionExists
<1>7. /\ f \in [0..N -> V] /\ f[0] = base
      /\ \A n \in 1..N : f[n] = next[<<n, f[n - 1]>>]
  BY <1>6 DEF Recursive
<1>8. ASSUME NEW n \in 1..N PROVE f[n] = Keep(f[n - 1], fields[n])
  <2>1. f[n - 1] \in V
    BY <1>1, <1>7
  <2> QED  BY <1>5, <1>7, <2>1
<1>9. f = [n \in 0..N |-> IF n = 0 THEN <<>>
                          ELSE IF fields[n] = <<>> THEN f[n - 1]
                          ELSE Append(f[n - 1], fields[n])]
  <2>1. ASSUME NEW n \in 0..N
        PROVE  f[n] = IF n = 0 THEN <<>>
                      ELSE IF fields[n] = <<>> THEN f[n - 1]
                      ELSE Append(f[n - 1], fields[n])
    <3>1. CASE n = 0
      BY <1>7, <3>1 DEF base
    <3>2. CASE n # 0
      <4>1. n \in 1..N
        BY <1>1, <3>2
      <4> QED  BY <1>8, <3>2, <4>1 DEF Keep
    <3> QED  BY <3>1, <3>2
  <2>2. f = [n \in 0..N |-> f[n]]
    BY <1>7
  <2> QED  BY <2>1, <2>2
<1> DEFINE upto[n \in 0..N] ==
             IF n = 0 THEN <<>>
             ELSE IF fields[n] = <<>> THEN upto[n - 1]
             ELSE Append(upto[n - 1], fields[n])
<1>10. upto = [n \in 0..N |-> IF n = 0 THEN <<>>
                              ELSE IF fields[n] = <<>> THEN upto[n - 1]
                              ELSE Append(upto[n - 1], fields[n])]
  BY <1>9
<1>11. Filled(fields) = upto[N]
  BY DEF Filled
<1> HIDE DEF upto
<1>12. Follows(upto, N, V, base, next)
  <2>1. upto = [n \in 0..N |-> upto[n]]
    BY <1>10
  <2>2. upto[0] = base
    BY <1>1, <1>10 DEF base
  <2>3. ASSUME NEW n \in 1..N, upto[n - 1] \in V PROVE upto[n] = next[<<n, upto[n - 1]>>]
    <3>1. n \in 0..N /\ n # 0
      BY <1>1
    <3>2. upto[n] = Keep(upto[n - 1], fields[n])
      BY <1>10, <3>1 DEF Keep
    <3> QED  BY <1>5, <2>3, <3>2
  <2> QED  BY <2>1, <2>2, <2>3 DEF Follows
<1>13. upto = f
  BY <1>1, <1>2, <1>4, <1>6, <1>12, RecursionIsUnique
<1>14. f \in [0..Len(fields) -> Seq(F \ {<<>>})] /\ f[0] = <<>>
  BY <1>7 DEF V, base
<1> HIDE DEF N
<1> QED  BY <1>8, <1>11, <1>13, <1>14 DEF N

\* Filled keeps no empty field and makes up none.
LEMMA FilledFields ==
  ASSUME NEW F, NEW fields \in Seq(F)
  PROVE  Filled(fields) \in Seq(F \ {<<>>})
<1>1. PICK f \in [0..Len(fields) -> Seq(F \ {<<>>})] :
        /\ f[0] = <<>>
        /\ \A n \in 1..Len(fields) : f[n] = Keep(f[n - 1], fields[n])
        /\ Filled(fields) = f[Len(fields)]
  BY FilledWalk
<1>2. Len(fields) \in 0..Len(fields)
  OBVIOUS
<1> QED  BY <1>1, <1>2

\* What a list in an environment variable falls into: texts, none of them empty.
LEMMA CsvFields ==
  ASSUME NEW A, NEW text \in Seq(A)
  PROVE  SplitCsv(text) \in Seq(Seq(A) \ {<<>>})
<1>1. Split(text, Comma) \in Seq(Seq(A))
  BY SplitIsFields DEF Fields
<1>2. TrimEach(Split(text, Comma)) \in Seq(Seq(A))
  BY <1>1, TrimmedFields
<1> QED  BY <1>2, FilledFields DEF SplitCsv

\* Fields that are trimmed already stay as they are.
LEMMA NothingToTrim ==
  ASSUME NEW A, NEW fields \in Seq(Seq(A)), \A k \in 1..Len(fields) : Trimmed(fields[k])
  PROVE  TrimEach(fields) = fields
<1> DEFINE V == Seq(A)
<1>1. /\ Len(fields) \in Nat /\ DOMAIN fields = 1..Len(fields)
      /\ fields = [k \in DOMAIN fields |-> fields[k]]
  OBVIOUS
<1>2. ASSUME NEW k \in 1..Len(fields) PROVE Trim(fields[k]) = fields[k]
  <2>1. fields[k] \in Seq(A)
    OBVIOUS
  <2> QED  BY <2>1, TrimmedStays
<1> QED  BY <1>1, <1>2 DEF TrimEach

\* Where no field is empty, none is dropped.
LEMMA NothingToDrop ==
  ASSUME NEW F, NEW fields \in Seq(F), \A k \in 1..Len(fields) : fields[k] # <<>>
  PROVE  Filled(fields) = fields
<1>1. PICK f \in [0..Len(fields) -> Seq(F \ {<<>>})] :
        /\ f[0] = <<>>
        /\ \A n \in 1..Len(fields) : f[n] = Keep(f[n - 1], fields[n])
        /\ Filled(fields) = f[Len(fields)]
  BY FilledWalk
<1> DEFINE P(n) == SubSeq(fields, 1, n)
           Done == {n \in 0..Len(fields) : f[n] = P(n)}
<1>2. Len(fields) \in Nat
  OBVIOUS
<1>3. 0 \in Done
  <2>1. P(0) = <<>> /\ 0 \in 0..Len(fields)
    OBVIOUS
  <2> HIDE DEF P
  <2> QED  BY <1>1, <2>1
<1>4. ASSUME NEW k \in 0..Len(fields) - 1, k \in Done PROVE k + 1 \in Done
  <2>1. P(k) \in Seq(F) /\ P(k + 1) = Append(P(k), fields[k + 1])
        /\ k + 1 \in 0..Len(fields) /\ k + 1 \in 1..Len(fields) /\ (k + 1) - 1 = k
    BY PrefixGrows
  <2>2. f[k] = P(k)
    BY <1>4
  <2> HIDE DEF P
  <2>3. f[k + 1] = Keep(f[k], fields[k + 1])
    BY <1>1, <2>1
  <2>4. f[k + 1] = Append(f[k], fields[k + 1])
    BY <2>1, <2>3 DEF Keep
  <2> QED  BY <2>1, <2>2, <2>4
<1> HIDE DEF Done
<1>5. \A n \in 0..Len(fields) : n \in Done
  BY <1>2, <1>3, <1>4, UpToBound
<1>6. Len(fields) \in Done /\ P(Len(fields)) = fields
  BY <1>2, <1>5, WholeSubSeq
<1> HIDE DEF P
<1> QED  BY <1>1, <1>6 DEF Done

\* A list of trimmed texts without commas, joined by commas, is read as it was.
LEMMA CsvOfJoin ==
  ASSUME NEW A, NEW items \in Fields(A), Comma \in A,
         \A k \in 1..Len(items) : Trimmed(items[k]) /\ Lacks(items[k], Comma)
  PROVE  SplitCsv(Join(items, Comma)) = items
<1>1. Split(Join(items, Comma), Comma) = items
  BY SplitOfJoin
<1>2. items \in Seq(Seq(A))
  BY DEF Fields
<1>3. TrimEach(items) = items
  BY <1>2, NothingToTrim
<1>4. \A k \in 1..Len(items) : items[k] # <<>>
  BY DEF Trimmed
<1>5. Filled(items) = items
  BY <1>2, <1>4, NothingToDrop
<1> QED  BY <1>1, <1>3, <1>5 DEF SplitCsv
-----------------------------------------------------------------------------
(***************************************************************************)
(* Entries of three fields.                                                *)
(***************************************************************************)
LEMMA StringTogether ==
  ASSUME NEW A, NEW s \in Seq(A), NEW t \in Seq(A)
  PROVE  /\ s \o t \in Seq(A)
         /\ \A x : Lacks(s, x) /\ Lacks(t, x) => Lacks(s \o t, x)
         /\ s # <<>> => s \o t # <<>> /\ (s \o t)[1] = s[1]
         /\ t # <<>> => (s \o t)[Len(s \o t)] = t[Len(t)]
<1> DEFINE w == s \o t
           m == Len(s)
           n == Len(t)
<1>1. /\ w \in Seq(A) /\ Len(w) = m + n /\ m \in Nat /\ n \in Nat
      /\ \A i \in 1..m + n : w[i] = IF i <= m THEN s[i] ELSE t[i - m]
  BY ConcatProperties, LenProperties
<1> HIDE DEF w
<1>2. ASSUME NEW x, Lacks(s, x), Lacks(t, x) PROVE Lacks(w, x)
  <2> SUFFICES ASSUME NEW i \in 1..m + n PROVE w[i] # x
    BY <1>1 DEF Lacks
  <2>1. CASE i <= m
    <3>1. i \in 1..m
      BY <1>1, <2>1
    <3> QED  BY <1>1, <1>2, <2>1, <3>1 DEF Lacks
  <2>2. CASE ~(i <= m)
    <3>1. i - m \in 1..n
      BY <1>1, <2>2
    <3> QED  BY <1>1, <1>2, <2>2, <3>1 DEF Lacks
  <2> QED  BY <2>1, <2>2
<1>3. ASSUME s # <<>> PROVE w # <<>> /\ w[1] = s[1]
  <2>1. m \in Nat \ {0}
    BY <1>3, NotEmpty
  <2>2. 1 \in 1..m + n /\ 1 <= m /\ Len(w) # 0
    BY <1>1, <2>1
  <2>3. w # <<>>
    BY <2>2, EmptySeq
  <2> QED  BY <1>1, <2>2, <2>3
<1>4. ASSUME t # <<>> PROVE w[Len(w)] = t[n]
  <2>1. n \in Nat \ {0}
    BY <1>4, NotEmpty
  <2>2. m + n \in 1..m + n /\ ~(m + n <= m) /\ (m + n) - m = n
    BY <1>1, <2>1
  <2> QED  BY <1>1, <2>2
<1> QED  BY <1>1, <1>2, <1>3, <1>4 DEF w

\* A mark at the end of a text changes nothing of what the text lacks and begins with.
LEMMA MarkAtEnd ==
  ASSUME NEW A, NEW s \in Seq(A), NEW mark \in A
  PROVE  /\ Append(s, mark) \in Seq(A) /\ Append(s, mark) # <<>>
         /\ \A x : x # mark /\ Lacks(s, x) => Lacks(Append(s, mark), x)
         /\ s # <<>> => Append(s, mark)[1] = s[1]
<1> DEFINE w == Append(s, mark)
           n == Len(s)
<1>1. /\ w \in Seq(A) /\ w # <<>> /\ Len(w) = n + 1 /\ n \in Nat
      /\ \A i \in 1..n : w[i] = s[i]
      /\ w[n + 1] = mark
  BY AppendProperties, LenProperties
<1> HIDE DEF w
<1>2. ASSUME NEW x, x # mark, Lacks(s, x) PROVE Lacks(w, x)
  <2>1. \A i \in 1..n + 1 : i \in 1..n \/ i = n + 1
    BY <1>1
  <2> QED  BY <1>1, <1>2, <2>1 DEF Lacks
<1>3. ASSUME s # <<>> PROVE w[1] = s[1]
  <2>1. 1 \in 1..n
    BY <1>3, NotEmpty
  <2> QED  BY <1>1, <2>1
<1> QED  BY <1>1, <1>2, <1>3 DEF w

\* Three fields joined: how they split, what they lack and how they end.
LEMMA JoinThree ==
  ASSUME NEW A, NEW a \in Seq(A), NEW b \in Seq(A), NEW c \in Seq(A), NEW mark \in A
  PROVE  LET entry == Join(<<a, b, c>>, mark) IN
         /\ entry \in Seq(A)
         /\ Split(entry, mark) = (Split(a, mark) \o Split(b, mark)) \o Split(c, mark)
         /\ \A x : x # mark /\ Lacks(a, x) /\ Lacks(b, x) /\ Lacks(c, x) => Lacks(entry, x)
         /\ Trimmed(a) /\ Trimmed(c) => Trimmed(entry)
<1> DEFINE entry == Join(<<a, b, c>>, mark)
           ab    == Append(a, mark) \o b
           abc   == Append(ab, mark) \o c
<1>1. /\ Append(a, mark) \in Seq(A) /\ Append(a, mark) # <<>>
      /\ \A x : x # mark /\ Lacks(a, x) => Lacks(Append(a, mark), x)
      /\ a # <<>> => Append(a, mark)[1] = a[1]
  BY MarkAtEnd
<1>2. /\ ab \in Seq(A) /\ ab # <<>> /\ ab[1] = Append(a, mark)[1]
      /\ \A x : Lacks(Append(a, mark), x) /\ Lacks(b, x) => Lacks(ab, x)
  BY <1>1, StringTogether
<1> HIDE DEF ab
<1>3. /\ Append(ab, mark) \in Seq(A) /\ Append(ab, mark) # <<>>
      /\ \A x : x # mark /\ Lacks(ab, x) => Lacks(Append(ab, mark), x)
      /\ Append(ab, mark)[1] = ab[1]
  BY <1>2, MarkAtEnd
<1>4. /\ abc \in Seq(A) /\ abc # <<>> /\ abc[1] = Append(ab, mark)[1]
      /\ \A x : Lacks(Append(ab, mark), x) /\ Lacks(c, x) => Lacks(abc, x)
      /\ c # <<>> => abc[Len(abc)] = c[Len(c)]
  <2> DEFINE abm == Append(ab, mark)
  <2>1. abm \in Seq(A) /\ abm # <<>>
    BY <1>3
  <2> HIDE DEF abm, abc
  <2>2. /\ abm \o c \in Seq(A) /\ abm \o c # <<>> /\ (abm \o c)[1] = abm[1]
        /\ \A x : Lacks(abm, x) /\ Lacks(c, x) => Lacks(abm \o c, x)
        /\ c # <<>> => (abm \o c)[Len(abm \o c)] = c[Len(c)]
    BY <2>1, StringTogether
  <2>3. abc = abm \o c
    BY DEF abm, abc
  <2> QED  BY <2>2, <2>3 DEF abm
<1> HIDE DEF abc
<1>5. entry = abc
  <2> DEFINE V   == Seq(A)
             one == <<a>>
             two == <<a, b>>
  <2>1. one \in Fields(A) /\ two \in Fields(A) /\ two = Append(one, b)
        /\ <<a, b, c>> = Append(two, c)
    BY DEF Fields
  <2>2. Join(one, mark) = a
    BY JoinOne
  <2> HIDE DEF one, two
  <2>3. Join(two, mark) = a \o (<<mark>> \o b)
    BY <2>1, <2>2, JoinAppend
  <2>4. a \o (<<mark>> \o b) = ab
    BY MarkBetween DEF ab
  <2>5. Join(Append(two, c), mark) = Join(two, mark) \o (<<mark>> \o c)
    BY <2>1, JoinAppend
  <2>6. ab \o (<<mark>> \o c) = abc
    BY <1>2, MarkBetween DEF abc
  <2> QED  BY <2>1, <2>3, <2>4, <2>5, <2>6
<1>6. Split(ab, mark) = Split(a, mark) \o Split(b, mark)
  BY SplitAtMark DEF ab
<1>7. Split(abc, mark) = Split(ab, mark) \o Split(c, mark)
  <2>1. ab \in Seq(A)
    BY <1>2
  <2> HIDE DEF ab, abc, entry
  <2>2. ASSUME NEW t \in Seq(A)
        PROVE  Split(Append(t, mark) \o c, mark) = Split(t, mark) \o Split(c, mark)
    BY SplitAtMark
  <2>3. Split(Append(ab, mark) \o c, mark) = Split(ab, mark) \o Split(c, mark)
    BY <2>1, <2>2
  <2> QED  BY <2>3 DEF abc
<1>8. ASSUME NEW x, x # mark, Lacks(a, x), Lacks(b, x), Lacks(c, x) PROVE Lacks(abc, x)
  BY <1>1, <1>2, <1>3, <1>4, <1>8
<1>9. ASSUME Trimmed(a), Trimmed(c) PROVE Trimmed(abc)
  <2>1. a # <<>> /\ a[1] # Space /\ c # <<>> /\ c[Len(c)] # Space
    BY <1>9 DEF Trimmed
  <2>2. abc[1] = a[1] /\ abc[Len(abc)] = c[Len(c)]
    BY <1>1, <1>2, <1>3, <1>4, <2>1
  <2> QED  BY <1>4, <2>1, <2>2 DEF Trimmed
<1> HIDE DEF entry
<1>10. Split(entry, mark) = (Split(a, mark) \o Split(b, mark)) \o Split(c, mark)
  BY <1>5, <1>6, <1>7
<1>11. entry \in Seq(A)
  BY <1>4, <1>5
<1>12. \A x : x # mark /\ Lacks(a, x) /\ Lacks(b, x) /\ Lacks(c, x) => Lacks(entry, x)
  BY <1>5, <1>8
<1>13. Trimmed(a) /\ Trimmed(c) => Trimmed(entry)
  BY <1>5, <1>9
<1> QED  BY <1>10, <1>11, <1>12, <1>13 DEF entry

\* Taking the last two fields, and the first two, off the others.
LEMMA LastTwo ==
  ASSUME NEW V, NEW S \in Seq(V), S # <<>>, NEW b \in V, NEW c \in V
  PROVE  RestAndLastTwo((S \o <<b>>) \o <<c>>) = <<Join(S, ":"), b, c>>
<1> DEFINE n == Len(S)
           f == Append(Append(S, b), c)
<1>1. n \in Nat \ {0}
  BY NotEmpty
<1>2. (S \o <<b>>) \o <<c>> = f
  <2>1. S \o <<b>> = Append(S, b) /\ Append(S, b) \in Seq(V)
    BY AppendConcat
  <2> DEFINE g == Append(S, b)
  <2>2. g \in Seq(V)
    BY <2>1
  <2> HIDE DEF g
  <2>3. g \o <<c>> = Append(g, c)
    BY <2>2, AppendConcat
  <2> QED  BY <2>1, <2>3 DEF g
<1>3. /\ f \in Seq(V) /\ Len(f) = n + 2 /\ f[n + 1] = b /\ f[n + 2] = c
      /\ \A i \in 1..n : f[i] = S[i]
  BY <1>1
<1> HIDE DEF f
<1>4. SubSeq(f, 1, n) = S
  <2>1. /\ SubSeq(f, 1, n) \in Seq(V) /\ Len(SubSeq(f, 1, n)) = n
        /\ \A i \in 1..n : SubSeq(f, 1, n)[i] = f[i]
    BY <1>1, <1>3
  <2> DEFINE g == SubSeq(f, 1, n)
  <2>2. g \in Seq(V) /\ Len(g) = Len(S) /\ \A i \in 1..Len(g) : g[i] = S[i]
    BY <1>3, <2>1
  <2> HIDE DEF g
  <2>3. g = S
    BY <2>2, SeqEqual
  <2> QED  BY <2>3 DEF g
<1>5. ~(Len(f) < 3) /\ Len(f) - 2 = n /\ Len(f) - 1 = n + 1
  BY <1>1, <1>3
<1>6. RestAndLastTwo(f) = <<Join(S, ":"), b, c>>
  BY <1>3, <1>4, <1>5 DEF RestAndLastTwo
<1> QED  BY <1>2, <1>6

\* Taking the first two fields off the others.
LEMMA FirstTwo ==
  ASSUME NEW V, NEW S \in Seq(V), S # <<>>, NEW a \in V, NEW b \in V
  PROVE  FirstTwoAndRest((<<a>> \o <<b>>) \o S) = <<a, b, Join(S, ":")>>
<1> DEFINE n == Len(S)
           h == <<a, b>>
           f == h \o S
<1>1. n \in Nat \ {0}
  BY NotEmpty
<1>2. <<a>> \o <<b>> = h
  <2> DEFINE one == <<a>>
  <2>1. one \in Seq(V)
    OBVIOUS
  <2>2. Append(one, b) = h
    <3> DEFINE g == Append(one, b)
    <3>1. Len(one) = 1 /\ one[1] = a
      OBVIOUS
    <3>2. h \in Seq(V) /\ Len(h) = 2 /\ h[1] = a /\ h[2] = b
      OBVIOUS
    <3> HIDE DEF one, h
    <3>3. g \in Seq(V) /\ Len(g) = 2 /\ g[1] = a /\ g[2] = b
      <4>1. /\ g \in Seq(V) /\ Len(g) = Len(one) + 1
            /\ \A i \in 1..Len(one) : g[i] = one[i]
            /\ g[Len(one) + 1] = b
        BY <2>1, AppendProperties
      <4> HIDE DEF g
      <4> QED  BY <3>1, <4>1
    <3> HIDE DEF g
    <3>4. \A i \in 1..Len(g) : i = 1 \/ i = 2
      BY <3>3
    <3>5. g = h
      BY <3>2, <3>3, <3>4, SeqEqual
    <3> QED  BY <3>5 DEF g
  <2> HIDE DEF one, h, f
  <2>3. ASSUME NEW s \in Seq(V) PROVE s \o <<b>> = Append(s, b)
    BY AppendConcat
  <2>4. one \o <<b>> = Append(one, b)
    BY <2>1, <2>3
  <2> QED  BY <2>2, <2>4 DEF one
<1>3. h \in Seq(V) /\ Len(h) = 2 /\ h[1] = a /\ h[2] = b
  OBVIOUS
<1> HIDE DEF h
<1>4. /\ f \in Seq(V) /\ Len(f) = 2 + n
      /\ \A i \in 1..2 + n : f[i] = IF i <= 2 THEN h[i] ELSE S[i - 2]
  <2>1. /\ h \o S \in Seq(V) /\ Len(h \o S) = Len(h) + Len(S)
        /\ \A i \in 1..Len(h) + Len(S) :
             (h \o S)[i] = IF i <= Len(h) THEN h[i] ELSE S[i - Len(h)]
    BY <1>3, ConcatProperties
  <2> HIDE DEF f
  <2>2. f = h \o S
    BY DEF f
  <2> QED  BY <1>3, <2>1, <2>2
<1> HIDE DEF f
<1>5. f[1] = a /\ f[2] = b
  BY <1>1, <1>3, <1>4
<1>6. SubSeq(f, 3, Len(f)) = S
  <2> DEFINE g == SubSeq(f, 3, Len(f))
  <2>1. /\ g \in Seq(V) /\ Len(g) = n
        /\ \A i \in 1..n : g[i] = f[i + 2]
    <3>1. \A i \in 3..2 + n : f[i] \in V
      BY <1>1, <1>4
    <3>2. /\ g \in Seq(V) /\ Len(g) = (IF 3 <= 2 + n THEN (2 + n) - 3 + 1 ELSE 0)
          /\ \A i \in 1..(2 + n) - 3 + 1 : g[i] = f[3 + i - 1]
      BY <1>1, <1>4, <3>1, SubSeqProperties
    <3> HIDE DEF g
    <3>3. Len(g) = n
      BY <1>1, <3>2
    <3>4. ASSUME NEW i \in 1..n PROVE g[i] = f[i + 2]
      <4>1. i \in 1..(2 + n) - 3 + 1 /\ 3 + i - 1 = i + 2
        BY <1>1
      <4> QED  BY <3>2, <4>1
    <3> QED  BY <3>2, <3>3, <3>4
  <2> HIDE DEF g
  <2>2. ASSUME NEW i \in 1..n PROVE g[i] = S[i]
    <3>1. i + 2 \in 1..2 + n /\ ~(i + 2 <= 2) /\ (i + 2) - 2 = i
      BY <1>1
    <3> QED  BY <1>4, <2>1, <3>1
  <2>3. g = S
    BY <2>1, <2>2, SeqEqual
  <2> QED  BY <2>3 DEF g
<1>7. ~(Len(f) < 3)
  BY <1>1, <1>4
<1>8. FirstTwoAndRest(f) = <<a, b, Join(S, ":")>>
  BY <1>5, <1>6, <1>7 DEF FirstTwoAndRest
<1> QED  BY <1>2, <1>8 DEF f
-----------------------------------------------------------------------------
(***************************************************************************)
(* Reading the configuration.                                              *)
(***************************************************************************)
LEMMA NumberFits ==
  ASSUME NEW text, ParseU64(text) # None
  PROVE  ParseU64(text) \in 0..MaxU64
BY DEF ParseU64

\* A price that is read at all is positive, fits and has a unit.
LEMMA PriceIsValid ==
  ASSUME NEW entry, ParsePrice(entry) # None
  PROVE  /\ ParsePrice(entry).price_per_second \in 1..MaxU64
         /\ ParsePrice(entry).unit # <<>>
         /\ ParsePrice(entry) = [mint_url         |-> ParsePrice(entry).mint_url,
                                 price_per_second |-> ParsePrice(entry).price_per_second,
                                 unit             |-> ParsePrice(entry).unit]
<1> DEFINE parts == RestAndLastTwo(Split(entry, ":"))
           price == [mint_url         |-> Trim(parts[1]),
                     price_per_second |-> ParseU64(Trim(parts[2])),
                     unit             |-> Trim(parts[3])]
<1>1. ParsePrice(entry) = ValidPrice(price)
  BY DEF ParsePrice, PriceOf
<1>2. ParsePrice(entry) = price /\ price.price_per_second # None
      /\ price.price_per_second > 0 /\ price.unit # <<>>
  BY <1>1 DEF ValidPrice, IsPrice
<1>3. price.price_per_second \in 0..MaxU64
  BY <1>2, NumberFits
<1>4. price.price_per_second \in 1..MaxU64
  BY <1>2, <1>3, SettingsAssumption
<1>5. price = [mint_url         |-> price.mint_url,
               price_per_second |-> price.price_per_second,
               unit             |-> price.unit]
  OBVIOUS
<1> HIDE DEF price
<1> QED  BY <1>2, <1>4, <1>5

\* A list that is read at all has an item, and no item is an error.
LEMMA FlawlessItems ==
  ASSUME NEW items, Flawless(items) # None
  PROVE  Flawless(items) = items /\ items # <<>> /\ \A k \in DOMAIN items : items[k] # None
BY DEF Flawless, ToSet

\* What is known of a configuration the program starts with.
IsPriceList(prices) ==
  /\ \E n \in Nat \ {0} : DOMAIN prices = 1..n
  /\ \A k \in DOMAIN prices :
       prices[k].price_per_second \in 1..MaxU64 /\ prices[k].unit # <<>>

\* A price list that is read at all is one of valid prices.
LEMMA PricesAreRead ==
  ASSUME NEW text \in Text, ParseList(text, ParsePrice) # None
  PROVE  IsPriceList(ParseList(text, ParsePrice))
<1> DEFINE entries == SplitCsv(text)
           items   == [k \in DOMAIN entries |-> ParsePrice(entries[k])]
<1>1. entries \in Seq(Text \ {<<>>})
  BY CsvFields DEF Text
<1> HIDE DEF entries
<1>2. Len(entries) \in Nat /\ DOMAIN entries = 1..Len(entries)
  BY <1>1
<1>3. ParseList(text, ParsePrice) = Flawless(items)
  BY DEF ParseList, ParseEach, entries
<1> HIDE DEF items
<1>4. /\ ParseList(text, ParsePrice) = items /\ items # <<>>
      /\ \A k \in DOMAIN items : items[k] # None
  BY <1>3, FlawlessItems
<1>5. DOMAIN items = 1..Len(entries)
  BY <1>2 DEF items
<1>6. Len(entries) # 0
  BY <1>2, <1>4 DEF items
<1>7. ASSUME NEW k \in DOMAIN items
      PROVE  items[k].price_per_second \in 1..MaxU64 /\ items[k].unit # <<>>
  <2>1. items[k] = ParsePrice(entries[k])
    BY DEF items
  <2> QED  BY <1>4, <2>1, PriceIsValid
<1> QED  BY <1>2, <1>4, <1>5, <1>6, <1>7 DEF IsPriceList

\* A configuration that is accepted at all is valid.
LEMMA AcceptedSettings ==
  ASSUME NEW e, AreTexts(e), FromLookup(e) # None
  PROVE  /\ FromLookup(e).relays # <<>> /\ FromLookup(e).software # <<>>
         /\ IsPriceList(FromLookup(e).prices)
         /\ FromLookup(e).min_duration \in 0..MaxU64
         /\ FromLookup(e).max_duration \in 0..MaxU64
         /\ FromLookup(e).min_duration <= FromLookup(e).max_duration
<1> DEFINE c == [relays       |-> SplitCsv(e["NOSTR_RELAYS"]),
                 software     |-> ParseList(e["WORKER_SOFTWARE"], ParseSoftware),
                 prices       |-> ParseList(e["WORKER_PRICES"], ParsePrice),
                 job_timeout  |-> JobTimeout(e),
                 min_duration |-> ParseOrDefault(e, "WORKER_MIN_DURATION", 1),
                 max_duration |-> ParseOrDefault(e, "WORKER_MAX_DURATION", JobTimeout(e))]
<1>1. /\ e["WORKER_PRICES"] # None
      /\ FromLookup(e) = Checked(e, c)
  BY DEF FromLookup
<1>2. FromLookup(e) = c
  BY <1>1 DEF Checked
<1>3. /\ \A setting \in DOMAIN c : c[setting] # None
      /\ c.relays # <<>>
      /\ InOrder(e, c)
  BY <1>1 DEF Checked
<1>4. c.min_duration # None /\ c.max_duration # None /\ c.job_timeout # None
      /\ c.software # None /\ c.prices # None
  BY <1>3
<1>5. IsPriceList(c.prices)
  <2>1. e["WORKER_PRICES"] \in Text
    BY <1>1 DEF AreTexts
  <2> QED  BY <1>4, <2>1, PricesAreRead
<1>6. c.software # <<>>
  BY <1>4, FlawlessItems DEF ParseList
<1>7. c.min_duration \in 0..MaxU64
  BY <1>4, NumberFits, SettingsAssumption DEF ParseOrDefault
<1>8. c.job_timeout \in 0..MaxU64
  BY <1>4, NumberFits, SettingsAssumption DEF ParseOrDefault, JobTimeout
<1>9. c.max_duration \in 0..MaxU64
  BY <1>4, <1>8, NumberFits DEF ParseOrDefault
<1>10. c.min_duration <= c.max_duration
  BY <1>3 DEF InOrder
<1> HIDE DEF c
<1> QED  BY <1>2, <1>3, <1>5, <1>6, <1>7, <1>9, <1>10

\* The price list as Billing sees it.
LEMMA PricedIsValid ==
  ASSUME NEW list, IsPriceList(list)
  PROVE  /\ B!ValidPrices(Priced(list), {Priced(list)[k].account : k \in DOMAIN Priced(list)})
         /\ DOMAIN Priced(list) = DOMAIN list
         /\ \A k \in DOMAIN list :
              /\ Priced(list)[k].account = <<list[k].mint_url, list[k].unit>>
              /\ Priced(list)[k].price_per_second = list[k].price_per_second
<1> DEFINE prices   == Priced(list)
           Accounts == {prices[k].account : k \in DOMAIN prices}
           Entry    == [account : Accounts, price_per_second : B!U64 \ {0}]
<1>1. PICK n \in Nat \ {0} : DOMAIN list = 1..n
  BY DEF IsPriceList
<1>2. DOMAIN prices = 1..n /\ prices = [k \in 1..n |-> prices[k]]
  BY <1>1 DEF Priced
<1>3. \A k \in 1..n :
        prices[k] = [account          |-> <<list[k].mint_url, list[k].unit>>,
                     price_per_second |-> list[k].price_per_second]
  BY <1>1 DEF Priced
<1> HIDE DEF prices
<1>4. ASSUME NEW k \in 1..n PROVE prices[k] \in Entry
  <2>1. list[k].price_per_second \in 1..MaxU64
    BY <1>1 DEF IsPriceList
  <2>2. list[k].price_per_second \in B!U64 \ {0}
    BY <2>1, SettingsAssumption DEF B!U64
  <2>3. prices[k].account \in Accounts
    BY <1>2
  <2> HIDE DEF Accounts
  <2> HIDE DEF Entry
  <2>0. prices[k] = [account          |-> <<list[k].mint_url, list[k].unit>>,
                     price_per_second |-> list[k].price_per_second]
    BY <1>3
  <2>4. prices[k].price_per_second = list[k].price_per_second
    BY <2>0
  <2>5. prices[k] = [account          |-> prices[k].account,
                     price_per_second |-> prices[k].price_per_second]
    BY <2>0
  <2> USE DEF Entry
  <2> QED  BY <2>2, <2>3, <2>4, <2>5
<1> HIDE DEF Entry
<1>5. prices \in Seq(Entry) /\ Len(prices) = n
  BY <1>2, <1>4
<1>6. prices # <<>>
  BY <1>5
<1>7. B!ValidPrices(prices, Accounts)
  BY <1>5, <1>6 DEF B!ValidPrices, Entry
<1>8. \A k \in DOMAIN list : /\ prices[k].account = <<list[k].mint_url, list[k].unit>>
                             /\ prices[k].price_per_second = list[k].price_per_second
  <2> SUFFICES ASSUME NEW k \in 1..n
               PROVE  /\ prices[k].account = <<list[k].mint_url, list[k].unit>>
                      /\ prices[k].price_per_second = list[k].price_per_second
    BY <1>1
  <2> HIDE DEF Accounts
  <2>1. prices[k] = [account          |-> <<list[k].mint_url, list[k].unit>>,
                     price_per_second |-> list[k].price_per_second]
    BY <1>3
  <2> QED  BY <2>1
<1> QED  BY <1>1, <1>2, <1>7, <1>8 DEF prices
-----------------------------------------------------------------------------
(***************************************************************************)
(* What the NixOS module renders, as it is read.                           *)
(***************************************************************************)
LEMMA MarksDiffer == ":" # Comma
BY Zenon DEF Comma

\* The marks are among the atoms.
LEMMA MarksAreAtoms == Comma \in Atoms /\ ":" \in Atoms
BY AtomsAssumption, Zenon

\* A field has none of the marks that would end it.
LEMMA FieldLacks ==
  ASSUME NEW text, NEW marks, IsField(text, marks)
  PROVE  text \in Text /\ Trimmed(text) /\ \A mark \in marks : Lacks(text, mark)
<1>1. text \in Text /\ Trimmed(text) /\ ToSet(text) \cap marks = {}
  BY DEF IsField
<1>2. DOMAIN text = 1..Len(text)
  BY <1>1 DEF Text
<1>3. \A i \in 1..Len(text) : text[i] \in ToSet(text)
  BY <1>2 DEF ToSet
<1> QED  BY <1>1, <1>3 DEF Lacks

\* A number as it is written is a field, and is read as that number.
LEMMA DecimalIsRead ==
  ASSUME NEW n \in 0..MaxU64
  PROVE  /\ Decimal(n) \in Text /\ Trimmed(Decimal(n))
         /\ Lacks(Decimal(n), Comma) /\ Lacks(Decimal(n), ":")
         /\ ParseU64(Decimal(n)) = n
         /\ n # None /\ Decimal(n) # None
<1>1. PICK atom \in Atoms \ {Comma, Space, ":"} : Decimal(n) = <<atom>> /\ Numeral(atom) = n
  BY DecimalAssumption
<1> DEFINE d == Decimal(n)
<1>2. d \in Seq(Atoms) /\ Len(d) = 1 /\ d[1] = atom /\ d # <<>>
  BY <1>1
<1> HIDE DEF d
<1>3. d \in Text
  BY <1>2 DEF Text
<1>4. Trimmed(d)
  BY <1>1, <1>2 DEF Trimmed
<1>5. Lacks(d, Comma) /\ Lacks(d, ":")
  <2>1. \A i \in 1..Len(d) : d[i] = atom
    BY <1>2
  <2>2. atom # Comma /\ atom # ":"
    BY <1>1, Zenon
  <2> QED  BY <2>1, <2>2 DEF Lacks
<1>6. ParseU64(d) = n
  BY <1>1, <1>2 DEF ParseU64
<1>7. n # None /\ d # None
  BY <1>3, NoneAssumption
<1> QED  BY <1>3, <1>4, <1>5, <1>6, <1>7 DEF d

\* Three texts joined by colons.
LEMMA ThreeFields ==
  ASSUME NEW a \in Text, NEW b \in Text, NEW c \in Text
  PROVE  /\ Join(<<a, b, c>>, ":") \in Text
         /\ Split(Join(<<a, b, c>>, ":"), ":") = (Split(a, ":") \o Split(b, ":")) \o Split(c, ":")
         /\ Lacks(a, Comma) /\ Lacks(b, Comma) /\ Lacks(c, Comma)
              => Lacks(Join(<<a, b, c>>, ":"), Comma)
         /\ Trimmed(a) /\ Trimmed(c) => Trimmed(Join(<<a, b, c>>, ":"))
<1> DEFINE mark  == ":"
           other == Comma
           entry == Join(<<a, b, c>>, mark)
<1>1. mark \in Atoms /\ other # mark
  BY MarksAreAtoms, MarksDiffer
<1>2. a \in Seq(Atoms) /\ b \in Seq(Atoms) /\ c \in Seq(Atoms)
  BY DEF Text
<1> HIDE DEF mark, other
<1>3. /\ Join(<<a, b, c>>, mark) \in Seq(Atoms)
      /\ Split(Join(<<a, b, c>>, mark), mark) = (Split(a, mark) \o Split(b, mark)) \o Split(c, mark)
      /\ \A x : x # mark /\ Lacks(a, x) /\ Lacks(b, x) /\ Lacks(c, x)
           => Lacks(Join(<<a, b, c>>, mark), x)
      /\ Trimmed(a) /\ Trimmed(c) => Trimmed(Join(<<a, b, c>>, mark))
  BY <1>1, <1>2, JoinThree
<1> HIDE DEF entry
<1>4. /\ entry \in Seq(Atoms)
      /\ Split(entry, mark) = (Split(a, mark) \o Split(b, mark)) \o Split(c, mark)
      /\ Lacks(a, other) /\ Lacks(b, other) /\ Lacks(c, other) => Lacks(entry, other)
      /\ Trimmed(a) /\ Trimmed(c) => Trimmed(entry)
  BY <1>1, <1>3 DEF entry
<1> QED  BY <1>4 DEF entry, mark, other, Text

\* A price as it is written is read as that price, whatever colons the mint has.
LEMMA PriceIsReadBack ==
  ASSUME NEW mint \in Text, Trimmed(mint), HasScheme(mint), NEW n \in 1..MaxU64,
         NEW unit \in Text, Trimmed(unit), Lacks(unit, ":")
  PROVE  ParsePrice(Join(<<mint, Decimal(n), unit>>, ":"))
           = [mint_url |-> mint, price_per_second |-> n, unit |-> unit]
<1> DEFINE d     == Decimal(n)
           entry == Join(<<mint, d, unit>>, ":")
           S     == Split(mint, ":")
<1>1. n \in 0..MaxU64 /\ n > 0
  BY SettingsAssumption
<1>2. d \in Text /\ Trimmed(d) /\ Lacks(d, ":") /\ ParseU64(d) = n /\ n # None
  BY <1>1, DecimalIsRead
<1> HIDE DEF d
<1>3. Split(entry, ":") = (S \o Split(d, ":")) \o Split(unit, ":")
  BY <1>2, ThreeFields
<1>4. Split(d, ":") = <<d>> /\ Split(unit, ":") = <<unit>>
  BY <1>2, SplitWithoutMark DEF Text
<1>5. S \in Fields(Atoms) /\ Join(S, ":") = mint
  BY MarksAreAtoms, SplitIsFields, JoinOfSplit DEF Text
<1>6. Trim(mint) = mint /\ Trim(d) = d /\ Trim(unit) = unit
  BY <1>2, TrimmedStays DEF Text
<1> HIDE DEF entry, S
<1>7. RestAndLastTwo((S \o <<d>>) \o <<unit>>) = <<Join(S, ":"), d, unit>>
  <2>1. S \in Seq(Text) /\ S # <<>>
    BY <1>5 DEF Fields, Text
  <2> QED  BY <1>2, <2>1, LastTwo
<1> DEFINE parts == <<mint, d, unit>>
           price == [mint_url |-> mint, price_per_second |-> n, unit |-> unit]
<1>8. RestAndLastTwo(Split(entry, ":")) = parts
  BY <1>3, <1>4, <1>5, <1>7
<1>9. parts # None
  <2>1. parts \in Seq(Text)
    BY <1>2
  <2> QED  BY <2>1, NoneAssumption
<1>10. [mint_url |-> Trim(parts[1]), price_per_second |-> ParseU64(Trim(parts[2])),
        unit |-> Trim(parts[3])] = price
  BY <1>2, <1>6
<1>11. ValidPrice(price) = price
  BY <1>1, <1>2 DEF ValidPrice, IsPrice, Trimmed
<1> HIDE DEF price
<1>12. PriceOf(parts) = price
  BY <1>9, <1>10, <1>11 DEF PriceOf
<1> HIDE DEF parts
<1>13. ParsePrice(entry) = price
  BY <1>8, <1>12 DEF ParsePrice
<1> QED  BY <1>13 DEF entry, d, price

\* So is a piece of software, whatever colons its path has.
LEMMA SoftwareIsReadBack ==
  ASSUME NEW name \in Text, Trimmed(name), Lacks(name, ":"),
         NEW version \in Text, Trimmed(version), Lacks(version, ":"),
         NEW path \in Text, Trimmed(path), path[1] = "/"
  PROVE  ParseSoftware(Join(<<name, version, path>>, ":"))
           = [name |-> name, version |-> version, path |-> path]
<1> DEFINE entry == Join(<<name, version, path>>, ":")
           S     == Split(path, ":")
<1>1. Split(entry, ":") = (Split(name, ":") \o Split(version, ":")) \o S
  BY ThreeFields
<1>2. Split(name, ":") = <<name>> /\ Split(version, ":") = <<version>>
  BY SplitWithoutMark DEF Text
<1>3. S \in Fields(Atoms) /\ Join(S, ":") = path
  BY MarksAreAtoms, SplitIsFields, JoinOfSplit DEF Text
<1>4. Trim(name) = name /\ Trim(version) = version /\ Trim(path) = path
  BY TrimmedStays DEF Text
<1> HIDE DEF entry, S
<1>5. FirstTwoAndRest((<<name>> \o <<version>>) \o S) = <<name, version, Join(S, ":")>>
  <2>1. S \in Seq(Text) /\ S # <<>>
    BY <1>3 DEF Fields, Text
  <2> QED  BY <2>1, FirstTwo
<1> DEFINE parts == <<name, version, path>>
           item  == [name |-> name, version |-> version, path |-> path]
<1>6. FirstTwoAndRest(Split(entry, ":")) = parts
  BY <1>1, <1>2, <1>3, <1>5
<1>7. parts # None
  <2>1. parts \in Seq(Text)
    OBVIOUS
  <2> QED  BY <2>1, NoneAssumption
<1>8. [name |-> Trim(parts[1]), version |-> Trim(parts[2]), path |-> Trim(parts[3])] = item
  BY <1>4
<1>9. ValidSoftware(item) = item
  BY DEF ValidSoftware, Trimmed
<1>10. parts[3] = path /\ path # <<>>
  BY DEF Trimmed
<1> HIDE DEF item
<1>11. SoftwareOf(parts) = item
  BY <1>7, <1>8, <1>9, <1>10 DEF SoftwareOf
<1> HIDE DEF parts
<1>12. ParseSoftware(entry) = item
  BY <1>6, <1>11 DEF ParseSoftware
<1> QED  BY <1>12 DEF entry, item

\* Fields joined are a text.
LEMMA JoinIsText ==
  ASSUME NEW A, NEW fields \in Fields(A), NEW mark \in A
  PROVE  Join(fields, mark) \in Seq(A)
<1>1. <<>> \in Seq(A)
  OBVIOUS
<1> QED  BY <1>1, JoinAppend

ModulePrice == [mintUrl : Text, pricePerSecond : 1..MaxU64, unit : Text]

\* A list of entries, joined and split again, each of which is read as an item.
LEMMA ListIsReadBack ==
  ASSUME NEW n \in Nat \ {0}, NEW entries \in [1..n -> Text],
         \A k \in 1..n : Trimmed(entries[k]) /\ Lacks(entries[k], Comma),
         NEW Item, None \notin Item, None \notin Seq(Item), NEW items \in [1..n -> Item]
  PROVE  /\ SplitCsv(Join(entries, Comma)) = entries
         /\ Join(entries, Comma) \in Text
         /\ Flawless(items) = items /\ items # None /\ items \in Seq(Item)
<1>1. /\ entries \in Fields(Atoms) /\ Len(entries) = n /\ Comma \in Atoms
  <2>1. entries \in Seq(Text) /\ Len(entries) = n
    OBVIOUS
  <2>2. entries # <<>>
    BY <2>1
  <2> QED  BY <2>1, <2>2, MarksAreAtoms DEF Fields, Text
<1>2. SplitCsv(Join(entries, Comma)) = entries
  BY <1>1, CsvOfJoin
<1>3. items \in Seq(Item) /\ Len(items) = n
  OBVIOUS
<1>4. items # <<>> /\ items # None
  BY <1>3
<1>5. None \notin ToSet(items)
  BY DEF ToSet
<1>6. Flawless(items) = items
  BY <1>4, <1>5 DEF Flawless
<1>7. Join(entries, Comma) \in Text
  BY <1>1, JoinIsText DEF Text
<1> QED  BY <1>2, <1>3, <1>4, <1>6, <1>7

\* The price list of the module is read as its options say.
LEMMA PriceListIsReadBack ==
  ASSUME NEW prices \in Seq(ModulePrice) \ {<<>>},
         \A k \in DOMAIN prices :
           /\ IsField(prices[k].mintUrl, {Comma}) /\ HasScheme(prices[k].mintUrl)
           /\ IsField(prices[k].unit, {Comma, ":"})
  PROVE  /\ ParseList(WorkerPrices(prices), ParsePrice)
              = [k \in DOMAIN prices |-> [mint_url         |-> prices[k].mintUrl,
                                          price_per_second |-> prices[k].pricePerSecond,
                                          unit             |-> prices[k].unit]]
         /\ ParseList(WorkerPrices(prices), ParsePrice) \in Seq(Price)
         /\ ParseList(WorkerPrices(prices), ParsePrice) # None
         /\ WorkerPrices(prices) # None
<1> DEFINE n == Len(prices)
           entries == [k \in DOMAIN prices |->
                         Join(<<prices[k].mintUrl, Decimal(prices[k].pricePerSecond),
                                prices[k].unit>>, ":")]
           items   == [k \in DOMAIN prices |-> [mint_url         |-> prices[k].mintUrl,
                                                price_per_second |-> prices[k].pricePerSecond,
                                                unit             |-> prices[k].unit]]
<1>1. n \in Nat \ {0} /\ DOMAIN prices = 1..n /\ \A k \in 1..n : prices[k] \in ModulePrice
  <2>1. prices \in Seq(ModulePrice) /\ prices # <<>>
    OBVIOUS
  <2> QED  BY <2>1, NotEmpty
<1> HIDE DEF n
<1>2. ASSUME NEW k \in 1..n
      PROVE  /\ prices[k].mintUrl \in Text /\ Trimmed(prices[k].mintUrl)
             /\ HasScheme(prices[k].mintUrl) /\ Lacks(prices[k].mintUrl, Comma)
             /\ prices[k].unit \in Text /\ Trimmed(prices[k].unit)
             /\ Lacks(prices[k].unit, Comma) /\ Lacks(prices[k].unit, ":")
             /\ prices[k].pricePerSecond \in 1..MaxU64
  <2>1. /\ IsField(prices[k].mintUrl, {Comma}) /\ HasScheme(prices[k].mintUrl)
        /\ IsField(prices[k].unit, {Comma, ":"})
    BY <1>1
  <2>2. /\ prices[k].mintUrl \in Text /\ Trimmed(prices[k].mintUrl)
        /\ Lacks(prices[k].mintUrl, Comma)
    BY <2>1, FieldLacks
  <2>3. /\ prices[k].unit \in Text /\ Trimmed(prices[k].unit)
        /\ Lacks(prices[k].unit, Comma) /\ Lacks(prices[k].unit, ":")
    BY <2>1, FieldLacks
  <2>4. prices[k].pricePerSecond \in 1..MaxU64
    BY <1>1 DEF ModulePrice
  <2> QED  BY <2>1, <2>2, <2>3, <2>4
<1>3. ASSUME NEW k \in 1..n
      PROVE  /\ entries[k] \in Text /\ Trimmed(entries[k]) /\ Lacks(entries[k], Comma)
             /\ ParsePrice(entries[k]) = items[k] /\ items[k] \in Price
  <2> DEFINE mint == prices[k].mintUrl
             p    == prices[k].pricePerSecond
             unit == prices[k].unit
  <2>1. /\ entries[k] = Join(<<mint, Decimal(p), unit>>, ":")
        /\ items[k] = [mint_url |-> mint, price_per_second |-> p, unit |-> unit]
    BY <1>1
  <2>2. /\ mint \in Text /\ Trimmed(mint) /\ HasScheme(mint) /\ Lacks(mint, Comma)
        /\ unit \in Text /\ Trimmed(unit) /\ Lacks(unit, Comma) /\ Lacks(unit, ":")
        /\ p \in 1..MaxU64
    BY <1>2
  <2> HIDE DEF mint, p, unit, entries, items
  <2>3. p \in 0..MaxU64
    BY <2>2, SettingsAssumption
  <2>4. Decimal(p) \in Text /\ Lacks(Decimal(p), Comma)
    BY <2>3, DecimalIsRead
  <2>5. /\ entries[k] \in Text /\ Trimmed(entries[k]) /\ Lacks(entries[k], Comma)
    BY <2>1, <2>2, <2>4, ThreeFields
  <2>6. ParsePrice(entries[k]) = items[k]
    BY <2>1, <2>2, PriceIsReadBack
  <2>7. items[k] \in Price
    BY <2>1, <2>2, <2>3 DEF Price
  <2> QED  BY <2>5, <2>6, <2>7
<1>4. entries \in [1..n -> Text] /\ items \in [1..n -> Price]
  <2>1. DOMAIN entries = 1..n /\ DOMAIN items = 1..n
    BY <1>1
  <2>2. entries = [k \in 1..n |-> entries[k]] /\ items = [k \in 1..n |-> items[k]]
    BY <1>1
  <2> HIDE DEF entries, items
  <2> QED  BY <1>3, <2>2
<1>5. WorkerPrices(prices) = Join(entries, Comma)
  BY DEF WorkerPrices, ToCsv
<1>6. [k \in DOMAIN entries |-> ParsePrice(entries[k])] = items
  <2>1. items = [k \in 1..n |-> items[k]]
    BY <1>1
  <2> HIDE DEF entries, items
  <2> QED  BY <1>3, <1>4, <2>1
<1> HIDE DEF entries, items
<1>7. /\ SplitCsv(Join(entries, Comma)) = entries
      /\ Flawless(items) = items /\ items # None /\ items \in Seq(Price)
      /\ Join(entries, Comma) \in Text
  <2>1. None \notin Price /\ None \notin Seq(Price)
    BY NoneAssumption
  <2> QED  BY <1>1, <1>3, <1>4, <2>1, ListIsReadBack
<1>8. ParseList(WorkerPrices(prices), ParsePrice) = items
  <2>1. ParseList(Join(entries, Comma), ParsePrice)
          = Flawless([k \in DOMAIN entries |-> ParsePrice(entries[k])])
    BY <1>7 DEF ParseList, ParseEach
  <2> QED  BY <1>5, <1>6, <1>7, <2>1
<1>9. WorkerPrices(prices) # None
  BY <1>5, <1>7, NoneAssumption
<1> QED  BY <1>7, <1>8, <1>9 DEF items

\* And so is its list of software.
LEMMA SoftwareListIsReadBack ==
  ASSUME NEW software \in Seq(Software) \ {<<>>},
         \A k \in DOMAIN software :
           /\ IsField(software[k].name, {Comma, ":"}) /\ IsField(software[k].version, {Comma, ":"})
           /\ IsField(software[k].path, {Comma}) /\ software[k].path[1] = "/"
  PROVE  /\ ParseList(WorkerSoftware(software), ParseSoftware) = software
         /\ software # None /\ WorkerSoftware(software) # None
<1> DEFINE n == Len(software)
           entries == [k \in DOMAIN software |->
                         Join(<<software[k].name, software[k].version, software[k].path>>, ":")]
<1>1. n \in Nat \ {0} /\ DOMAIN software = 1..n /\ software \in [1..n -> Software]
  <2>1. software \in Seq(Software) /\ software # <<>>
    OBVIOUS
  <2> QED  BY <2>1, NotEmpty
<1> HIDE DEF n
<1>2. ASSUME NEW k \in 1..n
      PROVE  /\ entries[k] \in Text /\ Trimmed(entries[k]) /\ Lacks(entries[k], Comma)
             /\ ParseSoftware(entries[k]) = software[k]
  <2> DEFINE name    == software[k].name
             version == software[k].version
             path    == software[k].path
  <2>1. /\ IsField(name, {Comma, ":"}) /\ IsField(version, {Comma, ":"})
        /\ IsField(path, {Comma}) /\ path[1] = "/"
    BY <1>1
  <2>2. /\ entries[k] = Join(<<name, version, path>>, ":")
        /\ software[k] = [name |-> name, version |-> version, path |-> path]
    <3>1. software[k] \in Software
      BY <1>1
    <3>2. software[k] = [name |-> name, version |-> version, path |-> path]
      BY <3>1 DEF Software
    <3> QED  BY <1>1, <3>2
  <2> HIDE DEF name, version, path, entries
  <2>3. name \in Text /\ Trimmed(name) /\ Lacks(name, Comma) /\ Lacks(name, ":")
    BY <2>1, FieldLacks
  <2>4. version \in Text /\ Trimmed(version) /\ Lacks(version, Comma) /\ Lacks(version, ":")
    BY <2>1, FieldLacks
  <2>5. path \in Text /\ Trimmed(path) /\ Lacks(path, Comma)
    BY <2>1, FieldLacks
  <2>6. entries[k] \in Text /\ Trimmed(entries[k]) /\ Lacks(entries[k], Comma)
    BY <2>2, <2>3, <2>4, <2>5, ThreeFields
  <2>7. ParseSoftware(entries[k]) = software[k]
    BY <2>1, <2>2, <2>3, <2>4, <2>5, SoftwareIsReadBack
  <2> QED  BY <2>6, <2>7
<1>3. entries \in [1..n -> Text]
  <2>1. entries = [k \in 1..n |-> entries[k]]
    BY <1>1
  <2> HIDE DEF entries
  <2> QED  BY <1>2, <2>1
<1>4. WorkerSoftware(software) = Join(entries, Comma)
  BY DEF WorkerSoftware, ToCsv
<1> HIDE DEF entries
<1>5. [k \in DOMAIN entries |-> ParseSoftware(entries[k])] = software
  BY <1>1, <1>2, <1>3
<1>6. /\ SplitCsv(Join(entries, Comma)) = entries
      /\ Flawless(software) = software /\ software # None
      /\ Join(entries, Comma) \in Text
  <2>1. None \notin Software /\ None \notin Seq(Software)
    BY NoneAssumption
  <2> QED  BY <1>1, <1>2, <1>3, <2>1, ListIsReadBack
<1>7. ParseList(WorkerSoftware(software), ParseSoftware) = software
  <2>1. ParseList(Join(entries, Comma), ParseSoftware)
          = Flawless([k \in DOMAIN entries |-> ParseSoftware(entries[k])])
    BY <1>6 DEF ParseList, ParseEach
  <2> QED  BY <1>4, <1>5, <1>6, <2>1
<1>8. WorkerSoftware(software) # None
  BY <1>4, <1>6, NoneAssumption
<1> QED  BY <1>6, <1>7, <1>8

(***************************************************************************)
(* What the module is told is what the controller is configured with.      *)
(***************************************************************************)
LEMMA ModuleSettings ==
  ASSUME NEW o, Plain(o)
  PROVE  FromLookup(BaseEnvironment(o))
           = [relays       |-> o.relays,
              software     |-> o.workerSoftware,
              prices       |-> [k \in DOMAIN o.workerPrices |->
                                  [mint_url         |-> o.workerPrices[k].mintUrl,
                                   price_per_second |-> o.workerPrices[k].pricePerSecond,
                                   unit             |-> o.workerPrices[k].unit]],
              job_timeout  |-> o.jobTimeout,
              min_duration |-> o.workerMinDuration,
              max_duration |-> o.workerMaxDuration]
         /\ FromLookup(BaseEnvironment(o)) # None
<1> DEFINE e      == BaseEnvironment(o)
           prices == [k \in DOMAIN o.workerPrices |->
                        [mint_url         |-> o.workerPrices[k].mintUrl,
                         price_per_second |-> o.workerPrices[k].pricePerSecond,
                         unit             |-> o.workerPrices[k].unit]]
           c == [relays       |-> o.relays,
                 software     |-> o.workerSoftware,
                 prices       |-> prices,
                 job_timeout  |-> o.jobTimeout,
                 min_duration |-> o.workerMinDuration,
                 max_duration |-> o.workerMaxDuration]
<1>1. /\ o.relays \in Seq(Text) \ {<<>>}
      /\ \A k \in DOMAIN o.relays : IsField(o.relays[k], {Comma})
  BY DEF Plain
<1>2. /\ o.workerSoftware \in Seq(Software) \ {<<>>}
      /\ \A k \in DOMAIN o.workerSoftware :
           /\ IsField(o.workerSoftware[k].name, {Comma, ":"})
           /\ IsField(o.workerSoftware[k].version, {Comma, ":"})
           /\ IsField(o.workerSoftware[k].path, {Comma}) /\ o.workerSoftware[k].path[1] = "/"
  BY DEF Plain
<1>3. /\ o.workerPrices \in Seq(ModulePrice) \ {<<>>}
      /\ \A k \in DOMAIN o.workerPrices :
           /\ IsField(o.workerPrices[k].mintUrl, {Comma}) /\ HasScheme(o.workerPrices[k].mintUrl)
           /\ IsField(o.workerPrices[k].unit, {Comma, ":"})
  BY DEF Plain, ModulePrice
<1>4. /\ o.workerMinDuration \in 0..MaxU64 /\ o.workerMaxDuration \in 0..MaxU64
      /\ o.jobTimeout \in 0..MaxU64
      /\ o.workerMinDuration <= o.workerMaxDuration
  BY DEF Plain
<1>5. /\ e["NOSTR_RELAYS"] = Join(o.relays, Comma)
      /\ e["WORKER_SOFTWARE"] = WorkerSoftware(o.workerSoftware)
      /\ e["WORKER_PRICES"] = WorkerPrices(o.workerPrices)
      /\ e["WORKER_MIN_DURATION"] = Decimal(o.workerMinDuration)
      /\ e["WORKER_MAX_DURATION"] = Decimal(o.workerMaxDuration)
      /\ e["JOB_TIMEOUT"] = Decimal(o.jobTimeout)
  BY DEF BaseEnvironment
<1> HIDE DEF e
<1>6. /\ SplitCsv(Join(o.relays, Comma)) = o.relays
      /\ o.relays # <<>> /\ o.relays # None /\ Join(o.relays, Comma) # None
  <2> DEFINE relays == o.relays
  <2>1. relays \in Seq(Text) /\ relays # <<>> /\ relays \in Fields(Atoms)
        /\ DOMAIN relays = 1..Len(relays)
    BY <1>1 DEF Fields, Text
  <2>2. \A k \in 1..Len(relays) : Trimmed(relays[k]) /\ Lacks(relays[k], Comma)
    <3>1. \A k \in 1..Len(relays) : IsField(relays[k], {Comma})
      BY <1>1, <2>1
    <3> HIDE DEF relays
    <3> QED  BY <3>1, FieldLacks
  <2> HIDE DEF relays
  <2>3. SplitCsv(Join(relays, Comma)) = relays
    BY <2>1, <2>2, MarksAreAtoms, CsvOfJoin
  <2>4. relays # None
    BY <2>1, NoneAssumption
  <2>5. Join(relays, Comma) # None
    BY <2>1, JoinIsText, MarksAreAtoms, NoneAssumption DEF Text
  <2> QED  BY <2>1, <2>3, <2>4, <2>5 DEF relays
<1>7. /\ ParseList(WorkerSoftware(o.workerSoftware), ParseSoftware) = o.workerSoftware
      /\ o.workerSoftware # None /\ WorkerSoftware(o.workerSoftware) # None
  BY <1>2, SoftwareListIsReadBack
<1>8. /\ ParseList(WorkerPrices(o.workerPrices), ParsePrice) = prices
      /\ prices \in Seq(Price) /\ prices # None /\ WorkerPrices(o.workerPrices) # None
  BY <1>3, PriceListIsReadBack
<1>9. /\ JobTimeout(e) = o.jobTimeout
      /\ ParseOrDefault(e, "WORKER_MIN_DURATION", 1) = o.workerMinDuration
      /\ ParseOrDefault(e, "WORKER_MAX_DURATION", JobTimeout(e)) = o.workerMaxDuration
      /\ o.jobTimeout # None /\ o.workerMinDuration # None /\ o.workerMaxDuration # None
  BY <1>4, <1>5, DecimalIsRead DEF JobTimeout, ParseOrDefault
<1>10. /\ \A setting \in DOMAIN c : c[setting] # None
       /\ c.relays # <<>>
       /\ c.min_duration <= c.max_duration
  <2> HIDE DEF prices
  <2> QED  BY <1>4, <1>6, <1>7, <1>8, <1>9
<1>11. c # None
  <2> HIDE DEF prices
  <2>1. c \in Config
    BY <1>1, <1>2, <1>4, <1>8 DEF Config
  <2> QED  BY <2>1, NoneAssumption
<1>12. FromLookup(e)
         = Checked(e, [relays       |-> SplitCsv(e["NOSTR_RELAYS"]),
                       software     |-> ParseList(e["WORKER_SOFTWARE"], ParseSoftware),
                       prices       |-> ParseList(e["WORKER_PRICES"], ParsePrice),
                       job_timeout  |-> JobTimeout(e),
                       min_duration |-> ParseOrDefault(e, "WORKER_MIN_DURATION", 1),
                       max_duration |-> ParseOrDefault(e, "WORKER_MAX_DURATION", JobTimeout(e))])
  BY <1>5, <1>6, <1>7, <1>8 DEF FromLookup
<1> HIDE DEF prices
<1>13. FromLookup(e) = Checked(e, c)
  BY <1>5, <1>6, <1>7, <1>8, <1>9, <1>12
<1> HIDE DEF c
<1>14. Checked(e, c) = c
  BY <1>10 DEF Checked, InOrder
<1> QED  BY <1>11, <1>13, <1>14 DEF e, c, prices
-----------------------------------------------------------------------------
(***************************************************************************)
(* The advertisement.                                                      *)
(***************************************************************************)
\* What the tags of an advertisement with a given name are.
LEMMA AdvertSaysWhatIsConfigured ==
  ASSUME NEW c, IsPriceList(c.prices)
  PROVE  LET advert == BuildAdvertisement(c)
             Named(name) == {advert[i] : i \in {j \in DOMAIN advert : advert[j][1] = name}}
         IN  /\ Named("price") = {PriceTags(c.prices)[k] : k \in DOMAIN c.prices}
             /\ Named("min_duration") = {<<"min_duration", c.min_duration>>}
             /\ Named("max_duration") = {<<"max_duration", c.max_duration>>}
<1> DEFINE tags   == PriceTags(c.prices)
           least  == <<"min_duration", c.min_duration>>
           most   == <<"max_duration", c.max_duration>>
           advert == BuildAdvertisement(c)
           Named(name) == {advert[i] : i \in {j \in DOMAIN advert : advert[j][1] = name}}
<1>1. PICK n \in Nat \ {0} : DOMAIN c.prices = 1..n
  BY DEF IsPriceList
<1>2. DOMAIN tags = 1..n /\ \A k \in 1..n : tags[k][1] = "price"
  BY <1>1 DEF PriceTags
<1> DEFINE S == {tags[k] : k \in 1..n} \cup {least, most}
<1>3. tags \in Seq(S) /\ Len(tags) = n
  <2>1. tags = [k \in 1..n |-> tags[k]]
    BY <1>1 DEF PriceTags
  <2>2. \A k \in 1..n : tags[k] \in S
    OBVIOUS
  <2> HIDE DEF tags, S
  <2> QED  BY <2>1, <2>2
<1>4. advert = tags \o <<least, most>>
  BY DEF BuildAdvertisement
<1>5. <<least, most>> \in Seq(S) /\ Len(<<least, most>>) = 2
  <2>1. least \in S /\ most \in S
    OBVIOUS
  <2> HIDE DEF least, most, S
  <2> QED  BY <2>1
<1>6. least[1] = "min_duration" /\ most[1] = "max_duration"
  OBVIOUS
<1> HIDE DEF tags, least, most, advert, S
<1>7. DOMAIN advert = 1..n + 2
  BY <1>3, <1>4, <1>5
<1>8. \A k \in 1..n : advert[k] = tags[k]
  BY <1>3, <1>4, <1>5
<1>9. advert[n + 1] = least /\ advert[n + 2] = most
  BY <1>3, <1>4, <1>5
<1>10. \A i \in 1..n + 2 : i \in 1..n \/ i = n + 1 \/ i = n + 2
  OBVIOUS
<1>11. n + 1 \in 1..n + 2 /\ n + 2 \in 1..n + 2 /\ \A k \in 1..n : k \in 1..n + 2
  OBVIOUS
<1>12. /\ "price" # "min_duration" /\ "price" # "max_duration"
       /\ "min_duration" # "max_duration"
  OBVIOUS
<1>14. {j \in 1..n + 2 : advert[j][1] = "price"} = 1..n
  BY <1>2, <1>6, <1>8, <1>9, <1>10, <1>11, <1>12
<1>15. {j \in 1..n + 2 : advert[j][1] = "min_duration"} = {n + 1}
  BY <1>2, <1>6, <1>8, <1>9, <1>10, <1>11, <1>12
<1>16. {j \in 1..n + 2 : advert[j][1] = "max_duration"} = {n + 2}
  BY <1>2, <1>6, <1>8, <1>9, <1>10, <1>11, <1>12
<1>17. Named("price") = {tags[k] : k \in 1..n}
  <2>1. Named("price") = {advert[i] : i \in 1..n}
    BY <1>7, <1>14
  <2>2. {advert[i] : i \in 1..n} = {tags[k] : k \in 1..n}
    BY <1>8
  <2> QED  BY <2>1, <2>2
<1>18. Named("min_duration") = {least}
  <2>1. Named("min_duration") = {advert[i] : i \in {n + 1}}
    BY <1>7, <1>15
  <2>2. {advert[i] : i \in {n + 1}} = {least}
    BY <1>9
  <2> QED  BY <2>1, <2>2
<1>19. Named("max_duration") = {most}
  <2>1. Named("max_duration") = {advert[i] : i \in {n + 2}}
    BY <1>7, <1>16
  <2>2. {advert[i] : i \in {n + 2}} = {most}
    BY <1>9
  <2> QED  BY <2>1, <2>2
<1> QED  BY <1>1, <1>17, <1>18, <1>19 DEF tags, least, most, advert
-----------------------------------------------------------------------------
(***************************************************************************)
(* The inductive invariant: every variable that has been written holds     *)
(* what its action made of the variables before it, and nothing is written *)
(* twice.                                                                  *)
(***************************************************************************)
Offered(k, seconds) ==
  /\ config.prices[k].price_per_second * seconds <= MaxU64
  /\ offer = [account |-> <<config.prices[k].mint_url, config.prices[k].unit>>,
              amount  |-> config.prices[k].price_per_second * seconds,
              seconds |-> seconds]

Reading ==
  LET worker == SlotForEvent(Workers, posted.event)
      price  == B!FindPrice(Priced(config.prices), offer.account)
  IN  IF worker = None THEN None
      ELSE [worker  |-> worker,
            job     |-> DecodeJobEvent(worker, posted.event),
            token   |-> ExtractPaymentToken(posted.event),
            timeout |-> IF B!CoversMinimum(offer.amount, price, config.min_duration)
                        THEN B!Timeout(offer.amount, price, config.max_duration)
                        ELSE None]

IInv ==
  /\ step \in {"start", "rejected", "advertised", "paid", "unposted", "posted", "received"}
  /\ AreTexts(env)
  /\ options # None => env = BaseEnvironment(options)
  /\ step = "start" => config = None
  /\ step # "start" => config = FromLookup(env)
  /\ step \notin {"start", "rejected"} => config # None
  /\ step \in {"start", "rejected", "advertised", "paid", "unposted"} => posted = None
  /\ step \in {"posted", "received"} => posted # None /\ posted = PostJob(job_env)
  /\ step \in {"paid", "unposted", "posted", "received"} =>
       \E k \in DOMAIN config.prices, seconds \in config.min_duration..config.max_duration :
         Offered(k, seconds)
  /\ step # "received" => taken = None
  /\ step = "received" => taken = Reading
-----------------------------------------------------------------------------
\* What a product is divided by its factor.
LEMMA QuotientOfProduct ==
  ASSUME NEW p \in Nat \ {0}, NEW s \in Nat
  PROVE  (p * s) \div p = s
OBVIOUS

\* The product of natural numbers is one.
LEMMA ProductIsNatural ==
  ASSUME NEW p \in Nat, NEW s \in Nat
  PROVE  p * s \in Nat
OBVIOUS

\* The choice of a requester is one of the prices and a runtime in the limits.
LEMMA ChoiceIsOffered ==
  ASSUME IsPriceList(config.prices), Choose
  PROVE  (\E k \in DOMAIN config.prices, seconds \in config.min_duration..config.max_duration :
            Offered(k, seconds))'
<1> DEFINE advert      == BuildAdvertisement(config)
           Named(name) == {advert[i] : i \in {j \in DOMAIN advert : advert[j][1] = name}}
<1>1. PICK price \in Named("price"), least \in Named("min_duration"),
           most \in Named("max_duration") :
        \E seconds \in least[2]..most[2] :
          /\ price[3] * seconds <= MaxU64
          /\ offer' = [account |-> <<price[2], price[4]>>,
                       amount  |-> price[3] * seconds,
                       seconds |-> seconds]
  BY DEF Choose
<1>2. /\ Named("price") = {PriceTags(config.prices)[k] : k \in DOMAIN config.prices}
      /\ Named("min_duration") = {<<"min_duration", config.min_duration>>}
      /\ Named("max_duration") = {<<"max_duration", config.max_duration>>}
  BY AdvertSaysWhatIsConfigured
<1> HIDE DEF advert, Named
<1>3. PICK k \in DOMAIN config.prices :
        price = <<"price", config.prices[k].mint_url, config.prices[k].price_per_second,
                  config.prices[k].unit>>
  BY <1>1, <1>2 DEF PriceTags
<1>4. least[2] = config.min_duration /\ most[2] = config.max_duration
  BY <1>1, <1>2
<1>5. PICK seconds \in config.min_duration..config.max_duration :
        /\ price[3] * seconds <= MaxU64
        /\ offer' = [account |-> <<price[2], price[4]>>,
                     amount  |-> price[3] * seconds,
                     seconds |-> seconds]
  BY <1>1, <1>4
<1>6. Offered(k, seconds)'
  <2>1. config' = config
    BY DEF Choose
  <2>2. /\ price[2] = config.prices[k].mint_url
        /\ price[3] = config.prices[k].price_per_second
        /\ price[4] = config.prices[k].unit
    BY <1>3
  <2> QED  BY <1>5, <2>1, <2>2 DEF Offered
<1>7. config' = config
  BY DEF Choose
<1> QED  BY <1>6, <1>7

\* The invariant holds to begin with.
LEMMA InitiallyInvariant == Init => IInv
<1> SUFFICES ASSUME Init PROVE IInv
  OBVIOUS
<1>1. PICK start \in Starts :
        options = start.options /\ env = start.env /\ job_env = start.job_env
  BY DEF Init
<1>2. AreTexts(env) /\ (options # None => env = BaseEnvironment(options))
  BY <1>1, StartsAssumption
<1>3. step = "start" /\ config = None /\ offer = None /\ posted = None /\ taken = None
  BY DEF Init
<1> QED  BY <1>2, <1>3 DEF IInv

(***************************************************************************)
(* What the parties have read, chosen, posted and taken so far is what     *)
(* their functions make of the environments (src/config.rs,                *)
(* src/bin/post_job.rs, src/jobs.rs, src/payments.rs).                     *)
(***************************************************************************)
LEMMA Inductive == Spec => []IInv
<1>1. IInv /\ [Next]_vars => IInv'
  <2> SUFFICES ASSUME IInv, [Next]_vars PROVE IInv'
    OBVIOUS
  <2>1. CASE ReadConfig
    <3>1. AreTexts(env)' /\ (options # None => env = BaseEnvironment(options))'
      BY <2>1 DEF IInv, ReadConfig, given, AreTexts
    <3>2. step = "start" /\ config' = FromLookup(env) /\ env' = env
          /\ posted' = posted /\ taken' = taken
      BY <2>1 DEF ReadConfig, given
    <3>3. posted = None /\ taken = None
      BY <3>2 DEF IInv
    <3>4. CASE config' = None
      <4>1. step' = "rejected"
        BY <2>1, <3>4 DEF ReadConfig
      <4> QED  BY <3>1, <3>2, <3>3, <4>1 DEF IInv
    <3>5. CASE config' # None
      <4>1. step' = "advertised"
        BY <2>1, <3>5 DEF ReadConfig
      <4> QED  BY <3>1, <3>2, <3>3, <3>5, <4>1 DEF IInv
    <3> QED  BY <3>4, <3>5
  <2>2. CASE Choose
    <3>1. AreTexts(env)' /\ (options # None => env = BaseEnvironment(options))'
      BY <2>2 DEF IInv, Choose, given, AreTexts
    <3>2. /\ step = "advertised" /\ step' = "paid" /\ env' = env /\ config' = config
          /\ posted' = posted /\ taken' = taken
      BY <2>2 DEF Choose, given
    <3>3. config # None /\ config = FromLookup(env) /\ AreTexts(env) /\ posted = None /\ taken = None
      BY <3>2 DEF IInv
    <3>4. (\E k \in DOMAIN config.prices, seconds \in config.min_duration..config.max_duration :
             Offered(k, seconds))'
      BY <2>2, <3>3, AcceptedSettings, ChoiceIsOffered
    <3> HIDE DEF Offered
    <3> QED  BY <3>1, <3>2, <3>3, <3>4 DEF IInv
  <2>3. CASE Post
    <3>1. AreTexts(env)' /\ (options # None => env = BaseEnvironment(options))'
      BY <2>3 DEF IInv, Post, given, AreTexts
    <3>2. /\ step = "paid" /\ env' = env /\ config' = config /\ job_env' = job_env
          /\ offer' = offer /\ taken' = taken /\ posted' = PostJob(job_env)
      BY <2>3 DEF Post, given
    <3>3. config # None /\ config = FromLookup(env) /\ taken = None
      BY <3>2 DEF IInv
    <3>4. (\E k \in DOMAIN config.prices, seconds \in config.min_duration..config.max_duration :
             Offered(k, seconds))'
      BY <3>2 DEF IInv, Offered
    <3>5. CASE posted' = None
      <4>1. step' = "unposted"
        BY <2>3, <3>5 DEF Post
      <4> QED  BY <3>1, <3>2, <3>3, <3>4, <3>5, <4>1 DEF IInv
    <3>6. CASE posted' # None
      <4>1. step' = "posted"
        BY <2>3, <3>6 DEF Post
      <4> QED  BY <3>1, <3>2, <3>3, <3>4, <3>6, <4>1 DEF IInv
    <3> QED  BY <3>5, <3>6
  <2>4. CASE Receive
    <3>1. AreTexts(env)' /\ (options # None => env = BaseEnvironment(options))'
      BY <2>4 DEF IInv, Receive, given, AreTexts
    <3>2. /\ step = "posted" /\ step' = "received" /\ env' = env /\ config' = config
          /\ job_env' = job_env /\ offer' = offer /\ posted' = posted
      BY <2>4 DEF Receive, given
    <3>3. /\ config # None /\ config = FromLookup(env)
          /\ posted # None /\ posted = PostJob(job_env)
      BY <3>2 DEF IInv
    <3>4. (\E k \in DOMAIN config.prices, seconds \in config.min_duration..config.max_duration :
             Offered(k, seconds))'
      BY <3>2 DEF IInv, Offered
    <3>5. taken' = Reading
      BY <2>4 DEF Receive, Reading
    <3>6. Reading' = Reading
      BY <3>2 DEF Reading
    <3> QED  BY <3>1, <3>2, <3>3, <3>4, <3>5, <3>6 DEF IInv
  <2>5. CASE UNCHANGED vars
    BY <2>5 DEF vars, given, IInv, AreTexts, Offered, Reading
  <2> QED  BY <2>1, <2>2, <2>3, <2>4, <2>5 DEF Next
<1> QED  BY <1>1, InitiallyInvariant, PTL DEF Spec

(***************************************************************************)
(* Whatever the environment, a configuration the program starts with has   *)
(* positive prices that fit, an account for each, ordered durations, a     *)
(* relay and a piece of software (src/config.rs).                          *)
(***************************************************************************)
THEOREM AcceptedConfiguration == Spec => []AcceptedIsValid
<1>1. IInv => AcceptedIsValid
  <2> SUFFICES ASSUME IInv, config # None PROVE AcceptedIsValid
    BY DEF AcceptedIsValid
  <2>1. config = FromLookup(env) /\ AreTexts(env)
    BY DEF IInv
  <2>2. /\ config.relays # <<>> /\ config.software # <<>>
        /\ IsPriceList(config.prices)
        /\ config.min_duration \in 0..MaxU64
        /\ config.max_duration \in 0..MaxU64
        /\ config.min_duration <= config.max_duration
    BY <2>1, AcceptedSettings
  <2>3. B!ValidDurations(config.min_duration, config.max_duration)
    BY <2>2 DEF B!ValidDurations, B!U64
  <2>4. \A k \in DOMAIN config.prices : config.prices[k].unit # <<>>
    BY <2>2 DEF IsPriceList
  <2> DEFINE prices   == Priced(config.prices)
             Accounts == {prices[k].account : k \in DOMAIN prices}
  <2>5. B!ValidPrices(prices, Accounts)
    BY <2>2, PricedIsValid
  <2> QED  BY <2>2, <2>3, <2>4, <2>5 DEF AcceptedIsValid
<1> QED  BY <1>1, Inductive, PTL

(***************************************************************************)
(* Whatever options the NixOS module is given, if no name, version, unit,  *)
(* relay, path or mint holds a mark that ends it, the controller is        *)
(* configured with exactly those (nix/module.nix, src/config.rs).          *)
(***************************************************************************)
THEOREM OptionsAreRead == Spec => []ModuleIsUnderstood
<1>1. IInv => ModuleIsUnderstood
  <2> SUFFICES ASSUME IInv, options # None, Plain(options), step # "start"
               PROVE  /\ config # None
                      /\ config.relays = options.relays
                      /\ config.software = options.workerSoftware
                      /\ config.prices = [k \in DOMAIN options.workerPrices |->
                           [mint_url         |-> options.workerPrices[k].mintUrl,
                            price_per_second |-> options.workerPrices[k].pricePerSecond,
                            unit             |-> options.workerPrices[k].unit]]
                      /\ config.min_duration = options.workerMinDuration
                      /\ config.max_duration = options.workerMaxDuration
    BY DEF ModuleIsUnderstood
  <2>1. config = FromLookup(BaseEnvironment(options))
    BY DEF IInv
  <2> QED  BY <2>1, ModuleSettings
<1> QED  BY <1>1, Inductive, PTL

\* What a positive price times some seconds buys is those seconds at least.
LEMMA QuotientCovers ==
  ASSUME NEW q \in Nat \ {0}, NEW s \in Nat, NEW a \in Nat, q * s <= a
  PROVE  a \div q \in Nat /\ s <= a \div q
<1>1. a \div q \in Nat /\ a < (a \div q + 1) * q
  OBVIOUS
<1> DEFINE d == a \div q
<1>2. d \in Nat /\ a < (d + 1) * q
  BY <1>1
<1> HIDE DEF d
<1>3. ASSUME d + 1 <= s PROVE FALSE
  <2>1. (d + 1) * q \in Nat /\ s * q \in Nat /\ (d + 1) * q <= s * q
    BY <1>2, <1>3, BP!ProductMonotone, SettingsAssumption
  <2>2. s * q = q * s
    OBVIOUS
  <2> QED  BY <1>2, <2>1, <2>2
<1>4. s <= d
  BY <1>2, <1>3
<1> QED  BY <1>1, <1>4 DEF d

\* The price charged for an account is one of those listed for it.
LEMMA ChargedIsListed ==
  ASSUME IsPriceList(config.prices), NEW account, NEW k \in DOMAIN config.prices,
         Priced(config.prices)[k].account = account
  PROVE  \E i \in DOMAIN Priced(config.prices) :
           /\ Priced(config.prices)[i].account = account
           /\ B!FindPrice(Priced(config.prices), account)
                = Priced(config.prices)[i].price_per_second
           /\ Priced(config.prices)[i].price_per_second \in 1..MaxU64
<1> DEFINE prices == Priced(config.prices)
           A      == {prices[j].account : j \in DOMAIN prices}
<1>1. /\ B!ValidPrices(prices, A) /\ DOMAIN prices = DOMAIN config.prices
      /\ \A i \in DOMAIN prices : prices[i].price_per_second = config.prices[i].price_per_second
  BY PricedIsValid DEF Priced
<1>2. \A i \in DOMAIN config.prices : config.prices[i].price_per_second \in 1..MaxU64
  BY DEF IsPriceList
<1> HIDE DEF prices, A
<1>3. BP!ValidPrices(prices, A) /\ BP!Listed(prices, account)
  BY <1>1 DEF B!ValidPrices, BP!ValidPrices, BP!Listed, B!U64, BP!U64, prices
<1>4. PICK i \in DOMAIN prices :
        prices[i].account = account
        /\ BP!FindPrice(prices, account) = prices[i].price_per_second
  BY <1>3, SettingsAssumption, BP!FindPriceIsFirstEntry
<1>5. B!FindPrice(prices, account) = prices[i].price_per_second
  BY <1>4 DEF B!FindPrice, BP!FindPrice
<1> QED  BY <1>1, <1>2, <1>4, <1>5 DEF prices

(***************************************************************************)
(* Who pays each price of an account for a runtime within the advertised   *)
(* limits, the dearest of them that is, is granted that runtime at least   *)
(* and the maximum at most, and exactly that runtime where the prices of   *)
(* the account agree, for every price list and every runtime whose price   *)
(* fits the integers (src/payments.rs, authorize_payment).                 *)
(***************************************************************************)
THEOREM OfferHonoured == Spec => []OfferIsHonoured
<1>1. IInv => OfferIsHonoured
  <2> DEFINE prices    == Priced(config.prices)
             PricesFor == {prices[i].price_per_second :
                             i \in {j \in DOMAIN prices : prices[j].account = offer.account}}
  <2> SUFFICES ASSUME IInv, taken # None,
                      \A price \in PricesFor : price * offer.seconds <= offer.amount
               PROVE  /\ taken.timeout \in offer.seconds..config.max_duration
                      /\ (\A price \in PricesFor : price * offer.seconds = offer.amount) =>
                           taken.timeout = offer.seconds
    BY DEF OfferIsHonoured
  <2>1. /\ step = "received" /\ taken = Reading
        /\ config # None /\ config = FromLookup(env) /\ AreTexts(env)
    BY DEF IInv
  <2>2. PICK k \in DOMAIN config.prices,
             seconds \in config.min_duration..config.max_duration : Offered(k, seconds)
    BY <2>1 DEF IInv
  <2>3. /\ IsPriceList(config.prices)
        /\ config.min_duration \in 0..MaxU64 /\ config.max_duration \in 0..MaxU64
    BY <2>1, AcceptedSettings
  <2> DEFINE p == config.prices[k].price_per_second
             q == B!FindPrice(prices, offer.account)
  <2>4. prices[k].account = offer.account
    <3>1. offer.account = <<config.prices[k].mint_url, config.prices[k].unit>>
      BY <2>2 DEF Offered
    <3>2. prices[k].account = <<config.prices[k].mint_url, config.prices[k].unit>>
      BY <2>3, PricedIsValid
    <3> QED  BY <3>1, <3>2
  <2>5. q \in PricesFor /\ q \in 1..MaxU64
    BY <2>2, <2>3, <2>4, ChargedIsListed
  <2>6. p \in 1..MaxU64
    BY <2>2, <2>3 DEF IsPriceList
  <2>7. offer.amount = p * seconds /\ offer.seconds = seconds /\ p * seconds <= MaxU64
    BY <2>2 DEF Offered
  <2>8. q * seconds <= p * seconds
    BY <2>5, <2>7
  <2>9. (\A price \in PricesFor : price * offer.seconds = offer.amount) =>
          q * seconds = p * seconds
    BY <2>5, <2>7
  <2>10. taken.timeout = IF B!CoversMinimum(offer.amount, q, config.min_duration)
                         THEN B!Timeout(offer.amount, q, config.max_duration) ELSE None
    BY <2>1 DEF Reading
  <2> HIDE DEF prices, PricesFor, p, q
  <2>11. /\ seconds \in Nat /\ config.min_duration \in Nat /\ p \in Nat /\ q \in Nat \ {0}
         /\ MaxU64 \in Nat /\ config.max_duration \in Nat
         /\ config.min_duration <= seconds /\ seconds <= config.max_duration
    BY <2>2, <2>3, <2>5, <2>6, SettingsAssumption
  <2>12. p * seconds \in Nat /\ q * seconds \in Nat
    BY <2>11, ProductIsNatural
  <2>13. /\ config.min_duration * q \in Nat
         /\ config.min_duration * q <= seconds * q /\ seconds * q = q * seconds
    BY <2>11, BP!ProductMonotone, SettingsAssumption
  <2>14. B!CoversMinimum(offer.amount, q, config.min_duration)
    BY <2>7, <2>8, <2>11, <2>12, <2>13 DEF B!CoversMinimum
  <2> DEFINE prepaid == offer.amount \div q
  <2>15. taken.timeout = B!Smaller(prepaid, config.max_duration)
    BY <2>10, <2>14 DEF B!Timeout, B!PrepaidSeconds
  <2>16. prepaid \in Nat /\ seconds <= prepaid
    BY <2>7, <2>8, <2>11, <2>12, QuotientCovers
  <2>17. q * seconds = p * seconds => prepaid = seconds
    BY <2>7, <2>11, QuotientOfProduct
  <2> HIDE DEF prepaid
  <2>18. /\ B!Smaller(prepaid, config.max_duration) \in seconds..config.max_duration
         /\ prepaid = seconds => B!Smaller(prepaid, config.max_duration) = seconds
    BY <2>11, <2>16 DEF B!Smaller
  <2> QED  BY <2>7, <2>9, <2>15, <2>17, <2>18
<1> QED  BY <1>1, Inductive, PTL

\* A text of one atom that is no blank is not blank.
LEMMA AtomIsNotBlank ==
  ASSUME NEW atom, atom # Space
  PROVE  NotBlank(<<atom>>)
<1>1. <<atom>> \in Seq({atom}) /\ Trimmed(<<atom>>)
  BY DEF Trimmed
<1>2. Trim(<<atom>>) = <<atom>>
  BY <1>1, TrimmedStays
<1> QED  BY <1>2 DEF NotBlank

\* What the worker makes of an event that post_job has made.
LEMMA EventIsRead ==
  ASSUME NEW key, NEW paid, NEW event,
         event.tags = <<<<"p", key>>, <<"payment", paid>>>>
  PROVE  /\ \A pubkey : EventIsAddressedTo(event, pubkey) <=> pubkey = key
         /\ ExtractPaymentToken(event) = IF NotBlank(paid) THEN Trim(paid) ELSE None
         /\ SlotForEvent(Workers, event) \in {key, None}
<1> DEFINE tags == event.tags
<1>1. /\ DOMAIN tags = {1, 2} /\ tags[1] = <<"p", key>> /\ tags[2] = <<"payment", paid>>
      /\ Len(tags[1]) = 2 /\ Len(tags[2]) = 2
      /\ tags[1][1] = "p" /\ tags[2][1] = "payment" /\ tags[1][2] = key /\ tags[2][2] = paid
  OBVIOUS
<1> HIDE DEF tags
<1>2. \A pubkey : EventIsAddressedTo(event, pubkey) <=> pubkey = key
  BY <1>1 DEF EventIsAddressedTo, tags
<1> DEFINE payments == {i \in DOMAIN tags : Len(tags[i]) = 2 /\ tags[i][1] = "payment"}
<1>3. payments = {2}
  BY <1>1
<1>4. Cardinality(payments) = 1 /\ (CHOOSE i \in payments : TRUE) = 2
  BY <1>3, FS_Singleton
<1>5. ExtractPaymentToken(event) = IF NotBlank(paid) THEN Trim(paid) ELSE None
  <2> HIDE DEF payments
  <2> QED  BY <1>1, <1>4 DEF ExtractPaymentToken, NotBlank, tags, payments
<1> DEFINE mine == {i \in 1..Len(Workers) : EventIsAddressedTo(event, Workers[i])}
           slot == IF mine # {} THEN Min(mine) ELSE 0
<1>6. SlotForEvent(Workers, event) = IF slot = 0 THEN None ELSE Workers[slot]
  BY DEF SlotForEvent, SelectInSeq
<1>7. CASE mine = {}
  BY <1>2, <1>5, <1>6, <1>7
<1>8. CASE mine # {}
  <2>1. Len(Workers) \in Nat
    BY WorkersAssumption
  <2>2. Min(mine) \in mine
    BY <1>8, <2>1, Extremes
  <2>3. Workers[Min(mine)] = key
    BY <1>2, <2>2
  <2> QED  BY <1>2, <1>5, <1>6, <1>8, <2>2, <2>3
<1> QED  BY <1>7, <1>8

\* The job is read as it was written unless the worker does not take such jobs.
LEMMA PayloadIsRead ==
  ParseJobPayload(Payload(job_env)) =
    IF ValidateJob(Payload(job_env)) THEN Payload(job_env) ELSE None
<1> DEFINE payload == Payload(job_env)
           default == [event |-> <<"push">>, event_payload |-> None]
           job == [field \in DOMAIN payload \cup DOMAIN default |->
                     IF field \in DOMAIN payload THEN payload[field] ELSE default[field]]
<1>1. /\ DOMAIN payload = {"repo", "ref", "workflow", "job", "event", "event_payload"}
      /\ payload = [field \in DOMAIN payload |-> payload[field]]
  BY DEF Payload
<1> HIDE DEF payload
<1>2. DOMAIN payload \cup DOMAIN default = DOMAIN payload
  BY <1>1
<1>3. job = [field \in DOMAIN payload |-> payload[field]]
  BY <1>2
<1>4. job = payload
  BY <1>1, <1>3
<1>5. {"repo", "ref", "workflow", "job"} \subseteq DOMAIN payload
  BY <1>1
<1>6. ParseJobPayload(payload) =
        IF {"repo", "ref", "workflow", "job"} \subseteq DOMAIN payload /\ ValidateJob(job)
        THEN job ELSE None
  BY DEF ParseJobPayload
<1> HIDE DEF job
<1> QED  BY <1>4, <1>5, <1>6 DEF payload

\* What the requester calls sound is what the worker accepts.
LEMMA SoundIsValid ==
  Sound <=> ValidateJob(Payload(job_env)) /\ NotBlank(job_env.PAYMENT_TOKEN)
<1>1. NotBlank(<<"main">>) /\ NotBlank(<<"push">>)
  <2>1. "main" # Space /\ "push" # Space
    BY Zenon DEF Space
  <2> QED  BY <2>1, AtomIsNotBlank
<1> DEFINE payload == Payload(job_env)
<1>2. /\ payload.repo = job_env.JOB_REPO
      /\ payload.workflow = job_env.JOB_WORKFLOW /\ payload.job = job_env.JOB_NAME
      /\ payload.ref = OrElse(job_env.JOB_REF, <<"main">>)
      /\ payload.event = OrElse(job_env.JOB_EVENT, <<"push">>)
  BY DEF Payload
<1>3. NotBlank(payload.ref) <=> job_env.JOB_REF = None \/ NotBlank(job_env.JOB_REF)
  BY <1>1, <1>2 DEF OrElse
<1>4. NotBlank(payload.event) <=> job_env.JOB_EVENT = None \/ NotBlank(job_env.JOB_EVENT)
  BY <1>1, <1>2 DEF OrElse
<1> HIDE DEF payload
<1>5. ValidateJob(payload) <=> /\ IsSupportedCloneUrl(payload.repo)
                               /\ NotBlank(payload.ref) /\ NotBlank(payload.workflow)
                               /\ NotBlank(payload.job) /\ NotBlank(payload.event)
  BY DEF ValidateJob, NotBlank
<1> QED  BY <1>2, <1>3, <1>4, <1>5 DEF Sound, payload

(***************************************************************************)
(* Whatever the requester's environment, the slot the request names reads  *)
(* the very job and token it holds, and refuses it exactly if something in *)
(* it is blank or cannot be cloned (src/bin/post_job.rs, src/jobs.rs,      *)
(* src/loom.rs).                                                           *)
(***************************************************************************)
THEOREM RequestIsUnderstood == Spec => []TakenAsMeant
<1>1. IInv => TakenAsMeant
  <2> SUFFICES ASSUME IInv, taken # None
               PROVE  /\ taken.worker = Target(job_env).pubkey
                      /\ Sound  => /\ taken.job = Payload(job_env)
                                   /\ taken.token = Trim(job_env.PAYMENT_TOKEN)
                      /\ ~Sound => None \in {taken.job, taken.token}
    BY DEF TakenAsMeant
  <2> DEFINE key   == Target(job_env).pubkey
             event == posted.event
             price == B!FindPrice(Priced(config.prices), offer.account)
  <2>1. step = "received" /\ taken = Reading /\ posted # None /\ posted = PostJob(job_env)
    BY DEF IInv
  <2>2. event = [kind    |-> JobKind,
                 pubkey  |-> job_env.REQUESTER_NSEC,
                 tags    |-> <<<<"p", key>>, <<"payment", job_env.PAYMENT_TOKEN>>>>,
                 content |-> [sealed_for |-> key, payload |-> Payload(job_env)]]
    BY <2>1 DEF PostJob
  <2> HIDE DEF key, event, price
  <2>3. /\ event.kind = JobKind /\ event.content.sealed_for = key
        /\ event.content.payload = Payload(job_env)
        /\ event.tags = <<<<"p", key>>, <<"payment", job_env.PAYMENT_TOKEN>>>>
    BY <2>2
  <2>4. /\ EventIsAddressedTo(event, key)
        /\ ExtractPaymentToken(event) = IF NotBlank(job_env.PAYMENT_TOKEN)
                                        THEN Trim(job_env.PAYMENT_TOKEN) ELSE None
        /\ SlotForEvent(Workers, event) \in {key, None}
    BY <2>3, EventIsRead
  <2>5. SlotForEvent(Workers, event) = key /\ key # None
    BY <2>1, <2>4 DEF Reading, event
  <2>6. /\ taken.worker = key
        /\ taken.job = DecodeJobEvent(key, event)
        /\ taken.token = ExtractPaymentToken(event)
    BY <2>1, <2>5 DEF Reading, event
  <2>7. DecodeJobEvent(key, event) =
          IF ValidateJob(Payload(job_env)) THEN Payload(job_env) ELSE None
    BY <2>3, <2>4, PayloadIsRead DEF DecodeJobEvent
  <2> QED  BY <2>4, <2>6, <2>7, SoundIsValid DEF key
<1> QED  BY <1>1, Inductive, PTL
=============================================================================
