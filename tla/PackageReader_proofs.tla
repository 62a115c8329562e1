------------------------ MODULE PackageReader_proofs ------------------------
(***************************************************************************)
(* What the package's encoding and the reader's functions compute, for     *)
(* every input.  The provers cannot instantiate an induction theorem, so   *)
(* an induction is an argument about the least element of a set of         *)
(* counterexamples (Smallest), and a recursive function is first shown to  *)
(* exist.                                                                  *)
(***************************************************************************)
EXTENDS PackageReader, SequenceTheorems, FiniteSetTheorems, WellFoundedInduction, TLAPS

LEMMA Smallest ==
    ASSUME NEW T, T \subseteq Nat, T # {}
    PROVE  \E m \in T : \A k \in T : m <= k
  <1>1. PICK m \in T : \A k \in T : ~ (<<k, m>> \in OpToRel(<, Nat))
    BY WFMin, NatLessThanWellFounded
  <1>2. \A k \in T : ~(k < m)
    BY <1>1 DEF OpToRel
  <1> QED  BY <1>2

-----------------------------------------------------------------------------
(***************************************************************************)
(* A sequence of sequences laid end to end.                                *)
(***************************************************************************)

\* f[i] is what the first i sequences make.
IsFlat(f, seqs, m) ==
    f = [i \in 1..m |-> IF i = 1 THEN seqs[i] ELSE f[i - 1] \o seqs[i]]

LEMMA FlatExists ==
    ASSUME NEW seqs, NEW m \in Nat PROVE \E f : IsFlat(f, seqs, m)
  <1> DEFINE Bad == {k \in Nat : ~ \E f : IsFlat(f, seqs, k)}
  <1> SUFFICES ASSUME Bad # {} PROVE FALSE  OBVIOUS
  <1>1. PICK k \in Bad : \A j \in Bad : k <= j
    <2>1. Bad \subseteq Nat  OBVIOUS
    <2> HIDE DEF Bad
    <2> QED  BY <2>1, Smallest
  <1>2. CASE k = 0
    <2> DEFINE g == [n \in {} |-> 0]
    <2>1. IsFlat(g, seqs, k)
      BY <1>2 DEF IsFlat
    <2> QED  BY <1>1, <2>1
  <1>3. CASE k > 0
    <2>1. k - 1 \in Nat /\ k - 1 \notin Bad
      BY <1>1, <1>3
    <2>2. PICK f : IsFlat(f, seqs, k - 1)
      BY <2>1
    <2> DEFINE g == [n \in 1..k |-> IF n = 1 THEN seqs[1]
                                    ELSE IF n = k THEN f[k - 1] \o seqs[k] ELSE f[n]]
    <2>3. ASSUME NEW n \in 1..k
          PROVE  g[n] = IF n = 1 THEN seqs[n] ELSE g[n - 1] \o seqs[n]
      <3>1. ASSUME NEW i \in 1..(k - 1)
            PROVE  f[i] = g[i] /\ f[i] = IF i = 1 THEN seqs[i] ELSE f[i - 1] \o seqs[i]
        <4>1. f[i] = IF i = 1 THEN seqs[i] ELSE f[i - 1] \o seqs[i]
          BY <2>2 DEF IsFlat
        <4>2. i \in 1..k /\ i # k
          BY <1>3
        <4>3. g[i] = IF i = 1 THEN seqs[1] ELSE f[i]
          BY <4>2
        <4> QED  BY <4>1, <4>3
      <3>2. CASE n = 1  BY <3>2
      <3>3. CASE n # 1 /\ n # k
        <4>1. n \in 1..(k - 1) /\ n - 1 \in 1..(k - 1)  BY <3>3
        <4> HIDE DEF g
        <4> QED  BY <3>1, <3>3, <4>1
      <3>4. CASE n # 1 /\ n = k
        <4>1. n - 1 \in 1..(k - 1) /\ k \in 1..k /\ k # 1  BY <3>4, <1>3
        <4>2. g[k] = f[k - 1] \o seqs[k]  BY <4>1
        <4> HIDE DEF g
        <4> QED  BY <3>1, <3>4, <4>1, <4>2
      <3> QED  BY <3>2, <3>3, <3>4
    <2>4. IsFlat(g, seqs, k)
      BY <2>3, Zenon DEF IsFlat
    <2> QED  BY <1>1, <2>4
  <1> QED  BY <1>1, <1>2, <1>3

LEMMA FlattenIs ==
    ASSUME NEW seqs, Len(seqs) \in Nat \ {0}
    PROVE  \E f : IsFlat(f, seqs, Len(seqs)) /\ FlattenSeq(seqs) = f[Len(seqs)]
  <1> DEFINE F == CHOOSE f : f = [i \in 1..Len(seqs) |->
                                    IF i = 1 THEN seqs[i] ELSE f[i - 1] \o seqs[i]]
  <1>1. F = [i \in 1..Len(seqs) |-> IF i = 1 THEN seqs[i] ELSE F[i - 1] \o seqs[i]]
    <2>1. \E f : IsFlat(f, seqs, Len(seqs))
      BY FlatExists
    <2> QED  BY <2>1, Zenon DEF IsFlat
  <1>2. FlattenSeq(seqs) = F[Len(seqs)]
    BY DEF FlattenSeq
  <1> HIDE DEF F
  <1> QED  BY <1>1, <1>2 DEF IsFlat

\* What the first k sequences make depends on nothing else.
LEMMA FlatAgree ==
    ASSUME NEW s, NEW t, NEW f, NEW g, NEW m \in Nat, NEW n \in Nat, m <= n,
           IsFlat(f, s, n), IsFlat(g, t, m), \A i \in 1..m : s[i] = t[i]
    PROVE  \A i \in 1..m : f[i] = g[i]
  <1> DEFINE Bad == {i \in 1..m : f[i] # g[i]}
  <1> SUFFICES ASSUME Bad # {} PROVE FALSE  OBVIOUS
  <1>1. PICK k \in Bad : \A j \in Bad : k <= j
    <2>1. Bad \subseteq Nat  OBVIOUS
    <2> HIDE DEF Bad
    <2> QED  BY <2>1, Smallest
  <1>2. k \in 1..m /\ k \in 1..n  OBVIOUS
  <1>3. /\ f[k] = IF k = 1 THEN s[k] ELSE f[k - 1] \o s[k]
        /\ g[k] = IF k = 1 THEN t[k] ELSE g[k - 1] \o t[k]
    BY <1>2 DEF IsFlat
  <1>4. CASE k = 1  BY <1>2, <1>3, <1>4
  <1>5. CASE k # 1
    <2>1. k - 1 \in 1..m /\ k - 1 \notin Bad  BY <1>1, <1>2, <1>5
    <2> QED  BY <1>2, <1>3, <1>5, <2>1
  <1> QED  BY <1>4, <1>5

\* What the first i sequences make.
Upto(seqs, i) == FlattenSeq(SubSeq(seqs, 1, i))

LEMMA SubSeqOfSeqs ==
    ASSUME NEW S, NEW seqs \in Seq(S), NEW i \in 0..Len(seqs)
    PROVE  /\ SubSeq(seqs, 1, i) \in Seq(S) /\ Len(SubSeq(seqs, 1, i)) = i
           /\ \A k \in 1..i : SubSeq(seqs, 1, i)[k] = seqs[k]
  <1>1. Len(seqs) \in Nat /\ \A k \in 1..i : seqs[k] \in S
    BY LenProperties, ElementOfSeq
  <1> QED  BY <1>1, SubSeqProperties

LEMMA UptoNone == ASSUME NEW seqs PROVE Upto(seqs, 0) = <<>>
  <1>1. SubSeq(seqs, 1, 0) = <<>>
    BY SubSeqEmpty
  <1> QED  BY <1>1 DEF Upto, FlattenSeq

LEMMA UptoAll ==
    ASSUME NEW S, NEW seqs \in Seq(S) PROVE Upto(seqs, Len(seqs)) = FlattenSeq(seqs)
  BY SubSeqFull DEF Upto

LEMMA UptoNext ==
    ASSUME NEW S, NEW seqs \in Seq(Seq(S)), NEW i \in 1..Len(seqs)
    PROVE  Upto(seqs, i) = Upto(seqs, i - 1) \o seqs[i]
  <1> DEFINE s == SubSeq(seqs, 1, i)
             t == SubSeq(seqs, 1, i - 1)
  <1>0. /\ Len(seqs) \in Nat /\ seqs[i] \in Seq(S) /\ i \in Nat \ {0} /\ i \in 1..i
        /\ i \in 0..Len(seqs) /\ i - 1 \in 0..Len(seqs)
    BY LenProperties, ElementOfSeq
  <1>1. Len(s) = i /\ \A k \in 1..i : s[k] = seqs[k]
    BY <1>0, SubSeqOfSeqs
  <1>2. Len(t) = i - 1 /\ \A k \in 1..(i - 1) : t[k] = seqs[k]
    BY <1>0, SubSeqOfSeqs
  <1>a. Upto(seqs, i) = FlattenSeq(s) /\ Upto(seqs, i - 1) = FlattenSeq(t)
    BY DEF Upto
  <1> HIDE DEF s, t
  <1>3. PICK f : IsFlat(f, s, i) /\ FlattenSeq(s) = f[i]
    BY <1>0, <1>1, FlattenIs
  <1>b. s[i] = seqs[i]
    BY <1>0, <1>1
  <1>4. f[i] = IF i = 1 THEN seqs[i] ELSE f[i - 1] \o seqs[i]
    <2>1. f = [k \in 1..i |-> IF k = 1 THEN s[k] ELSE f[k - 1] \o s[k]]
      BY <1>3, Zenon DEF IsFlat
    <2>2. f[i] = IF i = 1 THEN s[i] ELSE f[i - 1] \o s[i]
      BY <1>0, <2>1
    <2> QED  BY <1>b, <2>2
  <1>5. CASE i = 1
    <2>1. Upto(seqs, i - 1) = <<>>
      <3>1. i - 1 = 0  BY <1>5
      <3> QED  BY <3>1, UptoNone
    <2>2. Upto(seqs, i) = seqs[i]
      BY <1>3, <1>4, <1>5, <1>a
    <2> QED  BY <1>0, <2>1, <2>2, ConcatEmptySeq
  <1>6. CASE i # 1
    <2>2. i - 1 \in Nat \ {0} /\ i - 1 \in Nat /\ i \in Nat /\ i - 1 <= i /\ i - 1 \in 1..(i - 1)
      BY <1>0, <1>6
    <2>1. PICK g : IsFlat(g, t, i - 1) /\ FlattenSeq(t) = g[i - 1]
      <3>1. Len(t) \in Nat \ {0}  BY <1>2, <2>2
      <3>2. \E g : IsFlat(g, t, Len(t)) /\ FlattenSeq(t) = g[Len(t)]
        BY <3>1, FlattenIs
      <3> QED  BY <1>2, <3>2
    <2>3. ASSUME NEW k \in 1..(i - 1) PROVE s[k] = t[k]
      <3>1. k \in 1..i  BY <1>0
      <3> QED  BY <1>1, <1>2, <3>1
    <2>4. f[i - 1] = g[i - 1]
      <3> DEFINE m == i - 1
      <3>1. m \in Nat /\ m <= i /\ IsFlat(g, t, m) /\ m \in 1..m  BY <2>1, <2>2
      <3>2. \A k \in 1..m : s[k] = t[k]  BY <2>3
      <3> HIDE DEF m
      <3>3. \A k \in 1..m : f[k] = g[k]
        <4>1. i \in Nat /\ IsFlat(f, s, i)  BY <1>0, <1>3
        <4> QED  BY <4>1, <3>1, <3>2, FlatAgree, SMTT(30)
      <3>4. f[m] = g[m]  BY <3>1, <3>3
      <3> QED  BY <3>4 DEF m
    <2> QED  BY <1>3, <1>4, <1>6, <1>a, <2>1, <2>4
  <1> QED  BY <1>5, <1>6

LEMMA UptoTyped ==
    ASSUME NEW S, NEW seqs \in Seq(Seq(S)), NEW i \in 0..Len(seqs)
    PROVE  Upto(seqs, i) \in Seq(S)
  <1> DEFINE Bad == {k \in 0..Len(seqs) : Upto(seqs, k) \notin Seq(S)}
  <1> SUFFICES ASSUME Bad # {} PROVE FALSE  OBVIOUS
  <1>0. Len(seqs) \in Nat  BY LenProperties
  <1>1. PICK k \in Bad : \A j \in Bad : k <= j
    <2>1. Bad \subseteq Nat  BY <1>0
    <2> HIDE DEF Bad
    <2> QED  BY <2>1, Smallest
  <1>2. CASE k = 0
    BY <1>2, UptoNone, EmptySeq
  <1>3. CASE k # 0
    <2>1. k \in 1..Len(seqs) /\ k - 1 \in 0..Len(seqs) /\ k - 1 \notin Bad
      BY <1>0, <1>1, <1>3
    <2>2. Upto(seqs, k - 1) \in Seq(S) /\ seqs[k] \in Seq(S)
      BY <2>1, ElementOfSeq
    <2>3. Upto(seqs, k) = Upto(seqs, k - 1) \o seqs[k]  BY <2>1, UptoNext
    <2>4. Upto(seqs, k - 1) \o seqs[k] \in Seq(S)  BY <2>2, ConcatProperties
    <2> QED  BY <2>3, <2>4
  <1> QED  BY <1>2, <1>3

\* The first i sequences are the beginning of what all of them make.
LEMMA UptoIsPrefix ==
    ASSUME NEW S, NEW seqs \in Seq(Seq(S)), NEW i \in 0..Len(seqs), NEW j \in i..Len(seqs)
    PROVE  /\ Len(Upto(seqs, i)) <= Len(Upto(seqs, j))
           /\ \A x \in 1..Len(Upto(seqs, i)) : Upto(seqs, j)[x] = Upto(seqs, i)[x]
  <1> DEFINE Good(k) == /\ Len(Upto(seqs, i)) <= Len(Upto(seqs, k))
                        /\ \A x \in 1..Len(Upto(seqs, i)) : Upto(seqs, k)[x] = Upto(seqs, i)[x]
             Bad == {k \in i..Len(seqs) : ~Good(k)}
  <1> SUFFICES ASSUME Bad # {} PROVE FALSE  OBVIOUS
  <1>0. Len(seqs) \in Nat  BY LenProperties
  <1>1. PICK k \in Bad : \A h \in Bad : k <= h
    <2>1. Bad \subseteq Nat  BY <1>0
    <2> HIDE DEF Bad
    <2> QED  BY <2>1, Smallest
  <1>2. k # i
    <2>1. Len(Upto(seqs, i)) \in Nat  BY UptoTyped, LenProperties
    <2> QED  BY <2>1
  <1>3. k \in 1..Len(seqs) /\ k - 1 \in 0..Len(seqs) /\ k - 1 \in i..Len(seqs)
    BY <1>0, <1>2
  <1>4. Good(k - 1)
    BY <1>1, <1>3
  <1> DEFINE u == Upto(seqs, i)
             s == Upto(seqs, k - 1)
             t == seqs[k]
  <1>5. u \in Seq(S) /\ s \in Seq(S) /\ t \in Seq(S) /\ Upto(seqs, k) = s \o t
    <2>1. u \in Seq(S) /\ s \in Seq(S)  BY <1>3, UptoTyped
    <2>2. t \in Seq(S)  BY <1>3, ElementOfSeq
    <2>3. Upto(seqs, k) = s \o t  BY <1>3, UptoNext
    <2> QED  BY <2>1, <2>2, <2>3
  <1>6. /\ Len(s \o t) = Len(s) + Len(t) /\ Len(s) \in Nat /\ Len(t) \in Nat /\ Len(u) \in Nat
        /\ \A x \in 1..Len(s) : (s \o t)[x] = s[x]
    BY <1>5, ConcatProperties, LenProperties
  <1>7. Len(u) <= Len(s) /\ \A x \in 1..Len(u) : s[x] = u[x]
    BY <1>4
  <1> HIDE DEF u, s, t
  <1>8. Len(u) <= Len(s \o t) /\ \A x \in 1..Len(u) : (s \o t)[x] = u[x]
    BY <1>6, <1>7
  <1> QED  BY <1>5, <1>8 DEF u

\* Laid end to end, each sequence is found again where those before it end.
LEMMA SlicesAt ==
    ASSUME NEW S, NEW seqs \in Seq(Seq(S)), NEW i \in 1..Len(seqs)
    PROVE  LET flat == FlattenSeq(seqs)
               offset == Len(Upto(seqs, i - 1))
           IN  /\ flat \in Seq(S) /\ offset \in Nat /\ Len(seqs[i]) \in Nat /\ Len(flat) \in Nat
               /\ offset + Len(seqs[i]) <= Len(flat)
               /\ \A x \in 1..Len(seqs[i]) : flat[offset + x] = seqs[i][x]
  <1> DEFINE flat == FlattenSeq(seqs)
             s == Upto(seqs, i - 1)
             t == seqs[i]
  <1>0. Len(seqs) \in Nat /\ i \in 0..Len(seqs) /\ i - 1 \in 0..Len(seqs)
        /\ Len(seqs) \in i..Len(seqs) /\ Len(seqs) \in 0..Len(seqs)
    BY LenProperties
  <1>1. flat = Upto(seqs, Len(seqs)) /\ flat \in Seq(S)
    BY <1>0, UptoAll, UptoTyped
  <1>2. s \in Seq(S) /\ t \in Seq(S) /\ Upto(seqs, i) = s \o t
    <2>1. s \in Seq(S)  BY <1>0, UptoTyped
    <2>2. t \in Seq(S)  BY ElementOfSeq
    <2>3. Upto(seqs, i) = s \o t  BY UptoNext
    <2> QED  BY <2>1, <2>2, <2>3
  <1>3. Len(s) \in Nat /\ Len(t) \in Nat /\ Len(flat) \in Nat /\ Len(s \o t) = Len(s) + Len(t)
        /\ \A x \in 1..Len(t) : (s \o t)[Len(s) + x] = t[x]
    BY <1>1, <1>2, ConcatProperties, LenProperties
  <1>4. Len(s \o t) <= Len(flat) /\ \A x \in 1..Len(s \o t) : flat[x] = (s \o t)[x]
    <2>1. /\ Len(Upto(seqs, i)) <= Len(Upto(seqs, Len(seqs)))
          /\ \A x \in 1..Len(Upto(seqs, i)) : Upto(seqs, Len(seqs))[x] = Upto(seqs, i)[x]
      BY <1>0, UptoIsPrefix
    <2> HIDE DEF flat, s, t
    <2> QED  BY <1>1, <1>2, <2>1
  <1> HIDE DEF flat, s, t
  <1>5. ASSUME NEW x \in 1..Len(t) PROVE flat[Len(s) + x] = t[x]
    <2>1. Len(s) + x \in 1..Len(s \o t)  BY <1>3
    <2> QED  BY <1>3, <1>4, <2>1
  <1> QED  BY <1>1, <1>3, <1>4, <1>5 DEF flat, s, t

\* What is read between two places of a sequence.
LEMMA PartIs ==
    ASSUME NEW S, NEW flat \in Seq(S), NEW part \in Seq(S), NEW offset \in Nat,
           offset + Len(part) <= Len(flat), \A x \in 1..Len(part) : flat[offset + x] = part[x]
    PROVE  SubSeq(flat, offset + 1, offset + Len(part)) = part
  <1> DEFINE got == SubSeq(flat, offset + 1, offset + Len(part))
  <1>1. PICK m \in Nat : m = Len(part)
    BY LenProperties
  <1>2. Len(flat) \in Nat /\ \A x \in (offset + 1)..(offset + m) : flat[x] \in S
    BY <1>1, LenProperties, ElementOfSeq
  <1>3. /\ got \in Seq(S)
        /\ Len(got) = IF offset + 1 <= offset + m THEN offset + m - (offset + 1) + 1 ELSE 0
        /\ \A x \in 1..(offset + m - (offset + 1) + 1) : got[x] = flat[offset + 1 + x - 1]
    <2>1. offset + 1 \in Int /\ offset + m \in Int
      BY <1>1
    <2> QED  BY <1>1, <1>2, <2>1, SubSeqProperties
  <1> HIDE DEF got
  <1>4. Len(got) = m
    BY <1>3
  <1>5. ASSUME NEW x \in 1..m PROVE got[x] = part[x]
    <2>1. x \in 1..(offset + m - (offset + 1) + 1) /\ offset + 1 + x - 1 = offset + x
      OBVIOUS
    <2> QED  BY <1>1, <1>3, <2>1
  <1>6. got = part
    BY <1>1, <1>3, <1>4, <1>5, SeqEqual
  <1> QED  BY <1>6 DEF got

LEMMA Slices ==
    ASSUME NEW S, NEW seqs \in Seq(Seq(S)), NEW i \in 1..Len(seqs)
    PROVE  LET flat == FlattenSeq(seqs)
               offset == Len(Upto(seqs, i - 1))
           IN  /\ offset + Len(seqs[i]) <= Len(flat)
               /\ SubSeq(flat, offset + 1, offset + Len(seqs[i])) = seqs[i]
  <1> DEFINE flat == FlattenSeq(seqs)
             offset == Len(Upto(seqs, i - 1))
  <1>1. /\ flat \in Seq(S) /\ offset \in Nat /\ offset + Len(seqs[i]) <= Len(flat)
        /\ \A x \in 1..Len(seqs[i]) : flat[offset + x] = seqs[i][x]
    BY SlicesAt
  <1>2. seqs[i] \in Seq(S)
    BY ElementOfSeq
  <1> HIDE DEF flat, offset
  <1>3. SubSeq(flat, offset + 1, offset + Len(seqs[i])) = seqs[i]
    BY <1>1, <1>2, PartIs
  <1> QED  BY <1>1, <1>3 DEF flat, offset

-----------------------------------------------------------------------------
(***************************************************************************)
(* The detail tile file.                                                   *)
(***************************************************************************)

LEMMA CodeIs ==
    ASSUME NEW kind \in Kinds
    PROVE  Code(kind) \in DOMAIN KindNames /\ KindNames[Code(kind)] = kind /\ Code(kind) \in Int
  <1>1. \E c \in DOMAIN KindNames : KindNames[c] = kind
    BY Zenon DEF Kinds, Range
  <1>2. Code(kind) \in DOMAIN KindNames /\ KindNames[Code(kind)] = kind
    BY <1>1, Zenon DEF Code
  <1>3. DOMAIN KindNames = 1..13
    BY DEF KindNames
  <1> QED  BY <1>2, <1>3

\* The words of one record.
RecordCode(r) == r.box \o <<r.layer, Code(r.kind), 0, r.source>>

LEMMA RecordCodeIs ==
    ASSUME NEW r \in Records
    PROVE  /\ RecordCode(r) \in Seq(Int) /\ Len(RecordCode(r)) = 8
           /\ \A x \in 1..4 : RecordCode(r)[x] = r.box[x]
           /\ RecordCode(r)[5] = r.layer /\ RecordCode(r)[6] = Code(r.kind)
           /\ RecordCode(r)[8] = r.source
  <1> DEFINE rest == <<r.layer, Code(r.kind), 0, r.source>>
  <1>1. r.box \in Seq(Int) /\ Len(r.box) = 4 /\ r.layer \in Int /\ r.kind \in Kinds /\ r.source \in Int
    BY DEF Records, RecordBoxes
  <1>2. Code(r.kind) \in Int
    BY <1>1, CodeIs
  <1>3. rest \in Seq(Int) /\ Len(rest) = 4 /\ rest[1] = r.layer /\ rest[2] = Code(r.kind) /\ rest[4] = r.source
    BY <1>1, <1>2
  <1> HIDE DEF rest
  <1>4. /\ r.box \o rest \in Seq(Int) /\ Len(r.box \o rest) = 8
        /\ \A x \in 1..8 : (r.box \o rest)[x] = IF x <= 4 THEN r.box[x] ELSE rest[x - 4]
    <2>1. /\ r.box \o rest \in Seq(Int) /\ Len(r.box \o rest) = Len(r.box) + Len(rest)
          /\ \A x \in 1..Len(r.box) + Len(rest) :
               (r.box \o rest)[x] = IF x <= Len(r.box) THEN r.box[x] ELSE rest[x - Len(r.box)]
      BY <1>1, <1>3, ConcatProperties
    <2>2. Len(r.box) = 4 /\ Len(r.box) + Len(rest) = 8
      BY <1>1, <1>3
    <2> QED  BY <2>1, <2>2
  <1> DEFINE code == r.box \o rest
  <1>5. RecordCode(r) = code
    BY DEF RecordCode, rest
  <1> HIDE DEF code
  <1>6. code[5] = rest[1] /\ code[6] = rest[2] /\ code[8] = rest[4] /\ \A x \in 1..4 : code[x] = r.box[x]
    <2>1. \A x \in 1..8 : code[x] = IF x <= 4 THEN r.box[x] ELSE rest[x - 4]
      BY <1>4 DEF code
    <2>2. code[5] = rest[5 - 4]  BY <2>1
    <2>3. code[6] = rest[6 - 4]  BY <2>1
    <2>4. code[8] = rest[8 - 4]  BY <2>1
    <2>5. \A x \in 1..4 : code[x] = r.box[x]  BY <2>1
    <2> QED  BY <2>2, <2>3, <2>4, <2>5
  <1>7. code \in Seq(Int) /\ Len(code) = 8
    BY <1>4 DEF code
  <1> QED  BY <1>3, <1>5, <1>6, <1>7

\* Records of one length: the one after i others begins at that many times its length.
LEMMA EqualSteps ==
    ASSUME NEW S, NEW seqs \in Seq(Seq(S)), NEW n \in Nat, \A k \in 1..Len(seqs) : Len(seqs[k]) = n,
           NEW i \in 0..Len(seqs)
    PROVE  Len(Upto(seqs, i)) = n * i
  <1> DEFINE Bad == {k \in 0..Len(seqs) : Len(Upto(seqs, k)) # n * k}
  <1> SUFFICES ASSUME Bad # {} PROVE FALSE  OBVIOUS
  <1>0. Len(seqs) \in Nat  BY LenProperties
  <1>1. PICK k \in Bad : \A j \in Bad : k <= j
    <2>1. Bad \subseteq Nat  BY <1>0
    <2> HIDE DEF Bad
    <2> QED  BY <2>1, Smallest
  <1>2. CASE k = 0
    <2>1. Len(Upto(seqs, 0)) = 0  BY UptoNone, EmptySeq
    <2> QED  BY <1>1, <1>2, <2>1
  <1>3. CASE k # 0
    <2>1. k \in 1..Len(seqs) /\ k - 1 \in 0..Len(seqs) /\ k - 1 \notin Bad
      BY <1>0, <1>1, <1>3
    <2>2. Upto(seqs, k - 1) \in Seq(S) /\ seqs[k] \in Seq(S)
      BY <2>1, UptoTyped, ElementOfSeq
    <2>3. Upto(seqs, k) = Upto(seqs, k - 1) \o seqs[k]  BY <2>1, UptoNext
    <2>4. Len(Upto(seqs, k)) = Len(Upto(seqs, k - 1)) + Len(seqs[k])
      BY <2>2, <2>3, ConcatProperties
    <2>5. Len(Upto(seqs, k)) = n * (k - 1) + n
      BY <2>1, <2>4
    <2>6. n * (k - 1) + n = n * k
      BY <2>1
    <2> QED  BY <1>1, <2>5, <2>6
  <1> QED  BY <1>2, <1>3

\* The words of a tile: five of the header, then eight of each record.
LEMMA EncodeTileIs ==
    ASSUME NEW rects \in Seq(Records)
    PROVE  LET w == EncodeTile(rects)
               at(i) == 5 + 8 * (i - 1)
           IN  /\ w \in Seq(Int) /\ Len(w) = 5 + 8 * Len(rects)
               /\ w[1] = DetailMagic /\ w[2] = Version /\ w[4] = Len(rects)
               /\ \A i \in 1..Len(rects) : \A x \in 1..8 : w[at(i) + x] = RecordCode(rects[i])[x]
  <1> DEFINE coded == [i \in DOMAIN rects |-> RecordCode(rects[i])]
             head == <<DetailMagic, Version, 0, Len(rects), 0>>
             flat == FlattenSeq(coded)
             w == EncodeTile(rects)
             n == Len(rects)
  <1>1. n \in Nat /\ DOMAIN rects = 1..n /\ \A i \in 1..n : rects[i] \in Records
    BY LenProperties, ElementOfSeq
  <1>2. w = head \o flat
    BY DEF EncodeTile, RecordCode
  <1>3. /\ coded \in Seq(Seq(Int)) /\ Len(coded) = n
        /\ \A i \in 1..n : coded[i] = RecordCode(rects[i]) /\ Len(coded[i]) = 8
    <2>1. \A i \in 1..n : RecordCode(rects[i]) \in Seq(Int) /\ Len(RecordCode(rects[i])) = 8
      BY <1>1, RecordCodeIs
    <2>2. coded \in [1..n -> Seq(Int)]
      BY <1>1, <2>1
    <2>3. coded \in Seq(Seq(Int)) /\ Len(coded) = n
      BY <1>1, <2>2, SeqDef
    <2> QED  BY <1>1, <2>1, <2>3
  <1>4. head \in Seq(Int) /\ Len(head) = 5 /\ head[1] = DetailMagic /\ head[2] = Version /\ head[4] = n
    BY <1>1 DEF DetailMagic, Version
  <1> HIDE DEF coded, head, flat, w, n
  <1>5. flat \in Seq(Int) /\ Len(flat) = 8 * n
    <2>1. Len(Upto(coded, n)) = 8 * n
      <3>1. n \in 0..Len(coded) /\ 8 \in Nat /\ \A k \in 1..Len(coded) : Len(coded[k]) = 8
        BY <1>1, <1>3
      <3> QED  BY <1>3, <3>1, EqualSteps
    <2>2. Upto(coded, n) = flat
      BY <1>3, UptoAll DEF flat
    <2>3. Upto(coded, n) \in Seq(Int)
      BY <1>1, <1>3, UptoTyped
    <2> QED  BY <2>1, <2>2, <2>3
  <1>6. ASSUME NEW i \in 1..n, NEW x \in 1..8
        PROVE  8 * (i - 1) + x \in 1..(8 * n) /\ flat[8 * (i - 1) + x] = RecordCode(rects[i])[x]
    <2>1. i - 1 \in 0..Len(coded) /\ i \in 1..Len(coded)
      BY <1>1, <1>3
    <2>2. Len(Upto(coded, i - 1)) = 8 * (i - 1)
      BY <1>3, <2>1, EqualSteps
    <2>3. \A y \in 1..Len(coded[i]) : flat[Len(Upto(coded, i - 1)) + y] = coded[i][y]
      <3>1. coded \in Seq(Seq(Int))  BY <1>3
      <3>2. \A y \in 1..Len(coded[i]) : FlattenSeq(coded)[Len(Upto(coded, i - 1)) + y] = coded[i][y]
        BY <2>1, <3>1, SlicesAt
      <3> QED  BY <3>2 DEF flat
    <2>4. 8 * (i - 1) + x \in 1..(8 * n)
      BY <1>1
    <2> QED  BY <1>3, <2>2, <2>3, <2>4
  <1>7. /\ head \o flat \in Seq(Int) /\ Len(head \o flat) = 5 + 8 * n
        /\ \A y \in 1..(5 + 8 * n) : (head \o flat)[y] = IF y <= 5 THEN head[y] ELSE flat[y - 5]
    <2>1. /\ head \o flat \in Seq(Int) /\ Len(head \o flat) = Len(head) + Len(flat)
          /\ \A y \in 1..Len(head) + Len(flat) :
               (head \o flat)[y] = IF y <= Len(head) THEN head[y] ELSE flat[y - Len(head)]
      BY <1>4, <1>5, ConcatProperties
    <2> QED  BY <1>4, <1>5, <2>1
  <1>8. w[1] = DetailMagic /\ w[2] = Version /\ w[4] = n
    <2>1. \A y \in 1..5 : w[y] = head[y]
      BY <1>1, <1>2, <1>7
    <2> QED  BY <1>4, <2>1
  <1>9. ASSUME NEW i \in 1..n, NEW x \in 1..8
        PROVE  w[5 + 8 * (i - 1) + x] = RecordCode(rects[i])[x]
    <2> DEFINE y == 5 + 8 * (i - 1) + x
    <2>1. 8 * (i - 1) + x \in 1..(8 * n) /\ flat[8 * (i - 1) + x] = RecordCode(rects[i])[x]
      BY <1>6
    <2>2. y \in 1..(5 + 8 * n) /\ ~(y <= 5) /\ y - 5 = 8 * (i - 1) + x
      BY <1>1, <2>1
    <2> HIDE DEF y
    <2>3. w[y] = flat[y - 5]
      BY <1>2, <1>7, <2>2
    <2> QED  BY <2>1, <2>2, <2>3 DEF y
  <1> QED  BY <1>2, <1>7, <1>8, <1>9 DEF w, n

\* What the reader decodes of a tile is what the packer encoded, for any number of
\* records of any boxes, layers, kinds and sources.
THEOREM TileRoundTrip ==
    ASSUME NEW rects \in Seq(Records)
    PROVE  DecodeTile(EncodeTile(rects)) = [ok |-> TRUE, rects |-> rects]
  <1> DEFINE w == EncodeTile(rects)
             n == Len(rects)
             at(i) == 5 + 8 * (i - 1)
             got == [i \in 1..n |-> Record(SubSeq(w, at(i) + 1, at(i) + 4), w[at(i) + 5],
                                           KindNames[w[at(i) + 6]], w[at(i) + 8])]
  <1>1. /\ w \in Seq(Int) /\ Len(w) = 5 + 8 * n
        /\ w[1] = DetailMagic /\ w[2] = Version /\ w[4] = n
        /\ \A i \in 1..n : \A x \in 1..8 : w[at(i) + x] = RecordCode(rects[i])[x]
    BY EncodeTileIs
  <1>2. n \in Nat /\ DOMAIN rects = 1..n /\ rects \in [1..n -> Records]
    BY LenProperties
  <1> HIDE DEF w
  <1>3. ASSUME NEW i \in 1..n
        PROVE  KnownCode(w[at(i) + 6]) /\ got[i] = rects[i]
    <2> DEFINE r == rects[i]
    <2>1. r \in Records
      BY <1>2
    <2>2. /\ RecordCode(r) \in Seq(Int) /\ \A x \in 1..4 : RecordCode(r)[x] = r.box[x]
          /\ RecordCode(r)[5] = r.layer /\ RecordCode(r)[6] = Code(r.kind)
          /\ RecordCode(r)[8] = r.source
      BY <2>1, RecordCodeIs
    <2>3. /\ r = [box |-> r.box, layer |-> r.layer, kind |-> r.kind, source |-> r.source]
          /\ r.box \in Seq(Int) /\ Len(r.box) = 4 /\ r.kind \in Kinds
      BY <2>1 DEF Records, RecordBoxes
    <2> HIDE DEF r
    <2>4. \A x \in 1..8 : w[at(i) + x] = RecordCode(r)[x]
      BY <1>1 DEF r
    <2> DEFINE from == at(i)
    <2>5. from \in Nat /\ from + 4 <= Len(w)
      BY <1>1, <1>2
    <2> HIDE DEF from
    <2>6. w[from + 5] = r.layer /\ w[from + 6] = Code(r.kind) /\ w[from + 8] = r.source
          /\ \A x \in 1..4 : w[from + x] = r.box[x]
      BY <2>2, <2>4 DEF from
    <2>7. SubSeq(w, from + 1, from + 4) = r.box
      <3>1. from + Len(r.box) <= Len(w) /\ \A x \in 1..Len(r.box) : w[from + x] = r.box[x]
        BY <2>3, <2>5, <2>6
      <3>2. SubSeq(w, from + 1, from + Len(r.box)) = r.box
        BY <1>1, <2>3, <2>5, <3>1, PartIs
      <3> QED  BY <2>3, <3>2
    <2>8. KnownCode(w[from + 6]) /\ KindNames[w[from + 6]] = r.kind
      BY <2>3, <2>6, CodeIs DEF KnownCode
    <2>9. got[i] = Record(SubSeq(w, from + 1, from + 4), w[from + 5],
                          KindNames[w[from + 6]], w[from + 8])
      BY DEF from
    <2> HIDE DEF got
    <2> QED  BY <2>3, <2>6, <2>7, <2>8, <2>9 DEF Record, r, from
  <1>4. got = rects
    <2>1. got = [i \in 1..n |-> got[i]]  OBVIOUS
    <2>2. rects = [i \in 1..n |-> rects[i]]  BY <1>2
    <2> HIDE DEF got
    <2> QED  BY <1>3, <2>1, <2>2, Zenon
  <1>5. ~ \/ Len(w) < HeaderWords
          \/ w[1] # DetailMagic
          \/ w[2] # Version
          \/ Len(w) < HeaderWords + RecordWords * w[4]
    BY <1>1, <1>2 DEF HeaderWords, RecordWords
  <1>6. DecodeTile(w) = [ok |-> TRUE, rects |-> got]
    BY <1>1, <1>3, <1>5 DEF DecodeTile, HeaderWords, RecordWords
  <1> QED  BY <1>4, <1>6 DEF w

CodedTiles(tiles) == [i \in DOMAIN tiles |-> EncodeTile(tiles[i].rects)]

\* The files of a package that the reader takes a tile from.
LEMMA ShardIs ==
    ASSUME NEW hier, NEW world, NEW rects, NEW tiles, NEW large, NEW i \in DOMAIN tiles
    PROVE  LET files == FilesOf(hier, world, rects, tiles, large)
               coded == CodedTiles(tiles)
           IN  /\ {"shard", "index"} \subseteq DOMAIN files
               /\ files["shard"] = FlattenSeq(coded)
               /\ DOMAIN files["index"].tiles = DOMAIN tiles
               /\ files["index"].tiles[i].id = tiles[i].id
               /\ files["index"].tiles[i].bbox = tiles[i].bbox
               /\ files["index"].tiles[i].offset = Len(Upto(coded, i - 1))
               /\ files["index"].tiles[i].size = Len(coded[i])
  <1>1. tiles # <<>>
    OBVIOUS
  <1> QED  BY <1>1 DEF FilesOf, PackageNames, Upto, CodedTiles

\* Whatever tiles a package has, reading one at the offset and size its index gives returns
\* the records of that tile.
THEOREM ShardHoldsTiles ==
    ASSUME NEW hier, NEW world, NEW rects, NEW large,
           NEW tiles, Len(tiles) \in Nat, DOMAIN tiles = 1..Len(tiles),
           \A k \in DOMAIN tiles : tiles[k].rects \in Seq(Records),
           NEW i \in DOMAIN tiles,
           NEW disk, HasFile(disk, "shard"),
           disk.shard = FilesOf(hier, world, rects, tiles, large)["shard"]
    PROVE  ReadTile(disk, FilesOf(hier, world, rects, tiles, large)["index"].tiles[i])
             = [ok |-> TRUE, rects |-> tiles[i].rects]
  <1> DEFINE coded == CodedTiles(tiles)
             entry == FilesOf(hier, world, rects, tiles, large)["index"].tiles[i]
             n == Len(tiles)
  <1>1. /\ disk.shard = FlattenSeq(coded)
        /\ entry.offset = Len(Upto(coded, i - 1)) /\ entry.size = Len(coded[i])
    <2> DEFINE files == FilesOf(hier, world, rects, tiles, large)
    <2>1. /\ files["shard"] = FlattenSeq(coded)
          /\ files["index"].tiles[i].offset = Len(Upto(coded, i - 1))
          /\ files["index"].tiles[i].size = Len(coded[i])
      BY ShardIs
    <2>2. disk.shard = files["shard"] /\ entry = files["index"].tiles[i]
      OBVIOUS
    <2> HIDE DEF files, entry, coded
    <2> QED  BY <2>1, <2>2
  <1>2. coded \in Seq(Seq(Int)) /\ i \in 1..Len(coded) /\ coded[i] = EncodeTile(tiles[i].rects)
    <2>1. coded \in [1..n -> Seq(Int)] /\ coded[i] = EncodeTile(tiles[i].rects)
      BY EncodeTileIs DEF CodedTiles
    <2>2. coded \in Seq(Seq(Int)) /\ Len(coded) = n
      BY <2>1, SeqDef
    <2> QED  BY <2>1, <2>2
  <1> HIDE DEF coded, entry
  <1>3. /\ entry.offset + entry.size <= Len(disk.shard)
        /\ SubSeq(disk.shard, entry.offset + 1, entry.offset + entry.size) = coded[i]
    BY <1>1, <1>2, Slices
  <1>4. ~(Len(disk.shard) < entry.offset + entry.size)
    <2>1. Len(disk.shard) \in Nat /\ entry.offset \in Nat /\ entry.size \in Nat
      BY <1>1, <1>2, SlicesAt
    <2> QED  BY <1>3, <2>1
  <1>5. ReadTile(disk, entry) = DecodeTile(EncodeTile(tiles[i].rects))
    BY <1>2, <1>3, <1>4 DEF ReadTile
  <1>6. DecodeTile(EncodeTile(tiles[i].rects)) = [ok |-> TRUE, rects |-> tiles[i].rects]
    BY TileRoundTrip
  <1> QED  BY <1>5, <1>6 DEF entry

-----------------------------------------------------------------------------
(***************************************************************************)
(* The file of the overview pyramid.                                       *)
(***************************************************************************)

BinRecords == [box : RecordBoxes, layer : Int, kind : Kinds, count : Int, area : Int]

\* The words of one bin.
LEMMA BinCodeIs ==
    ASSUME NEW b \in BinRecords
    PROVE  /\ EncodeBin(b) \in Seq(Int) /\ Len(EncodeBin(b)) = 9
           /\ \A x \in 1..4 : EncodeBin(b)[x] = b.box[x]
           /\ EncodeBin(b)[5] = b.layer /\ EncodeBin(b)[6] = Code(b.kind)
           /\ EncodeBin(b)[8] = b.count /\ EncodeBin(b)[9] = b.area
  <1> DEFINE rest == <<b.layer, Code(b.kind), 0, b.count, b.area>>
             code == b.box \o rest
  <1>1. /\ b.box \in Seq(Int) /\ Len(b.box) = 4 /\ b.layer \in Int /\ b.kind \in Kinds
        /\ b.count \in Int /\ b.area \in Int
    BY DEF BinRecords, RecordBoxes
  <1>2. Code(b.kind) \in Int
    BY <1>1, CodeIs
  <1>3. /\ rest \in Seq(Int) /\ Len(rest) = 5
        /\ rest[1] = b.layer /\ rest[2] = Code(b.kind) /\ rest[4] = b.count /\ rest[5] = b.area
    BY <1>1, <1>2
  <1>4. EncodeBin(b) = code
    BY DEF EncodeBin
  <1> HIDE DEF rest
  <1>5. /\ code \in Seq(Int) /\ Len(code) = Len(b.box) + Len(rest)
        /\ \A x \in 1..Len(b.box) + Len(rest) :
             code[x] = IF x <= Len(b.box) THEN b.box[x] ELSE rest[x - Len(b.box)]
    BY <1>1, <1>3, ConcatProperties
  <1> HIDE DEF code
  <1>6. Len(code) = 9 /\ \A x \in 1..9 : code[x] = IF x <= 4 THEN b.box[x] ELSE rest[x - 4]
    BY <1>1, <1>3, <1>5
  <1>7. /\ code[5] = rest[5 - 4] /\ code[6] = rest[6 - 4] /\ code[8] = rest[8 - 4]
        /\ code[9] = rest[9 - 4] /\ \A x \in 1..4 : code[x] = b.box[x]
    BY <1>6
  <1>8. code[5] = rest[1] /\ code[6] = rest[2] /\ code[8] = rest[4] /\ code[9] = rest[5]
    BY <1>7
  <1>9. code \in Seq(Int)
    BY <1>5
  <1> QED  BY <1>3, <1>4, <1>6, <1>7, <1>8, <1>9

\* A sequence written after a head of n words is found n words on.
LEMMA AfterHead ==
    ASSUME NEW head \in Seq(Int), NEW rest \in Seq(Int)
    PROVE  /\ head \o rest \in Seq(Int) /\ Len(head) \in Nat /\ Len(rest) \in Nat
           /\ Len(head \o rest) = Len(head) + Len(rest)
           /\ \A x \in 1..Len(head) : (head \o rest)[x] = head[x]
           /\ \A x \in 1..Len(rest) : (head \o rest)[Len(head) + x] = rest[x]
  <1>1. /\ head \o rest \in Seq(Int) /\ Len(head \o rest) = Len(head) + Len(rest)
        /\ \A x \in 1..Len(head) + Len(rest) :
             (head \o rest)[x] = IF x <= Len(head) THEN head[x] ELSE rest[x - Len(head)]
    BY ConcatProperties
  <1>2. Len(head) \in Nat /\ Len(rest) \in Nat
    BY LenProperties
  <1>3. \A x \in 1..Len(head) : (head \o rest)[x] = head[x]
    BY <1>1, <1>2
  <1>4. ASSUME NEW x \in 1..Len(rest) PROVE (head \o rest)[Len(head) + x] = rest[x]
    <2>1. /\ Len(head) + x \in 1..Len(head) + Len(rest) /\ ~(Len(head) + x <= Len(head))
          /\ Len(head) + x - Len(head) = x
      BY <1>2
    <2> QED  BY <1>1, <2>1
  <1> QED  BY <1>1, <1>2, <1>3, <1>4

BinCodes(bins) == [j \in DOMAIN bins |-> EncodeBin(bins[j])]

LEMMA BinCodesAre ==
    ASSUME NEW bins \in Seq(BinRecords)
    PROVE  LET flat == FlattenSeq(BinCodes(bins))
           IN  /\ flat \in Seq(Int) /\ Len(flat) = 9 * Len(bins) /\ Len(bins) \in Nat
               /\ \A j \in 1..Len(bins) : \A x \in 1..9 :
                    /\ 9 * (j - 1) + x \in 1..Len(flat)
                    /\ flat[9 * (j - 1) + x] = EncodeBin(bins[j])[x]
  <1> DEFINE coded == BinCodes(bins)
             flat == FlattenSeq(coded)
             n == Len(bins)
  <1>1. n \in Nat /\ DOMAIN bins = 1..n /\ \A j \in 1..n : bins[j] \in BinRecords
    BY LenProperties, ElementOfSeq
  <1>2. /\ coded \in Seq(Seq(Int)) /\ Len(coded) = n
        /\ \A j \in 1..n : coded[j] = EncodeBin(bins[j]) /\ Len(coded[j]) = 9
    <2>1. \A j \in 1..n : EncodeBin(bins[j]) \in Seq(Int) /\ Len(EncodeBin(bins[j])) = 9
      BY <1>1, BinCodeIs
    <2>2. coded \in [1..n -> Seq(Int)] /\ \A j \in 1..n : coded[j] = EncodeBin(bins[j])
      BY <1>1, <2>1 DEF BinCodes
    <2>3. coded \in Seq(Seq(Int)) /\ Len(coded) = n
      BY <1>1, <2>2, SeqDef
    <2> QED  BY <2>1, <2>2, <2>3
  <1> HIDE DEF coded, flat, n
  <1>3. flat \in Seq(Int) /\ Len(flat) = 9 * n
    <2>1. Len(Upto(coded, n)) = 9 * n
      <3>1. n \in 0..Len(coded) /\ 9 \in Nat /\ \A k \in 1..Len(coded) : Len(coded[k]) = 9
        BY <1>1, <1>2
      <3> QED  BY <1>2, <3>1, EqualSteps
    <2>2. Upto(coded, n) = flat
      BY <1>2, UptoAll DEF flat
    <2>3. Upto(coded, n) \in Seq(Int)
      BY <1>1, <1>2, UptoTyped
    <2> QED  BY <2>1, <2>2, <2>3
  <1>4. ASSUME NEW j \in 1..n, NEW x \in 1..9
        PROVE  9 * (j - 1) + x \in 1..(9 * n) /\ flat[9 * (j - 1) + x] = EncodeBin(bins[j])[x]
    <2>1. j - 1 \in 0..Len(coded) /\ j \in 1..Len(coded)
      BY <1>1, <1>2
    <2>2. Len(Upto(coded, j - 1)) = 9 * (j - 1)
      BY <1>2, <2>1, EqualSteps
    <2>3. \A y \in 1..Len(coded[j]) : flat[Len(Upto(coded, j - 1)) + y] = coded[j][y]
      <3>1. coded \in Seq(Seq(Int))  BY <1>2
      <3>2. \A y \in 1..Len(coded[j]) : FlattenSeq(coded)[Len(Upto(coded, j - 1)) + y] = coded[j][y]
        BY <2>1, <3>1, SlicesAt
      <3> QED  BY <3>2 DEF flat
    <2>4. 9 * (j - 1) + x \in 1..(9 * n)
      BY <1>1
    <2> QED  BY <1>2, <2>2, <2>3, <2>4
  <1> QED  BY <1>1, <1>3, <1>4 DEF flat, coded, n

LevelRecords == [units : Int, grid : Int \X Int, bins : Seq(BinRecords)]

\* The words of the level that is k-th from the finest.
LevelCode(l, k) == <<k, l.units, l.grid[1], l.grid[2], Len(l.bins), 0>>
                   \o FlattenSeq(BinCodes(l.bins))

LEMMA LevelCodeIs ==
    ASSUME NEW l \in LevelRecords, NEW k \in Int
    PROVE  LET w == LevelCode(l, k)
           IN  /\ w \in Seq(Int) /\ Len(w) = 6 + 9 * Len(l.bins) /\ Len(l.bins) \in Nat
               /\ w[2] = l.units /\ w[3] = l.grid[1] /\ w[4] = l.grid[2] /\ w[5] = Len(l.bins)
               /\ \A j \in 1..Len(l.bins) : \A x \in 1..9 :
                    /\ 6 + 9 * (j - 1) + x \in 1..Len(w)
                    /\ w[6 + 9 * (j - 1) + x] = EncodeBin(l.bins[j])[x]
  <1> DEFINE head == <<k, l.units, l.grid[1], l.grid[2], Len(l.bins), 0>>
             flat == FlattenSeq(BinCodes(l.bins))
             w == LevelCode(l, k)
             n == Len(l.bins)
  <1>1. l.units \in Int /\ l.grid \in Int \X Int /\ l.bins \in Seq(BinRecords)
    BY DEF LevelRecords
  <1>2. /\ flat \in Seq(Int) /\ Len(flat) = 9 * n /\ n \in Nat
        /\ \A j \in 1..n : \A x \in 1..9 :
             /\ 9 * (j - 1) + x \in 1..Len(flat)
             /\ flat[9 * (j - 1) + x] = EncodeBin(l.bins[j])[x]
    BY <1>1, BinCodesAre
  <1>3. w = head \o flat
    BY DEF LevelCode
  <1>4. /\ head \in Seq(Int) /\ Len(head) = 6
        /\ head[2] = l.units /\ head[3] = l.grid[1] /\ head[4] = l.grid[2] /\ head[5] = n
    BY <1>1, <1>2
  <1> HIDE DEF head, flat, w, n
  <1>5. /\ w \in Seq(Int) /\ Len(w) = 6 + Len(flat)
        /\ \A x \in 1..6 : w[x] = head[x]
        /\ \A x \in 1..Len(flat) : w[6 + x] = flat[x]
    <2>1. head \in Seq(Int) /\ flat \in Seq(Int)
      BY <1>2, <1>4
    <2>2. /\ head \o flat \in Seq(Int) /\ Len(head \o flat) = Len(head) + Len(flat)
          /\ \A x \in 1..Len(head) : (head \o flat)[x] = head[x]
          /\ \A x \in 1..Len(flat) : (head \o flat)[Len(head) + x] = flat[x]
      BY <2>1, AfterHead
    <2>3. Len(head) = 6 /\ w = head \o flat
      BY <1>3, <1>4
    <2> QED  BY <2>2, <2>3
  <1>6. w[2] = l.units /\ w[3] = l.grid[1] /\ w[4] = l.grid[2] /\ w[5] = n
    BY <1>4, <1>5
  <1>7. ASSUME NEW j \in 1..n, NEW x \in 1..9
        PROVE  /\ 6 + 9 * (j - 1) + x \in 1..Len(w)
               /\ w[6 + 9 * (j - 1) + x] = EncodeBin(l.bins[j])[x]
    <2> DEFINE y == 9 * (j - 1) + x
    <2>1. y \in 1..Len(flat) /\ flat[y] = EncodeBin(l.bins[j])[x]
      BY <1>2
    <2>2. 6 + 9 * (j - 1) + x = 6 + y
      OBVIOUS
    <2>3. Len(flat) \in Nat
      BY <1>2, LenProperties
    <2> HIDE DEF y
    <2>4. 6 + y \in 1..Len(w) /\ w[6 + y] = flat[y]
      BY <1>5, <2>1, <2>3
    <2> QED  BY <2>1, <2>2, <2>4
  <1> QED  BY <1>2, <1>5, <1>6, <1>7 DEF w, n

\* A pyramid as the packer makes it, and the words of its levels.
IsPyramid(p) == /\ p = [world |-> p.world, levels |-> p.levels]
                /\ p.world \in RecordBoxes /\ p.levels \in Seq(LevelRecords)
LevelCodes(levels) == [i \in DOMAIN levels |-> LevelCode(levels[i], i - 1)]
LevelAt(levels, i) == 9 + Len(Upto(LevelCodes(levels), i - 1))

LEMMA LevelCodesAre ==
    ASSUME NEW levels \in Seq(LevelRecords)
    PROVE  /\ LevelCodes(levels) \in Seq(Seq(Int)) /\ Len(levels) \in Nat
           /\ Len(LevelCodes(levels)) = Len(levels) /\ DOMAIN levels = 1..Len(levels)
           /\ \A i \in 1..Len(levels) : /\ LevelCodes(levels)[i] = LevelCode(levels[i], i - 1)
                                        /\ levels[i] \in LevelRecords
  <1> DEFINE coded == LevelCodes(levels)
             n == Len(levels)
  <1>1. n \in Nat /\ DOMAIN levels = 1..n /\ \A i \in 1..n : levels[i] \in LevelRecords
    BY LenProperties, ElementOfSeq
  <1>2. \A i \in 1..n : LevelCode(levels[i], i - 1) \in Seq(Int)
    <2>1. ASSUME NEW i \in 1..n PROVE LevelCode(levels[i], i - 1) \in Seq(Int)
      <3>1. levels[i] \in LevelRecords /\ i - 1 \in Int  BY <1>1
      <3> QED  BY <3>1, LevelCodeIs
    <2> QED  BY <2>1
  <1>3. coded \in [1..n -> Seq(Int)] /\ \A i \in 1..n : coded[i] = LevelCode(levels[i], i - 1)
    BY <1>1, <1>2 DEF LevelCodes
  <1> HIDE DEF coded, n
  <1>4. coded \in Seq(Seq(Int)) /\ Len(coded) = n
    BY <1>1, <1>3, SeqDef
  <1> QED  BY <1>1, <1>3, <1>4 DEF coded, n

\* The words of the file: the head, then each level where the ones before it end.
LEMMA EncodePyramidIs ==
    ASSUME NEW p, IsPyramid(p)
    PROVE  LET w == EncodePyramid(p)
           IN  /\ w \in Seq(Int) /\ Len(w) \in Nat /\ 9 <= Len(w)
               /\ w[1] = PyramidMagic /\ w[2] = Version /\ w[8] = Len(p.levels)
               /\ \A x \in 1..4 : w[3 + x] = p.world[x]
               /\ \A i \in 1..Len(p.levels) :
                    LET code == LevelCode(p.levels[i], i - 1)
                    IN  /\ LevelAt(p.levels, i) \in Nat
                        /\ LevelAt(p.levels, i) + Len(code) <= Len(w)
                        /\ \A x \in 1..Len(code) : w[LevelAt(p.levels, i) + x] = code[x]
  <1> DEFINE w == EncodePyramid(p)
             m == Len(p.levels)
             coded == LevelCodes(p.levels)
             first == <<PyramidMagic, Version, 0>>
             last == <<m, 0>>
             front == first \o p.world
             head == front \o last
             flat == FlattenSeq(coded)
  <1>1. p.world \in Seq(Int) /\ Len(p.world) = 4 /\ p.levels \in Seq(LevelRecords)
    BY DEF IsPyramid, RecordBoxes
  <1>2. /\ coded \in Seq(Seq(Int)) /\ m \in Nat /\ Len(coded) = m
        /\ \A i \in 1..m : coded[i] = LevelCode(p.levels[i], i - 1)
    BY <1>1, LevelCodesAre
  <1>3. w = head \o flat
    <2>1. coded = [i \in DOMAIN p.levels |->
                     LET l == p.levels[i] IN
                     <<i - 1, l.units, l.grid[1], l.grid[2], Len(l.bins), 0>>
                     \o FlattenSeq([j \in DOMAIN l.bins |-> EncodeBin(l.bins[j])])]
      BY DEF LevelCodes, LevelCode, BinCodes
    <2> HIDE DEF coded
    <2> QED  BY <2>1 DEF EncodePyramid
  <1>4. /\ first \in Seq(Int) /\ Len(first) = 3 /\ first[1] = PyramidMagic /\ first[2] = Version
        /\ last \in Seq(Int) /\ Len(last) = 2 /\ last[1] = m
    BY <1>2 DEF PyramidMagic, Version
  <1> HIDE DEF w, m, coded, first, last
  <1>5. /\ front \in Seq(Int) /\ Len(front) = 7
        /\ front[1] = PyramidMagic /\ front[2] = Version
        /\ \A x \in 1..4 : front[3 + x] = p.world[x]
    <2>1. /\ first \o p.world \in Seq(Int) /\ Len(first \o p.world) = Len(first) + Len(p.world)
          /\ \A x \in 1..Len(first) : (first \o p.world)[x] = first[x]
          /\ \A x \in 1..Len(p.world) : (first \o p.world)[Len(first) + x] = p.world[x]
      BY <1>1, <1>4, AfterHead
    <2> HIDE DEF front
    <2>2. /\ front \in Seq(Int) /\ Len(front) = 3 + 4
          /\ \A x \in 1..3 : front[x] = first[x]
          /\ \A x \in 1..4 : front[3 + x] = p.world[x]
      BY <1>1, <1>4, <2>1 DEF front
    <2> QED  BY <1>4, <2>2
  <1> HIDE DEF front
  <1>6. /\ head \in Seq(Int) /\ Len(head) = 9
        /\ head[1] = PyramidMagic /\ head[2] = Version /\ head[8] = m
        /\ \A x \in 1..4 : head[3 + x] = p.world[x]
    <2>1. /\ front \o last \in Seq(Int) /\ Len(front \o last) = Len(front) + Len(last)
          /\ \A x \in 1..Len(front) : (front \o last)[x] = front[x]
          /\ \A x \in 1..Len(last) : (front \o last)[Len(front) + x] = last[x]
      BY <1>4, <1>5, AfterHead
    <2> HIDE DEF head
    <2>2. /\ head \in Seq(Int) /\ Len(head) = 7 + 2
          /\ \A x \in 1..7 : head[x] = front[x]
          /\ \A x \in 1..2 : head[7 + x] = last[x]
      BY <1>4, <1>5, <2>1 DEF head
    <2>3. head[7 + 1] = m
      BY <1>4, <2>2
    <2>4. \A x \in 1..4 : 3 + x \in 1..7
      OBVIOUS
    <2> QED  BY <1>5, <2>2, <2>3, <2>4
  <1> HIDE DEF head
  <1>7. flat \in Seq(Int)
    <2>1. Upto(coded, Len(coded)) = flat
      BY <1>2, UptoAll
    <2>2. Len(coded) \in 0..Len(coded)
      BY <1>2
    <2>3. Upto(coded, Len(coded)) \in Seq(Int)
      BY <1>2, <2>2, UptoTyped
    <2> QED  BY <2>1, <2>3
  <1> HIDE DEF flat
  <1>8. /\ w \in Seq(Int) /\ Len(flat) \in Nat /\ Len(w) = 9 + Len(flat)
        /\ \A x \in 1..9 : w[x] = head[x]
        /\ \A x \in 1..Len(flat) : w[9 + x] = flat[x]
    <2>1. /\ head \o flat \in Seq(Int) /\ Len(flat) \in Nat
          /\ Len(head \o flat) = Len(head) + Len(flat)
          /\ \A x \in 1..Len(head) : (head \o flat)[x] = head[x]
          /\ \A x \in 1..Len(flat) : (head \o flat)[Len(head) + x] = flat[x]
      BY <1>6, <1>7, AfterHead
    <2> QED  BY <1>3, <1>6, <2>1
  <1>9. /\ w[1] = PyramidMagic /\ w[2] = Version /\ w[8] = m
        /\ \A x \in 1..4 : w[3 + x] = p.world[x]
    <2>1. w[1] = head[1] /\ w[2] = head[2] /\ w[8] = head[8]
      BY <1>8
    <2>2. ASSUME NEW x \in 1..4 PROVE w[3 + x] = p.world[x]
      <3>1. 3 + x \in 1..9
        OBVIOUS
      <3> QED  BY <1>6, <1>8, <3>1
    <2> QED  BY <1>6, <2>1, <2>2
  <1>10. ASSUME NEW i \in 1..m
         PROVE  /\ LevelAt(p.levels, i) \in Nat
                /\ LevelAt(p.levels, i) + Len(coded[i]) <= Len(w)
                /\ \A x \in 1..Len(coded[i]) : w[LevelAt(p.levels, i) + x] = coded[i][x]
    <2> DEFINE offset == Len(Upto(coded, i - 1))
               code == coded[i]
    <2>1. /\ offset \in Nat /\ Len(code) \in Nat /\ offset + Len(code) <= Len(flat)
          /\ \A x \in 1..Len(code) : flat[offset + x] = code[x]
      <3>1. i \in 1..Len(coded)  BY <1>2
      <3>2. /\ offset \in Nat /\ Len(code) \in Nat /\ offset + Len(code) <= Len(FlattenSeq(coded))
            /\ \A x \in 1..Len(code) : FlattenSeq(coded)[offset + x] = code[x]
        BY <1>2, <3>1, SlicesAt
      <3> QED  BY <3>2 DEF flat
    <2>2. LevelAt(p.levels, i) = 9 + offset
      BY DEF LevelAt, coded
    <2> HIDE DEF offset, code
    <2>3. ASSUME NEW x \in 1..Len(code) PROVE w[LevelAt(p.levels, i) + x] = code[x]
      <3>1. offset + x \in 1..Len(flat) /\ 9 + (offset + x) = 9 + offset + x
        BY <1>8, <2>1
      <3>2. w[9 + (offset + x)] = flat[offset + x]
        BY <1>8, <3>1
      <3> QED  BY <2>1, <2>2, <3>1, <3>2
    <2>4. 9 + offset \in Nat /\ 9 + offset + Len(code) <= Len(w)
      <3>1. PICK a, b, c \in Nat : a = offset /\ b = Len(code) /\ c = Len(flat)
        BY <1>8, <2>1
      <3>2. a + b <= c /\ Len(w) = 9 + c
        BY <1>8, <2>1, <3>1
      <3> QED  BY <3>1, <3>2
    <2> QED  BY <2>2, <2>3, <2>4 DEF code
  <1>11. Len(w) \in Nat /\ 9 <= Len(w)
    BY <1>8
  <1>12. \A i \in 1..m :
           LET code == LevelCode(p.levels[i], i - 1)
           IN  /\ LevelAt(p.levels, i) \in Nat
               /\ LevelAt(p.levels, i) + Len(code) <= Len(w)
               /\ \A x \in 1..Len(code) : w[LevelAt(p.levels, i) + x] = code[x]
    <2>1. ASSUME NEW i \in 1..m, NEW code, code = LevelCode(p.levels[i], i - 1)
          PROVE  /\ LevelAt(p.levels, i) \in Nat
                 /\ LevelAt(p.levels, i) + Len(code) <= Len(w)
                 /\ \A x \in 1..Len(code) : w[LevelAt(p.levels, i) + x] = code[x]
      <3>1. code = coded[i]
        BY <1>2, <2>1
      <3> QED  BY <1>10, <3>1
    <2> QED  BY <2>1, Zenon
  <1> QED  BY <1>8, <1>9, <1>11, <1>12 DEF w, m

\* Where the reader looks for each level.
IsStarts(f, w, m) ==
    f = [i \in 1..m |-> IF i = 1 THEN 9
                        ELSE f[i - 1] + LevelWords + BinWords * w[f[i - 1] + 5]]
StartsIn(w) == CHOOSE f : IsStarts(f, w, w[8])

\* It looks where the packer put it.
LEMMA StartsAre ==
    ASSUME NEW p, IsPyramid(p)
    PROVE  \A i \in 1..Len(p.levels) : StartsIn(EncodePyramid(p))[i] = LevelAt(p.levels, i)
  <1> DEFINE w == EncodePyramid(p)
             m == Len(p.levels)
             coded == LevelCodes(p.levels)
             g == [i \in 1..m |-> LevelAt(p.levels, i)]
             f == StartsIn(w)
             Bad == {i \in 1..m : f[i] # g[i]}
  <1>1. p.levels \in Seq(LevelRecords)
    BY DEF IsPyramid
  <1>2. /\ coded \in Seq(Seq(Int)) /\ m \in Nat /\ Len(coded) = m
        /\ \A i \in 1..m : coded[i] = LevelCode(p.levels[i], i - 1) /\ p.levels[i] \in LevelRecords
    BY <1>1, LevelCodesAre
  <1>3. /\ w[8] = m
        /\ \A i \in 1..m : LET code == LevelCode(p.levels[i], i - 1)
                           IN  /\ LevelAt(p.levels, i) \in Nat
                               /\ \A x \in 1..Len(code) : w[LevelAt(p.levels, i) + x] = code[x]
    BY EncodePyramidIs
  <1> HIDE DEF w, m, coded
  <1>4. ASSUME NEW i \in 1..m
        PROVE  g[i] = IF i = 1 THEN 9
                      ELSE g[i - 1] + LevelWords + BinWords * w[g[i - 1] + 5]
    <2>1. CASE i = 1
      <3>1. i - 1 = 0  BY <2>1
      <3>2. Upto(coded, i - 1) = <<>>  BY <3>1, UptoNone
      <3>3. LevelAt(p.levels, i) = 9 + 0  BY <3>2, EmptySeq DEF LevelAt, coded
      <3> QED  BY <2>1, <3>3
    <2>2. CASE i # 1
      <3> DEFINE h == i - 1
                 code == LevelCode(p.levels[h], h - 1)
                 at == LevelAt(p.levels, h)
      <3>1. h \in 1..m /\ h \in 1..Len(coded) /\ h - 1 \in 0..Len(coded) /\ h - 1 \in Int
        BY <1>2, <2>2
      <3> HIDE DEF h
      <3>2. coded[h] = code /\ p.levels[h] \in LevelRecords
        BY <1>2, <3>1
      <3>3. /\ code \in Seq(Int) /\ Len(code) = 6 + 9 * Len(p.levels[h].bins)
            /\ Len(p.levels[h].bins) \in Nat /\ code[5] = Len(p.levels[h].bins)
        BY <3>1, <3>2, LevelCodeIs
      <3>4. at \in Nat /\ \A x \in 1..Len(code) : w[at + x] = code[x]
        BY <1>3, <3>1
      <3> HIDE DEF code, at
      <3>5. w[at + 5] = Len(p.levels[h].bins)
        <4>1. 5 \in 1..Len(code)  BY <3>3
        <4> QED  BY <3>3, <3>4, <4>1
      <3>6. Upto(coded, h) = Upto(coded, h - 1) \o code
        BY <1>2, <3>1, <3>2, UptoNext
      <3>7. Upto(coded, h - 1) \in Seq(Int)
        BY <1>2, <3>1, UptoTyped
      <3>8. Len(Upto(coded, h)) = Len(Upto(coded, h - 1)) + Len(code)
            /\ Len(Upto(coded, h - 1)) \in Nat
        BY <3>3, <3>6, <3>7, AfterHead
      <3>9. at = 9 + Len(Upto(coded, h - 1)) /\ LevelAt(p.levels, i) = 9 + Len(Upto(coded, h))
        BY DEF LevelAt, coded, h, at
      <3>10. LevelAt(p.levels, i) = at + 6 + 9 * w[at + 5]
        <4>1. PICK n, u \in Nat : n = Len(p.levels[h].bins) /\ u = Len(Upto(coded, h - 1))
          BY <3>3, <3>8
        <4>2. Len(Upto(coded, h)) = u + (6 + 9 * n)
          BY <3>3, <3>8, <4>1
        <4>3. at = 9 + u /\ LevelAt(p.levels, i) = 9 + (u + (6 + 9 * n)) /\ w[at + 5] = n
          BY <3>5, <3>9, <4>1, <4>2
        <4>4. 9 + (u + (6 + 9 * n)) = 9 + u + 6 + 9 * n
          OBVIOUS
        <4> QED  BY <4>3, <4>4
      <3>11. g[i] = LevelAt(p.levels, i) /\ g[h] = at
        BY <3>1 DEF at
      <3> HIDE DEF g
      <3>12. g[i] = g[h] + LevelWords + BinWords * w[g[h] + 5]
        BY <3>10, <3>11 DEF LevelWords, BinWords
      <3> QED  BY <2>2, <3>12 DEF h
    <2> QED  BY <2>1, <2>2
  <1>5. g = [i \in 1..m |-> g[i]]
    OBVIOUS
  <1>6. \A i \in 1..m : g[i] = LevelAt(p.levels, i)
    OBVIOUS
  <1> HIDE DEF g
  <1>7. IsStarts(g, w, m)
    BY <1>4, <1>5, Zenon DEF IsStarts
  <1>8. IsStarts(f, w, m)
    BY <1>3, <1>7, Zenon DEF StartsIn
  <1> HIDE DEF f
  <1>9. Bad = {}
    <2> SUFFICES ASSUME Bad # {} PROVE FALSE  OBVIOUS
    <2>1. PICK k \in Bad : \A j \in Bad : k <= j
      <3>1. Bad \subseteq Nat  OBVIOUS
      <3> HIDE DEF Bad
      <3> QED  BY <3>1, Smallest
    <2>2. k \in 1..m
      OBVIOUS
    <2>3. f[k] = IF k = 1 THEN 9 ELSE f[k - 1] + LevelWords + BinWords * w[f[k - 1] + 5]
      BY <1>8, <2>2 DEF IsStarts
    <2>4. CASE k = 1
      BY <1>4, <2>2, <2>3, <2>4
    <2>5. CASE k # 1
      <3>1. k - 1 \in 1..m /\ ~(k <= k - 1)  BY <1>2, <2>2, <2>5
      <3>a. k - 1 \notin Bad
        <4> HIDE DEF Bad
        <4> QED  BY <2>1, <3>1
      <3>2. f[k - 1] = g[k - 1]  BY <3>1, <3>a
      <3> QED  BY <1>4, <2>2, <2>3, <2>5, <3>2
    <2> QED  BY <2>4, <2>5
  <1> QED  BY <1>6, <1>9 DEF f, w, m

BinOfWords(w, at) == [box |-> SubSeq(w, at + 1, at + 4), layer |-> w[at + 5],
                      kind |-> KindNames[w[at + 6]], count |-> w[at + 8], area |-> w[at + 9]]
LevelOfWords(w, s) == [units |-> w[s + 2], grid |-> <<w[s + 3], w[s + 4]>>,
                       bins |-> [j \in 1..w[s + 5] |-> BinOfWords(w, s + 6 + 9 * (j - 1))]]

LEMMA BinReadIs ==
    ASSUME NEW b \in BinRecords, NEW w \in Seq(Int), NEW at \in Nat, at + 9 <= Len(w),
           \A x \in 1..9 : w[at + x] = EncodeBin(b)[x]
    PROVE  BinOfWords(w, at) = b
  <1>1. /\ EncodeBin(b) \in Seq(Int)
        /\ \A x \in 1..4 : EncodeBin(b)[x] = b.box[x]
        /\ EncodeBin(b)[5] = b.layer /\ EncodeBin(b)[6] = Code(b.kind)
        /\ EncodeBin(b)[8] = b.count /\ EncodeBin(b)[9] = b.area
    BY BinCodeIs
  <1>2. /\ b = [box |-> b.box, layer |-> b.layer, kind |-> b.kind, count |-> b.count, area |-> b.area]
        /\ b.box \in Seq(Int) /\ Len(b.box) = 4 /\ b.kind \in Kinds
    BY DEF BinRecords, RecordBoxes
  <1>3. /\ w[at + 5] = b.layer /\ w[at + 6] = Code(b.kind) /\ w[at + 8] = b.count
        /\ w[at + 9] = b.area /\ \A x \in 1..4 : w[at + x] = b.box[x]
    BY <1>1
  <1>4. SubSeq(w, at + 1, at + 4) = b.box
    <2>1. at + Len(b.box) <= Len(w) /\ \A x \in 1..Len(b.box) : w[at + x] = b.box[x]
      <3>1. Len(w) \in Nat  BY LenProperties
      <3>2. at + 4 <= Len(w)  BY <3>1
      <3>3. \A x \in 1..4 : w[at + x] = b.box[x]  BY <1>3
      <3> QED  BY <1>2, <3>2, <3>3
    <2>2. SubSeq(w, at + 1, at + Len(b.box)) = b.box
      BY <1>2, <2>1, PartIs
    <2> QED  BY <1>2, <2>2
  <1>5. KindNames[w[at + 6]] = b.kind
    BY <1>2, <1>3, CodeIs
  <1> QED  BY <1>2, <1>3, <1>4, <1>5 DEF BinOfWords

CodeIsAt(w, s, code) == /\ s \in Nat /\ s + Len(code) <= Len(w)
                        /\ \A x \in 1..Len(code) : w[s + x] = code[x]

LEMMA LevelReadIs ==
    ASSUME NEW l \in LevelRecords, NEW k \in Int, NEW w \in Seq(Int), NEW s,
           CodeIsAt(w, s, LevelCode(l, k))
    PROVE  LevelOfWords(w, s) = l
  <1> DEFINE code == LevelCode(l, k)
             n == Len(l.bins)
             got == [j \in 1..n |-> BinOfWords(w, s + 6 + 9 * (j - 1))]
  <1>1. /\ code \in Seq(Int) /\ Len(code) = 6 + 9 * n /\ n \in Nat
        /\ code[2] = l.units /\ code[3] = l.grid[1] /\ code[4] = l.grid[2] /\ code[5] = n
        /\ \A j \in 1..n : \A x \in 1..9 :
             /\ 6 + 9 * (j - 1) + x \in 1..Len(code)
             /\ code[6 + 9 * (j - 1) + x] = EncodeBin(l.bins[j])[x]
    BY LevelCodeIs
  <1>2. s \in Nat /\ s + Len(code) <= Len(w) /\ \A x \in 1..Len(code) : w[s + x] = code[x]
    BY Zenon DEF CodeIsAt
  <1>3. /\ l = [units |-> l.units, grid |-> l.grid, bins |-> l.bins]
        /\ l.grid = <<l.grid[1], l.grid[2]>> /\ l.bins \in Seq(BinRecords)
    BY DEF LevelRecords
  <1>4. DOMAIN l.bins = 1..n /\ l.bins = [j \in 1..n |-> l.bins[j]]
        /\ \A j \in 1..n : l.bins[j] \in BinRecords
    BY <1>3, LenProperties, ElementOfSeq
  <1>5. Len(w) \in Nat
    BY LenProperties
  <1> HIDE DEF code, n
  <1>6. w[s + 2] = l.units /\ w[s + 3] = l.grid[1] /\ w[s + 4] = l.grid[2] /\ w[s + 5] = n
    <2>1. 2 \in 1..Len(code) /\ 3 \in 1..Len(code) /\ 4 \in 1..Len(code) /\ 5 \in 1..Len(code)
      BY <1>1
    <2> QED  BY <1>1, <1>2, <2>1
  <1>7. ASSUME NEW j \in 1..n PROVE BinOfWords(w, s + 6 + 9 * (j - 1)) = l.bins[j]
    <2> DEFINE from == 6 + 9 * (j - 1)
               b == l.bins[j]
    <2>1. \A x \in 1..9 : from + x \in 1..Len(code) /\ code[from + x] = EncodeBin(b)[x]
      BY <1>1
    <2>2. b \in BinRecords
      BY <1>4
    <2>3. from \in Nat
      BY <1>1
    <2>4. s + from = s + 6 + 9 * (j - 1)
      BY <1>1, <1>2
    <2> HIDE DEF from, b
    <2>5. s + from \in Nat /\ s + from + 9 <= Len(w)
      <3>1. from + 9 \in 1..Len(code)  BY <2>1
      <3>2. PICK c \in Nat : c = Len(code)  BY <1>1, LenProperties
      <3> QED  BY <1>2, <1>5, <2>3, <3>1, <3>2
    <2>6. ASSUME NEW x \in 1..9 PROVE w[s + from + x] = EncodeBin(b)[x]
      <3>1. s + (from + x) = s + from + x  BY <1>2, <2>3
      <3>2. w[s + (from + x)] = code[from + x]  BY <1>2, <2>1
      <3> QED  BY <2>1, <3>1, <3>2
    <2>7. BinOfWords(w, s + from) = b
      BY <2>2, <2>5, <2>6, BinReadIs
    <2> QED  BY <2>4, <2>7 DEF b
  <1>8. got = l.bins
    BY <1>4, <1>7
  <1>9. LevelOfWords(w, s) = [units |-> w[s + 2], grid |-> <<w[s + 3], w[s + 4]>>, bins |-> got]
    BY <1>6 DEF LevelOfWords
  <1> HIDE DEF got
  <1> QED  BY <1>3, <1>6, <1>8, <1>9

\* What the viewer decodes of an overview pyramid is what the packer encoded, for any world, any
\* number of levels and any bins.
THEOREM PyramidRoundTrip ==
    ASSUME NEW p, IsPyramid(p)
    PROVE  DecodePyramid(EncodePyramid(p)) = [ok |-> TRUE, world |-> p.world, levels |-> p.levels]
  <1> DEFINE w == EncodePyramid(p)
             m == Len(p.levels)
             start == StartsIn(w)
             got == [i \in 1..m |-> LevelOfWords(w, start[i])]
  <1>1. p.world \in Seq(Int) /\ Len(p.world) = 4 /\ p.levels \in Seq(LevelRecords)
    BY DEF IsPyramid, RecordBoxes
  <1>2. m \in Nat /\ p.levels = [i \in 1..m |-> p.levels[i]] /\ \A i \in 1..m : p.levels[i] \in LevelRecords
    <2>1. m \in Nat /\ p.levels = [i \in 1..m |-> p.levels[i]]
      BY <1>1, LenProperties
    <2>2. \A i \in 1..m : p.levels[i] \in LevelRecords
      BY <1>1, ElementOfSeq
    <2> QED  BY <2>1, <2>2
  <1>3. /\ w \in Seq(Int) /\ Len(w) \in Nat /\ 9 <= Len(w)
        /\ w[1] = PyramidMagic /\ w[2] = Version /\ w[8] = m
        /\ \A x \in 1..4 : w[3 + x] = p.world[x]
    BY EncodePyramidIs
  <1>4. ASSUME NEW i \in 1..m PROVE LevelOfWords(w, start[i]) = p.levels[i]
    <2>1. CodeIsAt(w, LevelAt(p.levels, i), LevelCode(p.levels[i], i - 1))
      BY EncodePyramidIs, Zenon DEF CodeIsAt
    <2>2. start[i] = LevelAt(p.levels, i)
      BY StartsAre
    <2>3. i - 1 \in Int
      OBVIOUS
    <2> HIDE DEF w, start, m
    <2> QED  BY <1>2, <1>3, <2>1, <2>2, <2>3, LevelReadIs
  <1>5. got = p.levels
    <2> HIDE DEF w, start, m
    <2> QED  BY <1>2, <1>4, Zenon
  <1>6. SubSeq(w, 4, 7) = p.world
    <2> HIDE DEF w
    <2>1. 3 \in Nat /\ 3 + Len(p.world) <= Len(w) /\ \A x \in 1..Len(p.world) : w[3 + x] = p.world[x]
      <3>1. 3 \in Nat /\ 3 + Len(p.world) <= Len(w)
        BY <1>1, <1>3
      <3>2. \A x \in 1..4 : w[3 + x] = p.world[x]
        BY <1>3
      <3> QED  BY <1>1, <3>1, <3>2
    <2>2. SubSeq(w, 3 + 1, 3 + Len(p.world)) = p.world
      BY <1>1, <1>3, <2>1, PartIs
    <2>3. 3 + 1 = 4 /\ 3 + Len(p.world) = 7
      BY <1>1
    <2> QED  BY <2>2, <2>3
  <1>7. ~(Len(w) < 9 \/ w[1] # PyramidMagic \/ w[2] # Version)
    BY <1>3
  <1>8. DecodePyramid(w) = [ok |-> TRUE, world |-> SubSeq(w, 4, 7), levels |->
                              [i \in 1..w[8] |-> LevelOfWords(w, start[i])]]
    <2> HIDE DEF w
    <2>1. start = CHOOSE f : f = [i \in 1..w[8] |->
                     IF i = 1 THEN 9 ELSE f[i - 1] + LevelWords + BinWords * w[f[i - 1] + 5]]
      BY Zenon DEF StartsIn, IsStarts
    <2> HIDE DEF start
    <2> QED  BY <1>7, <2>1 DEF DecodePyramid, LevelOfWords, BinOfWords, LevelWords, BinWords
  <1> QED  BY <1>3, <1>5, <1>6, <1>8 DEF w

-----------------------------------------------------------------------------
(***************************************************************************)
(* The detail tiles: finitely many, and no two of one id.                  *)
(***************************************************************************)

HasId(t) == t.id \in Int \X Int \X Nat

\* What these tiles become one level deeper.
Deeper(tiles) == UNION {Split(s, Quadrants(s)) : s \in tiles}

\* f[d] is what these tiles become when the splitting has gone d levels deeper.
IsLevels(f, tiles, m) ==
    f = [d \in 0..m |-> IF d = 0 THEN tiles ELSE Deeper(f[d - 1])]

LEMMA LevelsExist ==
    ASSUME NEW tiles, NEW m \in Nat PROVE \E f : IsLevels(f, tiles, m)
  <1> DEFINE Bad == {k \in Nat : ~ \E f : IsLevels(f, tiles, k)}
  <1> SUFFICES ASSUME Bad # {} PROVE FALSE  OBVIOUS
  <1>1. PICK k \in Bad : \A j \in Bad : k <= j
    <2>1. Bad \subseteq Nat  OBVIOUS
    <2> HIDE DEF Bad
    <2> QED  BY <2>1, Smallest
  <1>2. CASE k = 0
    <2> DEFINE g == [d \in {0} |-> tiles]
    <2>1. 0..0 = {0}  OBVIOUS
    <2>2. g = [d \in 0..0 |-> IF d = 0 THEN tiles ELSE Deeper(g[d - 1])]
      BY <2>1
    <2>3. IsLevels(g, tiles, 0)
      BY <2>2, Zenon DEF IsLevels
    <2> QED  BY <1>1, <1>2, <2>3
  <1>3. CASE k > 0
    <2>1. k - 1 \in Nat /\ k - 1 \notin Bad /\ k \in Nat
      BY <1>1, <1>3
    <2>2. PICK f : IsLevels(f, tiles, k - 1)
      BY <2>1
    <2>3. \A d \in 0..(k - 1) : f[d] = IF d = 0 THEN tiles ELSE Deeper(f[d - 1])
      BY <2>2 DEF IsLevels
    <2> DEFINE g == [d \in 0..k |-> IF d = k THEN Deeper(f[k - 1]) ELSE f[d]]
    <2>4. ASSUME NEW d \in 0..k
          PROVE  g[d] = IF d = 0 THEN tiles ELSE Deeper(g[d - 1])
      <3>1. CASE d = k
        <4>1. k \in 0..k /\ k - 1 \in 0..k /\ k - 1 # k /\ k # 0  BY <2>1, <1>3
        <4>2. g[k] = Deeper(f[k - 1]) /\ g[k - 1] = f[k - 1]  BY <4>1
        <4> HIDE DEF g
        <4> QED  BY <3>1, <4>1, <4>2
      <3>2. CASE d # k
        <4>1. d \in 0..(k - 1)  BY <2>1, <3>2
        <4>2. g[d] = f[d]  BY <3>2
        <4>3. d # 0 => d - 1 \in 0..k /\ d - 1 # k  BY <2>1, <3>2
        <4>4. d # 0 => g[d - 1] = f[d - 1]  BY <4>3
        <4> HIDE DEF g
        <4> QED  BY <2>3, <4>1, <4>2, <4>4
      <3> QED  BY <3>1, <3>2
    <2>5. IsLevels(g, tiles, k)
      <3>1. g = [d \in 0..k |-> IF d = 0 THEN tiles ELSE Deeper(g[d - 1])]
        BY <2>4, Zenon
      <3> HIDE DEF g
      <3> QED  BY <3>1, Zenon DEF IsLevels
    <2> QED  BY <1>1, <2>5
  <1> QED  BY <1>1, <1>2, <1>3

LEMMA SubdivideIs ==
    ASSUME NEW t
    PROVE  \E f : IsLevels(f, {t}, MaxDepth) /\ Subdivide(t) = f[MaxDepth]
  <1> DEFINE F == CHOOSE f : f = [d \in 0..MaxDepth |->
                    IF d = 0 THEN {t} ELSE UNION {Split(s, Quadrants(s)) : s \in f[d - 1]}]
  <1>1. F = [d \in 0..MaxDepth |->
               IF d = 0 THEN {t} ELSE UNION {Split(s, Quadrants(s)) : s \in F[d - 1]}]
    <2>1. \E f : IsLevels(f, {t}, MaxDepth)
      BY LevelsExist, GridAssumption
    <2> QED  BY <2>1, Zenon DEF IsLevels, Deeper
  <1>2. Subdivide(t) = F[MaxDepth]
    BY Zenon DEF Subdivide
  <1> HIDE DEF F
  <1> QED  BY <1>1, <1>2, Zenon DEF IsLevels, Deeper

\* What becomes of one tile is among what becomes of all.
LEMMA LevelsOfOne ==
    ASSUME NEW tiles, NEW c \in tiles, NEW m \in Nat, NEW f, IsLevels(f, tiles, m),
           NEW g, IsLevels(g, {c}, m), NEW d \in 0..m
    PROVE  g[d] \subseteq f[d]
  <1> DEFINE Bad == {k \in 0..m : ~(g[k] \subseteq f[k])}
  <1> SUFFICES ASSUME Bad # {} PROVE FALSE  OBVIOUS
  <1>1. PICK k \in Bad : \A j \in Bad : k <= j
    <2>1. Bad \subseteq Nat  OBVIOUS
    <2> HIDE DEF Bad
    <2> QED  BY <2>1, Smallest
  <1>2. /\ f[k] = IF k = 0 THEN tiles ELSE Deeper(f[k - 1])
        /\ g[k] = IF k = 0 THEN {c} ELSE Deeper(g[k - 1])
    <2>1. k \in 0..m  OBVIOUS
    <2> HIDE DEF Bad
    <2>2. f[k] = IF k = 0 THEN tiles ELSE Deeper(f[k - 1])  BY <2>1 DEF IsLevels
    <2>3. g[k] = IF k = 0 THEN {c} ELSE Deeper(g[k - 1])  BY <2>1 DEF IsLevels
    <2> QED  BY <2>2, <2>3
  <1>3. CASE k = 0  BY <1>1, <1>2, <1>3
  <1>4. CASE k # 0
    <2>1. k - 1 \in 0..m /\ k - 1 \notin Bad  BY <1>1, <1>4
    <2>2. g[k - 1] \subseteq f[k - 1]  BY <2>1
    <2>3. Deeper(g[k - 1]) \subseteq Deeper(f[k - 1])  BY <2>2 DEF Deeper
    <2> QED  BY <1>1, <1>2, <1>4, <2>3
  <1> QED  BY <1>3, <1>4

\* The four quarters of a box, and the tile a tile becomes in one of them.
Quarter(b, q) ==
    LET midX == b[1] + (b[3] - b[1]) \div 2
        midY == b[2] + (b[4] - b[2]) \div 2
    IN  <<<<b[1], b[2], midX, midY>>, <<midX, b[2], b[3], midY>>,
          <<b[1], midY, midX, b[4]>>, <<midX, midY, b[3], b[4]>>>>[q]
PartOf(t, q) ==
    [id |-> <<(t.id[1] * 2) + ((q - 1) % 2), (t.id[2] * 2) + ((q - 1) \div 2), t.id[3] + 1>>,
     bbox |-> Quarter(t.bbox, q), rects |-> ClipAll(t.rects, Quarter(t.bbox, q))]

LEMMA QuadrantsAreParts ==
    ASSUME NEW t
    PROVE  Quadrants(t) = {part \in {PartOf(t, q) : q \in 1..4} : part.rects # <<>>}
  BY Zenon DEF Quadrants, PartOf, Quarter, Tile

\* A part has the id of its quarter, one level below the tile it is a part of.
LEMMA QuadrantsAre ==
    ASSUME NEW t, HasId(t), NEW part \in Quadrants(t)
    PROVE  \E q \in 1..4 :
             /\ part.id[1] = t.id[1] * 2 + ((q - 1) % 2)
             /\ part.id[2] = t.id[2] * 2 + ((q - 1) \div 2)
             /\ part.id[3] = t.id[3] + 1
             /\ HasId(part)
             /\ \A other \in Quadrants(t) :
                  other.id[1] = part.id[1] /\ other.id[2] = part.id[2] => other = part
  <1> DEFINE id(q) == PartOf(t, q).id
  <1>1. \A other \in Quadrants(t) : \E q \in 1..4 : other = PartOf(t, q)
    BY QuadrantsAreParts
  <1>2. PICK q \in 1..4 : part = PartOf(t, q)
    BY <1>1
  <1>3. t.id[1] \in Int /\ t.id[2] \in Int /\ t.id[3] \in Nat
    BY DEF HasId
  <1>4. \A p \in 1..4 : /\ id(p)[1] = t.id[1] * 2 + ((p - 1) % 2)
                        /\ id(p)[2] = t.id[2] * 2 + ((p - 1) \div 2)
                        /\ id(p)[3] = t.id[3] + 1
                        /\ id(p) = <<id(p)[1], id(p)[2], id(p)[3]>>
    BY DEF PartOf
  <1> HIDE DEF id
  <1>5. ASSUME NEW other \in Quadrants(t), other.id[1] = part.id[1], other.id[2] = part.id[2]
        PROVE  other = part
    <2>1. PICK p \in 1..4 : other = PartOf(t, p)
      BY <1>1
    <2>2. id(p)[1] = id(q)[1] /\ id(p)[2] = id(q)[2]
      BY <1>2, <1>5, <2>1 DEF id
    <2>3. (p - 1) % 2 = (q - 1) % 2 /\ (p - 1) \div 2 = (q - 1) \div 2
      BY <1>3, <1>4, <2>2
    <2>4. p = q
      BY <2>3
    <2> QED  BY <1>2, <2>1, <2>4
  <1>6. HasId(part)
    <2>1. (q - 1) % 2 \in Int /\ (q - 1) \div 2 \in Int
      OBVIOUS
    <2>2. id(q) \in Int \X Int \X Nat
      BY <1>3, <1>4, <2>1
    <2> QED  BY <1>2, <2>2 DEF HasId, id
  <1>7. part.id = id(q)
    BY <1>2 DEF id
  <1> QED  BY <1>4, <1>5, <1>6, <1>7

LEMMA ImageFinite ==
    ASSUME NEW f, IsFiniteSet(DOMAIN f), f = [x \in DOMAIN f |-> f[x]]
    PROVE  IsFiniteSet({f[x] : x \in DOMAIN f})
  <1> DEFINE T == {f[x] : x \in DOMAIN f}
  <1>1. f \in Surjection(DOMAIN f, T)
    BY DEF Surjection
  <1> HIDE DEF T
  <1>2. IsFiniteSet(T)
    BY <1>1, FS_Surjection
  <1> QED  BY <1>2 DEF T

LEMMA SplitFinite ==
    ASSUME NEW t PROVE IsFiniteSet(Split(t, Quadrants(t)))
  <1> DEFINE f == [q \in 1..4 |-> PartOf(t, q)]
  <1>1. IsFiniteSet(1..4)
    <2>1. 1 \in Int /\ 4 \in Int  OBVIOUS
    <2> QED  BY <2>1, FS_Interval, Zenon
  <1>2. IsFiniteSet({f[q] : q \in 1..4})
    BY <1>1, ImageFinite
  <1>3. Quadrants(t) \in SUBSET {f[q] : q \in 1..4}
    BY QuadrantsAreParts
  <1> HIDE DEF f
  <1>4. IsFiniteSet(Quadrants(t)) /\ IsFiniteSet({t})
    BY <1>2, <1>3, FS_Subset, FS_Singleton, Zenon
  <1> QED  BY <1>4 DEF Split

\* After d levels the tiles are finitely many, no two of one id, none deeper
\* than d, and those above are never split again.
GoodLevel(tiles, d) ==
    /\ IsFiniteSet(tiles)
    /\ \A t \in tiles : HasId(t) /\ t.id[3] <= d
    /\ \A t \in tiles : t.id[3] < d => IsKept(t, Quadrants(t))
    /\ \A s, t \in tiles : s.id = t.id => s = t

LEMMA DeeperIsGood ==
    ASSUME NEW d \in Nat, NEW tiles, GoodLevel(tiles, d)
    PROVE  GoodLevel(Deeper(tiles), d + 1)
  <1>0. /\ IsFiniteSet(tiles)
        /\ \A t \in tiles : HasId(t) /\ t.id[3] <= d
        /\ \A t \in tiles : t.id[3] < d => IsKept(t, Quadrants(t))
        /\ \A s, t \in tiles : s.id = t.id => s = t
    <2>1. IsFiniteSet(tiles)  BY Zenon DEF GoodLevel
    <2>2. \A t \in tiles : HasId(t) /\ t.id[3] <= d  BY Zenon DEF GoodLevel
    <2>3. \A t \in tiles : t.id[3] < d => IsKept(t, Quadrants(t))  BY Zenon DEF GoodLevel
    <2>4. \A s, t \in tiles : s.id = t.id => s = t  BY Zenon DEF GoodLevel
    <2> QED  BY <2>1, <2>2, <2>3, <2>4
  <1>1. IsFiniteSet(Deeper(tiles))
    <2> DEFINE f == [t \in tiles |-> Split(t, Quadrants(t))]
               S == {f[t] : t \in tiles}
    <2>1. IsFiniteSet(S)
      BY <1>0, ImageFinite
    <2>2. \A T \in S : IsFiniteSet(T)
      BY SplitFinite
    <2>3. Deeper(tiles) = UNION S
      BY DEF Deeper
    <2> HIDE DEF S
    <2> QED  BY <2>1, <2>2, <2>3, FS_UNION
  <1>2. ASSUME NEW u \in Deeper(tiles)
        PROVE  \E t \in tiles : \/ u = t /\ IsKept(t, Quadrants(t)) /\ u.id[3] <= d
                                \/ /\ u \in Quadrants(t) /\ t.id[3] = d
                                   /\ u.id[3] = d + 1 /\ HasId(u)
    <2>1. PICK t \in tiles : u \in Split(t, Quadrants(t))
      BY DEF Deeper
    <2>2. CASE IsKept(t, Quadrants(t))
      BY <1>0, <2>1, <2>2, Zenon DEF Split
    <2>3. CASE ~IsKept(t, Quadrants(t))
      <3>1. HasId(t) /\ t.id[3] <= d /\ ~(t.id[3] < d) /\ t.id[3] \in Nat
        <4>1. HasId(t) /\ t.id[3] <= d /\ ~(t.id[3] < d)  BY <1>0, <2>3, Zenon
        <4> QED  BY <4>1 DEF HasId
      <3>2. t.id[3] = d
        BY <3>1
      <3>3. u \in Quadrants(t)
        BY <2>1, <2>3 DEF Split
      <3>4. u.id[3] = t.id[3] + 1 /\ HasId(u)
        BY <3>1, <3>3, QuadrantsAre
      <3> QED  BY <3>2, <3>3, <3>4
    <2> QED  BY <2>2, <2>3
  <1>3. ASSUME NEW u \in Deeper(tiles)
        PROVE  HasId(u) /\ u.id[3] <= d + 1 /\ (u.id[3] < d + 1 => IsKept(u, Quadrants(u)))
    <2>1. PICK t \in tiles : \/ u = t /\ IsKept(t, Quadrants(t)) /\ u.id[3] <= d
                             \/ /\ u \in Quadrants(t) /\ t.id[3] = d
                                /\ u.id[3] = d + 1 /\ HasId(u)
      BY <1>2
    <2>2. HasId(u)
      BY <1>0, <2>1, Zenon
    <2>3. u.id[3] \in Nat
      BY <2>2 DEF HasId
    <2> QED  BY <2>1, <2>2, <2>3
  <1>4. ASSUME NEW u \in Deeper(tiles), NEW v \in Deeper(tiles), u.id = v.id PROVE u = v
    <2>1. PICK s \in tiles : \/ u = s /\ IsKept(s, Quadrants(s)) /\ u.id[3] <= d
                             \/ /\ u \in Quadrants(s) /\ s.id[3] = d
                                /\ u.id[3] = d + 1 /\ HasId(u)
      BY <1>2
    <2>2. PICK t \in tiles : \/ v = t /\ IsKept(t, Quadrants(t)) /\ v.id[3] <= d
                             \/ /\ v \in Quadrants(t) /\ t.id[3] = d
                                /\ v.id[3] = d + 1 /\ HasId(v)
      BY <1>2
    <2>3. ~(d + 1 <= d)  OBVIOUS
    <2>4. CASE u = s /\ v = t
      BY <1>0, <1>4, <2>4, Zenon
    <2>5. CASE u \in Quadrants(s) /\ v \in Quadrants(t) /\ s.id[3] = d /\ t.id[3] = d
      <3>1. HasId(s) /\ HasId(t)
        BY <1>0, Zenon
      <3>2. PICK q \in 1..4 :
              /\ u.id[1] = s.id[1] * 2 + ((q - 1) % 2)
              /\ u.id[2] = s.id[2] * 2 + ((q - 1) \div 2)
        BY <2>5, <3>1, QuadrantsAre
      <3>3. PICK p \in 1..4 :
              /\ v.id[1] = t.id[1] * 2 + ((p - 1) % 2)
              /\ v.id[2] = t.id[2] * 2 + ((p - 1) \div 2)
        BY <2>5, <3>1, QuadrantsAre
      <3>4. /\ s.id[1] \in Int /\ s.id[2] \in Int /\ t.id[1] \in Int /\ t.id[2] \in Int
            /\ s.id = <<s.id[1], s.id[2], s.id[3]>> /\ t.id = <<t.id[1], t.id[2], t.id[3]>>
        BY <3>1 DEF HasId
      <3>5. s.id[1] = t.id[1] /\ s.id[2] = t.id[2]
        <4>1. \A a, b \in Int : \A x, y \in 0..1 : a * 2 + x = b * 2 + y => a = b
          OBVIOUS
        <4>2. /\ (q - 1) % 2 \in 0..1 /\ (q - 1) \div 2 \in 0..1
              /\ (p - 1) % 2 \in 0..1 /\ (p - 1) \div 2 \in 0..1
          OBVIOUS
        <4>3. s.id[1] * 2 + ((q - 1) % 2) = t.id[1] * 2 + ((p - 1) % 2)
              /\ s.id[2] * 2 + ((q - 1) \div 2) = t.id[2] * 2 + ((p - 1) \div 2)
          BY <1>4, <3>2, <3>3
        <4> QED  BY <3>4, <4>1, <4>2, <4>3
      <3>6. s = t
        <4>1. s.id = t.id  BY <2>5, <3>4, <3>5
        <4> QED  BY <1>0, <4>1, Zenon
      <3>7. \A other \in Quadrants(s) : other.id[1] = u.id[1] /\ other.id[2] = u.id[2] => other = u
        BY <2>5, <3>1, QuadrantsAre
      <3> QED  BY <1>4, <2>5, <3>6, <3>7
    <2> QED  BY <1>4, <2>1, <2>2, <2>3, <2>4, <2>5
  <1> QED  BY <1>1, <1>3, <1>4 DEF GoodLevel

LEMMA CellsAreGood ==
    ASSUME NEW world, NEW rects
    PROVE  GoodLevel({c \in Cells(world, rects) : c.rects # <<>>}, 0)
  <1> DEFINE P == (0..(GridColumns - 1)) \X (0..(GridRows - 1))
             f == [p \in P |-> Tile(p[1], p[2], 0, TileBox(world, p[1], p[2]),
                                    Bucket(world, rects, p[1], p[2]))]
             C == {c \in Cells(world, rects) : c.rects # <<>>}
  <1>1. GridColumns - 1 \in Int /\ GridRows - 1 \in Int /\ 0 \in Int
    BY GridAssumption
  <1>2. IsFiniteSet(P)
    <2>1. IsFiniteSet(0..(GridColumns - 1)) /\ IsFiniteSet(0..(GridRows - 1))
      BY <1>1, FS_Interval, Zenon
    <2> QED  BY <2>1, FS_Product, Zenon
  <1>3. ASSUME NEW c \in Cells(world, rects)
        PROVE  \E p \in P : c = f[p] /\ c.id = <<p[1], p[2], 0>>
    <2>1. PICK x \in 0..(GridColumns - 1), y \in 0..(GridRows - 1) :
             c = Tile(x, y, 0, TileBox(world, x, y), Bucket(world, rects, x, y))
      BY DEF Cells
    <2>2. <<x, y>> \in P /\ c = f[<<x, y>>]
      BY <2>1
    <2>3. c.id = <<x, y, 0>>
      BY <2>1 DEF Tile
    <2> QED  BY <2>2, <2>3
  <1>4. IsFiniteSet(C)
    <2>1. IsFiniteSet({f[p] : p \in P})
      BY <1>2, ImageFinite
    <2>2. C \in SUBSET {f[p] : p \in P}
      BY <1>3
    <2> HIDE DEF C, f
    <2> QED  BY <2>1, <2>2, FS_Subset, Zenon
  <1>5. ASSUME NEW c \in C PROVE HasId(c) /\ c.id[3] = 0
    <2>1. PICK p \in P : c.id = <<p[1], p[2], 0>>
      BY <1>3
    <2>2. p[1] \in Int /\ p[2] \in Int
      BY <1>1
    <2> QED  BY <2>1, <2>2 DEF HasId
  <1>6. ASSUME NEW c \in C, NEW other \in C, c.id = other.id PROVE c = other
    <2>1. PICK p \in P : c = f[p] /\ c.id = <<p[1], p[2], 0>>
      BY <1>3
    <2>2. PICK q \in P : other = f[q] /\ other.id = <<q[1], q[2], 0>>
      BY <1>3
    <2>3. p = q
      BY <1>6, <2>1, <2>2
    <2> QED  BY <2>1, <2>2, <2>3
  <1>7. \A c \in C : HasId(c) /\ c.id[3] <= 0
    BY <1>5
  <1>8. \A c \in C : c.id[3] < 0 => IsKept(c, Quadrants(c))
    BY <1>5
  <1> HIDE DEF C
  <1>9. GoodLevel(C, 0)
    BY <1>4, <1>6, <1>7, <1>8 DEF GoodLevel
  <1> QED  BY <1>9 DEF C

LEMMA LevelsAreGood ==
    ASSUME NEW tiles, GoodLevel(tiles, 0), NEW m \in Nat, NEW f, IsLevels(f, tiles, m),
           NEW d \in 0..m
    PROVE  GoodLevel(f[d], d)
  <1> DEFINE Bad == {k \in 0..m : ~GoodLevel(f[k], k)}
  <1> SUFFICES ASSUME Bad # {} PROVE FALSE  OBVIOUS
  <1>1. PICK k \in Bad : \A j \in Bad : k <= j
    <2>1. Bad \subseteq Nat  OBVIOUS
    <2> HIDE DEF Bad
    <2> QED  BY <2>1, Smallest
  <1>2. f[k] = IF k = 0 THEN tiles ELSE Deeper(f[k - 1])
    <2>1. k \in 0..m  OBVIOUS
    <2> HIDE DEF Bad
    <2> QED  BY <2>1 DEF IsLevels
  <1>3. CASE k = 0  BY <1>1, <1>2, <1>3
  <1>4. CASE k # 0
    <2>1. k - 1 \in 0..m /\ k - 1 \notin Bad /\ k - 1 \in Nat  BY <1>1, <1>4
    <2>2. GoodLevel(f[k - 1], k - 1)  BY <2>1
    <2>3. GoodLevel(Deeper(f[k - 1]), (k - 1) + 1)  BY <2>1, <2>2, DeeperIsGood
    <2>4. (k - 1) + 1 = k  BY <2>1
    <2> QED  BY <1>1, <1>2, <1>4, <2>3, <2>4
  <1> QED  BY <1>3, <1>4

\* The tiles of the detail tileset, before they are put in order.
DetailSet(world, rects) ==
    UNION {Subdivide(c) : c \in {c \in Cells(world, rects) : c.rects # <<>>}}

LEMMA DetailSetIsGood ==
    ASSUME NEW world, NEW rects
    PROVE  /\ IsFiniteSet(DetailSet(world, rects))
           /\ \A t \in DetailSet(world, rects) : HasId(t)
           /\ \A s, t \in DetailSet(world, rects) : s.id = t.id => s = t
  <1> DEFINE C == {c \in Cells(world, rects) : c.rects # <<>>}
  <1>1. GoodLevel(C, 0)
    BY CellsAreGood
  <1> HIDE DEF C
  <1>2. PICK f : IsLevels(f, C, MaxDepth)
    BY LevelsExist, GridAssumption
  <1>3. GoodLevel(f[MaxDepth], MaxDepth)
    <2>1. MaxDepth \in Nat /\ MaxDepth \in 0..MaxDepth  BY GridAssumption
    <2> QED  BY <1>1, <1>2, <2>1, LevelsAreGood
  <1>4. ASSUME NEW c \in C PROVE Subdivide(c) \subseteq f[MaxDepth]
    <2>1. PICK g : IsLevels(g, {c}, MaxDepth) /\ Subdivide(c) = g[MaxDepth]
      BY SubdivideIs
    <2>2. MaxDepth \in Nat /\ MaxDepth \in 0..MaxDepth  BY GridAssumption
    <2> QED  BY <1>2, <2>1, <2>2, LevelsOfOne
  <1>5. DetailSet(world, rects) \in SUBSET f[MaxDepth]
    <2>1. DetailSet(world, rects) = UNION {Subdivide(c) : c \in C}  BY Zenon DEF DetailSet, C
    <2> QED  BY <1>4, <2>1
  <1>6. IsFiniteSet(f[MaxDepth])  BY <1>3, Zenon DEF GoodLevel
  <1>7. \A t \in f[MaxDepth] : HasId(t)  BY <1>3, Zenon DEF GoodLevel
  <1>8. \A s, t \in f[MaxDepth] : s.id = t.id => s = t  BY <1>3, Zenon DEF GoodLevel
  <1>9. IsFiniteSet(DetailSet(world, rects))  BY <1>5, <1>6, FS_Subset, Zenon
  <1> QED  BY <1>5, <1>7, <1>8, <1>9, Zenon

\* Tiles are sorted by depth, then row, then column.
LEMMA BeforeIs ==
    ASSUME NEW s, HasId(s), NEW t, HasId(t)
    PROVE  TileBefore(s, t) <=> \/ s.id[3] < t.id[3]
                                \/ s.id[3] = t.id[3] /\ s.id[2] < t.id[2]
                                \/ s.id[3] = t.id[3] /\ s.id[2] = t.id[2] /\ s.id[1] < t.id[1]
  <1> DEFINE a == <<s.id[3], s.id[2], s.id[1]>>
             b == <<t.id[3], t.id[2], t.id[1]>>
  <1>1. /\ DOMAIN a = 1..3 /\ a[1] = s.id[3] /\ a[2] = s.id[2] /\ a[3] = s.id[1]
        /\ b[1] = t.id[3] /\ b[2] = t.id[2] /\ b[3] = t.id[1]
    OBVIOUS
  <1>2. 1..(1 - 1) = {} /\ 1..(2 - 1) = {1} /\ 1..(3 - 1) = {1, 2} /\ 1..3 = {1, 2, 3}
    OBVIOUS
  <1>3. TileBefore(s, t) <=> \E i \in DOMAIN a : a[i] < b[i] /\ \A j \in 1..(i - 1) : a[j] = b[j]
    BY Zenon DEF TileBefore, Lexical
  <1> HIDE DEF a, b
  <1>4. TileBefore(s, t) <=> \/ a[1] < b[1]
                             \/ a[2] < b[2] /\ a[1] = b[1]
                             \/ a[3] < b[3] /\ a[1] = b[1] /\ a[2] = b[2]
    BY <1>1, <1>2, <1>3
  <1> QED  BY <1>1, <1>4

\* below[s] holds what comes before s in an order in which any two of T have a place.
OrdersAll(below, T) ==
    /\ below \in [T -> SUBSET T]
    /\ \A s \in T : s \notin below[s]
    /\ \A s, t \in T : s # t => s \in below[t] \/ t \in below[s]
    /\ \A s, t \in T : s \in below[t] => below[s] \subseteq below[t]

LEMMA RanksDiffer ==
    ASSUME NEW T, IsFiniteSet(T), NEW below, OrdersAll(below, T), NEW s \in T, NEW u \in T
    PROVE  /\ Cardinality(below[s]) \in 0..(Cardinality(T) - 1)
           /\ s # u => Cardinality(below[s]) # Cardinality(below[u])
  <1>1. /\ \A t \in T : below[t] \in SUBSET T /\ t \notin below[t]
        /\ \A t, v \in T : t # v => t \in below[v] \/ v \in below[t]
        /\ \A t, v \in T : t \in below[v] => below[t] \in SUBSET below[v]
    BY DEF OrdersAll
  <1>2. ASSUME NEW t \in T
        PROVE  IsFiniteSet(below[t]) /\ Cardinality(below[t]) \in Nat
    <2>1. IsFiniteSet(below[t])  BY <1>1, FS_Subset, Zenon
    <2> QED  BY <2>1, FS_CardinalityType
  <1>3. ASSUME NEW t \in T, NEW U, IsFiniteSet(U), below[t] \in SUBSET U, t \in U
        PROVE  Cardinality(below[t]) < Cardinality(U)
    <2>1. t \notin below[t]  BY <1>1
    <2>2. Cardinality(below[t]) <= Cardinality(U)  BY <1>3, FS_Subset, Zenon
    <2>3. Cardinality(U) = Cardinality(below[t]) => U = below[t]  BY <1>3, FS_Subset, Zenon
    <2>4. Cardinality(U) \in Nat  BY <1>3, FS_CardinalityType
    <2> QED  BY <1>2, <1>3, <2>1, <2>2, <2>3, <2>4
  <1>4. Cardinality(below[s]) \in 0..(Cardinality(T) - 1)
    <2>1. Cardinality(T) \in Nat  BY FS_CardinalityType
    <2>2. Cardinality(below[s]) < Cardinality(T)  BY <1>1, <1>3
    <2> QED  BY <1>2, <2>1, <2>2
  <1>5. ASSUME NEW t \in T, NEW v \in T, t \in below[v]
        PROVE  Cardinality(below[t]) < Cardinality(below[v])
    <2>1. below[t] \in SUBSET below[v]  BY <1>1, <1>5
    <2> QED  BY <1>2, <1>3, <1>5, <2>1
  <1>6. ASSUME s # u PROVE Cardinality(below[s]) # Cardinality(below[u])
    <2>1. CASE s \in below[u]  BY <1>2, <1>5, <2>1
    <2>2. CASE u \in below[s]  BY <1>2, <1>5, <2>2
    <2> QED  BY <1>1, <1>6, <2>1, <2>2
  <1> QED  BY <1>4, <1>6

Ranked(below, T) ==
    [i \in 1..Cardinality(T) |-> CHOOSE s \in T : Cardinality(below[s]) = i - 1]

\* Put in such an order, all are there, each once.
LEMMA AllInOrder ==
    ASSUME NEW T, IsFiniteSet(T), NEW below, OrdersAll(below, T), NEW all, all = Ranked(below, T)
    PROVE  /\ Cardinality(T) \in Nat /\ DOMAIN all = 1..Cardinality(T)
           /\ Len(all) = Cardinality(T)
           /\ \A i \in DOMAIN all : all[i] \in T
           /\ \A i, j \in DOMAIN all : all[i] = all[j] => i = j
           /\ \A s \in T : \E i \in DOMAIN all : all[i] = s
  <1> DEFINE n == Cardinality(T)
             rank == [s \in T |-> Cardinality(below[s])]
  <1>1. n \in Nat  BY FS_CardinalityType
  <1>2. rank \in Injection(T, 0..(n - 1))
    <2>1. rank \in [T -> 0..(n - 1)]  BY RanksDiffer
    <2>2. \A s, u \in T : rank[s] = rank[u] => s = u  BY RanksDiffer
    <2> HIDE DEF rank
    <2> QED  BY <2>1, <2>2 DEF Injection, IsInjective
  <1>3. IsFiniteSet(0..(n - 1)) /\ Cardinality(0..(n - 1)) = n
    <2>1. n - 1 \in Int /\ 0 \in Int  BY <1>1
    <2>2. /\ IsFiniteSet(0..(n - 1))
          /\ Cardinality(0..(n - 1)) = IF 0 > n - 1 THEN 0 ELSE (n - 1) - 0 + 1
      BY <2>1, FS_Interval, Zenon
    <2> HIDE DEF n
    <2> QED  BY <1>1, <2>2
  <1>4. rank \in Surjection(T, 0..(n - 1))
    <2> HIDE DEF rank
    <2>1. Cardinality(T) = Cardinality(0..(n - 1))  BY <1>3
    <2> QED  BY <1>2, <1>3, <2>1, FS_Injection, Zenon
  <1>5. ASSUME NEW i \in 1..n PROVE all[i] \in T /\ rank[all[i]] = i - 1
    <2>1. i - 1 \in 0..(n - 1)  BY <1>1
    <2>2. \E s \in T : rank[s] = i - 1
      <3> HIDE DEF rank
      <3> QED  BY <1>4, <2>1 DEF Surjection
    <2>3. \E s \in T : Cardinality(below[s]) = i - 1  BY <2>2
    <2>4. all[i] = CHOOSE s \in T : Cardinality(below[s]) = i - 1  BY Zenon DEF Ranked
    <2>5. all[i] \in T /\ Cardinality(below[all[i]]) = i - 1  BY <2>3, <2>4, Zenon
    <2> QED  BY <2>5
  <1>6. DOMAIN all = 1..n  BY Zenon DEF Ranked
  <1>7. Len(all) = n
    <2>1. all \in [1..n -> T]
      <3>1. all = [i \in 1..n |-> all[i]]  BY DEF Ranked
      <3> HIDE DEF n
      <3> QED  BY <1>5, <3>1
    <2> HIDE DEF n
    <2> QED  BY <1>1, <2>1, SeqDef
  <1>8. ASSUME NEW i \in 1..n, NEW j \in 1..n, all[i] = all[j] PROVE i = j
    <2> HIDE DEF rank, n
    <2>1. i - 1 = j - 1  BY <1>5, <1>8
    <2> QED  BY <1>1, <2>1
  <1>9. ASSUME NEW s \in T PROVE \E i \in 1..n : all[i] = s
    <2>1. rank[s] \in 0..(n - 1) /\ rank \in [T -> 0..(n - 1)]  BY <1>2 DEF Injection
    <2> DEFINE i == rank[s] + 1
    <2>2. i \in 1..n /\ i - 1 = rank[s]  BY <1>1, <2>1
    <2> HIDE DEF i
    <2>3. all[i] \in T /\ rank[all[i]] = rank[s]  BY <1>5, <2>2
    <2> HIDE DEF rank
    <2>4. all[i] = s  BY <1>2, <2>3 DEF Injection, IsInjective
    <2> QED  BY <2>2, <2>4
  <1> QED  BY <1>1, <1>5, <1>6, <1>7, <1>8, <1>9, Zenon

\* Tiles of different ids, put in order, are each there once.
LEMMA TilesInOrder ==
    ASSUME NEW T, IsFiniteSet(T), \A t \in T : HasId(t), \A t, v \in T : t.id = v.id => t = v
    PROVE  LET all == InOrder(T, TileBefore)
           IN  /\ Cardinality(T) \in Nat /\ DOMAIN all = 1..Cardinality(T)
               /\ Len(all) = Cardinality(T)
               /\ \A i \in DOMAIN all : all[i] \in T
               /\ \A i, j \in DOMAIN all : all[i].id = all[j].id => i = j
               /\ \A s \in T : \E i \in DOMAIN all : all[i] = s
  <1> DEFINE below == [s \in T |-> {t \in T : TileBefore(t, s)}]
             all == InOrder(T, TileBefore)
  <1>1. \A x, y \in T :
          TileBefore(x, y) <=> \/ x.id[3] < y.id[3]
                               \/ x.id[3] = y.id[3] /\ x.id[2] < y.id[2]
                               \/ x.id[3] = y.id[3] /\ x.id[2] = y.id[2] /\ x.id[1] < y.id[1]
    BY BeforeIs
  <1>2. \A x \in T : /\ x.id[1] \in Int /\ x.id[2] \in Int /\ x.id[3] \in Int
                     /\ x.id = <<x.id[1], x.id[2], x.id[3]>>
    BY DEF HasId
  <1>3. ASSUME NEW t \in T PROVE ~TileBefore(t, t)
    BY <1>1, <1>2
  <1>4. ASSUME NEW t \in T, NEW v \in T, t # v PROVE TileBefore(t, v) \/ TileBefore(v, t)
    <2>1. t.id[1] # v.id[1] \/ t.id[2] # v.id[2] \/ t.id[3] # v.id[3]
      <3>1. t.id # v.id  BY <1>4
      <3> QED  BY <1>2, <3>1
    <2> QED  BY <1>1, <1>2, <2>1
  <1>5. ASSUME NEW t \in T, NEW v \in T, NEW x \in T, TileBefore(t, v), TileBefore(x, t)
        PROVE  TileBefore(x, v)
    BY <1>1, <1>2, <1>5
  <1>6. OrdersAll(below, T)
    BY <1>3, <1>4, <1>5 DEF OrdersAll
  <1>7. all = Ranked(below, T)
    <2>1. all = [i \in 1..Cardinality(T) |->
                   CHOOSE s \in T : Cardinality({t \in T : TileBefore(t, s)}) = i - 1]
      BY Zenon DEF InOrder
    <2>2. \A s \in T : below[s] = {t \in T : TileBefore(t, s)}
      BY Zenon
    <2>3. ASSUME NEW i
          PROVE (CHOOSE s \in T : Cardinality(below[s]) = i - 1)
                  = (CHOOSE s \in T : Cardinality({t \in T : TileBefore(t, s)}) = i - 1)
      BY <2>2
    <2> HIDE DEF below
    <2> QED  BY <2>1, <2>3, Zenon DEF Ranked
  <1> HIDE DEF below, all
  <1>8. /\ Cardinality(T) \in Nat /\ DOMAIN all = 1..Cardinality(T) /\ Len(all) = Cardinality(T)
        /\ \A i \in DOMAIN all : all[i] \in T
        /\ \A i, j \in DOMAIN all : all[i] = all[j] => i = j
        /\ \A s \in T : \E i \in DOMAIN all : all[i] = s
    BY <1>6, <1>7, AllInOrder
  <1> QED  BY <1>8 DEF all

\* Whatever a tileset is made from, it has finitely many tiles, and no two of one id:
\* what is cached under the id of a tile is that of no other.
THEOREM TileIdsDiffer ==
    ASSUME NEW world, NEW rects
    PROVE  LET tiles == DetailTiles(world, rects)
           IN  /\ Len(tiles) \in Nat /\ DOMAIN tiles = 1..Len(tiles)
               /\ \A i, j \in DOMAIN tiles : tiles[i].id = tiles[j].id => i = j
  <1> DEFINE T == DetailSet(world, rects)
             tiles == DetailTiles(world, rects)
  <1>1. /\ IsFiniteSet(T) /\ \A t \in T : HasId(t)
        /\ \A t, v \in T : t.id = v.id => t = v
    BY DetailSetIsGood
  <1>2. tiles = InOrder(T, TileBefore)
    BY Zenon DEF DetailTiles, DetailSet, InOrder
  <1> HIDE DEF T, tiles
  <1>3. /\ Cardinality(T) \in Nat /\ DOMAIN tiles = 1..Cardinality(T)
        /\ Len(tiles) = Cardinality(T)
        /\ \A i, j \in DOMAIN tiles : tiles[i].id = tiles[j].id => i = j
    BY <1>1, <1>2, TilesInOrder
  <1>4. /\ Len(tiles) \in Nat /\ DOMAIN tiles = 1..Len(tiles)
        /\ \A i, j \in DOMAIN tiles : tiles[i].id = tiles[j].id => i = j
    BY <1>3
  <1> QED  BY <1>4 DEF tiles

-----------------------------------------------------------------------------
(***************************************************************************)
(* What a tile holds: records cut to boxes of integers.                    *)
(***************************************************************************)

IsBox(b) == /\ b[1] \in Int /\ b[2] \in Int /\ b[3] \in Int /\ b[4] \in Int

LEMMA FourIsBox ==
    ASSUME NEW a \in Int, NEW b \in Int, NEW c \in Int, NEW d \in Int
    PROVE  <<a, b, c, d>> \in RecordBoxes
  BY DEF RecordBoxes

LEMMA RecordIsBox ==
    ASSUME NEW b \in RecordBoxes PROVE IsBox(b)
  <1>1. b \in Seq(Int) /\ Len(b) = 4  BY DEF RecordBoxes
  <1>2. \A i \in 1..4 : b[i] \in Int  BY <1>1, ElementOfSeq
  <1> QED  BY <1>2 DEF IsBox

LEMMA ClipTyped ==
    ASSUME NEW rec \in Records, NEW box, IsBox(box)
    PROVE  Clip(rec, box) \in Seq(Records)
  <1> DEFINE common == Common(rec.box, box)
  <1>1. rec.box \in RecordBoxes /\ IsBox(rec.box)
    <2>1. rec.box \in RecordBoxes  BY DEF Records
    <2> QED  BY <2>1, RecordIsBox
  <1>2. common \in RecordBoxes
    <2>1. /\ Most(rec.box[1], box[1]) \in Int /\ Most(rec.box[2], box[2]) \in Int
          /\ Least(rec.box[3], box[3]) \in Int /\ Least(rec.box[4], box[4]) \in Int
      BY <1>1 DEF IsBox, Most, Least
    <2> QED  BY <2>1, FourIsBox DEF Common
  <1> HIDE DEF common
  <1>3. CASE ValidBox(common) = NoBox
    <2>1. Clip(rec, box) = <<>>  BY <1>3 DEF Clip, common
    <2> QED  BY <2>1, EmptySeq
  <1>4. CASE ValidBox(common) # NoBox
    <2>1. ValidBox(common) = common  BY <1>4 DEF ValidBox
    <2>2. Clip(rec, box) = <<[rec EXCEPT !.box = common]>>  BY <1>4, <2>1 DEF Clip, common
    <2>3. [rec EXCEPT !.box = common] \in Records  BY <1>2 DEF Records
    <2> QED  BY <2>2, <2>3
  <1> QED  BY <1>3, <1>4

LEMMA FlatTyped ==
    ASSUME NEW S, NEW n \in Nat, NEW seqs, seqs \in [1..n -> Seq(S)]
    PROVE  FlattenSeq(seqs) \in Seq(S)
  <1>1. seqs \in Seq(Seq(S)) /\ Len(seqs) = n
    BY SeqDef
  <1> QED  BY <1>1, UptoTyped, UptoAll

LEMMA ClipAllTyped ==
    ASSUME NEW rects \in Seq(Records), NEW box, IsBox(box)
    PROVE  ClipAll(rects, box) \in Seq(Records)
  <1> DEFINE parts == [i \in DOMAIN rects |-> Clip(rects[i], box)]
  <1>1. Len(rects) \in Nat /\ DOMAIN rects = 1..Len(rects) /\ \A i \in DOMAIN rects : rects[i] \in Records
    BY ElementOfSeq
  <1>2. parts \in [1..Len(rects) -> Seq(Records)]
    BY <1>1, ClipTyped
  <1>3. ClipAll(rects, box) = FlattenSeq(parts)
    BY Zenon DEF ClipAll
  <1> HIDE DEF parts
  <1> QED  BY <1>1, <1>2, <1>3, FlatTyped

LEMMA RoundDivTyped ==
    ASSUME NEW n \in Int, NEW d \in Nat \ {0} PROVE RoundDiv(n, d) \in Int
  <1>1. 2 * d \in Nat \ {0} /\ 2 * n + d \in Int /\ d - 2 * n \in Int  OBVIOUS
  <1>2. \A a \in Int, b \in Nat \ {0} : a \div b \in Int /\ -(a \div b) \in Int  OBVIOUS
  <1> QED  BY <1>1, <1>2 DEF RoundDiv

LEMMA TileBoxTyped ==
    ASSUME NEW world, IsBox(world), NEW x \in Int, NEW y \in Int
    PROVE  IsBox(TileBox(world, x, y))
  <1> DEFINE atX(i) == RoundDiv(world[1] * GridColumns + Width(world) * i, GridColumns)
             atY(i) == RoundDiv(world[2] * GridRows + Height(world) * i, GridRows)
  <1>1. GridColumns \in Nat \ {0} /\ GridRows \in Nat \ {0}  BY GridAssumption
  <1>2. Width(world) \in Int /\ Height(world) \in Int  BY DEF IsBox, Width, Height, Most
  <1>3. ASSUME NEW i \in Int PROVE atX(i) \in Int /\ atY(i) \in Int
    <2>1. /\ world[1] * GridColumns + Width(world) * i \in Int
          /\ world[2] * GridRows + Height(world) * i \in Int
      BY <1>1, <1>2 DEF IsBox
    <2> QED  BY <1>1, <2>1, RoundDivTyped
  <1>4. x + 1 \in Int /\ y + 1 \in Int  OBVIOUS
  <1>5. TileBox(world, x, y) = <<atX(x), atY(y),
                                 IF x + 1 = GridColumns THEN world[3] ELSE atX(x + 1),
                                 IF y + 1 = GridRows THEN world[4] ELSE atY(y + 1)>>
    BY Zenon DEF TileBox
  <1> HIDE DEF atX, atY
  <1> QED  BY <1>3, <1>4, <1>5 DEF IsBox

LEMMA BucketTyped ==
    ASSUME NEW world, IsBox(world), NEW rects \in Seq(Records), NEW x \in Int, NEW y \in Int
    PROVE  Bucket(world, rects, x, y) \in Seq(Records)
  <1> DEFINE box == TileBox(world, x, y)
             isHere(r) == /\ ~IsShared(r.kind) /\ ~IsLarge(world, r)
                          /\ x \in TileRange(world, r.box).xs
                          /\ y \in TileRange(world, r.box).ys
             parts == [i \in DOMAIN rects |->
                         IF isHere(rects[i]) THEN Clip(rects[i], box) ELSE <<>>]
  <1>1. Len(rects) \in Nat /\ DOMAIN rects = 1..Len(rects) /\ \A i \in DOMAIN rects : rects[i] \in Records
    BY ElementOfSeq
  <1>2. IsBox(box)  BY TileBoxTyped
  <1>3. Bucket(world, rects, x, y) = FlattenSeq(parts)
    BY Zenon DEF Bucket
  <1> HIDE DEF box, isHere
  <1>4. parts \in [1..Len(rects) -> Seq(Records)]
    <2>1. \A i \in 1..Len(rects) : Clip(rects[i], box) \in Seq(Records)  BY <1>1, <1>2, ClipTyped
    <2>2. <<>> \in Seq(Records)  BY EmptySeq
    <2> QED  BY <1>1, <2>1, <2>2
  <1> HIDE DEF parts
  <1> QED  BY <1>1, <1>3, <1>4, FlatTyped

IsTyped(t) == IsBox(t.bbox) /\ t.rects \in Seq(Records)

LEMMA QuarterTyped ==
    ASSUME NEW b, IsBox(b), NEW q \in 1..4 PROVE IsBox(Quarter(b, q))
  <1> DEFINE midX == b[1] + (b[3] - b[1]) \div 2
             midY == b[2] + (b[4] - b[2]) \div 2
  <1>1. midX \in Int /\ midY \in Int  BY DEF IsBox
  <1>2. q \in {1, 2, 3, 4}  OBVIOUS
  <1>3. Quarter(b, q) = <<<<b[1], b[2], midX, midY>>, <<midX, b[2], b[3], midY>>,
                          <<b[1], midY, midX, b[4]>>, <<midX, midY, b[3], b[4]>>>>[q]
    BY Zenon DEF Quarter
  <1> HIDE DEF midX, midY
  <1> QED  BY <1>1, <1>2, <1>3 DEF IsBox

LEMMA QuadrantTyped ==
    ASSUME NEW t, IsTyped(t), NEW part \in Quadrants(t) PROVE IsTyped(part)
  <1>1. PICK q \in 1..4 : part = PartOf(t, q)
    BY QuadrantsAreParts
  <1>2. part.bbox = Quarter(t.bbox, q) /\ part.rects = ClipAll(t.rects, Quarter(t.bbox, q))
    BY <1>1 DEF PartOf
  <1>3. IsBox(t.bbox) /\ t.rects \in Seq(Records)
    BY DEF IsTyped
  <1> QED  BY <1>2, <1>3, QuarterTyped, ClipAllTyped DEF IsTyped

LEMMA LevelsTyped ==
    ASSUME NEW tiles, \A t \in tiles : IsTyped(t), NEW m \in Nat, NEW f, IsLevels(f, tiles, m),
           NEW d \in 0..m
    PROVE  \A t \in f[d] : IsTyped(t)
  <1> DEFINE Bad == {k \in 0..m : ~ \A t \in f[k] : IsTyped(t)}
  <1> SUFFICES ASSUME Bad # {} PROVE FALSE  OBVIOUS
  <1>1. PICK k \in Bad : \A j \in Bad : k <= j
    <2>1. Bad \subseteq Nat  OBVIOUS
    <2> HIDE DEF Bad
    <2> QED  BY <2>1, Smallest
  <1>2. f[k] = IF k = 0 THEN tiles ELSE Deeper(f[k - 1])
    <2>1. k \in 0..m  OBVIOUS
    <2> HIDE DEF Bad
    <2> QED  BY <2>1 DEF IsLevels
  <1>3. CASE k = 0  BY <1>1, <1>2, <1>3
  <1>4. CASE k # 0
    <2>1. k - 1 \in 0..m /\ k - 1 \notin Bad  BY <1>1, <1>4
    <2>2. \A t \in f[k - 1] : IsTyped(t)  BY <2>1
    <2>3. ASSUME NEW u \in Deeper(f[k - 1]) PROVE IsTyped(u)
      <3>1. PICK t \in f[k - 1] : u \in Split(t, Quadrants(t))  BY DEF Deeper
      <3>2. u = t \/ u \in Quadrants(t)  BY <3>1 DEF Split
      <3> QED  BY <2>2, <3>2, QuadrantTyped
    <2> QED  BY <1>1, <1>2, <1>4, <2>3
  <1> QED  BY <1>3, <1>4

\* Every tile of a tileset holds records that its file can say.
LEMMA DetailSetTyped ==
    ASSUME NEW world, IsBox(world), NEW rects \in Seq(Records), NEW t \in DetailSet(world, rects)
    PROVE  IsTyped(t)
  <1>1. PICK c \in Cells(world, rects) : t \in Subdivide(c)
    BY DEF DetailSet
  <1>2. PICK x \in 0..(GridColumns - 1), y \in 0..(GridRows - 1) :
           c = Tile(x, y, 0, TileBox(world, x, y), Bucket(world, rects, x, y))
    BY DEF Cells
  <1>3. x \in Int /\ y \in Int  BY GridAssumption
  <1>4. IsTyped(c)
    <2>1. IsBox(TileBox(world, x, y)) /\ Bucket(world, rects, x, y) \in Seq(Records)
      BY <1>3, TileBoxTyped, BucketTyped
    <2>2. c.bbox = TileBox(world, x, y) /\ c.rects = Bucket(world, rects, x, y)
      BY <1>2 DEF Tile
    <2> QED  BY <2>1, <2>2 DEF IsTyped
  <1>5. PICK f : IsLevels(f, {c}, MaxDepth) /\ Subdivide(c) = f[MaxDepth]
    BY SubdivideIs
  <1>6. \A u \in f[MaxDepth] : IsTyped(u)
    <2>1. MaxDepth \in Nat /\ MaxDepth \in 0..MaxDepth  BY GridAssumption
    <2>2. \A u \in {c} : IsTyped(u)  BY <1>4
    <2> QED  BY <1>5, <2>1, <2>2, LevelsTyped
  <1> QED  BY <1>1, <1>5, <1>6

LEMMA DetailTilesTyped ==
    ASSUME NEW world, IsBox(world), NEW rects \in Seq(Records),
           NEW k \in DOMAIN DetailTiles(world, rects)
    PROVE  DetailTiles(world, rects)[k].rects \in Seq(Records)
  <1> DEFINE T == DetailSet(world, rects)
             tiles == DetailTiles(world, rects)
  <1>1. /\ IsFiniteSet(T) /\ \A t \in T : HasId(t)
        /\ \A t, v \in T : t.id = v.id => t = v
    BY DetailSetIsGood
  <1>2. tiles = InOrder(T, TileBefore)
    BY Zenon DEF DetailTiles, DetailSet, InOrder
  <1>3. ASSUME NEW t \in T PROVE t.rects \in Seq(Records)
    BY <1>3, DetailSetTyped DEF IsTyped
  <1> HIDE DEF T, tiles
  <1>4. \A i \in DOMAIN tiles : tiles[i] \in T
    BY <1>1, <1>2, TilesInOrder
  <1>5. tiles[k].rects \in Seq(Records)
    BY <1>3, <1>4 DEF tiles
  <1> QED  BY <1>5 DEF tiles

-----------------------------------------------------------------------------
(***************************************************************************)
(* The tile cache.                                                         *)
(***************************************************************************)

\* The order of use names each of these, once.
Orders(order, ids) ==
    order \in Seq(ids) /\ IsInjective(order) /\ Range(order) = ids

OrderlyCache(cache, most) ==
    Orders(cache.order, DOMAIN cache.entries) /\ Len(cache.order) <= most

LEMMA OrderCounts ==
    ASSUME NEW order, NEW ids, Orders(order, ids)
    PROVE  Len(order) = Cardinality(ids)
  <1>1. Len(order) \in Nat /\ DOMAIN order = 1..Len(order) /\ order \in [1..Len(order) -> ids]
    BY LenProperties DEF Orders
  <1>2. order \in Bijection(1..Len(order), ids)
    BY <1>1 DEF Orders, IsInjective, Range, Bijection, Injection, Surjection
  <1> QED  BY <1>1, <1>2, FS_CountingElements DEF ExistsBijection

LEMMA OrderEmpty == Orders(<<>>, {})
  BY EmptySeq DEF Orders, IsInjective, Range

\* An id that is new comes last.
LEMMA OrderGrows ==
    ASSUME NEW order, NEW ids, Orders(order, ids), NEW id, id \notin ids
    PROVE  Orders(Append(order, id), ids \cup {id}) /\ Len(Append(order, id)) = Len(order) + 1
  <1> DEFINE all == ids \cup {id}
             new == Append(order, id)
  <1>1. order \in Seq(ids) /\ order \in Seq(all) /\ Len(order) \in Nat /\ DOMAIN order = 1..Len(order)
    BY SeqMonotonic, LenProperties DEF Orders
  <1>2. /\ new \in Seq(all) /\ Len(new) = Len(order) + 1 /\ new[Len(order) + 1] = id
        /\ \A i \in 1..Len(order) : new[i] = order[i]
    BY <1>1, AppendProperties
  <1>3. DOMAIN new = 1..(Len(order) + 1)
    BY <1>2, LenProperties
  <1>4. \A i \in 1..Len(order) : order[i] \in ids
    BY <1>1, ElementOfSeq
  <1> HIDE DEF new
  <1>5. IsInjective(new)
    <2> SUFFICES ASSUME NEW i \in 1..(Len(order) + 1), NEW j \in 1..(Len(order) + 1), new[i] = new[j]
                 PROVE  i = j
      BY <1>3 DEF IsInjective
    <2>1. CASE i \in 1..Len(order) /\ j \in 1..Len(order)
      BY <1>1, <1>2, <2>1 DEF Orders, IsInjective
    <2>2. CASE i = Len(order) + 1 \/ j = Len(order) + 1
      BY <1>1, <1>2, <1>4, <2>2
    <2> QED  BY <1>1, <2>1, <2>2
  <1>6. Range(new) = all
    <2>1. ASSUME NEW x \in all PROVE x \in Range(new)
      <3>1. CASE x = id
        <4>1. Len(order) + 1 \in DOMAIN new  BY <1>1, <1>3
        <4> QED  BY <1>2, <3>1, <4>1 DEF Range
      <3>2. CASE x \in ids
        <4>1. PICK i \in 1..Len(order) : order[i] = x  BY <1>1, <3>2 DEF Orders, Range
        <4>2. i \in DOMAIN new /\ new[i] = x  BY <1>1, <1>2, <1>3, <4>1
        <4> QED  BY <4>2 DEF Range
      <3> QED  BY <3>1, <3>2
    <2>2. ASSUME NEW i \in DOMAIN new PROVE new[i] \in all
      <3>1. i \in 1..Len(order) \/ i = Len(order) + 1  BY <1>1, <1>3
      <3> QED  BY <1>2, <1>4, <3>1
    <2> QED  BY <2>1, <2>2 DEF Range
  <1> QED  BY <1>2, <1>5, <1>6 DEF Orders, new

\* A part of the order is an order of what it names.
LEMMA OrderDrops ==
    ASSUME NEW order, NEW ids, Orders(order, ids), NEW k \in 0..Len(order)
    PROVE  LET kept == SubSeq(order, k + 1, Len(order))
           IN  Orders(kept, Range(kept)) /\ Range(kept) \subseteq ids /\ Len(kept) = Len(order) - k
  <1> DEFINE kept == SubSeq(order, k + 1, Len(order))
  <1>1. order \in Seq(ids) /\ Len(order) \in Nat /\ DOMAIN order = 1..Len(order)
        /\ \A i \in 1..Len(order) : order[i] \in ids
    BY LenProperties, ElementOfSeq DEF Orders
  <1>2. k + 1 \in Int /\ Len(order) \in Int /\ \A i \in (k + 1)..Len(order) : order[i] \in ids
    BY <1>1
  <1>3. /\ kept \in Seq(ids)
        /\ Len(kept) = IF k + 1 <= Len(order) THEN Len(order) - (k + 1) + 1 ELSE 0
        /\ \A i \in 1..(Len(order) - (k + 1) + 1) : kept[i] = order[k + 1 + i - 1]
    BY <1>2, SubSeqProperties
  <1> HIDE DEF kept
  <1>4. Len(kept) = Len(order) - k /\ Len(kept) \in Nat
    <2>1. PICK n \in Nat : n = Len(order)  BY <1>1
    <2>2. k \in Nat /\ k <= n /\ Len(kept) = IF k + 1 <= n THEN n - (k + 1) + 1 ELSE 0
      BY <1>3, <2>1
    <2>3. Len(kept) = n - k /\ n - k \in Nat
      BY <2>2
    <2> QED  BY <2>1, <2>3
  <1>5. \A i \in 1..Len(kept) : kept[i] = order[k + i] /\ k + i \in 1..Len(order)
    <2> TAKE i \in 1..Len(kept)
    <2>1. i \in 1..(Len(order) - (k + 1) + 1) /\ k + 1 + i - 1 = k + i /\ k + i \in 1..Len(order)
      BY <1>1, <1>4
    <2>2. kept[i] = order[k + 1 + i - 1]
      BY <1>3, <2>1
    <2> QED  BY <2>1, <2>2
  <1>6. DOMAIN kept = 1..Len(kept)
    BY <1>3, LenProperties
  <1>7. IsInjective(kept)
    <2> SUFFICES ASSUME NEW i \in 1..Len(kept), NEW j \in 1..Len(kept), kept[i] = kept[j]
                 PROVE  i = j
      BY <1>6 DEF IsInjective
    <2>1. order[k + i] = order[k + j] /\ k + i \in DOMAIN order /\ k + j \in DOMAIN order
      BY <1>1, <1>5
    <2>2. k + i = k + j
      BY <2>1 DEF Orders, IsInjective
    <2> QED  BY <1>4, <2>2
  <1>8. Range(kept) \subseteq ids
    BY <1>1, <1>5, <1>6 DEF Range
  <1>9. kept \in Seq(Range(kept))
    <2>1. kept \in [1..Len(kept) -> Range(kept)]
      BY <1>3, <1>6, LenProperties DEF Range
    <2> QED  BY <1>4, <2>1, SeqDef
  <1> QED  BY <1>4, <1>7, <1>8, <1>9 DEF Orders, kept

\* RemoveFirst takes out the one place where the id is.
LEMMA OrderLoses ==
    ASSUME NEW order, NEW ids, Orders(order, ids), NEW id \in ids
    PROVE  Orders(RemoveFirst(order, id), ids \ {id}) /\ Len(RemoveFirst(order, id)) = Len(order) - 1
  <1> DEFINE rest == ids \ {id}
             new == RemoveFirst(order, id)
             n == Len(order)
  <1>1. /\ order \in Seq(ids) /\ n \in Nat /\ DOMAIN order = 1..n
        /\ \A i \in 1..n : order[i] \in ids
    BY LenProperties, ElementOfSeq DEF Orders
  <1>2. PICK at \in 1..n : order[at] = id
    BY <1>1 DEF Orders, Range
  <1>3. \A i \in 1..n : order[i] = id => i = at
    BY <1>1, <1>2 DEF Orders, IsInjective
  <1> DEFINE p == SubSeq(order, 1, at - 1)
             q == SubSeq(order, at + 1, n)
  <1>4. new = p \o q
    <2>1. {i \in 1..n : order[i] = id} = {at}
      BY <1>2, <1>3
    <2>2. SelectInSeq(order, LAMBDA v : v = id) = at
      <3>1. Min({at}) = at  BY <1>1 DEF Min
      <3> QED  BY <2>1, <3>1 DEF SelectInSeq
    <2>3. \E i \in 1..Len(order) : order[i] = id
      BY <1>2
    <2> QED  BY <2>2, <2>3 DEF RemoveFirst, RemoveAt
  <1>5. p \in Seq(rest) /\ Len(p) = at - 1 /\ \A i \in 1..(at - 1) : p[i] = order[i]
    <2>1. 1 \in Int /\ at - 1 \in Int /\ \A i \in 1..(at - 1) : order[i] \in rest
      BY <1>1, <1>3
    <2>2. /\ p \in Seq(rest) /\ Len(p) = IF 1 <= at - 1 THEN at - 1 - 1 + 1 ELSE 0
          /\ \A i \in 1..(at - 1 - 1 + 1) : p[i] = order[1 + i - 1]
      BY <2>1, SubSeqProperties
    <2> HIDE DEF p
    <2>3. at \in Nat \ {0} /\ at - 1 - 1 + 1 = at - 1 /\ \A i \in Nat : 1 + i - 1 = i
      BY <1>1
    <2> QED  BY <2>2, <2>3
  <1>6. q \in Seq(rest) /\ Len(q) = n - at /\ \A i \in 1..(n - at) : q[i] = order[at + i]
    <2>1. at + 1 \in Int /\ n \in Int /\ \A i \in (at + 1)..n : order[i] \in rest
      BY <1>1, <1>3
    <2>2. /\ q \in Seq(rest) /\ Len(q) = IF at + 1 <= n THEN n - (at + 1) + 1 ELSE 0
          /\ \A i \in 1..(n - (at + 1) + 1) : q[i] = order[at + 1 + i - 1]
      BY <2>1, SubSeqProperties
    <2> HIDE DEF q, n
    <2>3. n - (at + 1) + 1 = n - at /\ \A i \in Nat : at + 1 + i - 1 = at + i
      BY <1>1
    <2> QED  BY <1>1, <2>2, <2>3
  <1> HIDE DEF p, q, new, n
  <1> DEFINE old(i) == IF i < at THEN i ELSE i + 1
  <1>7. /\ p \o q \in Seq(rest) /\ Len(p \o q) = n - 1
        /\ \A i \in 1..(n - 1) : (p \o q)[i] = order[old(i)] /\ old(i) \in 1..n /\ old(i) # at
    <2>1. /\ p \o q \in Seq(rest) /\ Len(p \o q) = Len(p) + Len(q)
          /\ \A i \in 1..Len(p) + Len(q) : (p \o q)[i] = IF i <= Len(p) THEN p[i] ELSE q[i - Len(p)]
      BY <1>5, <1>6, ConcatProperties
    <2>2. ASSUME NEW i \in 1..(n - 1)
          PROVE  (p \o q)[i] = order[old(i)] /\ old(i) \in 1..n /\ old(i) # at
      <3>1. i \in 1..Len(p) + Len(q)  BY <1>1, <1>5, <1>6
      <3>2. CASE i < at
        <4>1. i \in 1..(at - 1) /\ i <= Len(p) /\ i \in 1..n  BY <1>1, <1>5, <3>2
        <4> QED  BY <1>5, <2>1, <3>1, <3>2, <4>1
      <3>3. CASE ~(i < at)
        <4>1. i - Len(p) \in 1..(n - at) /\ ~(i <= Len(p)) /\ at + (i - Len(p)) = i + 1 /\ i + 1 \in 1..n
              /\ i + 1 # at
          BY <1>1, <1>5, <3>3
        <4> QED  BY <1>6, <2>1, <3>1, <3>3, <4>1
      <3> QED  BY <3>2, <3>3
    <2>3. Len(p) + Len(q) = n - 1  BY <1>1, <1>5, <1>6
    <2> QED  BY <2>1, <2>2, <2>3
  <1>8. IsInjective(new)
    <2>1. DOMAIN new = 1..(n - 1)
      BY <1>4, <1>7, LenProperties
    <2> SUFFICES ASSUME NEW i \in 1..(n - 1), NEW j \in 1..(n - 1), new[i] = new[j]
                 PROVE  i = j
      BY <2>1 DEF IsInjective
    <2>2. order[old(i)] = order[old(j)] /\ old(i) \in DOMAIN order /\ old(j) \in DOMAIN order
      BY <1>1, <1>4, <1>7
    <2> HIDE DEF old
    <2>3. old(i) = old(j)
      BY <2>2 DEF Orders, IsInjective
    <2> QED  BY <1>1, <2>3 DEF old
  <1>9. Range(new) = rest
    <2>1. DOMAIN new = 1..(n - 1) /\ \A i \in 1..(n - 1) : new[i] \in rest
      BY <1>4, <1>7, LenProperties, ElementOfSeq
    <2>2. ASSUME NEW x \in rest PROVE \E i \in 1..(n - 1) : new[i] = x
      <3>1. PICK k \in 1..n : order[k] = x
        BY <1>1 DEF Orders, Range
      <3>2. k # at  BY <1>2, <3>1
      <3>3. CASE k < at
        <4>1. k \in 1..(n - 1) /\ old(k) = k  BY <1>1, <3>3
        <4> QED  BY <1>4, <1>7, <3>1, <4>1
      <3>4. CASE k > at
        <4>1. k - 1 \in 1..(n - 1) /\ old(k - 1) = k  BY <1>1, <3>4
        <4> QED  BY <1>4, <1>7, <3>1, <4>1
      <3> QED  BY <1>1, <3>2, <3>3, <3>4
    <2> QED  BY <2>1, <2>2 DEF Range
  <1> QED  BY <1>4, <1>7, <1>8, <1>9 DEF Orders, new, n

LEMMA TouchKeepsOrder ==
    ASSUME NEW order, NEW ids, Orders(order, ids), NEW id \in ids
    PROVE  Orders(Touch(order, id), ids) /\ Len(Touch(order, id)) = Len(order)
  <1> DEFINE rest == RemoveFirst(order, id)
  <1>1. Orders(rest, ids \ {id}) /\ Len(rest) = Len(order) - 1
    BY OrderLoses
  <1>2. Orders(Append(rest, id), (ids \ {id}) \cup {id}) /\ Len(Append(rest, id)) = Len(rest) + 1
    BY <1>1, OrderGrows
  <1>3. Len(order) \in Nat
    BY LenProperties DEF Orders
  <1>4. (ids \ {id}) \cup {id} = ids
    OBVIOUS
  <1> QED  BY <1>1, <1>2, <1>3, <1>4 DEF Touch

\* A tile that was not there comes last, and what made room was the oldest.
LEMMA InsertKeepsOrder ==
    ASSUME NEW cache, NEW most \in Nat, OrderlyCache(cache, most), NEW capacity \in 0..most,
           NEW id, ~Cached(cache, id), NEW rects
    PROVE  LET new == Insert(cache, id, rects, capacity)
           IN  /\ OrderlyCache(new, most)
               /\ capacity = 0 => new = cache
               /\ capacity > 0 =>
                    /\ new = [entries |-> new.entries, order |-> new.order]
                    /\ DOMAIN new.entries \subseteq DOMAIN cache.entries \cup {id}
                    /\ new.entries[id] = rects
                    /\ \A i \in DOMAIN new.entries \ {id} : new.entries[i] = cache.entries[i]
  <1> DEFINE new == Insert(cache, id, rects, capacity)
  <1>1. CASE capacity = 0
    BY <1>1 DEF Insert
  <1>2. CASE capacity > 0
    <2> DEFINE ids == DOMAIN cache.entries
               order == cache.order
               spare == Len(order) - (capacity - 1)
               kept == IF spare > 0 THEN SubSeq(order, spare + 1, Len(order)) ELSE order
    <2>1. Orders(order, ids) /\ Len(order) \in Nat /\ Len(order) <= most
      BY LenProperties DEF Orders, OrderlyCache
    <2>2. Orders(kept, Range(kept)) /\ Range(kept) \subseteq ids /\ Len(kept) <= capacity - 1
      <3>1. CASE spare > 0
        <4>1. spare \in 0..Len(order)  BY <1>2, <2>1, <3>1
        <4> HIDE DEF spare
        <4>2. LET part == SubSeq(order, spare + 1, Len(order))
              IN  Orders(part, Range(part)) /\ Range(part) \subseteq ids /\ Len(part) = Len(order) - spare
          BY <2>1, <4>1, OrderDrops
        <4>3. Len(order) - spare = capacity - 1 /\ capacity - 1 <= capacity - 1
          BY <1>2, <2>1 DEF spare
        <4>4. kept = SubSeq(order, spare + 1, Len(order))
          BY <3>1
        <4> HIDE DEF kept, order, ids
        <4> QED  BY <4>2, <4>3, <4>4
      <3>2. CASE ~(spare > 0)
        <4>1. kept = order /\ Len(order) <= capacity - 1  BY <1>2, <2>1, <3>2
        <4>2. Range(order) = ids  BY <2>1 DEF Orders
        <4> QED  BY <2>1, <4>1, <4>2
      <3> QED  BY <3>1, <3>2
    <2> HIDE DEF kept, ids
    <2>3. new = [entries |-> [i \in Range(kept) \cup {id} |->
                                IF i = id THEN rects ELSE cache.entries[i]],
                 order |-> Append(kept, id)]
      BY <1>2 DEF Insert, kept
    <2>4. id \notin Range(kept)
      BY <2>2 DEF Cached, ids
    <2>5. Orders(Append(kept, id), Range(kept) \cup {id}) /\ Len(Append(kept, id)) = Len(kept) + 1
      BY <2>2, <2>4, OrderGrows
    <2>6. Len(kept) \in Nat
      BY <2>2, LenProperties DEF Orders
    <2>7. Len(Append(kept, id)) <= most
      BY <2>2, <2>5, <2>6
    <2> QED  BY <1>2, <2>2, <2>3, <2>5, <2>7 DEF OrderlyCache, ids
  <1> QED  BY <1>1, <1>2

\* What is cached under an id is what reading an entry of that id gives.
CoherentCache(cache, disk, tiles) ==
    \A id \in DOMAIN cache.entries : \E k \in DOMAIN tiles :
        /\ tiles[k].id = id
        /\ ReadTile(disk, tiles[k]) = [ok |-> TRUE, rects |-> cache.entries[id]]

\* A load under way: its cache is in order and, if the files are still those
\* that were opened (steady), holds what they hold.
GoodLoad(at, most, disk, tiles, steady) ==
    /\ at = [ok |-> at.ok, cache |-> at.cache, tiles |-> at.tiles]
    /\ at.cache = [entries |-> at.cache.entries, order |-> at.cache.order]
    /\ OrderlyCache(at.cache, most)
    /\ steady => CoherentCache(at.cache, disk, tiles)

LEMMA ReadTileIs ==
    ASSUME NEW disk, NEW entry, ReadTile(disk, entry).ok
    PROVE  ReadTile(disk, entry) = [ok |-> TRUE, rects |-> ReadTile(disk, entry).rects]
  <1> DEFINE w == SubSeq(disk.shard, entry.offset + 1, entry.offset + entry.size)
  <1>1. ~Unreadable.ok
    BY DEF Unreadable
  <1>2. ReadTile(disk, entry) = DecodeTile(w)
    BY <1>1 DEF ReadTile
  <1> HIDE DEF w
  <1>3. DecodeTile(w).ok => DecodeTile(w) = [ok |-> TRUE, rects |-> DecodeTile(w).rects]
    BY <1>1 DEF DecodeTile
  <1> QED  BY <1>2, <1>3

LEMMA LoadTileKeeps ==
    ASSUME NEW disk, NEW tiles, NEW most \in Nat, NEW capacity \in 0..most, NEW steady,
           NEW at, GoodLoad(at, most, disk, tiles, steady), NEW k \in DOMAIN tiles
    PROVE  GoodLoad(LoadTile(disk, capacity, at, tiles[k]), most, disk, tiles, steady)
  <1> DEFINE entry == tiles[k]
             next == LoadTile(disk, capacity, at, entry)
             cache == at.cache
             read == ReadTile(disk, entry)
  <1> SUFFICES GoodLoad(next, most, disk, tiles, steady)  OBVIOUS
  <1>0. /\ at = [ok |-> at.ok, cache |-> at.cache, tiles |-> at.tiles]
        /\ cache = [entries |-> cache.entries, order |-> cache.order]
        /\ OrderlyCache(cache, most)
        /\ steady => CoherentCache(cache, disk, tiles)
    BY DEF GoodLoad
  <1>1. CASE ~at.ok
    BY <1>1 DEF LoadTile
  <1>2. CASE at.ok /\ Cached(cache, entry.id)
    <2> DEFINE new == [entries |-> cache.entries, order |-> Touch(cache.order, entry.id)]
    <2>1. next = [ok |-> at.ok, cache |-> new, tiles |-> next.tiles]
      BY <1>0, <1>2 DEF LoadTile
    <2>2. Orders(Touch(cache.order, entry.id), DOMAIN cache.entries)
          /\ Len(Touch(cache.order, entry.id)) <= most
      BY <1>0, <1>2, TouchKeepsOrder DEF OrderlyCache, Cached
    <2> HIDE DEF next
    <2>3. next.cache = new /\ new.entries = cache.entries /\ new.order = Touch(cache.order, entry.id)
      BY <2>1
    <2> HIDE DEF new, cache
    <2> QED  BY <1>0, <2>1, <2>2, <2>3 DEF GoodLoad, OrderlyCache, CoherentCache, new
  <1>3. CASE at.ok /\ ~Cached(cache, entry.id) /\ ~read.ok
    <2>1. next = [at EXCEPT !.ok = FALSE]
      BY <1>3 DEF LoadTile
    <2>2. next = [ok |-> FALSE, cache |-> cache, tiles |-> at.tiles]
      BY <1>0, <2>1
    <2> HIDE DEF next, cache
    <2>3. next.cache = cache  BY <2>2
    <2> QED  BY <1>0, <2>2, <2>3 DEF GoodLoad
  <1>4. CASE at.ok /\ ~Cached(cache, entry.id) /\ read.ok
    <2> DEFINE new == Insert(cache, entry.id, read.rects, capacity)
    <2>1. next = [at EXCEPT !.cache = new,
                            !.tiles = Append(@, [id |-> entry.id, bbox |-> entry.bbox,
                                                 rects |-> read.rects])]
      BY <1>4 DEF LoadTile
    <2>2. next = [ok |-> at.ok, cache |-> new, tiles |-> next.tiles]
      BY <1>0, <2>1
    <2>3. /\ OrderlyCache(new, most)
          /\ capacity = 0 => new = cache
          /\ capacity > 0 =>
               /\ new = [entries |-> new.entries, order |-> new.order]
               /\ DOMAIN new.entries \subseteq DOMAIN cache.entries \cup {entry.id}
               /\ new.entries[entry.id] = read.rects
               /\ \A i \in DOMAIN new.entries \ {entry.id} : new.entries[i] = cache.entries[i]
      BY <1>0, <1>4, InsertKeepsOrder
    <2>4. read = [ok |-> TRUE, rects |-> read.rects]
      BY <1>4, ReadTileIs
    <2> HIDE DEF next, new, cache, read, entry
    <2>5. next.cache = new
      BY <2>2
    <2>6. new = [entries |-> new.entries, order |-> new.order]
      BY <1>0, <2>3
    <2>7. ASSUME steady, capacity > 0, NEW i \in DOMAIN new.entries
          PROVE  \E h \in DOMAIN tiles : /\ tiles[h].id = i
                                         /\ ReadTile(disk, tiles[h]) = [ok |-> TRUE, rects |-> new.entries[i]]
      <3>1. CASE i = entry.id
        BY <2>3, <2>4, <2>7, <3>1 DEF entry, read
      <3>2. CASE i # entry.id
        <4>1. i \in DOMAIN cache.entries /\ new.entries[i] = cache.entries[i]
          BY <2>3, <2>7, <3>2
        <4> QED  BY <1>0, <2>7, <4>1 DEF CoherentCache
      <3> QED  BY <3>1, <3>2
    <2>8. steady => CoherentCache(new, disk, tiles)
      BY <1>0, <2>3, <2>7 DEF CoherentCache
    <2> QED  BY <2>2, <2>3, <2>5, <2>6, <2>8 DEF GoodLoad
  <1> QED  BY <1>1, <1>2, <1>3, <1>4

\* What the loop of load_detail_viewport does with the tile of one entry.
LoadNext(disk, viewport, capacity, at, entry) ==
    IF Meets(Ordered(entry.bbox), viewport) THEN LoadTile(disk, capacity, at, entry) ELSE at

\* f[t] is what the tiles at the places t make of the load that begins with start.
IsLoad(f, disk, tiles, start, viewport, capacity, m) ==
    f = [t \in SUBSET (1..m) |->
           IF t = {} THEN start
           ELSE LoadNext(disk, viewport, capacity, f[t \ {Max(t)}], tiles[Max(t)])]

LEMMA MaxIs ==
    ASSUME NEW m \in Nat, NEW t \in SUBSET (1..m), m \in t
    PROVE  Max(t) = m
  <1>1. \A y \in t : m >= y
    OBVIOUS
  <1>2. ASSUME NEW x \in t, \A y \in t : x >= y PROVE x = m
    BY <1>1, <1>2
  <1> QED  BY <1>1, <1>2 DEF Max

LEMMA LoadExists ==
    ASSUME NEW disk, NEW tiles, NEW start, NEW viewport, NEW capacity, NEW m \in Nat
    PROVE  \E f : IsLoad(f, disk, tiles, start, viewport, capacity, m)
  <1> DEFINE L(f, k) == IsLoad(f, disk, tiles, start, viewport, capacity, k)
             Bad == {k \in Nat : ~ \E f : L(f, k)}
  <1> SUFFICES ASSUME Bad # {} PROVE FALSE  OBVIOUS
  <1>1. PICK k \in Bad : \A j \in Bad : k <= j
    <2>1. Bad \subseteq Nat  OBVIOUS
    <2> HIDE DEF Bad
    <2> QED  BY <2>1, Smallest
  <1>2. CASE k = 0
    <2> DEFINE g == [t \in {{}} |-> start]
    <2>1. SUBSET (1..k) = {{}}
      BY <1>2
    <2>2. L(g, k)
      BY <2>1, Zenon DEF IsLoad
    <2> QED  BY <1>1, <2>2
  <1>3. CASE k > 0
    <2>1. k - 1 \in Nat /\ k - 1 \notin Bad /\ k \in Nat
      BY <1>1, <1>3
    <2>2. PICK f : L(f, k - 1)
      BY <2>1
    <2> DEFINE g == [t \in SUBSET (1..k) |->
                       IF k \in t THEN LoadNext(disk, viewport, capacity, f[t \ {k}], tiles[k]) ELSE f[t]]
    <2>3. ASSUME NEW t \in SUBSET (1..k)
          PROVE  g[t] = IF t = {} THEN start
                        ELSE LoadNext(disk, viewport, capacity, g[t \ {Max(t)}], tiles[Max(t)])
      <3>0. ASSUME NEW u \in SUBSET (1..k), k \notin u
            PROVE  u \in SUBSET (1..(k - 1)) /\ g[u] = f[u]
        BY <2>1, <3>0
      <3>1. CASE k \in t
        <4>1. Max(t) = k  BY <2>1, <3>1, MaxIs
        <4>2. t \ {k} \in SUBSET (1..k) /\ k \notin t \ {k} /\ t # {}  BY <3>1
        <4>3. g[t \ {k}] = f[t \ {k}]  BY <3>0, <4>2
        <4>4. g[t] = LoadNext(disk, viewport, capacity, f[t \ {k}], tiles[k])  BY <3>1
        <4> HIDE DEF g
        <4> QED  BY <4>1, <4>2, <4>3, <4>4
      <3>2. CASE k \notin t
        <4>1. t \in SUBSET (1..(k - 1)) /\ g[t] = f[t]  BY <3>0, <3>2
        <4>2. f[t] = IF t = {} THEN start
                     ELSE LoadNext(disk, viewport, capacity, f[t \ {Max(t)}], tiles[Max(t)])
          BY <2>2, <4>1 DEF IsLoad
        <4>3. t \ {Max(t)} \in SUBSET (1..k) /\ k \notin t \ {Max(t)}  BY <3>2
        <4>4. g[t \ {Max(t)}] = f[t \ {Max(t)}]  BY <3>0, <4>3
        <4> HIDE DEF g
        <4> QED  BY <4>1, <4>2, <4>4
      <3> QED  BY <3>1, <3>2
    <2>4. L(g, k)
      BY <2>3, Zenon DEF IsLoad
    <2> QED  BY <1>1, <2>4
  <1> QED  BY <1>1, <1>2, <1>3

LEMMA LoadTilesIs ==
    ASSUME NEW disk, NEW tiles, NEW cache, NEW viewport, NEW capacity,
           Len(tiles) \in Nat, DOMAIN tiles = 1..Len(tiles)
    PROVE  LET start == [ok |-> TRUE, cache |-> cache, tiles |-> <<>>]
           IN  \E f : /\ IsLoad(f, disk, tiles, start, viewport, capacity, Len(tiles))
                      /\ LoadTiles(disk, tiles, cache, viewport, capacity) = f[1..Len(tiles)]
  <1> DEFINE start == [ok |-> TRUE, cache |-> cache, tiles |-> <<>>]
             F == CHOOSE f : f = [t \in SUBSET DOMAIN tiles |->
                    IF t = {} THEN start
                    ELSE IF Meets(Ordered(tiles[Max(t)].bbox), viewport)
                         THEN LoadTile(disk, capacity, f[t \ {Max(t)}], tiles[Max(t)])
                         ELSE f[t \ {Max(t)}]]
  <1>1. F = [t \in SUBSET DOMAIN tiles |->
               IF t = {} THEN start
               ELSE IF Meets(Ordered(tiles[Max(t)].bbox), viewport)
                    THEN LoadTile(disk, capacity, F[t \ {Max(t)}], tiles[Max(t)])
                    ELSE F[t \ {Max(t)}]]
    <2>1. \E f : IsLoad(f, disk, tiles, start, viewport, capacity, Len(tiles))
      BY LoadExists
    <2> HIDE DEF start
    <2> QED  BY <2>1, Zenon DEF IsLoad, LoadNext
  <1>2. LoadTiles(disk, tiles, cache, viewport, capacity) = F[DOMAIN tiles]
    BY Zenon DEF LoadTiles, FoldLeft, MapThenFoldSet
  <1> HIDE DEF F, start
  <1>3. IsLoad(F, disk, tiles, start, viewport, capacity, Len(tiles))
    BY <1>1, Zenon DEF IsLoad, LoadNext
  <1> QED  BY <1>2, <1>3 DEF start

\* However many tiles a viewport asks for, and wherever reading them breaks off, the cache
\* stays in order, and coherent with files that have not changed.
LEMMA LoadTilesKeeps ==
    ASSUME NEW disk, NEW tiles, Len(tiles) \in Nat, DOMAIN tiles = 1..Len(tiles),
           NEW most \in Nat, NEW capacity \in 0..most, NEW steady, NEW viewport,
           NEW cache, cache = [entries |-> cache.entries, order |-> cache.order],
           OrderlyCache(cache, most), steady => CoherentCache(cache, disk, tiles)
    PROVE  GoodLoad(LoadTiles(disk, tiles, cache, viewport, capacity), most, disk, tiles, steady)
  <1> DEFINE start == [ok |-> TRUE, cache |-> cache, tiles |-> <<>>]
             n == Len(tiles)
  <1>1. PICK f : /\ IsLoad(f, disk, tiles, start, viewport, capacity, n)
                 /\ LoadTiles(disk, tiles, cache, viewport, capacity) = f[1..n]
    BY LoadTilesIs
  <1>2. GoodLoad(start, most, disk, tiles, steady)
    BY DEF GoodLoad
  <1> HIDE DEF start
  <1> DEFINE Good(k) == GoodLoad(f[1..k], most, disk, tiles, steady)
             Bad == {k \in 0..n : ~Good(k)}
  <1>3. ASSUME Bad # {} PROVE FALSE
    <2>1. PICK k \in Bad : \A j \in Bad : k <= j
      <3>1. Bad \subseteq Nat  OBVIOUS
      <3> HIDE DEF Bad
      <3> QED  BY <1>3, <3>1, Smallest
    <2>2. ASSUME NEW t \in SUBSET (1..n)
          PROVE  f[t] = IF t = {} THEN start
                        ELSE LoadNext(disk, viewport, capacity, f[t \ {Max(t)}], tiles[Max(t)])
      BY <1>1 DEF IsLoad
    <2>3. CASE k = 0
      <3>1. 1..k = {} /\ {} \in SUBSET (1..n)  BY <2>3
      <3>2. f[{}] = start  BY <2>2, <3>1
      <3> QED  BY <1>2, <2>1, <3>1, <3>2
    <2>4. CASE k > 0
      <3>1. k - 1 \in 0..n /\ k - 1 \notin Bad /\ k \in 1..n /\ k \in Nat
        BY <2>1, <2>4
      <3>2. Good(k - 1)  BY <3>1
      <3>3. 1..k \in SUBSET (1..n) /\ 1..k # {} /\ (1..k) \ {k} = 1..(k - 1) /\ k \in 1..k
        BY <3>1
      <3>4. Max(1..k) = k
        BY <3>1, <3>3, MaxIs
      <3>5. f[1..k] = LoadNext(disk, viewport, capacity, f[1..(k - 1)], tiles[k])
        BY <2>2, <3>3, <3>4
      <3>6. k \in DOMAIN tiles
        BY <3>1
      <3>7. GoodLoad(LoadTile(disk, capacity, f[1..(k - 1)], tiles[k]), most, disk, tiles, steady)
        BY <3>2, <3>6, LoadTileKeeps
      <3> QED  BY <2>1, <3>2, <3>5, <3>7 DEF LoadNext
    <2> QED  BY <2>1, <2>3, <2>4
  <1>4. Good(n)
    BY <1>3
  <1> QED  BY <1>1, <1>4
==============================================================================
