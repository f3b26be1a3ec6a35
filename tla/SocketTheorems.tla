--------------------------- MODULE SocketTheorems ---------------------------
(***************************************************************************)
(* Lemmas about C strings and about the socket layer, shared by the proofs *)
(* of the servers.                                                         *)
(***************************************************************************)
EXTENDS UnixSocket, SequenceTheorems, FiniteSetTheorems, TLAPS

(***************************************************************************)
(* C strings.                                                              *)
(***************************************************************************)
\* strlen() never runs past the buffer.
LEMMA StrLenBound ==
  ASSUME NEW s \in Seq(Byte)
  PROVE  StrLen(s) \in 0 .. Len(s)
<1> DEFINE I == 1 .. Len(s)
<1> DEFINE P == {k \in I : \A j \in 1 .. k : s[j] # Nul}
<1>1. Len(s) \in Nat
  BY LenProperties
<1>2. IsFiniteSet(I) /\ Cardinality(I) = Len(s)
  <2>1. /\ IsFiniteSet(1 .. Len(s))
        /\ Cardinality(1 .. Len(s)) = IF 1 > Len(s) THEN 0 ELSE Len(s) - 1 + 1
    BY <1>1, FS_Interval
  <2>2. QED
    BY <1>1, <2>1
<1>3. P \in SUBSET I
  OBVIOUS
<1> HIDE DEF I
<1>4. IsFiniteSet(P) /\ Cardinality(P) <= Cardinality(I)
  BY <1>2, <1>3, FS_Subset
<1>5. Cardinality(P) \in Nat
  BY <1>4, FS_CardinalityType
<1>6. Cardinality(P) \in 0 .. Len(s)
  BY <1>1, <1>2, <1>4, <1>5
<1>7. QED
  BY <1>6 DEF StrLen, I

\* The numbers up to n are n.
LEMMA IntervalCount ==
  ASSUME NEW n \in Nat
  PROVE  IsFiniteSet(1 .. n) /\ Cardinality(1 .. n) = n
<1>1. IsFiniteSet(1 .. n) /\ Cardinality(1 .. n) = IF 1 > n THEN 0 ELSE n - 1 + 1
  BY FS_Interval
<1>2. QED
  BY <1>1

\* A '\0' in the buffer ends the C string before the buffer does.
LEMMA StrLenNul ==
  ASSUME NEW s \in Seq(Byte), NEW n \in 1 .. Len(s), s[n] = Nul
  PROVE  StrLen(s) < Len(s)
<1> DEFINE P == {k \in 1 .. Len(s) : \A j \in 1 .. k : s[j] # Nul}
<1>1. Len(s) \in Nat /\ n \in Nat /\ 1 <= n /\ n <= Len(s)
  BY LenProperties
<1>2. \A k \in P : k < n
  BY <1>1
<1> DEFINE m == n - 1
<1>3. m = n - 1 /\ m \in Nat /\ P \in SUBSET (1 .. m)
  BY <1>1, <1>2
<1> HIDE DEF P, m
<1>4. IsFiniteSet(1 .. m) /\ Cardinality(1 .. m) = m
  BY <1>3, IntervalCount
<1>5. IsFiniteSet(P) /\ Cardinality(P) <= m
  BY <1>3, <1>4, FS_Subset
<1>6. Cardinality(P) \in Nat
  BY <1>5, FS_CardinalityType
<1>7. QED
  BY <1>1, <1>3, <1>5, <1>6 DEF StrLen, P

\* A buffer without '\0' is shown whole.
LEMMA CStringWhole ==
  ASSUME NEW s \in Seq(Byte), \A k \in 1 .. Len(s) : s[k] # Nul
  PROVE  CString(s) = s
<1>1. Len(s) \in Nat
  BY LenProperties
<1>2. {k \in 1 .. Len(s) : \A j \in 1 .. k : s[j] # Nul} = 1 .. Len(s)
  BY <1>1
<1>3. Cardinality(1 .. Len(s)) = IF 1 > Len(s) THEN 0 ELSE Len(s) - 1 + 1
  BY <1>1, FS_Interval
<1>4. StrLen(s) = Len(s)
  <2>1. StrLen(s) = Cardinality(1 .. Len(s))
    BY <1>2 DEF StrLen
  <2>2. QED
    BY <1>1, <1>3, <2>1
<1>5. QED
  BY <1>4, SubSeqFull DEF CString

\* What is shown of a buffer of bytes is a sequence of bytes.
LEMMA CStringType ==
  ASSUME NEW s \in Seq(Byte)
  PROVE  CString(s) \in Seq(Byte)
<1>1. StrLen(s) \in 0 .. Len(s) /\ Len(s) \in Nat
  BY StrLenBound, LenProperties
<1>2. \A i \in 1 .. StrLen(s) : s[i] \in Byte
  BY <1>1, ElementOfSeq
<1>3. QED
  BY <1>1, <1>2, SubSeqProperties DEF CString

\* toupper() keeps the length and works byte by byte.
LEMMA UpperTextType ==
  ASSUME NEW s \in Seq(Byte)
  PROVE  /\ UpperText(s) \in Seq(Byte)
         /\ Len(UpperText(s)) = Len(s)
         /\ \A k \in 1 .. Len(s) : UpperText(s)[k] = Upper(s[k])
<1>1. Len(s) \in Nat /\ \A k \in 1 .. Len(s) : s[k] \in Byte
  BY LenProperties, ElementOfSeq
<1>2. \A b \in Byte : Upper(b) \in Byte
  BY DEF Byte, Upper
<1>3. UpperText(s) \in [1 .. Len(s) -> Byte]
  BY <1>1, <1>2 DEF UpperText
<1>4. QED
  BY <1>1, <1>3 DEF UpperText

\* Upper case of a concatenation.
LEMMA UpperTextConcat ==
  ASSUME NEW s \in Seq(Byte), NEW t \in Seq(Byte)
  PROVE  UpperText(s) \o UpperText(t) = UpperText(s \o t)
<1>1. /\ s \o t \in Seq(Byte)
      /\ Len(s \o t) = Len(s) + Len(t)
      /\ \A i \in 1 .. Len(s) + Len(t) :
           (s \o t)[i] = IF i <= Len(s) THEN s[i] ELSE t[i - Len(s)]
  BY ConcatProperties
<1>2. /\ UpperText(s) \in Seq(Byte) /\ Len(UpperText(s)) = Len(s)
      /\ \A k \in 1 .. Len(s) : UpperText(s)[k] = Upper(s[k])
  BY UpperTextType
<1>3. /\ UpperText(t) \in Seq(Byte) /\ Len(UpperText(t)) = Len(t)
      /\ \A k \in 1 .. Len(t) : UpperText(t)[k] = Upper(t[k])
  BY UpperTextType
<1>4. /\ UpperText(s \o t) \in Seq(Byte) /\ Len(UpperText(s \o t)) = Len(s \o t)
      /\ \A k \in 1 .. Len(s \o t) : UpperText(s \o t)[k] = Upper((s \o t)[k])
  BY <1>1, UpperTextType
<1> DEFINE u == UpperText(s) \o UpperText(t)
<1>5. /\ u \in Seq(Byte)
      /\ Len(u) = Len(s) + Len(t)
      /\ \A i \in 1 .. Len(s) + Len(t) :
           u[i] = IF i <= Len(s) THEN UpperText(s)[i] ELSE UpperText(t)[i - Len(s)]
  <2>1. UpperText(s) \in Seq(Byte) /\ UpperText(t) \in Seq(Byte)
    BY <1>2, <1>3
  <2>2. /\ u \in Seq(Byte)
        /\ Len(u) = Len(UpperText(s)) + Len(UpperText(t))
        /\ \A i \in 1 .. Len(UpperText(s)) + Len(UpperText(t)) :
             u[i] = IF i <= Len(UpperText(s)) THEN UpperText(s)[i]
                    ELSE UpperText(t)[i - Len(UpperText(s))]
    BY <2>1, ConcatProperties
  <2>3. Len(UpperText(s)) = Len(s) /\ Len(UpperText(t)) = Len(t)
    BY <1>2, <1>3
  <2> HIDE DEF u
  <2>4. QED
    BY <2>2, <2>3
<1>6. Len(s) \in Nat /\ Len(t) \in Nat
  BY LenProperties
<1>7. \A i \in 1 .. Len(u) : u[i] = UpperText(s \o t)[i]
  <2> TAKE i \in 1 .. Len(u)
  <2>1. i \in 1 .. Len(s) + Len(t)
    BY <1>5
  <2>2. CASE i <= Len(s)
    <3>1. i \in 1 .. Len(s)
      BY <1>6, <2>1, <2>2
    <3>2. QED
      BY <1>1, <1>2, <1>4, <1>5, <2>1, <2>2, <3>1
  <2>3. CASE ~(i <= Len(s))
    <3>1. i - Len(s) \in 1 .. Len(t)
      BY <1>6, <2>1, <2>3
    <3>2. QED
      BY <1>1, <1>3, <1>4, <1>5, <2>1, <2>3, <3>1
  <2>4. QED
    BY <2>2, <2>3
<1>8. QED
  BY <1>1, <1>4, <1>5, <1>7, SeqEqual

\* strlen() stops at the first '\0', and there is none before it.
LEMMA StrLenFirst ==
  ASSUME NEW s \in Seq(Byte)
  PROVE  /\ StrLen(s) \in 0 .. Len(s)
         /\ \A k \in 1 .. StrLen(s) : s[k] # Nul
         /\ StrLen(s) < Len(s) => s[StrLen(s) + 1] = Nul
<1> DEFINE n == Len(s)
           P == {k \in 1 .. n : \A j \in 1 .. k : s[j] # Nul}
           m == StrLen(s)
<1>1. n \in Nat /\ m = Cardinality(P) /\ m \in 0 .. n
  BY LenProperties, StrLenBound DEF StrLen
<1>2. IsFiniteSet(P)
  <2>1. P \in SUBSET (1 .. n)
    OBVIOUS
  <2> HIDE DEF P, n
  <2>2. QED
    BY <1>1, <2>1, IntervalCount, FS_Subset
<1>3. \A k \in 1 .. m : k \in P
  <2> SUFFICES ASSUME NEW k \in 1 .. m, k \notin P PROVE FALSE
    OBVIOUS
  <2>1. k \in Nat /\ k - 1 \in Nat /\ k \in 1 .. n
    BY <1>1
  <2>2. P \subseteq 1 .. k - 1
    BY <1>1, <2>1
  <2> HIDE DEF P, n, m
  <2>3. Cardinality(P) <= Cardinality(1 .. k - 1)
    BY <2>1, <2>2, IntervalCount, FS_Subset
  <2>4. m <= k - 1
    BY <1>1, <2>1, <2>3, IntervalCount
  <2>5. QED
    BY <1>1, <2>1, <2>4
<1>4. \A k \in 1 .. m : s[k] # Nul
  BY <1>1, <1>3
<1>5. m < n => s[m + 1] = Nul
  <2> SUFFICES ASSUME m < n, s[m + 1] # Nul PROVE FALSE
    OBVIOUS
  <2>1. m + 1 \in Nat /\ m + 1 \in 1 .. n
    BY <1>1
  <2>2. 1 .. m + 1 \subseteq P
    <3> SUFFICES ASSUME NEW k \in 1 .. m + 1 PROVE k \in P
      OBVIOUS
    <3>1. k \in 1 .. n
      BY <1>1, <2>1
    <3>2. \A j \in 1 .. k : j \in 1 .. m \/ j = m + 1
      BY <1>1
    <3>3. \A j \in 1 .. k : s[j] # Nul
      BY <1>4, <3>2
    <3>4. QED
      BY <3>1, <3>3
  <2> HIDE DEF P, n, m
  <2>3. Cardinality(1 .. m + 1) <= Cardinality(P)
    BY <1>2, <2>2, FS_Subset
  <2>4. QED
    BY <1>1, <2>1, <2>3, IntervalCount
<1>6. QED
  BY <1>1, <1>4, <1>5

\* A C string is the part of the buffer before the first '\0'.
LEMMA CStringParts ==
  ASSUME NEW s \in Seq(Byte)
  PROVE  /\ UpperText(CString(s)) \in Seq(Byte)
         /\ Len(UpperText(CString(s))) = StrLen(s)
         /\ \A k \in 1 .. StrLen(s) : UpperText(CString(s))[k] = Upper(s[k])
<1> DEFINE m == StrLen(s)
<1>1. m \in 0 .. Len(s) /\ Len(s) \in Nat
  BY StrLenBound, LenProperties
<1>2. \A i \in 1 .. m : s[i] \in Byte
  BY <1>1, ElementOfSeq
<1> HIDE DEF m
<1>3. /\ SubSeq(s, 1, m) \in Seq(Byte)
      /\ Len(SubSeq(s, 1, m)) = IF 1 <= m THEN m - 1 + 1 ELSE 0
      /\ \A k \in 1 .. m - 1 + 1 : SubSeq(s, 1, m)[k] = s[1 + k - 1]
  BY <1>1, <1>2, SubSeqProperties
<1>4. Len(SubSeq(s, 1, m)) = m /\ \A k \in 1 .. m : SubSeq(s, 1, m)[k] = s[k]
  BY <1>1, <1>3
<1>5. /\ UpperText(SubSeq(s, 1, m)) \in Seq(Byte)
      /\ Len(UpperText(SubSeq(s, 1, m))) = Len(SubSeq(s, 1, m))
      /\ \A k \in 1 .. Len(SubSeq(s, 1, m)) :
           UpperText(SubSeq(s, 1, m))[k] = Upper(SubSeq(s, 1, m)[k])
  BY <1>3, UpperTextType
<1>6. QED
  BY <1>4, <1>5 DEF CString, m

\* Of what is appended to a stream, the part that is shown takes the next
\* places on the screen.
LEMMA PlacesGoOn ==
  ASSUME NEW n \in Nat, NEW m \in Nat, NEW kept \in SUBSET (1 .. n)
  PROVE  LET more == kept \cup (n + 1 .. n + m)
         IN  /\ Cardinality(kept) \in Nat
             /\ Cardinality(more) = Cardinality(kept) + m
             /\ \A k \in kept : Place(more, k) = Place(kept, k)
             /\ \A k \in kept : Place(kept, k) \in 1 .. Cardinality(kept)
             /\ \A i \in 1 .. m : Place(more, n + i) = Cardinality(kept) + i
<1> DEFINE new(i) == n + 1 .. n + i
           more == kept \cup new(m)
<1>1. IsFiniteSet(kept) /\ Cardinality(kept) \in Nat
  BY IntervalCount, FS_Subset, FS_CardinalityType
<1>2. \A i \in 0 .. m : /\ IsFiniteSet(kept \cup new(i))
                        /\ Cardinality(kept \cup new(i)) = Cardinality(kept) + i
  <2> TAKE i \in 0 .. m
  <2>1. IsFiniteSet(new(i)) /\ Cardinality(new(i)) = i
    <3>1. /\ IsFiniteSet(n + 1 .. n + i)
          /\ Cardinality(n + 1 .. n + i) = IF n + 1 > n + i THEN 0 ELSE (n + i) - (n + 1) + 1
      BY FS_Interval
    <3>2. QED
      BY <3>1
  <2>2. kept \cap new(i) = {}
    OBVIOUS
  <2> HIDE DEF new
  <2>3. /\ IsFiniteSet(kept \cup new(i))
        /\ Cardinality(kept \cup new(i)) = Cardinality(kept) + Cardinality(new(i)) - Cardinality({})
    BY <1>1, <2>1, <2>2, FS_Union
  <2>4. Cardinality({}) = 0
    BY FS_EmptySet
  <2>5. QED
    BY <1>1, <2>1, <2>3, <2>4
<1>3. \A k \in kept : Place(more, k) = Place(kept, k)
  <2> TAKE k \in kept
  <2>1. {j \in more : j <= k} = {j \in kept : j <= k}
    OBVIOUS
  <2>2. QED
    BY <2>1 DEF Place
<1>4. \A i \in 1 .. m : Place(more, n + i) = Cardinality(kept) + i
  <2> TAKE i \in 1 .. m
  <2>1. /\ \A j \in kept : j <= n + i
        /\ \A j \in new(m) : j <= n + i <=> j \in new(i)
        /\ new(i) \subseteq new(m)
    OBVIOUS
  <2> HIDE DEF new
  <2>2. {j \in more : j <= n + i} = kept \cup new(i)
    BY <2>1
  <2>3. QED
    BY <1>2, <2>2 DEF Place
<1>5. \A k \in kept : Place(kept, k) \in 1 .. Cardinality(kept)
  <2> TAKE k \in kept
  <2> DEFINE upto == {j \in kept : j <= k}
  <2>1. k \in upto /\ upto \in SUBSET kept
    OBVIOUS
  <2> HIDE DEF upto
  <2>2. IsFiniteSet(upto) /\ Cardinality(upto) <= Cardinality(kept)
    BY <1>1, <2>1, FS_Subset
  <2>3. Cardinality(upto) \in Nat /\ Cardinality(upto) # 0
    BY <2>1, <2>2, FS_CardinalityType, FS_EmptySet
  <2>4. Place(kept, k) = Cardinality(upto)
    BY DEF Place, upto
  <2>5. QED
    BY <1>1, <2>2, <2>3, <2>4
<1>6. Cardinality(more) = Cardinality(kept) + m
  BY <1>2
<1>7. QED
  BY <1>1, <1>3, <1>4, <1>5, <1>6

\* One more read() that is printed as a C string keeps the promise.
LEMMA ShownOnceMore ==
  ASSUME NEW text \in Seq(Byte), NEW stream \in Seq(Byte), NEW bytes \in Seq(Byte),
         NEW most \in Nat, Len(bytes) <= most, ShownOnce(text, stream, most)
  PROVE  ShownOnce(text \o UpperText(CString(bytes)), stream \o bytes, most)
<1> DEFINE n == Len(stream)
           m == StrLen(bytes)
           shows == UpperText(CString(bytes))
           t == text \o shows
           s == stream \o bytes
<1>1. PICK kept \in SUBSET (1 .. n) :
        /\ (1 .. n) \ kept \subseteq Losable(stream, most)
        /\ Len(text) = Cardinality(kept)
        /\ \A k \in kept : stream[k] # Nul /\ text[Place(kept, k)] = Upper(stream[k])
  BY DEF ShownOnce
<1>2. /\ m \in 0 .. Len(bytes) /\ Len(bytes) \in Nat /\ n \in Nat
      /\ \A k \in 1 .. m : bytes[k] # Nul
      /\ m < Len(bytes) => bytes[m + 1] = Nul
  BY StrLenFirst, LenProperties
<1>3. shows \in Seq(Byte) /\ Len(shows) = m /\ \A k \in 1 .. m : shows[k] = Upper(bytes[k])
  BY CStringParts
<1> HIDE DEF m, shows
<1>4. Len(s) = n + Len(bytes) /\ \A i \in 1 .. n + Len(bytes) :
                                   s[i] = IF i <= n THEN stream[i] ELSE bytes[i - n]
  BY ConcatProperties
<1>5. Len(t) = Len(text) + Len(shows) /\ \A i \in 1 .. Len(text) + Len(shows) :
                                   t[i] = IF i <= Len(text) THEN text[i] ELSE shows[i - Len(text)]
  BY <1>3, ConcatProperties
<1> HIDE DEF n, s, t
<1> DEFINE more == kept \cup (n + 1 .. n + m)
<1>6. /\ Cardinality(kept) \in Nat
      /\ Cardinality(more) = Cardinality(kept) + m
      /\ \A k \in kept : Place(more, k) = Place(kept, k)
      /\ \A k \in kept : Place(kept, k) \in 1 .. Cardinality(kept)
      /\ \A i \in 1 .. m : Place(more, n + i) = Cardinality(kept) + i
  <2>1. n \in Nat /\ m \in Nat
    BY <1>2
  <2>2. QED
    BY <2>1, PlacesGoOn
<1>7. more \in SUBSET (1 .. Len(s))
  BY <1>2, <1>4
<1>8. (1 .. Len(s)) \ more \subseteq Losable(s, most)
  <2> SUFFICES ASSUME NEW k \in 1 .. Len(s), k \notin more PROVE k \in Losable(s, most)
    OBVIOUS
  <2>1. CASE k <= n
    <3>1. k \in 1 .. n /\ k \in Losable(stream, most)
      BY <1>1, <1>2, <1>4, <2>1
    <3>2. PICK j \in 1 .. k : stream[j] = Nul /\ k - j < most
      BY <3>1 DEF Losable
    <3>3. s[j] = Nul
      BY <1>2, <1>4, <3>1, <3>2
    <3>4. QED
      BY <3>2, <3>3 DEF Losable
  <2>2. CASE ~(k <= n)
    <3> DEFINE j == n + m + 1
    <3>1. k > n + m /\ k <= n + Len(bytes)
      BY <1>2, <1>4, <2>2
    <3>2. m < Len(bytes) /\ j \in 1 .. k /\ k - j < most
      BY <1>2, <3>1
    <3>3. s[j] = bytes[m + 1]
      <4>1. j \in 1 .. n + Len(bytes) /\ ~(j <= n) /\ j - n = m + 1
        BY <1>2, <3>1
      <4>2. QED
        BY <1>4, <4>1
    <3>4. s[j] = Nul
      BY <1>2, <3>2, <3>3
    <3>5. QED
      BY <3>2, <3>4 DEF Losable
  <2>3. QED
    BY <2>1, <2>2
<1>9. Len(t) = Cardinality(more)
  BY <1>1, <1>3, <1>5, <1>6
<1>10. ASSUME NEW k \in more PROVE s[k] # Nul /\ t[Place(more, k)] = Upper(s[k])
  <2>1. CASE k \in kept
    <3>1. Place(more, k) \in 1 .. Len(text) /\ Place(more, k) = Place(kept, k)
      BY <1>1, <1>6, <2>1
    <3>2. t[Place(more, k)] = text[Place(kept, k)]
      BY <1>2, <1>3, <1>5, <3>1
    <3>3. s[k] = stream[k]
      <4>1. k \in 1 .. n
        BY <2>1
      <4>2. k \in 1 .. n + Len(bytes) /\ k <= n
        BY <1>2, <4>1
      <4>3. QED
        BY <1>4, <4>2
    <3>4. QED
      BY <1>1, <2>1, <3>2, <3>3
  <2>2. CASE k \notin kept
    <3>1. PICK i \in 1 .. m : k = n + i
      <4>1. k \in n + 1 .. n + m
        BY <2>2
      <4>2. k - n \in 1 .. m /\ k = n + (k - n)
        BY <1>2, <4>1
      <4>3. QED
        BY <4>2
    <3>2. Place(more, k) = Len(text) + i
      BY <1>1, <1>6, <3>1
    <3>3. t[Place(more, k)] = shows[i]
      <4>1. /\ Len(text) + i \in 1 .. Len(text) + Len(shows)
            /\ ~(Len(text) + i <= Len(text)) /\ (Len(text) + i) - Len(text) = i
        BY <1>1, <1>2, <1>3, <1>6
      <4>2. QED
        BY <1>5, <3>2, <4>1
    <3>4. s[k] = bytes[i]
      <4>1. n + i \in 1 .. n + Len(bytes) /\ ~(n + i <= n) /\ (n + i) - n = i
        BY <1>2
      <4>2. QED
        BY <1>4, <3>1, <4>1
    <3>5. QED
      BY <1>2, <1>3, <3>3, <3>4
  <2>3. QED
    BY <2>1, <2>2
<1>11. ShownOnce(t, s, most)
  BY <1>7, <1>8, <1>9, <1>10 DEF ShownOnce
<1>12. QED
  BY <1>11 DEF t, s, shows

\* A promise about nothing is kept.
LEMMA ShownNothing == \A most : ShownOnce(<<>>, <<>>, most)
<1>1. Len(<<>>) = 0 /\ 1 .. 0 = {} /\ Cardinality({}) = 0
  BY FS_EmptySet, EmptySeq
<1>2. QED
  BY <1>1 DEF ShownOnce

(***************************************************************************)
(* The socket layer: SocketInv is kept by every client and by every system *)
(* call the servers make.                                                  *)
(***************************************************************************)
\* The initial state has no connection.
LEMMA SocketInitInv == SocketInit => SocketInv
<1> SUFFICES ASSUME SocketInit PROVE SocketInv
  OBVIOUS
<1> USE DEF SocketInit
<1>1. SocketType
  <2>1. <<>> \in Seq(Clients) /\ <<>> \in Seq(Byte)
    BY EmptySeq
  <2>2. QED
    BY <2>1 DEF SocketType
<1>2. Waiting = {} /\ OpenFds = {}
  BY EmptySeq DEF Waiting, OpenFds
<1>3. \A c \in Clients : rd[c] <= Len(sent[c])
  BY EmptySeq
<1>4. \A c \in Clients : ~Accepted(c)
  BY SocketAssumption DEF Accepted
<1>5. Len(backlog) = 0
  BY EmptySeq
<1>6. QED
  BY <1>1, <1>2, <1>3, <1>4, <1>5 DEF SocketInv

\* connect() by a new client adds it to the queue and nowhere else.
LEMMA ConnectInv ==
  ASSUME SocketInv, NEW c \in Clients, Connect(c)
  PROVE  SocketInv'
<1> USE DEF Connect
<1>1. /\ backlog' \in Seq(Clients) /\ Len(backlog') = Len(backlog) + 1
      /\ \A k \in 1 .. Len(backlog') :
           backlog'[k] = IF k = Len(backlog) + 1 THEN c ELSE backlog[k]
  BY DEF SocketInv, SocketType
<1>2. Len(backlog) \in Nat
  BY DEF SocketInv, SocketType
<1>3. SocketType'
  BY <1>1 DEF SocketInv, SocketType
<1>4. c \notin Waiting /\ ~Accepted(c)
  BY DEF SocketInv
<1>5. Waiting' = Waiting \cup {c}
  BY <1>1, <1>2 DEF Waiting
<1>6. \A j, k \in 1 .. Len(backlog') : backlog'[j] = backlog'[k] => j = k
  BY <1>1, <1>2, <1>4 DEF SocketInv, Waiting
<1>7. OpenFds' = OpenFds
  BY DEF OpenFds
<1>8. \A f \in OpenFds : conn[f] # c
  BY <1>4 DEF Accepted, OpenFds
<1>9. \A d \in Clients : phase'[d] = "new" => d # c /\ phase[d] = "new"
  BY DEF SocketInv, SocketType
<1>10. \A d \in Clients : phase'[d] = "new" => d \notin Waiting' /\ ~Accepted(d)'
  BY <1>5, <1>9 DEF SocketInv, Accepted
<1>11. QED
  BY <1>3, <1>5, <1>6, <1>7, <1>8, <1>10 DEF SocketInv

\* write() extends one history and moves nobody.
LEMMA WriteInv ==
  ASSUME SocketInv, NEW c \in Clients, NEW bytes \in Seq(Byte), Write(c, bytes)
  PROVE  SocketInv'
<1> USE DEF Write
<1>1. /\ sent[c] \o bytes \in Seq(Byte)
      /\ Len(sent[c] \o bytes) = Len(sent[c]) + Len(bytes)
      /\ Len(bytes) \in Nat /\ Len(sent[c]) \in Nat
  BY ConcatProperties, LenProperties DEF SocketInv, SocketType
<1>2. SocketType'
  BY <1>1 DEF SocketInv, SocketType
<1>3. \A d \in Clients : rd'[d] <= Len(sent'[d])
  <2> TAKE d \in Clients
  <2>1. CASE d = c
    <3>1. sent'[d] = sent[c] \o bytes /\ rd'[d] = rd[c]
      BY <2>1 DEF SocketInv, SocketType
    <3>2. rd[c] \in Nat /\ rd[c] <= Len(sent[c])
      BY DEF SocketInv, SocketType
    <3>3. QED
      BY <1>1, <3>1, <3>2
  <2>2. CASE d # c
    BY <2>2 DEF SocketInv, SocketType
  <2>3. QED
    BY <2>1, <2>2
<1>4. OpenFds' = OpenFds /\ Waiting' = Waiting /\ \A d \in Clients : Accepted(d)' = Accepted(d)
  BY DEF OpenFds, Waiting, Accepted
<1>5. QED
  BY <1>2, <1>3, <1>4 DEF SocketInv

\* close() by a client moves nobody.
LEMMA HangupInv ==
  ASSUME SocketInv, NEW c \in Clients, Hangup(c)
  PROVE  SocketInv'
<1> USE DEF Hangup
<1>1. SocketType'
  BY DEF SocketInv, SocketType
<1>2. OpenFds' = OpenFds /\ Waiting' = Waiting /\ \A d \in Clients : Accepted(d)' = Accepted(d)
  BY DEF OpenFds, Waiting, Accepted
<1>3. \A d \in Clients : phase'[d] = "new" => phase[d] = "new"
  BY DEF SocketInv, SocketType
<1>4. QED
  BY <1>1, <1>2, <1>3 DEF SocketInv

\* accept() moves the head of the queue to a free descriptor.
LEMMA AcceptInv ==
  ASSUME SocketInv, NEW f \in Fds, AcceptInto(f)
  PROVE  /\ SocketInv'
         /\ OpenFds' = OpenFds \cup {f}
         /\ f \notin OpenFds
<1> USE DEF AcceptInto
<1>1. /\ Head(backlog) \in Clients
      /\ backlog' \in Seq(Clients) /\ Len(backlog') = Len(backlog) - 1
      /\ \A k \in 1 .. Len(backlog') : backlog'[k] = backlog[k + 1]
      /\ Len(backlog) \in Nat \ {0}
      /\ Head(backlog) = backlog[1]
  <2>1. backlog \in Seq(Clients) /\ backlog # <<>>
    BY DEF SocketInv, SocketType
  <2>2. QED
    BY <2>1, HeadTailProperties, EmptySeq
<1>2. conn' = [conn EXCEPT ![f] = Head(backlog)] /\ conn \in [Fds -> Clients \cup {NoClient}]
  BY DEF SocketInv, SocketType
<1>3. NoClient \notin Clients
  BY SocketAssumption
<1>4. f \notin OpenFds
  BY DEF LowestFree
<1>5. OpenFds' = OpenFds \cup {f}
  BY <1>1, <1>2, <1>3 DEF OpenFds
<1>6. SocketType'
  BY <1>1, <1>2 DEF SocketInv, SocketType
<1>7. Head(backlog) \in Waiting /\ Waiting' \subseteq Waiting
  BY <1>1 DEF Waiting
<1>8. Head(backlog) \notin Waiting'
  BY <1>1 DEF Waiting, SocketInv
<1>9. \A g, h \in OpenFds' : conn'[g] = conn'[h] => g = h
  BY <1>2, <1>4, <1>5, <1>7 DEF SocketInv, OpenFds
<1>10. \A j, k \in 1 .. Len(backlog') : backlog'[j] = backlog'[k] => j = k
  BY <1>1 DEF SocketInv
<1>11. \A g \in OpenFds' : conn'[g] \notin Waiting'
  BY <1>2, <1>5, <1>7, <1>8 DEF SocketInv, OpenFds
<1>12. \A d \in Clients : phase'[d] = "new" => d \notin Waiting' /\ ~Accepted(d)'
  BY <1>2, <1>7 DEF SocketInv, Accepted
<1>13. \A d \in Clients : rd'[d] <= Len(sent'[d])
  BY DEF SocketInv
<1>14. QED
  BY <1>4, <1>5, <1>6, <1>9, <1>10, <1>11, <1>12, <1>13 DEF SocketInv

\* A read() of bytes that are there, with whatever is printed for them.
LEMMA ConsumeInv ==
  ASSUME SocketInv, NEW c \in Clients, NEW n \in Nat, n <= Unread(c),
         NEW text \in Seq(Byte), Consume(c, n, text)
  PROVE  SocketInv'
<1> USE DEF Consume
<1>1. shown[c] \o text \in Seq(Byte)
  BY ConcatProperties DEF SocketInv, SocketType
<1>2. rd[c] \in Nat /\ Len(sent[c]) \in Nat /\ rd[c] + n \in Nat /\ rd[c] + n <= Len(sent[c])
  BY LenProperties DEF SocketInv, SocketType, Unread
<1>3. SocketType'
  BY <1>1, <1>2 DEF SocketInv, SocketType
<1>4. \A d \in Clients : rd'[d] <= Len(sent'[d])
  BY <1>2 DEF SocketInv, SocketType
<1>5. OpenFds' = OpenFds /\ Waiting' = Waiting /\ \A d \in Clients : Accepted(d)' = Accepted(d)
  BY DEF OpenFds, Waiting, Accepted
<1>6. QED
  BY <1>3, <1>4, <1>5 DEF SocketInv

\* close() by the server frees one descriptor and no other.
LEMMA CloseInv ==
  ASSUME SocketInv, NEW f \in Fds, CloseFd(f)
  PROVE  SocketInv' /\ OpenFds' = OpenFds \ {f}
<1> USE DEF CloseFd
<1>1. SocketType'
  BY DEF SocketInv, SocketType
<1>2. OpenFds' = OpenFds \ {f} /\ Waiting' = Waiting
  BY DEF OpenFds, Waiting, SocketInv, SocketType
<1>3. \A g \in OpenFds' : conn'[g] = conn[g]
  BY <1>2 DEF SocketInv, SocketType
<1>4. \A d \in Clients : Accepted(d)' => Accepted(d)
  BY SocketAssumption DEF Accepted, SocketInv, SocketType
<1>5. QED
  BY <1>1, <1>2, <1>3, <1>4 DEF SocketInv

\* What a read() returns: the next bytes of the history, at least one when
\* there is one, and never more than there are.
LEMMA ChunkProperties ==
  ASSUME SocketInv, NEW c \in Clients, NEW limit \in Nat \ {0}
  PROVE  /\ Chunk(c, limit) \in Seq(Byte)
         /\ Len(Chunk(c, limit)) \in Nat
         /\ Len(Chunk(c, limit)) <= Unread(c)
         /\ Unread(c) > 0 => Len(Chunk(c, limit)) > 0
         /\ Chunk(c, limit) = SubSeq(sent[c], rd[c] + 1, rd[c] + Len(Chunk(c, limit)))
<1> DEFINE m == IF Unread(c) <= limit THEN Len(sent[c]) ELSE rd[c] + limit
<1>1. /\ sent[c] \in Seq(Byte) /\ Len(sent[c]) \in Nat
      /\ rd[c] \in Nat /\ rd[c] <= Len(sent[c])
  BY LenProperties DEF SocketInv, SocketType
<1>2. m \in Nat /\ rd[c] <= m /\ m <= Len(sent[c])
  BY <1>1 DEF Unread
<1>3. \A i \in rd[c] + 1 .. m : sent[c][i] \in Byte
  BY <1>1, <1>2, ElementOfSeq
<1>4. Chunk(c, limit) = SubSeq(sent[c], rd[c] + 1, m)
  BY DEF Chunk
<1> HIDE DEF m
<1>5. /\ SubSeq(sent[c], rd[c] + 1, m) \in Seq(Byte)
      /\ Len(SubSeq(sent[c], rd[c] + 1, m)) = IF rd[c] + 1 <= m THEN m - (rd[c] + 1) + 1 ELSE 0
  <2>1. rd[c] + 1 \in Int /\ m \in Int
    BY <1>1, <1>2
  <2>2. QED
    BY <1>3, <2>1, SubSeqProperties
<1>6. Len(Chunk(c, limit)) = m - rd[c]
  BY <1>1, <1>2, <1>4, <1>5
<1>7. rd[c] + Len(Chunk(c, limit)) = m
  BY <1>1, <1>2, <1>6
<1>8. Unread(c) > 0 => m - rd[c] > 0
  BY <1>1 DEF Unread, m
<1>9. Len(Chunk(c, limit)) <= Unread(c)
  BY <1>1, <1>2, <1>6 DEF Unread
<1>10. Chunk(c, limit) \in Seq(Byte) /\ Len(Chunk(c, limit)) \in Nat
  BY <1>1, <1>2, <1>4, <1>5, <1>6
<1>11. Chunk(c, limit) = SubSeq(sent[c], rd[c] + 1, rd[c] + Len(Chunk(c, limit)))
  BY <1>4, <1>7
<1>12. QED
  BY <1>6, <1>8, <1>9, <1>10, <1>11

\* A read() is as long as what is there, or as the buffer.
LEMMA ChunkLength ==
  ASSUME SocketInv, NEW c \in Clients, NEW limit \in Nat \ {0}
  PROVE  Len(Chunk(c, limit)) = IF Unread(c) <= limit THEN Unread(c) ELSE limit
<1> DEFINE m == IF Unread(c) <= limit THEN Len(sent[c]) ELSE rd[c] + limit
<1>1. /\ sent[c] \in Seq(Byte) /\ Len(sent[c]) \in Nat
      /\ rd[c] \in Nat /\ rd[c] <= Len(sent[c])
  BY LenProperties DEF SocketInv, SocketType
<1>2. m \in Nat /\ rd[c] <= m /\ m <= Len(sent[c])
  BY <1>1 DEF Unread
<1>3. Chunk(c, limit) = SubSeq(sent[c], rd[c] + 1, m)
  BY DEF Chunk
<1>4. m - rd[c] = IF Unread(c) <= limit THEN Unread(c) ELSE limit
  BY <1>1 DEF Unread
<1> HIDE DEF m
<1>5. Len(SubSeq(sent[c], rd[c] + 1, m)) = IF rd[c] + 1 <= m THEN m - (rd[c] + 1) + 1 ELSE 0
  <2>1. \A k \in rd[c] + 1 .. m : sent[c][k] \in Byte
    BY <1>1, <1>2, ElementOfSeq
  <2>2. rd[c] + 1 \in Int /\ m \in Int
    BY <1>1, <1>2
  <2>3. QED
    BY <2>1, <2>2, SubSeqProperties
<1>6. Len(Chunk(c, limit)) = m - rd[c]
  <2>1. \A r \in Nat : r <= m => (IF r + 1 <= m THEN m - (r + 1) + 1 ELSE 0) = m - r
    BY <1>2
  <2>2. QED
    BY <1>1, <1>2, <1>3, <1>5, <2>1
<1>7. QED
  BY <1>4, <1>6

(***************************************************************************)
(* The same building blocks, as a server sees them: what became of the     *)
(* descriptors and streams that a step was not about.                      *)
(***************************************************************************)
\* A descriptor that is open leads to a client.
LEMMA OpenFdFacts ==
  ASSUME SocketInv
  PROVE  /\ OpenFds \subseteq Fds
         /\ \A f \in OpenFds : conn[f] \in Clients
         /\ \A f, g \in OpenFds : conn[f] = conn[g] => f = g
         /\ \A c \in Clients : Unread(c) \in Nat
<1>1. \A c \in Clients : Unread(c) \in Nat
  <2> TAKE c \in Clients
  <2>1. Len(sent[c]) \in Nat /\ rd[c] \in Nat /\ rd[c] <= Len(sent[c])
    BY LenProperties DEF SocketInv, SocketType
  <2>2. QED
    BY <2>1 DEF Unread
<1>2. QED
  BY <1>1 DEF SocketInv, SocketType, OpenFds

\* A step of the server that makes no system call on a connection.
LEMMA QuietFrame ==
  ASSUME SocketInv, UNCHANGED socketVars
  PROVE  /\ SocketInv' /\ OpenFds' = OpenFds
         /\ \A c \in Clients : Unread(c)' = Unread(c) /\ Readable(c)' = Readable(c)
         /\ conn' = conn /\ backlog' = backlog
<1>1. conn' = conn /\ backlog' = backlog /\ phase' = phase /\ sent' = sent /\ rd' = rd /\ shown' = shown
  BY DEF socketVars
<1>2. OpenFds' = OpenFds /\ Waiting' = Waiting
  BY <1>1 DEF OpenFds, Waiting
<1>3. \A c : Unread(c)' = Unread(c) /\ Readable(c)' = Readable(c) /\ (Accepted(c)' <=> Accepted(c))
  BY <1>1 DEF Unread, Readable, Accepted
<1>4. SocketType'
  BY <1>1 DEF SocketInv, SocketType
<1>5. SocketInv'
  BY <1>1, <1>2, <1>3, <1>4, Zenon DEF SocketInv
<1>6. QED
  BY <1>1, <1>2, <1>3, <1>5

\* Descriptors are numbers above the listening one.
LEMMA FdNumbers ==
  /\ ServerFd \in Nat /\ ServerFd \notin Fds /\ Fds \subseteq Nat
  /\ \A f \in Fds : ServerFd < f
  BY SocketAssumption DEF Fds

\* What a client does leaves the descriptors alone, and whatever a server may
\* have been told of before is still so: connections to accept, bytes to read,
\* an end of file. Other clients' streams do not change.
LEMMA ClientFrame ==
  ASSUME SocketInv, NEW c \in Clients,
         Connect(c) \/ Hangup(c) \/ \E bytes \in Seq(Byte) : Write(c, bytes)
  PROVE  /\ SocketInv'
         /\ conn' = conn /\ rd' = rd /\ shown' = shown /\ OpenFds' = OpenFds
         /\ backlog # <<>> => backlog' # <<>>
         /\ \A d \in Clients : /\ Unread(d)' \in Nat /\ Unread(d) <= Unread(d)'
                               /\ phase[d] = "closed" => phase'[d] = "closed"
                               /\ Readable(d) => Readable(d)'
                               /\ d # c => sent'[d] = sent[d] /\ phase'[d] = phase[d]
<1>1. CASE Connect(c)
  <2>1. SocketInv'
    BY <1>1, ConnectInv
  <2>2. backlog' # <<>>
    <3>1. backlog \in Seq(Clients) /\ backlog' = Append(backlog, c)
      BY <1>1 DEF Connect, SocketInv, SocketType
    <3>2. QED
      BY <3>1, AppendProperties
  <2>3. \A d \in Clients : Unread(d) \in Nat /\ Unread(d)' = Unread(d)
    BY <1>1, OpenFdFacts DEF Connect, Unread
  <2>4. \A d \in Clients : /\ phase[d] = "closed" => phase'[d] = "closed"
                           /\ d # c => phase'[d] = phase[d]
    BY <1>1 DEF Connect, SocketInv, SocketType
  <2>5. QED
    BY <1>1, <2>1, <2>2, <2>3, <2>4 DEF Connect, OpenFds, Readable
<1>2. CASE Hangup(c)
  <2>1. SocketInv'
    BY <1>2, HangupInv
  <2>2. \A d \in Clients : Unread(d) \in Nat /\ Unread(d)' = Unread(d)
    BY <1>2, OpenFdFacts DEF Hangup, Unread
  <2>3. \A d \in Clients : /\ phase[d] = "closed" => phase'[d] = "closed"
                           /\ d # c => phase'[d] = phase[d]
    BY <1>2 DEF Hangup, SocketInv, SocketType
  <2>4. QED
    BY <1>2, <2>1, <2>2, <2>3 DEF Hangup, OpenFds, Readable
<1>3. CASE \E bytes \in Seq(Byte) : Write(c, bytes)
  <2>1. PICK bytes \in Seq(Byte) : Write(c, bytes)
    BY <1>3
  <2>2. SocketInv'
    BY <2>1, WriteInv
  <2>3. /\ Len(sent[c] \o bytes) = Len(sent[c]) + Len(bytes)
        /\ Len(bytes) \in Nat /\ Len(sent[c]) \in Nat /\ rd[c] \in Nat
    BY ConcatProperties, LenProperties DEF SocketInv, SocketType
  <2>4. \A d \in Clients : d # c => sent'[d] = sent[d]
    BY <2>1 DEF Write, SocketInv, SocketType
  <2>5. sent'[c] = sent[c] \o bytes
    BY <2>1 DEF Write, SocketInv, SocketType
  <2>6. \A d \in Clients : Unread(d) \in Nat /\ Unread(d)' \in Nat
    <3> TAKE d \in Clients
    <3>1. /\ Len(sent[d]) \in Nat /\ rd[d] \in Nat /\ rd[d] <= Len(sent[d])
          /\ Len(sent'[d]) \in Nat /\ rd'[d] \in Nat /\ rd'[d] <= Len(sent'[d])
      BY <2>2, LenProperties DEF SocketInv, SocketType
    <3>2. QED
      BY <3>1 DEF Unread
  <2>7. \A d \in Clients : Unread(d) <= Unread(d)'
    <3> SUFFICES ASSUME NEW d \in Clients PROVE Unread(d) <= Unread(d)'
      OBVIOUS
    <3>1. CASE d = c
      <4>1. Unread(d)' = Len(sent[c] \o bytes) - rd[c] /\ Unread(d) = Len(sent[c]) - rd[c]
        BY <2>1, <2>5, <3>1 DEF Write, Unread
      <4>2. QED
        BY <2>3, <4>1
    <3>2. CASE d # c
      BY <2>1, <2>4, <2>6, <3>2 DEF Write, Unread
    <3>3. QED
      BY <3>1, <3>2
  <2>8. QED
    BY <2>1, <2>2, <2>4, <2>6, <2>7 DEF Write, OpenFds, Readable
<1>4. QED
  BY <1>1, <1>2, <1>3

\* accept() leaves every other descriptor and every stream alone; the new
\* descriptor leads to a client nobody else leads to.
LEMMA AcceptFrame ==
  ASSUME SocketInv, NEW f \in Fds, AcceptInto(f)
  PROVE  /\ conn'[f] = Head(backlog) /\ Head(backlog) \in Clients
         /\ \A g \in Fds : g # f => conn'[g] = conn[g]
         /\ \A g \in OpenFds : conn[g] # Head(backlog)
         /\ \A c \in Clients : Unread(c)' = Unread(c) /\ Readable(c)' = Readable(c)
<1>1. Head(backlog) \in Clients /\ Head(backlog) \in Waiting
  <2>1. backlog \in Seq(Clients) /\ backlog # <<>>
    BY DEF AcceptInto, SocketInv, SocketType
  <2>2. Len(backlog) \in Nat \ {0} /\ Head(backlog) = backlog[1] /\ Head(backlog) \in Clients
    BY <2>1, HeadTailProperties, EmptySeq, LenProperties
  <2>3. 1 \in 1 .. Len(backlog)
    BY <2>2
  <2>4. QED
    BY <2>2, <2>3 DEF Waiting
<1>2. QED
  BY <1>1 DEF AcceptInto, SocketInv, SocketType, Unread, Readable

\* accept() followed by close(): the connection is dropped, nobody else moves.
DropHead ==
  /\ backlog # <<>>
  /\ backlog' = Tail(backlog)
  /\ UNCHANGED <<phase, conn, sent, rd, shown>>

\* Taking the first of the queue without keeping it changes no connection.
LEMMA DropInv ==
  ASSUME SocketInv, DropHead
  PROVE  SocketInv' /\ OpenFds' = OpenFds
<1> USE DEF DropHead
<1>1. /\ backlog' \in Seq(Clients) /\ Len(backlog') = Len(backlog) - 1
      /\ \A k \in 1 .. Len(backlog') : backlog'[k] = backlog[k + 1]
      /\ Len(backlog) \in Nat \ {0}
  <2>1. backlog \in Seq(Clients)
    BY DEF SocketInv, SocketType
  <2>2. QED
    BY <2>1, HeadTailProperties, EmptySeq
<1>2. Waiting' \subseteq Waiting
  BY <1>1 DEF Waiting
<1>3. OpenFds' = OpenFds /\ \A d \in Clients : Accepted(d)' = Accepted(d)
  BY DEF OpenFds, Accepted
<1>4. \A j, k \in 1 .. Len(backlog') : backlog'[j] = backlog'[k] => j = k
  BY <1>1 DEF SocketInv
<1>5. SocketType'
  BY <1>1 DEF SocketInv, SocketType
<1>6. QED
  BY <1>2, <1>3, <1>4, <1>5 DEF SocketInv

\* A read() moves no descriptor and touches no stream but its own.
LEMMA ConsumeFrame ==
  ASSUME SocketInv, NEW c \in Clients, NEW n \in Nat, NEW text, Consume(c, n, text)
  PROVE  /\ conn' = conn /\ backlog' = backlog /\ phase' = phase /\ sent' = sent
         /\ OpenFds' = OpenFds
         /\ \A d \in Clients \ {c} : /\ rd'[d] = rd[d] /\ Unread(d)' = Unread(d)
                                     /\ Readable(d)' = Readable(d)
         /\ rd'[c] = rd[c] + n
         /\ Unread(c)' = Unread(c) - n
<1>1. /\ rd'[c] = rd[c] + n /\ \A d \in Clients \ {c} : rd'[d] = rd[d]
      /\ sent' = sent /\ phase' = phase /\ conn' = conn /\ backlog' = backlog
  BY DEF Consume, SocketInv, SocketType
<1>2. Len(sent[c]) \in Nat /\ rd[c] \in Nat
  BY LenProperties DEF SocketInv, SocketType
<1>3. Unread(c)' = Unread(c) - n
  BY <1>1, <1>2 DEF Unread
<1>4. QED
  BY <1>1, <1>3 DEF OpenFds, Unread, Readable

\* close() frees one descriptor; no stream and no other descriptor changes.
LEMMA CloseFrame ==
  ASSUME SocketInv, NEW f \in Fds, CloseFd(f)
  PROVE  /\ \A g \in Fds : g # f => conn'[g] = conn[g]
         /\ backlog' = backlog /\ phase' = phase /\ sent' = sent /\ rd' = rd
         /\ \A c \in Clients : Unread(c)' = Unread(c) /\ Readable(c)' = Readable(c)
  BY DEF CloseFd, SocketInv, SocketType, Unread, Readable

\* What read() returns of a connection that has something to say, and the two
\* ways the servers print it: byte by byte, or as a C string.
LEMMA ReadFacts ==
  ASSUME SocketInv, NEW c \in Clients, NEW limit \in Nat \ {0}
  PROVE  LET bytes == Chunk(c, limit)
         IN  /\ bytes \in Seq(Byte)
             /\ Len(bytes) \in Nat /\ Len(bytes) <= Unread(c)
             /\ Unread(c) > 0 => Len(bytes) > 0
             /\ bytes = SubSeq(sent[c], rd[c] + 1, rd[c] + Len(bytes))
             /\ UpperText(bytes) \in Seq(Byte)
             /\ UpperText(CString(bytes)) \in Seq(Byte)
             /\ CString(bytes) \in Seq(Byte)
<1>1. /\ Chunk(c, limit) \in Seq(Byte)
      /\ Len(Chunk(c, limit)) \in Nat /\ Len(Chunk(c, limit)) <= Unread(c)
      /\ Unread(c) > 0 => Len(Chunk(c, limit)) > 0
      /\ Chunk(c, limit) = SubSeq(sent[c], rd[c] + 1, rd[c] + Len(Chunk(c, limit)))
  BY ChunkProperties
<1>2. CString(Chunk(c, limit)) \in Seq(Byte)
  BY <1>1, CStringType
<1>3. QED
  BY <1>1, <1>2, UpperTextType

(***************************************************************************)
(* The contract: which building blocks keep NothingDropped, and which are  *)
(* steps of the abstract service.                                          *)
(***************************************************************************)
\* A write only adds to what is not read yet.
LEMMA WriteSends ==
  ASSUME SocketInv, NEW c \in Clients, NEW bytes \in Seq(Byte), Write(c, bytes)
  PROVE  Service!Send(c) /\ (NothingDropped => NothingDropped')
<1> USE DEF Write
<1>1. /\ sent[c] \in Seq(Byte) /\ Len(sent[c]) \in Nat /\ Len(bytes) \in Nat
      /\ rd[c] \in Nat /\ rd[c] <= Len(sent[c])
  BY LenProperties DEF SocketInv, SocketType
<1>2. Len(bytes) > 0
  BY <1>1, EmptySeq
<1> DEFINE s == sent[c] \o bytes
<1>3. /\ s \in Seq(Byte)
      /\ Len(s) = Len(sent[c]) + Len(bytes)
      /\ \A i \in 1 .. Len(sent[c]) + Len(bytes) :
           s[i] = IF i <= Len(sent[c]) THEN sent[c][i] ELSE bytes[i - Len(sent[c])]
  BY <1>1, ConcatProperties
<1>4. \A m \in 0 .. Len(sent[c]) : SubSeq(s, 1, m) = SubSeq(sent[c], 1, m)
  <2> SUFFICES ASSUME NEW m \in 0 .. Len(sent[c])
               PROVE  SubSeq(s, 1, m) = SubSeq(sent[c], 1, m)
    OBVIOUS
  <2>1. CASE m = 0
    BY <2>1, SubSeqEmpty
  <2>2. CASE m # 0
    <3>1. m \in 1 .. Len(sent[c]) /\ 1 \in 1 .. Len(sent[c])
      BY <1>1, <2>2
    <3>2. QED
      BY <1>1, <3>1, SubSeqOfConcat1
  <2>3. QED
    BY <2>1, <2>2
<1>5. sent' = [sent EXCEPT ![c] = s] /\ sent'[c] = s
  BY DEF SocketInv, SocketType
<1> HIDE DEF s
<1>6. ASSUME NothingDropped PROVE NothingDropped'
  <2> SUFFICES ASSUME NEW d \in Clients,
                      \A k \in 1 .. Len(sent'[d]) : sent'[d][k] # Nul
               PROVE  shown'[d] = UpperText(SubSeq(sent'[d], 1, rd'[d]))
    BY DEF NothingDropped
  <2>1. CASE d # c
    <3>1. sent'[d] = sent[d] /\ rd'[d] = rd[d] /\ shown'[d] = shown[d]
      BY <1>5, <2>1 DEF SocketInv, SocketType
    <3>2. QED
      BY <1>6, <3>1 DEF NothingDropped
  <2>2. CASE d = c
    <3>1. \A k \in 1 .. Len(sent[c]) : sent[c][k] # Nul
      BY <1>1, <1>3, <1>5, <2>2
    <3>2. SubSeq(s, 1, rd[c]) = SubSeq(sent[c], 1, rd[c])
      BY <1>1, <1>4
    <3>3. shown[c] = UpperText(SubSeq(sent[c], 1, rd[c]))
      BY <1>6, <3>1 DEF NothingDropped
    <3>4. QED
      BY <1>5, <2>2, <3>2, <3>3
  <2>3. QED
    BY <2>1, <2>2
<1>7. SubSeq(s, 1, Len(sent[c])) = sent[c]
  BY <1>1, <1>4, SubSeqFull
<1>8. Service!Send(c)
  <2>1. sent' = [sent EXCEPT ![c] = sent'[c]]
    BY <1>5, Zenon
  <2>2. Len(s) > Len(sent[c])
    BY <1>1, <1>2, <1>3
  <2>3. Len(sent'[c]) > Len(sent[c]) /\ SubSeq(sent'[c], 1, Len(sent[c])) = sent[c]
    BY <1>5, <1>7, <2>2, Zenon
  <2>4. QED
    BY <2>1, <2>3, Zenon DEF Service!Send
<1>9. QED
  BY <1>6, <1>8

\* What was read stays where it was in the history.
LEMMA WriteKeepsRead ==
  ASSUME SocketInv, NEW c \in Clients, NEW bytes \in Seq(Byte), Write(c, bytes)
  PROVE  \A d \in Clients : \A m \in 1 .. rd[d] :
           SubSeq(sent'[d], rd[d] - m + 1, rd[d]) = SubSeq(sent[d], rd[d] - m + 1, rd[d])
<1> SUFFICES ASSUME NEW d \in Clients, NEW m \in 1 .. rd[d]
             PROVE  SubSeq(sent'[d], rd[d] - m + 1, rd[d]) = SubSeq(sent[d], rd[d] - m + 1, rd[d])
  OBVIOUS
<1>1. CASE d # c
  <2>1. sent'[d] = sent[d]
    BY <1>1 DEF Write, SocketInv, SocketType
  <2>2. QED
    BY <2>1
<1>2. CASE d = c
  <2>1. /\ sent[c] \in Seq(Byte) /\ Len(sent[c]) \in Nat
        /\ rd[c] \in Nat /\ rd[c] <= Len(sent[c])
        /\ sent'[c] = sent[c] \o bytes
    BY LenProperties DEF Write, SocketInv, SocketType
  <2>2. rd[c] - m + 1 \in 1 .. Len(sent[c]) /\ rd[c] \in 1 .. Len(sent[c])
    BY <1>2, <2>1
  <2>3. SubSeq(sent[c] \o bytes, rd[c] - m + 1, rd[c]) = SubSeq(sent[c], rd[c] - m + 1, rd[c])
    BY <2>1, <2>2, SubSeqOfConcat1
  <2>4. QED
    BY <1>2, <2>1, <2>3
<1>3. QED
  BY <1>1, <1>2

\* What was read begins with what was read before, and goes on with this read.
LEMMA ReadGrows ==
  ASSUME SocketInv, NEW c \in Clients, NEW bytes \in Seq(Byte),
         Len(bytes) > 0, Len(bytes) <= Unread(c),
         bytes = SubSeq(sent[c], rd[c] + 1, rd[c] + Len(bytes))
  PROVE  /\ SubSeq(sent[c], 1, rd[c]) \in Seq(Byte)
         /\ SubSeq(sent[c], 1, rd[c] + Len(bytes)) = SubSeq(sent[c], 1, rd[c]) \o bytes
<1> DEFINE n == rd[c] + Len(bytes)
<1>1. /\ sent[c] \in Seq(Byte) /\ Len(sent[c]) \in Nat /\ Len(bytes) \in Nat
      /\ rd[c] \in Nat /\ rd[c] <= Len(sent[c])
  BY LenProperties DEF SocketInv, SocketType
<1>2. n \in rd[c] .. Len(sent[c])
  BY <1>1 DEF Unread
<1>3. SubSeq(sent[c], 1, rd[c]) \in Seq(Byte)
  <2>1. \A i \in 1 .. rd[c] : sent[c][i] \in Byte
    BY <1>1, ElementOfSeq
  <2>2. 1 \in Int /\ rd[c] \in Int
    BY <1>1
  <2>3. QED
    BY <2>1, <2>2, SubSeqProperties
<1> HIDE DEF n
<1>4. /\ 1 \in 1 .. Len(sent[c]) + 1
      /\ rd[c] \in 1 - 1 .. Len(sent[c])
  BY <1>1
<1>5. SubSeq(sent[c], 1, rd[c]) \o SubSeq(sent[c], rd[c] + 1, n) = SubSeq(sent[c], 1, n)
  BY <1>1, <1>2, <1>4, ConcatAdjacentSubSeq
<1>6. QED
  BY <1>3, <1>5, Zenon DEF n

\* A client that writes does not change what was read.
LEMMA WriteKeepsPrefix ==
  ASSUME SocketInv, NEW c \in Clients, NEW bytes \in Seq(Byte), Write(c, bytes)
  PROVE  \A d \in Clients : SubSeq(sent'[d], 1, rd[d]) = SubSeq(sent[d], 1, rd[d])
<1> SUFFICES ASSUME NEW d \in Clients
             PROVE  SubSeq(sent'[d], 1, rd[d]) = SubSeq(sent[d], 1, rd[d])
  OBVIOUS
<1>1. rd[d] \in Nat
  BY DEF SocketInv, SocketType
<1>2. CASE rd[d] = 0
  BY <1>2, SubSeqEmpty
<1>3. CASE rd[d] # 0
  <2>1. rd[d] \in 1 .. rd[d] /\ rd[d] - rd[d] + 1 = 1
    BY <1>1, <1>3
  <2>2. SubSeq(sent'[d], rd[d] - rd[d] + 1, rd[d]) = SubSeq(sent[d], rd[d] - rd[d] + 1, rd[d])
    BY <2>1, WriteKeepsRead
  <2>3. QED
    BY <2>1, <2>2
<1>4. QED
  BY <1>2, <1>3

\* A write shows nothing.
LEMMA WriteDelivery ==
  ASSUME SocketInv, NothingDropped,
         NEW c \in Clients, NEW bytes \in Seq(Byte), Write(c, bytes)
  PROVE  NothingDropped' /\ Service!Send(c)
  BY WriteSends

\* A read of the next bytes that prints them whole where no '\0' is among them.
LEMMA ReadKeepsDelivery ==
  ASSUME SocketInv, NothingDropped,
         NEW c \in Clients, NEW bytes \in Seq(Byte), NEW text \in Seq(Byte),
         Len(bytes) > 0, Len(bytes) <= Unread(c),
         bytes = SubSeq(sent[c], rd[c] + 1, rd[c] + Len(bytes)),
         (\A k \in 1 .. Len(bytes) : bytes[k] # Nul) => text = UpperText(bytes),
         Consume(c, Len(bytes), text)
  PROVE  NothingDropped'
<1> USE DEF Consume
<1> DEFINE n == rd[c] + Len(bytes)
<1>1. /\ sent[c] \in Seq(Byte) /\ Len(sent[c]) \in Nat /\ Len(bytes) \in Nat
      /\ rd[c] \in Nat /\ rd[c] <= Len(sent[c])
  BY LenProperties DEF SocketInv, SocketType
<1>2. n \in rd[c] + 1 .. Len(sent[c])
  BY <1>1 DEF Unread
<1>3. rd' = [rd EXCEPT ![c] = n]
  OBVIOUS
<1>5. n \in Nat /\ Len(bytes) = n - rd[c] /\ bytes = SubSeq(sent[c], rd[c] + 1, n)
  BY <1>1
<1> HIDE DEF n
<1>6. NothingDropped'
  <2> SUFFICES ASSUME NEW d \in Clients,
                      \A k \in 1 .. Len(sent[d]) : sent[d][k] # Nul
               PROVE  shown'[d] = UpperText(SubSeq(sent[d], 1, rd'[d]))
    BY DEF NothingDropped
  <2>1. CASE d # c
    <3>1. rd'[d] = rd[d] /\ shown'[d] = shown[d]
      BY <2>1 DEF SocketInv, SocketType
    <3>2. QED
      BY <3>1 DEF NothingDropped
  <2>2. CASE d = c
    <3> DEFINE old == SubSeq(sent[c], 1, rd[c])
    <3>1. shown[c] = UpperText(old)
      BY <2>2 DEF NothingDropped
    <3>2. \A k \in 1 .. Len(bytes) : bytes[k] # Nul
      <4>1. \A i \in rd[c] + 1 .. n : sent[c][i] \in Byte
        BY <1>1, <1>2, ElementOfSeq
      <4>2. rd[c] + 1 \in Int /\ n \in Int
        BY <1>1, <1>5
      <4>3. \A i \in 1 .. n - (rd[c] + 1) + 1 :
              SubSeq(sent[c], rd[c] + 1, n)[i] = sent[c][rd[c] + 1 + i - 1]
        BY <4>1, <4>2, SubSeqProperties
      <4>4. SUFFICES ASSUME NEW k \in 1 .. Len(bytes) PROVE bytes[k] # Nul
        OBVIOUS
      <4>5. n - (rd[c] + 1) + 1 = Len(bytes) /\ k \in Nat
        BY <1>1, <1>5
      <4>6. /\ k \in 1 .. n - (rd[c] + 1) + 1
            /\ rd[c] + 1 + k - 1 = rd[c] + k
            /\ rd[c] + k \in 1 .. Len(sent[c])
        <5> DEFINE r == rd[c]
                   l == Len(sent[c])
                   b == Len(bytes)
        <5>1. r \in Nat /\ l \in Nat /\ n \in Nat /\ n <= l /\ b = n - r /\ k \in 1 .. b
          BY <1>1, <1>2, <1>5
        <5> HIDE DEF r, l, b
        <5>2. k \in 1 .. n - (r + 1) + 1 /\ r + 1 + k - 1 = r + k /\ r + k \in 1 .. l
          BY <5>1
        <5>3. QED
          BY <5>2 DEF r, l
      <4>7. SubSeq(sent[c], rd[c] + 1, n)[k] = sent[c][rd[c] + k]
        BY <4>3, <4>6
      <4>8. sent[c][rd[c] + k] # Nul
        BY <2>2, <4>6
      <4>9. QED
        BY <1>5, <4>7, <4>8, Zenon
    <3>3. text = UpperText(bytes)
      BY <3>2
    <3>4. old \in Seq(Byte)
      <4>1. \A i \in 1 .. rd[c] : sent[c][i] \in Byte
        BY <1>1, ElementOfSeq
      <4>2. 1 \in Int /\ rd[c] \in Int
        BY <1>1
      <4>3. QED
        BY <4>1, <4>2, SubSeqProperties
    <3>5. UpperText(old) \o UpperText(bytes) = UpperText(old \o bytes)
      BY <3>4, UpperTextConcat
    <3>6. old \o bytes = SubSeq(sent[c], 1, n)
      <4>1. /\ 1 \in 1 .. Len(sent[c]) + 1
            /\ rd[c] \in 1 - 1 .. Len(sent[c])
            /\ n \in rd[c] .. Len(sent[c])
        BY <1>1, <1>2
      <4>2. SubSeq(sent[c], 1, rd[c]) \o SubSeq(sent[c], rd[c] + 1, n)
              = SubSeq(sent[c], 1, n)
        BY <1>1, <4>1, ConcatAdjacentSubSeq
      <4>3. QED
        BY <1>5, <4>2, Zenon
    <3>7. rd'[c] = n /\ shown'[c] = shown[c] \o UpperText(bytes)
      BY <1>3, <3>3 DEF SocketInv, SocketType
    <3>8. QED
      BY <2>2, <3>1, <3>5, <3>6, <3>7
  <2>3. QED
    BY <2>1, <2>2
<1>7. QED
  BY <1>6

\* A read of the next bytes that prints them as an upper-case C string.
LEMMA ReadDelivery ==
  ASSUME SocketInv, NothingDropped,
         NEW c \in Clients, NEW bytes \in Seq(Byte),
         Len(bytes) > 0, Len(bytes) <= Unread(c),
         bytes = SubSeq(sent[c], rd[c] + 1, rd[c] + Len(bytes)),
         Consume(c, Len(bytes), UpperText(CString(bytes)))
  PROVE  NothingDropped' /\ \E n \in rd[c] + 1 .. Len(sent[c]) : Service!Show(c, n)
<1> DEFINE n == rd[c] + Len(bytes)
<1>1. /\ Len(sent[c]) \in Nat /\ Len(bytes) \in Nat
      /\ rd[c] \in Nat /\ rd[c] <= Len(sent[c])
  BY LenProperties DEF SocketInv, SocketType
<1>2. n \in rd[c] + 1 .. Len(sent[c])
  BY <1>1 DEF Unread
<1>3. Service!Show(c, n)
  <2>1. UpperText(CString(bytes)) = PrintedText(SubSeq(sent[c], rd[c] + 1, n))
    BY DEF PrintedText
  <2>2. rd' = [rd EXCEPT ![c] = n]
    BY DEF Consume
  <2>3. QED
    BY <2>1, <2>2, Zenon DEF Service!Show, Consume
<1>4. UpperText(CString(bytes)) \in Seq(Byte)
  BY CStringType, UpperTextType
<1>5. (\A k \in 1 .. Len(bytes) : bytes[k] # Nul) => UpperText(CString(bytes)) = UpperText(bytes)
  BY CStringWhole
<1>6. NothingDropped'
  BY <1>4, <1>5, ReadKeepsDelivery
<1>7. QED
  BY <1>2, <1>3, <1>6

\* Everything else leaves the streams alone.
LEMMA QuietDelivery ==
  ASSUME NothingDropped, UNCHANGED <<sent, rd, shown>>
  PROVE  NothingDropped'
  BY DEF NothingDropped

\* At first nothing is sent and nothing shown.
LEMMA InitDelivery == SocketInit => NothingDropped /\ Service!Init
<1> SUFFICES ASSUME SocketInit PROVE NothingDropped /\ Service!Init
  OBVIOUS
<1>1. Service!Init
  BY DEF SocketInit, Service!Init
<1>2. \A c \in Clients : rd[c] = 0 /\ shown[c] = <<>>
  BY DEF SocketInit
<1>3. \A s : SubSeq(s, 1, 0) = <<>>
  BY SubSeqEmpty
<1>4. UpperText(<<>>) = <<>>
  <2>1. <<>> \in Seq(Byte) /\ Len(<<>>) = 0
    BY EmptySeq
  <2>2. UpperText(<<>>) \in Seq(Byte) /\ Len(UpperText(<<>>)) = 0
    BY <2>1, UpperTextType
  <2>3. QED
    BY <2>2, EmptySeq
<1>5. NothingDropped
  BY <1>2, <1>3, <1>4 DEF NothingDropped
<1>6. QED
  BY <1>1, <1>5

=============================================================================
