------------------------- MODULE ObjectValuesProofs -------------------------
(***************************************************************************)
(* What holds of ObjectValues for any properties, texts and numbers, and   *)
(* for words of any length: a reading that no put of another type comes    *)
(* into returns what was put, joining publishes the object's properties    *)
(* and leaving keeps the session's.                                        *)
(*                                                                         *)
(* Shifted and GetNum are recursive over the bytes of a word.  That these  *)
(* recursions define functions, and what they compute, is proved from the  *)
(* well-foundedness of < on Nat.                                           *)
(***************************************************************************)
EXTENDS ObjectValues, WellFoundedInduction, SequenceTheorems, TLAPS

-----------------------------------------------------------------------------
\* Induction: a set with 0 in it and with the successor of each of its elements
\* has all numbers up to len, since < is well founded on Nat.
LEMMA UpTo ==
  ASSUME NEW S, NEW len \in Nat, 0 \in S, \A i \in 1..len : i - 1 \in S => i \in S
  PROVE  0..len \subseteq S
<1> DEFINE T == (0..len) \ S
           R == OpToRel(<, Nat)
<1>1. IsWellFoundedOn(R, Nat)
      BY NatLessThanWellFounded
<1>2. SUFFICES ASSUME T # {} PROVE FALSE
      OBVIOUS
<1>3. T \subseteq Nat
      OBVIOUS
<1>4. \E x \in T : \A y \in T : ~ (<<y, x>> \in R)
  <2> HIDE DEF T, R
  <2>1. QED BY <1>1, <1>2, <1>3, WFMin
<1>5. PICK x \in T : \A y \in T : ~ (<<y, x>> \in R)
      BY <1>4
<1>6. x \in 1..len /\ x - 1 \in Nat /\ x \in Nat
      OBVIOUS
<1>7. x - 1 \in T
      BY <1>6
<1>8. <<x - 1, x>> \in R
      BY <1>6 DEF OpToRel
<1>9. QED BY <1>5, <1>7, <1>8


\* f starts at c and goes on by F, up to m.
Follows(f, c, F, m) ==
  f \in [0..m -> Nat] /\ f[0] = c /\ \A k \in 1..m : f[k] = F[k][f[k - 1]]

\* A function of which each value is computed from the one before exists.
LEMMA Recursion ==
  ASSUME NEW len \in Nat, NEW c \in Nat, NEW F \in [1..len -> [Nat -> Nat]]
  PROVE  \E f : Follows(f, c, F, len)
<1> DEFINE S == {m \in 0..len : \E f : Follows(f, c, F, m)}
<1>1. 0 \in S
  <2> DEFINE f == [k \in 0..0 |-> c]
  <2>1. Follows(f, c, F, 0)
        BY DEF Follows
  <2> HIDE DEF f
  <2>2. QED BY <2>1
<1>2. ASSUME NEW m \in 1..len, m - 1 \in S PROVE m \in S
  <2>1. PICK f : Follows(f, c, F, m - 1)
        BY <1>2
  <2> DEFINE g == [k \in 0..m |-> IF k = m THEN F[m][f[m - 1]] ELSE f[k]]
  <2>2. m \in Nat /\ m - 1 \in Nat /\ m - 1 \in 0..(m - 1) /\ m \in 0..m /\ 0 \in 0..(m - 1)
        OBVIOUS
  <2>3. f[m - 1] \in Nat /\ F[m][f[m - 1]] \in Nat
        BY <2>1, <2>2 DEF Follows
  <2>4. \A k \in 0..(m - 1) : k \in 0..m /\ k # m /\ f[k] \in Nat
        BY <2>1, <2>2 DEF Follows
  <2>5. g \in [0..m -> Nat]
        BY <2>3, <2>4
  <2>6. g[m] = F[m][f[m - 1]] /\ \A k \in 0..(m - 1) : g[k] = f[k]
        BY <2>2, <2>4
  <2> HIDE DEF g
  <2>7. ASSUME NEW k \in 1..m PROVE g[k] = F[k][g[k - 1]]
    <3>1. k - 1 \in 0..(m - 1) /\ g[k - 1] = f[k - 1]
          BY <2>2, <2>6
    <3>2. CASE k = m
          BY <3>1, <3>2, <2>6
    <3>3. CASE k # m
      <4>1. k \in 1..(m - 1) /\ k \in 0..(m - 1)
            BY <3>3
      <4>2. QED BY <4>1, <3>1, <2>1, <2>6 DEF Follows
    <3>4. QED BY <3>2, <3>3
  <2>8. g[0] = c
        BY <2>1, <2>2, <2>6 DEF Follows
  <2>9. Follows(g, c, F, m)
        BY <2>5, <2>7, <2>8 DEF Follows
  <2>10. m \in 0..len
        OBVIOUS
  <2> HIDE DEF Follows
  <2>11. QED BY <2>9, <2>10
<1>3. \A i \in 1..len : i - 1 \in S => i \in S
      BY <1>2
<1>4. len \in 0..len
      OBVIOUS
<1>5. len \in S
  <2> HIDE DEF S
  <2>1. 0..len \subseteq S
        BY <1>1, <1>3, UpTo
  <2>2. QED BY <2>1, <1>4
<1>6. QED BY <1>5

\* What is left of n as byte after byte is shifted out.
Shifts(s, n, len) ==
  s \in [0..len -> Nat] /\ s[0] = n /\ \A k \in 1..len : s[k] = s[k - 1] \div 256

\* Shifted is such a function.
LEMMA ShiftedIs ==
  ASSUME NEW n \in Nat, NEW len \in Nat
  PROVE  Shifts(Shifted(n, len), n, len)
<1> DEFINE F == [k \in 1..len |-> [v \in Nat |-> v \div 256]]
           Is(f) == f = [k \in 0..len |-> IF k = 0 THEN n ELSE f[k - 1] \div 256]
<1>1. F \in [1..len -> [Nat -> Nat]] /\ \A k \in 1..len, v \in Nat : F[k][v] = v \div 256
      OBVIOUS
<1>2. PICK f : Follows(f, n, F, len)
  <2> HIDE DEF F
  <2>1. QED BY <1>1, Recursion
<1> HIDE DEF F
<1>3. ASSUME NEW k \in 1..len PROVE f[k] = f[k - 1] \div 256
  <2>1. k - 1 \in 0..len
        OBVIOUS
  <2>2. f[k - 1] \in Nat /\ f[k] = F[k][f[k - 1]]
        BY <1>2, <2>1 DEF Follows
  <2>3. QED BY <1>1, <2>2
<1>4. Is(f)
      BY <1>2, <1>3 DEF Follows
<1>5. Shifted(n, len) = CHOOSE g : Is(g)
      BY DEF Shifted
<1>6. Is(Shifted(n, len))
  <2> HIDE DEF Is
  <2>1. QED BY <1>4, <1>5
<1> DEFINE s == Shifted(n, len)
<1>7. s = [k \in 0..len |-> IF k = 0 THEN n ELSE s[k - 1] \div 256]
      BY <1>6
<1> HIDE DEF s
<1>8. s[0] = n /\ \A k \in 1..len : s[k] = s[k - 1] \div 256
      BY <1>7
<1> DEFINE S == {k \in 0..len : s[k] \in Nat}
<1>9. 0 \in S /\ \A i \in 1..len : i - 1 \in S => i \in S
      BY <1>8
<1>10. 0..len \subseteq S
  <2> HIDE DEF S
  <2>1. QED BY <1>9, UpTo
<1>11. s \in [0..len -> Nat]
  <2>1. \A k \in 0..len : s[k] \in Nat
        BY <1>10
  <2>2. QED BY <1>7, <2>1
<1>12. Shifts(s, n, len)
      BY <1>8, <1>11 DEF Shifts
<1>13. QED BY <1>12 DEF s

\* The bytes of data behind offset, of which GetNum makes a number: its value
\* of the first k bytes.
Value(data, offset, len) ==
  LET value[i \in 0..len] ==
        IF i = 0 THEN 0 ELSE 256 * value[i - 1] + (data[offset + i] % 256)
  IN  value

Reads(v, data, offset, len) ==
  /\ v \in [0..len -> Nat]
  /\ v[0] = 0
  /\ \A k \in 1..len : /\ data[offset + k] \in Nat
                       /\ v[k] = 256 * v[k - 1] + (data[offset + k] % 256)
  /\ GetNum(data, offset, len) = v[len]

\* The loop of GetNum computes its value byte by byte.
LEMMA ValueIs ==
  ASSUME NEW len \in Nat, NEW offset \in Nat, NEW data \in Seq(Nat), HasNum(data, offset, len)
  PROVE  Reads(Value(data, offset, len), data, offset, len)
<1> DEFINE F == [k \in 1..len |-> [v \in Nat |-> 256 * v + (data[offset + k] % 256)]]
           Is(f) == f = [k \in 0..len |->
                           IF k = 0 THEN 0 ELSE 256 * f[k - 1] + (data[offset + k] % 256)]
<1>0. ASSUME NEW k \in 1..len PROVE offset + k \in 1..Len(data) /\ data[offset + k] \in Nat
  <2>1. Len(data) \in Nat /\ Len(data) >= offset + len
        BY DEF HasNum
  <2>2. offset + k \in 1..Len(data)
        BY <2>1
  <2>3. QED BY <2>2
<1>1. ASSUME NEW k \in 1..len, NEW v \in Nat PROVE 256 * v + (data[offset + k] % 256) \in Nat
  <2>1. PICK b \in Nat : b = data[offset + k]
        BY <1>0
  <2>2. 256 * v + (b % 256) \in Nat
        OBVIOUS
  <2>3. QED BY <2>1, <2>2
<1>2. /\ F \in [1..len -> [Nat -> Nat]]
      /\ \A k \in 1..len, v \in Nat : F[k][v] = 256 * v + (data[offset + k] % 256)
      BY <1>1
<1>3. PICK f : Follows(f, 0, F, len)
  <2> HIDE DEF F
  <2>1. QED BY <1>2, Recursion
<1> HIDE DEF F
<1>4. ASSUME NEW k \in 1..len PROVE f[k] = 256 * f[k - 1] + (data[offset + k] % 256)
  <2>1. k - 1 \in 0..len
        OBVIOUS
  <2>2. f[k - 1] \in Nat /\ f[k] = F[k][f[k - 1]]
        BY <1>3, <2>1 DEF Follows
  <2>3. QED BY <1>2, <2>2
<1>5. Is(f)
      BY <1>3, <1>4 DEF Follows
<1>6. Value(data, offset, len) = CHOOSE g : Is(g)
      BY DEF Value
<1>7. Is(Value(data, offset, len))
  <2> HIDE DEF Is
  <2>1. QED BY <1>5, <1>6
<1> DEFINE s == Value(data, offset, len)
<1>8. s = [k \in 0..len |-> IF k = 0 THEN 0 ELSE 256 * s[k - 1] + (data[offset + k] % 256)]
      BY <1>7
<1>9. GetNum(data, offset, len) = s[len]
      BY DEF GetNum, Value
<1> HIDE DEF s
<1>10. s[0] = 0 /\ \A k \in 1..len : s[k] = 256 * s[k - 1] + (data[offset + k] % 256)
      BY <1>8
<1> DEFINE S == {k \in 0..len : s[k] \in Nat}
<1>11. ASSUME NEW k \in 1..len, k - 1 \in S PROVE k \in S
  <2>1. s[k] = 256 * s[k - 1] + (data[offset + k] % 256) /\ s[k - 1] \in Nat /\ k \in 0..len
        BY <1>10, <1>11
  <2>2. s[k] \in Nat
        BY <2>1, <1>1
  <2>3. QED BY <2>1, <2>2
<1>12. 0 \in S /\ \A k \in 1..len : k - 1 \in S => k \in S
      BY <1>10, <1>11
<1>13. 0..len \subseteq S
  <2> HIDE DEF S
  <2>1. QED BY <1>12, UpTo
<1>14. s \in [0..len -> Nat]
  <2>1. \A k \in 0..len : s[k] \in Nat
        BY <1>13
  <2>2. QED BY <1>8, <2>1
<1>15. Reads(s, data, offset, len)
      BY <1>0, <1>9, <1>10, <1>14 DEF Reads
<1>16. QED BY <1>15 DEF s

\* GetNum reads what PutNum wrote: for words of any length, the number read
\* of the first k bytes is what is left when the others are shifted out.
LEMMA WordIsRead ==
  ASSUME NEW len \in Nat, NEW n \in Nat, Fits(n, len), NEW offset \in Nat, NEW data \in Seq(Nat),
         HasNum(data, offset, len),
         \A k \in 1..len : data[offset + k] = PutNum(n, len)[k]
  PROVE  GetNum(data, offset, len) = n
<1> DEFINE v == Value(data, offset, len)
           s == Shifted(n, len)
           S == {k \in 0..len : v[k] = s[len - k]}
<1>1. Shifts(s, n, len)
      BY ShiftedIs
<1>2. Reads(v, data, offset, len)
      BY ValueIs
<1>3. s[len] = 0 /\ \A k \in 1..len : data[offset + k] = s[len - k] % 256
      BY DEF Fits, PutNum
<1> HIDE DEF v, s
<1>4. ASSUME NEW k \in 1..len, k - 1 \in S PROVE k \in S
  <2>1. len - k \in 0..len /\ len - k + 1 \in 1..len /\ len - (k - 1) = len - k + 1
        /\ (len - k + 1) - 1 = len - k
        OBVIOUS
  <2>2. s[len - k + 1] = s[len - k] \div 256 /\ s[len - k] \in Nat
        BY <1>1, <2>1 DEF Shifts
  <2>3. v[k - 1] = s[len - k + 1]
        BY <1>4, <2>1
  <2>4. v[k] = 256 * (s[len - k] \div 256) + ((s[len - k] % 256) % 256)
        BY <1>2, <1>3, <2>2, <2>3 DEF Reads
  <2>5. v[k] = s[len - k]
        BY <2>2, <2>4
  <2>6. QED BY <2>5
<1>5. 0 \in S
      BY <1>2, <1>3 DEF Reads
<1>6. len \in 0..len
      OBVIOUS
<1>7. len \in S
  <2> HIDE DEF S
  <2>1. \A k \in 1..len : k - 1 \in S => k \in S
        BY <1>4
  <2>2. 0..len \subseteq S
        BY <1>5, <2>1, UpTo
  <2>3. QED BY <1>6, <2>2
<1>8. len - len = 0
      OBVIOUS
<1>9. QED BY <1>1, <1>2, <1>7, <1>8 DEF Shifts, Reads

\* Whatever bytes it is made of, the number GetNum makes fits the word.
LEMMA ReadFits ==
  ASSUME NEW len \in Nat, NEW offset \in Nat, NEW data \in Seq(Nat), HasNum(data, offset, len)
  PROVE  Fits(GetNum(data, offset, len), len)
<1> DEFINE v == Value(data, offset, len)
           n == GetNum(data, offset, len)
           s == Shifted(n, len)
           S == {k \in 0..len : s[k] = v[len - k]}
<1>1. Reads(v, data, offset, len)
      BY ValueIs
<1>2. len \in 0..len /\ len - 0 = len /\ len - len = 0
      OBVIOUS
<1>3. n \in Nat
      BY <1>1, <1>2 DEF Reads
<1>4. Shifts(s, n, len)
  <2> HIDE DEF n
  <2>1. QED BY <1>3, ShiftedIs
<1> HIDE DEF v, s, n
<1>5. ASSUME NEW k \in 1..len, k - 1 \in S PROVE k \in S
  <2>1. len - k \in 0..len /\ len - k + 1 \in 1..len /\ len - (k - 1) = len - k + 1
        /\ (len - k + 1) - 1 = len - k
        OBVIOUS
  <2>2. s[k] = v[len - k + 1] \div 256
        BY <1>4, <1>5, <2>1 DEF Shifts
  <2>3. PICK j \in 1..len : j = len - k + 1 /\ j - 1 = len - k
        BY <2>1
  <2>4. PICK a \in Nat, b \in Nat : a = v[j - 1] /\ v[j] = 256 * a + (b % 256)
    <3>1. data[offset + j] \in Nat /\ v[j - 1] \in Nat
      <4>1. data[offset + j] \in Nat
            BY <1>1, Zenon DEF Reads
      <4>2. v \in [0..len -> Nat] /\ j - 1 \in 0..len
            BY <1>1, <2>1, <2>3 DEF Reads
      <4>3. QED BY <4>1, <4>2
    <3>2. v[j] = 256 * v[j - 1] + (data[offset + j] % 256)
          BY <1>1, Zenon DEF Reads
    <3>3. QED BY <3>1, <3>2
  <2>5. (256 * a + (b % 256)) \div 256 = a
        OBVIOUS
  <2>6. s[k] = v[len - k]
        BY <2>2, <2>3, <2>4, <2>5
  <2>7. QED BY <2>6
<1>6. 0 \in S
      BY <1>1, <1>2, <1>4 DEF Shifts, Reads, n
<1>7. len \in S
  <2> HIDE DEF S
  <2>1. \A k \in 1..len : k - 1 \in S => k \in S
        BY <1>5
  <2>2. 0..len \subseteq S
        BY <1>6, <2>1, UpTo
  <2>3. QED BY <1>2, <2>2
<1>8. s[len] = 0
      BY <1>1, <1>2, <1>7 DEF Reads
<1>9. QED BY <1>3, <1>8 DEF Fits, s, n

-----------------------------------------------------------------------------
\* The codes of an item: bytes, and the markers each taken for one.
Codes == 0..258

\* The values a property can come to have, those misread by another's tag
\* included.  An object's text is never that of null.
Held ==
  {[kind |-> "number", v |-> <<n>>] : n \in {m \in Nat : Fits(m, WordLen)}}
    \cup {[kind |-> "boolean", v |-> <<b>>] : b \in {0, 1}}
    \cup {[kind |-> "string", v |-> t] : t \in Seq(Codes)}
    \cup {[kind |-> "object", v |-> t] : t \in Seq(Codes) \ {NullText}}
    \cup {Null}

HeldOrNot == Held \cup {Undefined}

\* A tag before a text: the tag comes first, the text is what follows.
LEMMA Tagged ==
  ASSUME NEW tag \in Codes, NEW t \in Seq(Codes)
  PROVE  /\ <<tag>> \o t \in Seq(Codes) /\ <<tag>> \o t \in Seq(Nat)
         /\ Len(<<tag>> \o t) = Len(t) + 1
         /\ (<<tag>> \o t)[1] = tag
         /\ \A i \in 1..Len(t) : (<<tag>> \o t)[1 + i] = t[i]
         /\ Tail(<<tag>> \o t) = t
         /\ <<tag>> \o t # <<>>
<1> DEFINE d == <<tag>> \o t
<1>1. <<tag>> \in Seq(Codes) /\ Len(<<tag>>) = 1 /\ <<tag>>[1] = tag
      OBVIOUS
<1>2. Len(t) \in Nat
      BY LenProperties
<1>3. /\ d \in Seq(Codes)
      /\ Len(d) = 1 + Len(t)
      /\ \A i \in 1..(1 + Len(t)) : d[i] = IF i <= 1 THEN <<tag>>[i] ELSE t[i - 1]
      BY <1>1, ConcatProperties
<1> HIDE DEF d
<1>4. d[1] = tag
      BY <1>1, <1>2, <1>3
<1>5. ASSUME NEW i \in 1..Len(t) PROVE d[1 + i] = t[i]
  <2>1. 1 + i \in 1..(1 + Len(t)) /\ ~(1 + i <= 1) /\ (1 + i) - 1 = i
        BY <1>2
  <2>2. QED BY <1>3, <2>1
<1>6. d # <<>>
      BY <1>2, <1>3
<1>7. /\ Tail(d) \in Seq(Codes)
      /\ Len(Tail(d)) = Len(t)
      /\ \A i \in 1..Len(t) : Tail(d)[i] = d[i + 1]
      BY <1>2, <1>3, <1>6, HeadTailProperties
<1>8. \A i \in 1..Len(t) : Tail(d)[i] = t[i]
      BY <1>2, <1>5, <1>7
<1>9. Tail(d) = t
      BY <1>7, <1>8, SeqEqual
<1>10. Codes \subseteq Nat
       BY DEF Codes
<1>11. d \in Seq(Nat)
       BY <1>3, <1>10, SeqMonotonic
<1>12. QED BY <1>2, <1>3, <1>4, <1>5, <1>6, <1>9, <1>11 DEF d

\* The bytes of a word.
LEMMA WordBytes ==
  ASSUME NEW n \in Nat, NEW len \in Nat
  PROVE  PutNum(n, len) \in Seq(Codes) /\ Len(PutNum(n, len)) = len
<1> DEFINE s == Shifted(n, len)
<1>1. Shifts(s, n, len)
      BY ShiftedIs
<1> HIDE DEF s
<1>2. ASSUME NEW i \in 1..len PROVE s[len - i] % 256 \in Codes
  <2>1. len - i \in 0..len
        OBVIOUS
  <2>2. PICK b \in Nat : b = s[len - i]
        BY <1>1, <2>1 DEF Shifts
  <2>3. b % 256 \in 0..255
        OBVIOUS
  <2>4. QED BY <2>2, <2>3 DEF Codes
<1>3. PutNum(n, len) = [i \in 1..len |-> s[len - i] % 256]
      BY DEF PutNum, s
<1>4. PutNum(n, len) \in [1..len -> Codes]
      BY <1>2, <1>3
<1>5. QED BY <1>4

\* A word behind its tag is read as the number that was put.
LEMMA WordIsDecoded ==
  ASSUME NEW len \in Nat, NEW n \in Nat, Fits(n, len), NEW tag \in Codes
  PROVE  LET data == <<tag>> \o PutNum(n, len) IN
         /\ data \in Seq(Codes) /\ Len(data) = 1 + len /\ data[1] = tag
         /\ HasNum(data, 1, len)
         /\ GetNum(data, 1, len) = n
<1> DEFINE p == PutNum(n, len)
           data == <<tag>> \o p
<1>1. p \in Seq(Codes) /\ Len(p) = len
      BY WordBytes
<1>2. \A k \in 1..len : p[k] = PutNum(n, len)[k]
      OBVIOUS
<1> HIDE DEF p
<1>3. /\ data \in Seq(Codes) /\ data \in Seq(Nat) /\ Len(data) = len + 1 /\ data[1] = tag
      /\ \A k \in 1..len : data[1 + k] = p[k]
      BY <1>1, Tagged
<1> HIDE DEF data
<1>4. HasNum(data, 1, len) /\ Len(data) = 1 + len
      BY <1>3 DEF HasNum
<1>5. \A k \in 1..len : data[1 + k] = PutNum(n, len)[k]
      BY <1>2, <1>3
<1>6. GetNum(data, 1, len) = n
      BY <1>3, <1>4, <1>5, WordIsRead
<1>7. QED BY <1>3, <1>4, <1>6 DEF data, p

\* One byte holds 0 and 1.
LEMMA BitFits == ASSUME NEW b \in {0, 1} PROVE b \in Nat /\ Fits(b, 1)
<1> DEFINE s == Shifted(b, 1)
<1>1. Shifts(s, b, 1)
      BY ShiftedIs
<1> HIDE DEF s
<1>2. s[1] = b \div 256
      BY <1>1 DEF Shifts
<1>3. b \div 256 = 0
      OBVIOUS
<1>4. QED BY <1>2, <1>3 DEF Fits, s

\* Decode by each of the tags there are.
LEMMA DecodeString ==
  ASSUME NEW data
  PROVE  Decode(TYPE_STRING, data) = IF Len(data) > 1 THEN Unmarked(Tail(data)) ELSE Undefined
BY DEF Decode, TYPE_STRING, TYPE_BOOLEAN, TYPE_DOUBLE, TYPE_COMPLEX

\* The value of an item with the tag of a number, by GetDouble.
LEMMA DecodeDouble ==
  ASSUME NEW data
  PROVE  Decode(TYPE_DOUBLE, data) =
           IF HasNum(data, 1, WordLen)
             THEN [kind |-> "number", v |-> <<GetNum(data, 1, WordLen)>>] ELSE Undefined
BY DEF Decode, TYPE_STRING, TYPE_BOOLEAN, TYPE_DOUBLE, TYPE_COMPLEX

\* The value of an item with the tag of a boolean, by GetBoolean.
LEMMA DecodeBoolean ==
  ASSUME NEW data
  PROVE  Decode(TYPE_BOOLEAN, data) =
           IF HasNum(data, 1, 1)
             THEN [kind |-> "boolean", v |-> IF GetNum(data, 1, 1) = 0 THEN <<0>> ELSE <<1>>]
             ELSE Undefined
BY DEF Decode, TYPE_STRING, TYPE_BOOLEAN, TYPE_DOUBLE, TYPE_COMPLEX

\* What a text says behind its marker.
LEMMA UnmarkedCases ==
  ASSUME NEW text
  PROVE  Unmarked(text) =
           IF text[1] = STRING_TYPE THEN [kind |-> "string", v |-> Tail(text)]
           ELSE IF text[1] = COMPLEX_TYPE
             THEN IF Tail(text) = NullText THEN Null ELSE [kind |-> "object", v |-> Tail(text)]
           ELSE IF text[1] = NULL_TYPE THEN Null
           ELSE [kind |-> "string", v |-> text]
BY DEF Unmarked, STRING_TYPE, COMPLEX_TYPE, NULL_TYPE

\* What is put is what is got: for every value a property can have, the item
\* it is put as is read as that value by its own tag.
RoundTrips(value) ==
  /\ Encode(value) \in Seq(Codes)
  /\ Encode(value) # <<>>
  /\ Encode(value)[1] \in TYPE_STRING..TYPE_DOUBLE
  /\ Decode(Encode(value)[1], Encode(value)) = value

\* A number that fits a word comes back from its WordLen bytes.
LEMMA NumberRoundTrips ==
  ASSUME NEW n \in Nat, Fits(n, WordLen) PROVE RoundTrips([kind |-> "number", v |-> <<n>>])
<1> DEFINE value == [kind |-> "number", v |-> <<n>>]
           data == <<TYPE_DOUBLE>> \o PutNum(n, WordLen)
<1>1. Encode(value) = data
      BY DEF Encode
<1>2. WordLen \in Nat /\ TYPE_DOUBLE \in Codes
      BY ValuesAssumption DEF TYPE_DOUBLE, Codes
<1>3. /\ data \in Seq(Codes) /\ Len(data) = 1 + WordLen /\ data[1] = TYPE_DOUBLE
      /\ HasNum(data, 1, WordLen) /\ GetNum(data, 1, WordLen) = n
      BY <1>2, WordIsDecoded
<1> HIDE DEF data
<1>4. Decode(data[1], data) = value
      BY <1>3, DecodeDouble
<1>5. data # <<>>
      BY <1>2, <1>3
<1>6. QED BY <1>1, <1>3, <1>4, <1>5 DEF RoundTrips, TYPE_STRING, TYPE_DOUBLE

\* A boolean comes back from its one byte.
LEMMA BooleanRoundTrips ==
  ASSUME NEW b \in {0, 1} PROVE RoundTrips([kind |-> "boolean", v |-> <<b>>])
<1> DEFINE value == [kind |-> "boolean", v |-> <<b>>]
           data == <<TYPE_BOOLEAN>> \o PutNum(b, 1)
<1>1. Encode(value) = data
      BY DEF Encode
<1>2. TYPE_BOOLEAN \in Codes
      BY DEF TYPE_BOOLEAN, Codes
<1>3. /\ data \in Seq(Codes) /\ Len(data) = 1 + 1 /\ data[1] = TYPE_BOOLEAN
      /\ HasNum(data, 1, 1) /\ GetNum(data, 1, 1) = b
      BY <1>2, BitFits, WordIsDecoded
<1> HIDE DEF data
<1>4. Decode(data[1], data) = value
  <2>1. (IF b = 0 THEN <<0>> ELSE <<1>>) = <<b>>
        OBVIOUS
  <2>2. Decode(TYPE_BOOLEAN, data) = value
        BY <1>3, <2>1, DecodeBoolean
  <2>3. QED BY <1>3, <2>2
<1>5. data # <<>>
  <2>1. Len(data) = 2
        BY <1>3
  <2>2. QED BY <2>1
<1>6. QED BY <1>1, <1>3, <1>4, <1>5 DEF RoundTrips, TYPE_STRING, TYPE_DOUBLE, TYPE_BOOLEAN

\* A marker, and what is behind it.
LEMMA MarkedIsDecoded ==
  ASSUME NEW marker \in Codes, NEW t \in Seq(Codes)
  PROVE  LET text == <<marker>> \o t
             data == <<TYPE_STRING>> \o text
         IN  /\ data \in Seq(Codes) /\ data # <<>> /\ data[1] = TYPE_STRING
             /\ Decode(data[1], data) = Unmarked(text)
             /\ text[1] = marker /\ Tail(text) = t
<1> DEFINE text == <<marker>> \o t
           data == <<TYPE_STRING>> \o text
<1>1. Len(t) \in Nat /\ TYPE_STRING \in Codes
      BY LenProperties DEF TYPE_STRING, Codes
<1>2. /\ text \in Seq(Codes) /\ Len(text) = Len(t) + 1 /\ text[1] = marker /\ Tail(text) = t
      BY Tagged
<1> HIDE DEF text
<1>3. /\ data \in Seq(Codes) /\ data # <<>> /\ Len(data) = Len(text) + 1
      /\ data[1] = TYPE_STRING /\ Tail(data) = text
      BY <1>1, <1>2, Tagged
<1> HIDE DEF data
<1>4. Decode(data[1], data) = Unmarked(text)
  <2>1. Len(data) > 1
        BY <1>1, <1>2, <1>3
  <2>2. Decode(TYPE_STRING, data) = Unmarked(text)
        BY <1>3, <2>1, DecodeString
  <2>3. QED BY <1>3, <2>2
<1>5. QED BY <1>2, <1>3, <1>4 DEF data, text

\* A string, the text of an object, and null come back from behind their markers.
LEMMA TextRoundTrips ==
  ASSUME NEW t \in Seq(Codes)
  PROVE  /\ RoundTrips([kind |-> "string", v |-> t])
         /\ t # NullText => RoundTrips([kind |-> "object", v |-> t])
         /\ RoundTrips(Null)
<1>1. NullText \in Seq(Codes) /\ STRING_TYPE \in Codes /\ COMPLEX_TYPE \in Codes
      BY DEF NullText, Codes, STRING_TYPE, COMPLEX_TYPE
<1>0. STRING_TYPE # COMPLEX_TYPE
      BY DEF STRING_TYPE, COMPLEX_TYPE
<1>2. RoundTrips([kind |-> "string", v |-> t])
  <2> DEFINE value == [kind |-> "string", v |-> t]
             text == <<STRING_TYPE>> \o t
             data == <<TYPE_STRING>> \o text
  <2>1. Encode(value) = data
        BY DEF Encode, Marked
  <2>2. /\ data \in Seq(Codes) /\ data # <<>> /\ data[1] = TYPE_STRING
        /\ Decode(data[1], data) = Unmarked(text) /\ text[1] = STRING_TYPE /\ Tail(text) = t
        BY <1>1, MarkedIsDecoded
  <2> HIDE DEF data, text
  <2>3. Unmarked(text) = value
        BY <2>2, <1>0, UnmarkedCases
  <2>4. QED BY <2>1, <2>2, <2>3 DEF RoundTrips, TYPE_STRING, TYPE_DOUBLE
<1>3. ASSUME t # NullText PROVE RoundTrips([kind |-> "object", v |-> t])
  <2> DEFINE value == [kind |-> "object", v |-> t]
             text == <<COMPLEX_TYPE>> \o t
             data == <<TYPE_STRING>> \o text
  <2>1. Encode(value) = data
        BY DEF Encode, Marked
  <2>2. /\ data \in Seq(Codes) /\ data # <<>> /\ data[1] = TYPE_STRING
        /\ Decode(data[1], data) = Unmarked(text) /\ text[1] = COMPLEX_TYPE /\ Tail(text) = t
        BY <1>1, MarkedIsDecoded
  <2> HIDE DEF data, text
  <2>3. Unmarked(text) = value
        BY <1>3, <2>2, <1>0, UnmarkedCases
  <2>4. QED BY <2>1, <2>2, <2>3 DEF RoundTrips, TYPE_STRING, TYPE_DOUBLE
<1>4. RoundTrips(Null)
  <2> DEFINE text == <<COMPLEX_TYPE>> \o NullText
             data == <<TYPE_STRING>> \o text
  <2>1. Encode(Null) = data
        BY DEF Encode, Marked, Null
  <2>2. /\ data \in Seq(Codes) /\ data # <<>> /\ data[1] = TYPE_STRING
        /\ Decode(data[1], data) = Unmarked(text) /\ text[1] = COMPLEX_TYPE
        /\ Tail(text) = NullText
        BY <1>1, MarkedIsDecoded
  <2> HIDE DEF data, text
  <2>3. Unmarked(text) = Null
        BY <2>2, <1>0, UnmarkedCases
  <2>4. QED BY <2>1, <2>2, <2>3 DEF RoundTrips, TYPE_STRING, TYPE_DOUBLE
<1>5. QED BY <1>2, <1>3, <1>4

\* So does every value that a property can have.
THEOREM HeldRoundTrips == ASSUME NEW value \in Held PROVE RoundTrips(value)
<1>1. CASE \E n \in Nat : Fits(n, WordLen) /\ value = [kind |-> "number", v |-> <<n>>]
      BY <1>1, NumberRoundTrips
<1>2. CASE \E b \in {0, 1} : value = [kind |-> "boolean", v |-> <<b>>]
      BY <1>2, BooleanRoundTrips
<1>3. CASE \E t \in Seq(Codes) : value = [kind |-> "string", v |-> t]
      BY <1>3, TextRoundTrips
<1>4. CASE \E t \in Seq(Codes) : t # NullText /\ value = [kind |-> "object", v |-> t]
      BY <1>4, TextRoundTrips
<1>5. CASE value = Null
  <2>1. <<>> \in Seq(Codes)
        OBVIOUS
  <2>2. QED BY <1>5, <2>1, TextRoundTrips
<1>6. QED BY <1>1, <1>2, <1>3, <1>4, <1>5 DEF Held

\* Whatever the tag and the item, what is read is a value a property can have,
\* or nothing: a misread item does no more than yield another value.
LEMMA DecodeHolds ==
  ASSUME NEW tag \in TYPE_STRING..TYPE_DOUBLE, NEW data \in Seq(Codes)
  PROVE  Decode(tag, data) \in HeldOrNot
<1>1. Len(data) \in Nat /\ data \in Seq(Nat)
  <2>1. Codes \subseteq Nat
        BY DEF Codes
  <2>2. QED BY <2>1, SeqMonotonic, LenProperties
<1>2. CASE tag = TYPE_STRING /\ Len(data) > 1
  <2> DEFINE text == Tail(data)
  <2>1. data # <<>>
        BY <1>2
  <2>2. text \in Seq(Codes) /\ Len(text) = Len(data) - 1
        BY <2>1, HeadTailProperties
  <2> HIDE DEF text
  <2>3. text # <<>>
        BY <1>1, <1>2, <2>2
  <2>4. Tail(text) \in Seq(Codes)
        BY <2>2, <2>3, HeadTailProperties
  <2>5. Unmarked(text) \in Held
        BY <2>2, <2>4, UnmarkedCases DEF Held
  <2>6. Decode(tag, data) = Unmarked(text)
        BY <1>2, DecodeString DEF text
  <2>7. QED BY <2>5, <2>6 DEF HeldOrNot
<1>3. CASE tag = TYPE_DOUBLE /\ HasNum(data, 1, WordLen)
  <2>1. WordLen \in Nat /\ 1 \in Nat
        BY ValuesAssumption
  <2>2. Fits(GetNum(data, 1, WordLen), WordLen)
        BY <1>1, <1>3, <2>1, ReadFits
  <2>3. GetNum(data, 1, WordLen) \in {m \in Nat : Fits(m, WordLen)}
        BY <2>2 DEF Fits
  <2>4. Decode(tag, data) = [kind |-> "number", v |-> <<GetNum(data, 1, WordLen)>>]
        BY <1>3, DecodeDouble
  <2>5. QED BY <2>3, <2>4 DEF HeldOrNot, Held
<1>4. CASE tag = TYPE_BOOLEAN /\ HasNum(data, 1, 1)
  <2>1. PICK b \in {0, 1} : (IF GetNum(data, 1, 1) = 0 THEN <<0>> ELSE <<1>>) = <<b>>
        OBVIOUS
  <2>2. Decode(tag, data) = [kind |-> "boolean", v |-> <<b>>]
        BY <1>4, <2>1, DecodeBoolean
  <2>3. QED BY <2>2 DEF HeldOrNot, Held
<1>5. CASE \/ tag = TYPE_STRING /\ ~(Len(data) > 1)
           \/ tag = TYPE_DOUBLE /\ ~HasNum(data, 1, WordLen)
           \/ tag = TYPE_BOOLEAN /\ ~HasNum(data, 1, 1)
  <2>1. Decode(tag, data) = Undefined
        BY <1>5, DecodeString, DecodeDouble, DecodeBoolean
  <2>2. QED BY <2>1 DEF HeldOrNot
<1>6. tag \in {TYPE_STRING, TYPE_BOOLEAN, TYPE_DOUBLE}
      BY DEF TYPE_STRING, TYPE_BOOLEAN, TYPE_DOUBLE
<1>7. QED BY <1>2, <1>3, <1>4, <1>5, <1>6

\* No item is read as nothing, whatever the tag.
LEMMA NoItem ==
  /\ <<>> \in Seq(Codes)
  /\ Decode(TYPE_STRING, <<>>) = Undefined
<1>1. ~(Len(<<>>) > 1)
      OBVIOUS
<1>2. QED BY <1>1, DecodeString

\* The values that are put are among them.
LEMMA PutIsHeld == Values \subseteq Held /\ Undefined \notin Held
<1> SUFFICES ASSUME NEW value \in Values PROVE value \in Held
  <2>1. Undefined \notin Held
        BY DEF Undefined, Held, Null
  <2>2. QED BY <2>1
<1>1. ASSUME NEW t \in Texts PROVE t \in Seq(Codes) \ {NullText}
  <2>1. t \in Seq(1..258) /\ t # NullText
        BY ValuesAssumption
  <2>2. 1..258 \subseteq Codes
        BY DEF Codes
  <2>3. QED BY <2>1, <2>2, SeqMonotonic
<1>2. ASSUME NEW n \in Numbers PROVE n \in {m \in Nat : Fits(m, WordLen)}
      BY ValuesAssumption DEF Fits
<1>3. CASE value \in [kind : {"number"}, v : {<<n>> : n \in Numbers}]
  <2>1. PICK n \in Numbers : value = [kind |-> "number", v |-> <<n>>]
        BY <1>3
  <2>2. QED BY <1>2, <2>1 DEF Held
<1>4. CASE value \in [kind : {"boolean"}, v : {<<0>>, <<1>>}]
  <2>1. PICK b \in {0, 1} : value = [kind |-> "boolean", v |-> <<b>>]
        BY <1>4
  <2>2. QED BY <2>1 DEF Held
<1>5. CASE value \in [kind : {"string"}, v : Texts]
  <2>1. PICK t \in Texts : value = [kind |-> "string", v |-> t]
        BY <1>5
  <2>2. QED BY <1>1, <2>1 DEF Held
<1>6. CASE value \in [kind : {"object"}, v : {t \in Texts : t[1] < 256}]
  <2>1. PICK t \in Texts : value = [kind |-> "object", v |-> t]
        BY <1>6
  <2>2. QED BY <1>1, <2>1 DEF Held
<1>7. CASE value = Null
      BY <1>7 DEF Held
<1>8. QED BY <1>3, <1>4, <1>5, <1>6, <1>7 DEF Values

\* All of them are of the types TypeOK gives them.
LEMMA HeldTyped == HeldOrNot \subseteq Results
<1> SUFFICES ASSUME NEW value \in HeldOrNot PROVE value \in Results
    OBVIOUS
<1>1. Codes \subseteq Nat
      BY DEF Codes
<1>2. \A t \in Seq(Codes) : t \in Seq(Nat)
      BY <1>1, SeqMonotonic
<1>3. NullText \in Seq(Nat) /\ <<>> \in Seq(Nat)
      BY DEF NullText
<1>4. CASE \E n \in Nat : value = [kind |-> "number", v |-> <<n>>]
      BY <1>4 DEF Results
<1>5. CASE \E b \in {0, 1} : value = [kind |-> "boolean", v |-> <<b>>]
      BY <1>5 DEF Results
<1>6. CASE \E t \in Seq(Codes), k \in {"string", "object"} : value = [kind |-> k, v |-> t]
  <2>1. PICK t \in Seq(Codes), k \in {"string", "object"} : value = [kind |-> k, v |-> t]
        BY <1>6
  <2>2. t \in Seq(Nat)
        BY <1>2
  <2>3. QED BY <2>1, <2>2 DEF Results
<1>7. CASE value = Null
  <2>1. value = [kind |-> "null", v |-> NullText]
        BY <1>7 DEF Null
  <2>2. QED BY <1>3, <2>1 DEF Results
<1>8. CASE value = Undefined
  <2>1. value = [kind |-> "undefined", v |-> <<>>]
        BY <1>8 DEF Undefined
  <2>2. QED BY <1>3, <2>1 DEF Results
<1>9. QED BY <1>4, <1>5, <1>6, <1>7, <1>8 DEF HeldOrNot, Held

-----------------------------------------------------------------------------
\* The item of a field that has this value, and the tag GetType takes from it.
Item(value) == IF value = Undefined THEN <<>> ELSE Encode(value)
ReadTag(value) == IF Tag(value) = -1 THEN TYPE_STRING ELSE Tag(value)

Typed ==
  /\ joined \in BOOLEAN
  /\ local \in [Keys -> HeldOrNot]
  /\ field \in [Keys -> HeldOrNot]
  /\ undefinedProperties \subseteq Keys
  /\ call \in [op : {"none", "get", "join", "leave"}, step : {"idle", "type", "value", "done"},
               key : Keys \cup {NoKey}, todo : SUBSET Keys, tag : TYPE_STRING..TYPE_DOUBLE,
               result : HeldOrNot, steady : SUBSET Keys]
  /\ during \subseteq HeldOrNot

\* The table holds the fields' values, encoded.
Encoded == table = [k \in Keys |-> Item(field[k])]

\* While a reading is under way and no other tag has come between, the values
\* the field has had have one tag, and that is the tag that was read.
Reading ==
  /\ call.step = "idle" => during = {}
  /\ call.step # "idle" => call.op \in {"get", "leave"} /\ call.key \in Keys
  /\ call.step \in {"type", "value"} =>
       /\ call.key \notin undefinedProperties
       /\ during # {} =>
            /\ field[call.key] \in during
            /\ \A d \in during : Tag(d) = Tag(field[call.key])
            /\ call.step = "value" => call.tag = ReadTag(field[call.key])
  /\ call.step = "done" /\ call.key \in undefinedProperties => during = {}

\* What joinSession has published and what leaveSession has kept so far.
Carried ==
  /\ call.op = "none" => call = NoCall
  /\ call.op = "get" => call.steady = {}
  /\ call.op = "join" =>
       \A k \in call.steady : local[k] \notin {Undefined, Null} => field[k] = local[k]
  /\ call.op = "leave" =>
       /\ \A k \in call.steady : local[k] = field[k]
       /\ call.key \notin call.todo
       /\ call.steady \cap (call.todo \cup {call.key}) = {}

ValuesInv == Typed /\ Encoded /\ Reading /\ GetIsTrue /\ Carried

\* The item of a value is read as that value by the tag it carries.
LEMMA ItemIsRead ==
  ASSUME NEW value \in HeldOrNot
  PROVE  /\ Item(value) \in Seq(Codes)
         /\ Decode(ReadTag(value), Item(value)) = value
         /\ ReadTag(value) \in TYPE_STRING..TYPE_DOUBLE
         /\ ReadTag(value) = IF Item(value) = <<>> THEN TYPE_STRING ELSE Item(value)[1]
<1>1. CASE value = Undefined
  <2>1. Item(value) = <<>> /\ ReadTag(value) = TYPE_STRING
        BY <1>1 DEF Item, ReadTag, Tag
  <2>2. TYPE_STRING \in TYPE_STRING..TYPE_DOUBLE
        BY DEF TYPE_STRING, TYPE_DOUBLE
  <2>3. QED BY <1>1, <2>1, <2>2, NoItem
<1>2. CASE value # Undefined
  <2>1. RoundTrips(value)
        BY <1>2, HeldRoundTrips DEF HeldOrNot
  <2>2. Item(value) = Encode(value)
        BY <1>2 DEF Item
  <2>3. Tag(value) = Encode(value)[1] /\ Tag(value) \in 0..2
        BY <1>2, <2>1 DEF Tag, RoundTrips, TYPE_STRING, TYPE_DOUBLE
  <2>4. ReadTag(value) = Encode(value)[1]
        BY <2>3 DEF ReadTag
  <2>5. QED BY <2>1, <2>2, <2>4 DEF RoundTrips
<1>3. QED BY <1>1, <1>2

\* A put leaves what is said of the table and of a reading under way intact.
LEMMA WritesKeep ==
  ASSUME ValuesInv, NEW k \in Keys, NEW value \in Held, Writes(k, value)
  PROVE  /\ field' \in [Keys -> HeldOrNot]
         /\ field'[k] = value
         /\ \A j \in Keys \ {k} : field'[j] = field[j]
         /\ Encoded'
         /\ during' \subseteq HeldOrNot
         /\ call.step \notin {"type", "value"} => during' = during
         /\ call.step \in {"type", "value"} /\ during' # {} =>
              /\ field'[call.key] \in during'
              /\ \A d \in during' : Tag(d) = Tag(field'[call.key])
              /\ call.step = "value" => call.tag = ReadTag(field'[call.key])
<1>1. /\ field \in [Keys -> HeldOrNot] /\ table = [j \in Keys |-> Item(field[j])]
      /\ during \subseteq HeldOrNot
      BY DEF ValuesInv, Typed, Encoded
<1>2. value \in HeldOrNot /\ Item(value) = Encode(value)
      BY PutIsHeld DEF HeldOrNot, Item
<1>3. field' = [field EXCEPT ![k] = value] /\ table' = [table EXCEPT ![k] = Encode(value)]
      BY DEF Writes
<1>4. /\ field' \in [Keys -> HeldOrNot] /\ field'[k] = value
      /\ \A j \in Keys \ {k} : field'[j] = field[j]
      BY <1>1, <1>2, <1>3
<1>5. Encoded'
      BY <1>1, <1>2, <1>3 DEF Encoded
<1>6. CASE call.key # k \/ call.step \notin {"type", "value"}
  <2>1. during' = during
        BY <1>6 DEF Writes
  <2>2. CASE call.step \in {"type", "value"}
    <3>1. call.key \in Keys \ {k}
          BY <1>6, <2>2 DEF ValuesInv, Reading
    <3>2. field'[call.key] = field[call.key]
          BY <1>4, <3>1
    <3>3. QED BY <1>1, <1>4, <1>5, <2>1, <2>2, <3>2 DEF ValuesInv, Reading
  <2>3. QED BY <1>1, <1>4, <1>5, <2>1, <2>2
<1>7. CASE call.key = k /\ call.step \in {"type", "value"}
  <2>1. during' = IF {Tag(d) : d \in during} = {Tag(value)} THEN during \cup {value} ELSE {}
        BY <1>7 DEF Writes
  <2>2. CASE {Tag(d) : d \in during} = {Tag(value)}
    <3>1. during' = during \cup {value}
          BY <2>1, <2>2
    <3>2. \A d \in during : Tag(d) = Tag(value)
          BY <2>2
    <3>3. during # {}
          BY <2>2
    <3>4. field[k] \in during /\ (call.step = "value" => call.tag = ReadTag(field[k]))
          BY <1>7, <3>3 DEF ValuesInv, Reading
    <3>5. ReadTag(field[k]) = ReadTag(value)
          BY <3>2, <3>4 DEF ReadTag
    <3>6. QED BY <1>1, <1>2, <1>4, <1>5, <1>7, <3>1, <3>2, <3>4, <3>5
  <2>3. CASE {Tag(d) : d \in during} # {Tag(value)}
    <3>1. during' = {}
          BY <2>1, <2>3
    <3>2. QED BY <1>4, <1>5, <1>7, <3>1
  <2>4. QED BY <2>2, <2>3
<1>8. QED BY <1>6, <1>7

\* StartGet begins a reading of a field, or needs none.
LEMMA StartGetReads ==
  ASSUME ValuesInv, during = {}, NEW c, StartGet(c), c.key \in Keys,
         c \in [op : {"get", "leave"}, step : {"idle"},
                key : Keys \cup {NoKey}, todo : SUBSET Keys, tag : TYPE_STRING..TYPE_DOUBLE,
                result : HeldOrNot, steady : SUBSET Keys],
         UNCHANGED <<joined, local, field, table, undefinedProperties>>
  PROVE  /\ Typed' /\ Encoded' /\ Reading' /\ GetIsTrue'
         /\ call'.op = c.op /\ call'.key = c.key /\ call'.todo = c.todo
         /\ call'.steady = c.steady
<1>1. Typed /\ Encoded
      BY DEF ValuesInv
<1>2. Undefined \in HeldOrNot
      BY DEF HeldOrNot
<1>3. CASE c.key \in undefinedProperties
  <2>1. call' = [c EXCEPT !.step = "done", !.result = Undefined] /\ during' = {}
        BY <1>3 DEF StartGet
  <2>2. /\ call'.op = c.op /\ call'.key = c.key /\ call'.todo = c.todo
        /\ call'.steady = c.steady /\ call'.step = "done" /\ call'.result = Undefined
        BY <2>1
  <2>3. Typed'
        BY <1>1, <1>2, <2>1 DEF Typed
  <2>4. Encoded' /\ Reading' /\ GetIsTrue'
        BY <1>1, <1>3, <2>1, <2>2 DEF Encoded, Reading, GetIsTrue
  <2>5. QED BY <2>2, <2>3, <2>4
<1>4. CASE c.key \notin undefinedProperties
  <2>1. call' = [c EXCEPT !.step = "type"] /\ during' = {field[c.key]}
        BY <1>4 DEF StartGet
  <2>2. /\ call'.op = c.op /\ call'.key = c.key /\ call'.todo = c.todo
        /\ call'.steady = c.steady /\ call'.step = "type"
        BY <2>1
  <2>3. Typed'
        BY <1>1, <2>1 DEF Typed
  <2>4. Encoded' /\ Reading' /\ GetIsTrue'
        BY <1>1, <1>4, <2>1, <2>2 DEF Encoded, Reading, GetIsTrue
  <2>5. QED BY <2>2, <2>3, <2>4
<1>5. QED BY <1>3, <1>4

\* What a call starts from.
LEMMA NoCallTyped ==
  /\ NoCall \in [op : {"none", "get", "join", "leave"}, step : {"idle", "type", "value", "done"},
                 key : Keys \cup {NoKey}, todo : SUBSET Keys, tag : TYPE_STRING..TYPE_DOUBLE,
                 result : HeldOrNot, steady : SUBSET Keys]
  /\ NoCall.op = "none" /\ NoCall.step = "idle" /\ NoCall.key = NoKey /\ NoCall.todo = {}
  /\ NoCall.steady = {}
<1>1. TYPE_STRING \in TYPE_STRING..TYPE_DOUBLE
      BY DEF TYPE_STRING, TYPE_DOUBLE
<1>2. QED BY <1>1 DEF NoCall, HeldOrNot

\* The initial states.
LEMMA ValuesInit == Init => ValuesInv
<1> SUFFICES ASSUME Init PROVE ValuesInv
    OBVIOUS
<1>1. Values \cup {Undefined} \subseteq HeldOrNot
      BY PutIsHeld DEF HeldOrNot
<1>2. local \in [Keys -> HeldOrNot]
  <2>1. local \in [Keys -> Values \cup {Undefined}]
        BY DEF Init
  <2>2. QED BY <1>1, <2>1
<1>3. Typed
      BY <1>1, <1>2, NoCallTyped DEF Typed, Init
<1>4. Encoded
      BY DEF Encoded, Init, Item
<1>5. Reading /\ GetIsTrue /\ Carried
      BY NoCallTyped DEF Init, Reading, GetIsTrue, Carried
<1>6. QED BY <1>3, <1>4, <1>5 DEF ValuesInv
-----------------------------------------------------------------------------
\* Only the local properties change.
LEMMA SetLocalKeeps ==
  ASSUME ValuesInv, NEW k \in Keys, NEW value \in Values \cup {Undefined}, SetLocal(k, value)
  PROVE  ValuesInv'
<1>1. value \in HeldOrNot
      BY PutIsHeld DEF HeldOrNot
<1>2. call = NoCall /\ UNCHANGED <<joined, field, table, undefinedProperties, call, during>>
      BY DEF SetLocal
<1>3. Typed'
      BY <1>1, <1>2 DEF SetLocal, ValuesInv, Typed
<1>4. Encoded' /\ Reading' /\ GetIsTrue'
      BY <1>2 DEF ValuesInv, Encoded, Reading, GetIsTrue
<1>5. Carried'
      BY <1>2, NoCallTyped DEF Carried
<1>6. QED BY <1>3, <1>4, <1>5 DEF ValuesInv

\* The application's put.
LEMMA SetKeeps ==
  ASSUME ValuesInv, NEW k \in Keys, NEW value \in Values \cup {Undefined}, Set(k, value)
  PROVE  ValuesInv'
<1>1. call = NoCall /\ UNCHANGED <<joined, local, call>>
      BY DEF Set
<1>2. call.step = "idle" /\ during = {}
      BY <1>1, NoCallTyped DEF ValuesInv, Reading
<1>3. undefinedProperties' \subseteq Keys
      BY DEF Set, ValuesInv, Typed
<1>4. CASE UNCHANGED <<field, table, during>>
  <2>1. Typed'
        BY <1>1, <1>3, <1>4 DEF ValuesInv, Typed
  <2>2. Encoded'
        BY <1>4 DEF ValuesInv, Encoded
  <2>3. Reading' /\ GetIsTrue'
        BY <1>1, <1>2, <1>4 DEF Reading, GetIsTrue
  <2>4. Carried'
        BY <1>1, NoCallTyped DEF Carried
  <2>5. QED BY <2>1, <2>2, <2>3, <2>4 DEF ValuesInv
<1>5. CASE value # Undefined /\ Writes(k, value)
  <2>1. value \in Held
        BY <1>5, PutIsHeld
  <2>2. /\ field' \in [Keys -> HeldOrNot] /\ Encoded' /\ during' \subseteq HeldOrNot
        /\ during' = {}
        BY <1>2, <1>5, <2>1, WritesKeep
  <2>3. Typed'
        BY <1>1, <1>3, <2>2 DEF ValuesInv, Typed
  <2>4. Reading' /\ GetIsTrue'
        BY <1>1, <1>2, <2>2 DEF Reading, GetIsTrue
  <2>5. Carried'
        BY <1>1, NoCallTyped DEF Carried
  <2>6. QED BY <2>2, <2>3, <2>4, <2>5 DEF ValuesInv
<1>6. QED BY <1>4, <1>5 DEF Set

\* joinSession begins.
LEMMA JoinKeeps == ASSUME ValuesInv, Join PROVE ValuesInv'
<1>1. /\ joined' = TRUE /\ call' = [NoCall EXCEPT !.op = "join", !.todo = Keys]
      /\ call = NoCall /\ UNCHANGED <<local, field, table, undefinedProperties, during>>
      BY DEF Join
<1>2. call.step = "idle" /\ during = {}
      BY <1>1, NoCallTyped DEF ValuesInv, Reading
<1>3. Typed'
      BY <1>1, NoCallTyped DEF ValuesInv, Typed
<1>4. call'.op = "join" /\ call'.step = "idle" /\ call'.steady = {}
      BY <1>1, NoCallTyped
<1>5. Encoded' /\ Reading' /\ GetIsTrue' /\ Carried'
      BY <1>1, <1>2, <1>4 DEF ValuesInv, Encoded, Reading, GetIsTrue, Carried
<1>6. QED BY <1>3, <1>5 DEF ValuesInv

\* A property is published, or its put fails, or there is nothing to put.
LEMMA JoinKeyKeeps == ASSUME ValuesInv, NEW k \in Keys, JoinKey(k) PROVE ValuesInv'
<1>1. call.op = "join" /\ UNCHANGED <<joined, local, undefinedProperties>>
      BY DEF JoinKey
<1>2. call.step = "idle" /\ during = {}
      BY <1>1 DEF ValuesInv, Reading, Typed
<1>3. CASE /\ IsPut(local[k])
           /\ Writes(k, local[k])
           /\ call' = [call EXCEPT !.todo = @ \ {k}, !.steady = @ \cup {k}]
  <2>1. local[k] \in Held
        BY <1>3 DEF ValuesInv, Typed, IsPut, HeldOrNot
  <2>2. /\ field' \in [Keys -> HeldOrNot] /\ Encoded' /\ during' = {}
        /\ field'[k] = local[k] /\ \A j \in Keys \ {k} : field'[j] = field[j]
        BY <1>2, <1>3, <2>1, WritesKeep
  <2>3. /\ call'.op = "join" /\ call'.step = "idle" /\ call'.steady = call.steady \cup {k}
        /\ Typed'
        BY <1>1, <1>2, <1>3, <2>2 DEF ValuesInv, Typed
  <2>4. Reading' /\ GetIsTrue'
        BY <2>2, <2>3 DEF Reading, GetIsTrue
  <2>5. call.steady \subseteq Keys
        BY DEF ValuesInv, Typed
  <2>6. Carried'
        BY <1>1, <2>2, <2>3, <2>5 DEF ValuesInv, Carried
  <2>7. QED BY <2>2, <2>3, <2>4, <2>6 DEF ValuesInv
<1>4. CASE /\ call' = [call EXCEPT !.todo = @ \ {k},
                !.steady = IF IsPut(local[k]) THEN @ ELSE @ \cup {k}]
           /\ UNCHANGED <<field, table, during>>
  <2>1. /\ call'.op = "join" /\ call'.step = "idle"
        /\ call'.steady = IF IsPut(local[k]) THEN call.steady ELSE call.steady \cup {k}
        /\ Typed'
        BY <1>1, <1>2, <1>4 DEF ValuesInv, Typed
  <2>2. Encoded' /\ Reading' /\ GetIsTrue'
        BY <1>2, <1>4, <2>1 DEF ValuesInv, Encoded, Reading, GetIsTrue
  <2>3. Carried'
        BY <1>1, <1>4, <2>1 DEF ValuesInv, Carried, IsPut
  <2>4. QED BY <2>1, <2>2, <2>3 DEF ValuesInv
<1>5. QED BY <1>3, <1>4 DEF JoinKey

\* joinSession is through.
LEMMA JoinedKeeps == ASSUME ValuesInv, Joined PROVE ValuesInv'
<1>1. /\ call.op = "join" /\ call' = NoCall /\ local' = [k \in Keys |-> Undefined]
      /\ UNCHANGED <<joined, field, table, undefinedProperties, during>>
      BY DEF Joined
<1>2. during = {}
      BY <1>1 DEF ValuesInv, Reading, Typed
<1>3. Typed'
      BY <1>1, NoCallTyped DEF ValuesInv, Typed, HeldOrNot
<1>4. Encoded' /\ Reading' /\ GetIsTrue' /\ Carried'
      BY <1>1, <1>2, NoCallTyped DEF ValuesInv, Encoded, Reading, GetIsTrue, Carried
<1>5. QED BY <1>3, <1>4 DEF ValuesInv

\* A peer's put, between any two steps of a call.
LEMMA RemoteWriteKeeps ==
  ASSUME ValuesInv, NEW k \in Keys, NEW value \in Values, RemoteWrite(k, value)
  PROVE  ValuesInv'
<1>1. /\ joined /\ Writes(k, value) /\ call' = [call EXCEPT !.steady = @ \ {k}]
      /\ UNCHANGED <<joined, local, undefinedProperties>>
      BY DEF RemoteWrite
<1>2. value \in Held
      BY PutIsHeld
<1>3. /\ field' \in [Keys -> HeldOrNot]
      /\ \A j \in Keys \ {k} : field'[j] = field[j]
      /\ Encoded'
      /\ during' \subseteq HeldOrNot
      BY <1>1, <1>2, WritesKeep
<1>4. call.step \notin {"type", "value"} => during' = during
      BY <1>1, <1>2, WritesKeep
<1>5. call.step \in {"type", "value"} /\ during' # {} =>
        /\ field'[call.key] \in during'
        /\ \A d \in during' : Tag(d) = Tag(field'[call.key])
        /\ call.step = "value" => call.tag = ReadTag(field'[call.key])
      BY <1>1, <1>2, WritesKeep
<1>6. /\ call'.op = call.op /\ call'.step = call.step /\ call'.key = call.key
      /\ call'.todo = call.todo /\ call'.tag = call.tag /\ call'.result = call.result
      /\ call'.steady = call.steady \ {k}
      /\ Typed'
      BY <1>1, <1>3 DEF ValuesInv, Typed
<1>7. Reading'
  <2>1. call'.step = "idle" => during' = {}
        BY <1>4, <1>6 DEF ValuesInv, Reading
  <2>2. call'.step # "idle" => call'.op \in {"get", "leave"} /\ call'.key \in Keys
        BY <1>6 DEF ValuesInv, Reading
  <2>3. call'.step \in {"type", "value"} => call'.key \notin undefinedProperties'
        BY <1>1, <1>6 DEF ValuesInv, Reading
  <2>4. call'.step = "done" /\ call'.key \in undefinedProperties' => during' = {}
        BY <1>1, <1>4, <1>6 DEF ValuesInv, Reading
  <2>5. QED BY <1>5, <1>6, <2>1, <2>2, <2>3, <2>4 DEF Reading
<1>8. GetIsTrue'
      BY <1>1, <1>4, <1>6 DEF ValuesInv, GetIsTrue
<1>9. Carried'
  <2>1. call.steady \subseteq Keys
        BY DEF ValuesInv, Typed
  <2>2. call.op = "none" => call' = call
        BY <1>1, NoCallTyped DEF ValuesInv, Carried, NoCall
  <2>3. \A j \in call'.steady : field'[j] = field[j] /\ local'[j] = local[j] /\ j \in call.steady
        BY <1>1, <1>3, <1>6, <2>1
  <2>4. call'.op = "none" => call' = NoCall
        BY <1>6, <2>2 DEF ValuesInv, Carried
  <2>5. /\ call'.op = "get" => call'.steady = {}
        /\ call'.op = "join" =>
             \A j \in call'.steady : local'[j] \notin {Undefined, Null} => field'[j] = local'[j]
        BY <1>6, <2>3 DEF ValuesInv, Carried
  <2>6. call'.op = "leave" =>
          /\ \A j \in call'.steady : local'[j] = field'[j]
          /\ call'.key \notin call'.todo
          /\ call'.steady \cap (call'.todo \cup {call'.key}) = {}
        BY <1>6, <2>3 DEF ValuesInv, Carried
  <2>7. QED BY <2>4, <2>5, <2>6 DEF Carried
<1>10. QED BY <1>3, <1>6, <1>7, <1>8, <1>9 DEF ValuesInv

\* The application's get begins.
LEMMA GetKeeps == ASSUME ValuesInv, NEW k \in Keys, Get(k) PROVE ValuesInv'
<1> DEFINE c == [NoCall EXCEPT !.op = "get", !.key = k]
<1>1. /\ call = NoCall /\ StartGet(c)
      /\ UNCHANGED <<joined, local, field, table, undefinedProperties>>
      BY DEF Get
<1>2. during = {}
      BY <1>1, NoCallTyped DEF ValuesInv, Reading
<1>3. /\ c.key \in Keys /\ c.op = "get" /\ c.steady = {}
      /\ c \in [op : {"get", "leave"}, step : {"idle"},
                key : Keys \cup {NoKey}, todo : SUBSET Keys, tag : TYPE_STRING..TYPE_DOUBLE,
                result : HeldOrNot, steady : SUBSET Keys]
      BY NoCallTyped
<1> HIDE DEF c
<1>4. Typed' /\ Encoded' /\ Reading' /\ GetIsTrue' /\ call'.op = "get" /\ call'.steady = {}
      BY <1>1, <1>2, <1>3, StartGetReads
<1>5. Carried'
      BY <1>4 DEF Carried
<1>6. QED BY <1>4, <1>5 DEF ValuesInv

\* leaveSession begins.
LEMMA StartLeaveKeeps == ASSUME ValuesInv, StartLeave PROVE ValuesInv'
<1>1. /\ call' = [NoCall EXCEPT !.op = "leave", !.todo = Keys] /\ call = NoCall
      /\ UNCHANGED <<joined, local, field, table, undefinedProperties, during>>
      BY DEF StartLeave
<1>2. during = {}
      BY <1>1, NoCallTyped DEF ValuesInv, Reading
<1>3. /\ call'.op = "leave" /\ call'.step = "idle" /\ call'.steady = {} /\ call'.key = NoKey
      /\ call'.todo = Keys
      BY <1>1, NoCallTyped
<1>4. Typed'
      BY <1>1, NoCallTyped DEF ValuesInv, Typed
<1>5. Carried'
      BY <1>3, ValuesAssumption DEF Carried
<1>6. Encoded' /\ Reading' /\ GetIsTrue'
      BY <1>1, <1>2, <1>3 DEF ValuesInv, Encoded, Reading, GetIsTrue
<1>7. QED BY <1>4, <1>5, <1>6 DEF ValuesInv

\* leaveSession begins to read a property.
LEMMA LeaveKeyKeeps == ASSUME ValuesInv, NEW k \in Keys, LeaveKey(k) PROVE ValuesInv'
<1> DEFINE c == [call EXCEPT !.key = k, !.todo = @ \ {k}]
<1>1. /\ call.op = "leave" /\ call.step = "idle" /\ k \in call.todo /\ StartGet(c)
      /\ UNCHANGED <<joined, local, field, table, undefinedProperties>>
      BY DEF LeaveKey
<1>2. during = {}
      BY <1>1 DEF ValuesInv, Reading
<1>3. /\ c.key = k /\ c.op = "leave" /\ c.steady = call.steady /\ c.todo = call.todo \ {k}
      /\ c \in [op : {"get", "leave"}, step : {"idle"},
                key : Keys \cup {NoKey}, todo : SUBSET Keys, tag : TYPE_STRING..TYPE_DOUBLE,
                result : HeldOrNot, steady : SUBSET Keys]
      BY <1>1 DEF ValuesInv, Typed
<1> HIDE DEF c
<1>4. /\ Typed' /\ Encoded' /\ Reading' /\ GetIsTrue' /\ call'.op = "leave" /\ call'.key = k
      /\ call'.todo = call.todo \ {k} /\ call'.steady = call.steady
      BY <1>1, <1>2, <1>3, StartGetReads
<1>5. Carried'
      BY <1>1, <1>4 DEF ValuesInv, Carried
<1>6. QED BY <1>4, <1>5 DEF ValuesInv

\* The tag is read, or its reading fails.
LEMMA GetTypeKeeps == ASSUME ValuesInv, GetType PROVE ValuesInv'
<1>1. call.step = "type" /\ UNCHANGED <<joined, local, field, table, undefinedProperties>>
      BY DEF GetType
<1>2. /\ call.op \in {"get", "leave"} /\ call.key \in Keys
      /\ call.key \notin undefinedProperties
      BY <1>1 DEF ValuesInv, Reading
<1>3. ASSUME call' = [call EXCEPT !.step = "value"] \/
               \E tag \in TYPE_STRING..TYPE_DOUBLE : call' = [call EXCEPT !.step = "value", !.tag = tag],
             during' \subseteq during
      PROVE  /\ Typed' /\ GetIsTrue' /\ Carried' /\ call'.step = "value"
             /\ call'.op = call.op /\ call'.key = call.key
  <2>1. /\ Typed' /\ call'.step = "value" /\ call'.op = call.op /\ call'.key = call.key
        /\ call'.todo = call.todo /\ call'.steady = call.steady
        BY <1>1, <1>3 DEF ValuesInv, Typed
  <2>2. GetIsTrue'
        BY <2>1 DEF GetIsTrue
  <2>3. Carried'
        BY <1>1, <1>2, <2>1 DEF ValuesInv, Carried
  <2>4. QED BY <2>1, <2>2, <2>3
<1>4. Encoded'
      BY <1>1 DEF ValuesInv, Encoded
<1>5. CASE /\ call' = [call EXCEPT !.step = "value",
                !.tag = IF table[call.key] = <<>> THEN TYPE_STRING ELSE table[call.key][1]]
           /\ UNCHANGED during
  <2> DEFINE value == field[call.key]
  <2>1. value \in HeldOrNot /\ table[call.key] = Item(value)
        BY <1>2 DEF ValuesInv, Typed, Encoded
  <2>2. (IF table[call.key] = <<>> THEN TYPE_STRING ELSE table[call.key][1]) = ReadTag(value)
        BY <2>1, ItemIsRead
  <2>3. ReadTag(value) \in TYPE_STRING..TYPE_DOUBLE
        BY <2>1, ItemIsRead
  <2>4. call' = [call EXCEPT !.step = "value", !.tag = ReadTag(value)]
        BY <1>5, <2>2
  <2>5. /\ Typed' /\ GetIsTrue' /\ Carried' /\ call'.step = "value"
        /\ call'.op = call.op /\ call'.key = call.key
        BY <1>3, <1>5, <2>3, <2>4
  <2>6. call'.tag = ReadTag(value)
    <3>1. call.tag = call.tag /\ call \in [op : {"none", "get", "join", "leave"},
             step : {"idle", "type", "value", "done"}, key : Keys \cup {NoKey},
             todo : SUBSET Keys, tag : TYPE_STRING..TYPE_DOUBLE, result : HeldOrNot,
             steady : SUBSET Keys]
          BY DEF ValuesInv, Typed
    <3>2. QED BY <2>4, <3>1
  <2>7. Reading'
        BY <1>1, <1>2, <1>5, <2>5, <2>6 DEF ValuesInv, Reading
  <2>8. QED BY <1>4, <2>5, <2>7 DEF ValuesInv
<1>6. CASE call' = [call EXCEPT !.step = "value"] /\ during' = {}
  <2>1. /\ Typed' /\ GetIsTrue' /\ Carried' /\ call'.step = "value"
        /\ call'.op = call.op /\ call'.key = call.key
        BY <1>3, <1>6
  <2>2. Reading'
        BY <1>1, <1>2, <1>6, <2>1 DEF Reading
  <2>3. QED BY <1>4, <2>1, <2>2 DEF ValuesInv
<1>7. QED BY <1>5, <1>6 DEF GetType

\* The value is read, or its reading fails.
LEMMA GetValueKeeps == ASSUME ValuesInv, GetValue PROVE ValuesInv'
<1>1. call.step = "value" /\ UNCHANGED <<joined, local, field, table, undefinedProperties>>
      BY DEF GetValue
<1>2. /\ call.op \in {"get", "leave"} /\ call.key \in Keys
      /\ call.key \notin undefinedProperties
      BY <1>1 DEF ValuesInv, Reading
<1>3. Encoded'
      BY <1>1 DEF ValuesInv, Encoded
<1>4. CASE /\ call' = [call EXCEPT !.step = "done", !.result = Decode(call.tag, table[call.key])]
           /\ UNCHANGED during
  <2> DEFINE value == field[call.key]
             result == Decode(call.tag, table[call.key])
  <2>1. value \in HeldOrNot /\ table[call.key] = Item(value)
        BY <1>2 DEF ValuesInv, Typed, Encoded
  <2>2. table[call.key] \in Seq(Codes)
        BY <2>1, ItemIsRead
  <2>3. call.tag \in TYPE_STRING..TYPE_DOUBLE
        BY DEF ValuesInv, Typed
  <2>4. result \in HeldOrNot
        BY <2>2, <2>3, DecodeHolds
  <2>5. during # {} => value \in during /\ call.tag = ReadTag(value)
        BY <1>1 DEF ValuesInv, Reading
  <2>6. during # {} => result = value
        BY <2>1, <2>5, ItemIsRead
  <2> HIDE DEF result
  <2>7. call' = [call EXCEPT !.step = "done", !.result = result]
        BY <1>4 DEF result
  <2>8. /\ call'.step = "done" /\ call'.result = result /\ call'.op = call.op
        /\ call'.key = call.key /\ call'.todo = call.todo /\ call'.steady = call.steady
        /\ Typed'
        BY <1>1, <1>4, <2>4, <2>7 DEF ValuesInv, Typed
  <2>9. Reading' /\ GetIsTrue'
        BY <1>1, <1>2, <1>4, <2>5, <2>6, <2>8 DEF Reading, GetIsTrue
  <2>10. Carried'
        BY <1>1, <1>2, <2>8 DEF ValuesInv, Carried
  <2>11. QED BY <1>3, <2>8, <2>9, <2>10 DEF ValuesInv
<1>5. CASE call' = [call EXCEPT !.step = "done"] /\ during' = {}
  <2>1. /\ call'.step = "done" /\ call'.op = call.op
        /\ call'.key = call.key /\ call'.todo = call.todo /\ call'.steady = call.steady
        /\ Typed'
        BY <1>1, <1>5 DEF ValuesInv, Typed
  <2>2. Reading' /\ GetIsTrue'
        BY <1>1, <1>2, <1>5, <2>1 DEF Reading, GetIsTrue
  <2>3. Carried'
        BY <1>1, <1>2, <2>1 DEF ValuesInv, Carried
  <2>4. QED BY <1>3, <2>1, <2>2, <2>3 DEF ValuesInv
<1>6. QED BY <1>4, <1>5 DEF GetValue

\* The application has its value.
LEMMA ReturnKeeps == ASSUME ValuesInv, Return PROVE ValuesInv'
<1>1. /\ call' = NoCall /\ during' = {}
      /\ UNCHANGED <<joined, local, field, table, undefinedProperties>>
      BY DEF Return
<1>2. Typed'
      BY <1>1, NoCallTyped DEF ValuesInv, Typed
<1>3. Encoded' /\ Reading' /\ GetIsTrue' /\ Carried'
      BY <1>1, NoCallTyped DEF ValuesInv, Encoded, Reading, GetIsTrue, Carried
<1>4. QED BY <1>2, <1>3 DEF ValuesInv

\* leaveSession makes what it has read local.
LEMMA KeepKeeps == ASSUME ValuesInv, Keep PROVE ValuesInv'
<1> DEFINE read == during = {field[call.key]}
           steady == IF read THEN call.steady \cup {call.key} ELSE call.steady
<1>1. /\ call.op = "leave" /\ call.step = "done"
      /\ local' = [local EXCEPT ![call.key] = call.result]
      /\ call' = [call EXCEPT !.step = "idle", !.key = NoKey, !.result = Undefined,
           !.tag = TYPE_STRING, !.steady = steady]
      /\ during' = {} /\ UNCHANGED <<joined, field, table, undefinedProperties>>
      BY DEF Keep
<1>2. call.key \in Keys
      BY <1>1 DEF ValuesInv, Reading
<1>3. read => call.result = field[call.key]
      BY <1>1 DEF ValuesInv, Reading, GetIsTrue
<1>4. steady \subseteq Keys
      BY <1>2 DEF ValuesInv, Typed
<1>5. steady \cap call.todo = {}
      BY <1>1 DEF ValuesInv, Carried
<1>6. \A k \in steady : local'[k] = field[k]
  <2>1. \A k \in call.steady : local'[k] = local[k] /\ local[k] = field[k]
        BY <1>1 DEF ValuesInv, Typed, Carried
  <2>2. local'[call.key] = call.result
        BY <1>1, <1>2 DEF ValuesInv, Typed
  <2>3. QED BY <1>3, <2>1, <2>2
<1> HIDE DEF steady, read
<1>7. /\ call'.op = "leave" /\ call'.step = "idle" /\ call'.key = NoKey
      /\ call'.todo = call.todo /\ call'.steady = steady
      BY <1>1 DEF ValuesInv, Typed
<1>8. Typed'
  <2>1. TYPE_STRING \in TYPE_STRING..TYPE_DOUBLE /\ Undefined \in HeldOrNot
        BY DEF TYPE_STRING, TYPE_DOUBLE, HeldOrNot
  <2>2. QED BY <1>1, <1>4, <2>1 DEF ValuesInv, Typed
<1>9. Carried'
  <2>1. call.todo \subseteq Keys
        BY DEF ValuesInv, Typed
  <2>2. QED BY <1>1, <1>4, <1>5, <1>6, <1>7, <2>1, ValuesAssumption DEF Carried
<1>10. Encoded' /\ Reading' /\ GetIsTrue'
      BY <1>1, <1>7 DEF ValuesInv, Encoded, Reading, GetIsTrue
<1>11. QED BY <1>8, <1>9, <1>10 DEF ValuesInv

\* leaveSession deletes the table.
LEMMA DestroyKeeps == ASSUME ValuesInv, Destroy PROVE ValuesInv'
<1>1. /\ call.step = "idle" /\ joined' = FALSE /\ call' = NoCall
      /\ field' = [k \in Keys |-> Undefined] /\ table' = [k \in Keys |-> <<>>]
      /\ undefinedProperties' = {} /\ UNCHANGED <<local, during>>
      BY DEF Destroy
<1>2. during' = {}
      BY <1>1 DEF ValuesInv, Reading
<1>3. Typed'
      BY <1>1, <1>2, NoCallTyped DEF ValuesInv, Typed, HeldOrNot
<1>4. Encoded'
      BY <1>1 DEF Encoded, Item
<1>5. Reading' /\ GetIsTrue' /\ Carried'
      BY <1>1, <1>2, NoCallTyped DEF Reading, GetIsTrue, Carried
<1>6. QED BY <1>3, <1>4, <1>5 DEF ValuesInv

\* Steps that change nothing.
LEMMA ValuesStutter == ASSUME ValuesInv, UNCHANGED vars PROVE ValuesInv'
BY DEF vars, ValuesInv, Typed, Encoded, Reading, GetIsTrue, Carried

-----------------------------------------------------------------------------
\* The inductive invariant holds of every behaviour.
LEMMA ValuesInvariance == Spec => []ValuesInv
<1>1. ValuesInv /\ [Next]_vars => ValuesInv'
  <2> SUFFICES ASSUME ValuesInv, [Next]_vars PROVE ValuesInv'
      OBVIOUS
  <2>1. ASSUME NEW k \in Keys, NEW value \in Values \cup {Undefined},
               SetLocal(k, value) \/ Set(k, value)
        PROVE  ValuesInv'
        BY <2>1, SetLocalKeeps, SetKeeps
  <2>2. ASSUME NEW k \in Keys, JoinKey(k) \/ Get(k) \/ LeaveKey(k) PROVE ValuesInv'
        BY <2>2, JoinKeyKeeps, GetKeeps, LeaveKeyKeeps
  <2>3. ASSUME NEW k \in Keys, NEW value \in Values, RemoteWrite(k, value) PROVE ValuesInv'
        BY <2>3, RemoteWriteKeeps
  <2>4. CASE Join \/ Joined \/ StartLeave
        BY <2>4, JoinKeeps, JoinedKeeps, StartLeaveKeeps
  <2>5. CASE GetType \/ GetValue \/ Return
        BY <2>5, GetTypeKeeps, GetValueKeeps, ReturnKeeps
  <2>6. CASE Keep \/ Destroy
        BY <2>6, KeepKeeps, DestroyKeeps
  <2>7. CASE UNCHANGED vars
        BY <2>7, ValuesStutter
  <2>8. QED BY <2>1, <2>2, <2>3, <2>4, <2>5, <2>6, <2>7 DEF Next
<1>2. QED BY <1>1, ValuesInit, PTL DEF Spec

\* Every variable keeps its type, whatever peers put and readings fail: an item
\* read by another value's tag still gives a value of JS, or undefined.
THEOREM ValuesTypeCorrect == Spec => []TypeOK
<1>1. ValuesInv => TypeOK
  <2> SUFFICES ASSUME ValuesInv PROVE TypeOK
      OBVIOUS
  <2>1. HeldOrNot \subseteq Results
        BY HeldTyped
  <2>2. \A k \in Keys : Item(field[k]) \in Seq(0..258)
        BY ItemIsRead DEF ValuesInv, Typed, Codes
  <2>3. table \in [Keys -> Seq(0..258)]
        BY <2>2 DEF ValuesInv, Encoded
  <2>4. TYPE_STRING..TYPE_DOUBLE \subseteq TYPE_STRING..TYPE_COMPLEX
        BY DEF TYPE_STRING, TYPE_DOUBLE, TYPE_COMPLEX
  <2>5. /\ joined \in BOOLEAN
        /\ local \in [Keys -> Results]
        /\ field \in [Keys -> Results]
        /\ undefinedProperties \subseteq Keys
        /\ during \subseteq Results
        BY <2>1 DEF ValuesInv, Typed
  <2>6. call \in [op : {"none", "get", "join", "leave"}, step : {"idle", "type", "value", "done"},
                  key : Keys \cup {NoKey}, todo : SUBSET Keys, tag : TYPE_STRING..TYPE_COMPLEX,
                  result : Results, steady : SUBSET Keys]
        BY <2>1, <2>4 DEF ValuesInv, Typed
  <2>7. QED BY <2>3, <2>5, <2>6 DEF TypeOK
<1>2. QED BY <1>1, ValuesInvariance, PTL

\* A reading returns the very value some put has written since it began, for
\* every number that fits a word, every text and every interleaving of puts
\* between the tag and the value that keeps the field's type.
THEOREM ReadingsAreTrue == Spec => []GetIsTrue
<1>1. ValuesInv => GetIsTrue
      BY DEF ValuesInv
<1>2. QED BY <1>1, ValuesInvariance, PTL

\* What joinSession has put of each property is what a peer reads of it.
THEOREM JoinDoesPublish == Spec => []JoinPublishes
<1>1. ValuesInv => JoinPublishes
  <2> SUFFICES ASSUME ValuesInv, call.op = "join", NEW k \in call.steady,
                      local[k] \notin {Undefined, Null}
               PROVE  table[k] # <<>> /\ Decode(table[k][1], table[k]) = local[k]
      BY DEF JoinPublishes
  <2>1. k \in Keys /\ local[k] \in HeldOrNot
        BY DEF ValuesInv, Typed
  <2>2. field[k] = local[k]
        BY DEF ValuesInv, Carried
  <2>3. table[k] = Encode(local[k])
        BY <2>1, <2>2 DEF ValuesInv, Encoded, Item
  <2>4. RoundTrips(local[k])
        BY <2>1, HeldRoundTrips DEF HeldOrNot
  <2>5. QED BY <2>3, <2>4 DEF RoundTrips
<1>2. QED BY <1>1, ValuesInvariance, PTL

\* leaveSession destroys the object only when the object has kept what the
\* session had last of each property that it read undisturbed.
THEOREM LeaveKeeps == Spec => KeepsOnLeave
<1>1. ValuesInv /\ [Next]_vars =>
        [joined /\ ~joined' => \A k \in call.steady : local'[k] = field[k]]_vars
  <2> SUFFICES ASSUME ValuesInv, Next, joined, ~joined'
               PROVE  \A k \in call.steady : local'[k] = field[k]
      OBVIOUS
  <2>1. Destroy
        BY DEF Next, SetLocal, Join, JoinKey, Joined, Set, RemoteWrite, Get, GetType, GetValue,
               Return, StartLeave, LeaveKey, Keep
  <2>2. call.op = "leave" /\ local' = local
        BY <2>1 DEF Destroy
  <2>3. QED BY <2>2 DEF ValuesInv, Carried
<1>2. QED BY <1>1, ValuesInvariance, PTL DEF Spec, KeepsOnLeave
=============================================================================
