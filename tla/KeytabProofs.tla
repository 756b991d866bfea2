---------------------------- MODULE KeytabProofs ----------------------------
(* The keytab parser reads what a writer wrote, for every list of records  *)
(* the format can hold and every number of bytes that were copied.         *)
EXTENDS Keytab, WellFoundedInduction, SequenceTheorems, TLAPS

-----------------------------------------------------------------------------
(* Bytes and byte strings. *)

Word(n) == n \in Int /\ n >= 0 /\ n < 65536

Halved(n, q, r) == q \in Byte /\ r \in Byte /\ q * 256 + r = n

(* A number below 2^16 is written as its two bytes. *)
LEMMA Halves ==
  ASSUME NEW n, Word(n)
  PROVE  \E q, r : Halved(n, q, r) /\ Size(n) = <<q, r>> /\ Wide(n) = <<0, 0, q, r>>
<1> USE DEF Word
<1>1. n \div 256 \in Int /\ n % 256 \in Int
  BY SMT
<1>2. n \div 256 >= 0 /\ n \div 256 < 256
  BY SMT
<1>3. n % 256 >= 0 /\ n % 256 < 256
  BY SMT
<1>4. 256 * (n \div 256) + (n % 256) = n
  BY SMT
<1> DEFINE q == n \div 256
           r == n % 256
<1>5. q \in Int /\ r \in Int /\ q >= 0 /\ q < 256 /\ r >= 0 /\ r < 256 /\ 256 * q + r = n
  BY <1>1, <1>2, <1>3, <1>4, SMT
<1>6. Size(n) = <<q, r>> /\ Wide(n) = <<0, 0, q, r>>
  BY SMT DEF Size, Wide
<1> HIDE DEF q, r
<1>7. Halved(n, q, r)
  BY <1>5, SMT DEF Byte, Halved
<1> QED
  BY <1>6, <1>7, SMT

(* U16 reads what Size wrote. *)
LEMMA SizeRead ==
  ASSUME NEW n, Word(n)
  PROVE  Size(n) \in Seq(Byte) /\ Len(Size(n)) = 2 /\ U16(Size(n), 1) = n
<1>1. PICK q, r : Halved(n, q, r) /\ Size(n) = <<q, r>>
  BY Halves, SMT
<1>2. Size(n)[1] = q /\ Size(n)[2] = r /\ Len(Size(n)) = 2 /\ Size(n) \in Seq(Byte)
  BY <1>1, SMT DEF Halved
<1> QED
  BY <1>1, <1>2, SMT DEF U16, Halved

(* I32 reads what Wide wrote. *)
LEMMA WideRead ==
  ASSUME NEW n, Word(n)
  PROVE  Wide(n) \in Seq(Byte) /\ Len(Wide(n)) = 4 /\ I32(Wide(n), 1) = n
<1>1. PICK q, r : Halved(n, q, r) /\ Wide(n) = <<0, 0, q, r>>
  BY Halves, SMT
<1>2. /\ Wide(n)[1] = 0 /\ Wide(n)[2] = 0 /\ Wide(n)[3] = q /\ Wide(n)[4] = r
      /\ Len(Wide(n)) = 4 /\ Wide(n) \in Seq(Byte)
  BY <1>1, SMT DEF Halved, Byte
<1> QED
  BY <1>1, <1>2, SMT DEF I32, Halved, Byte

(* b begins with s. *)
Starts(b, s) == Len(s) <= Len(b) /\ \A i \in 1..Len(s) : b[i] = s[i]

(* Two byte strings, one behind the other. *)
LEMMA Joined ==
  ASSUME NEW s \in Seq(Byte), NEW t \in Seq(Byte)
  PROVE  /\ s \o t \in Seq(Byte) /\ Len(s \o t) = Len(s) + Len(t)
         /\ Starts(s \o t, s)
         /\ \A i \in 1..Len(t) : (s \o t)[Len(s) + i] = t[i]
BY ConcatProperties, LenProperties, SMT DEF Starts

(* What begins a beginning begins the whole. *)
LEMMA StartsTransitive ==
  ASSUME NEW b \in Seq(Byte), NEW s \in Seq(Byte), NEW t \in Seq(Byte), Starts(b, s), Starts(s, t)
  PROVE  Starts(b, t)
BY LenProperties, SMT DEF Starts

(* A number is read from a beginning as from the whole. *)
LEMMA ReadStart ==
  ASSUME NEW b \in Seq(Byte), NEW s \in Seq(Byte), Starts(b, s), NEW at \in Int, at >= 1
  PROVE  /\ at + 1 <= Len(s) => U16(b, at) = U16(s, at)
         /\ at + 3 <= Len(s) => I32(b, at) = I32(s, at)
         /\ at <= Len(s) => b[at] = s[at]
<1>1. Len(s) \in Nat
  BY LenProperties
<1>2. \A i \in 1..Len(s) : b[i] = s[i]
  BY DEF Starts
<1>3. at <= Len(s) => at \in 1..Len(s)
  BY <1>1, SMT
<1>4. at + 1 <= Len(s) => at \in 1..Len(s) /\ at + 1 \in 1..Len(s)
  BY <1>1, SMT
<1>5. at + 3 <= Len(s) => at \in 1..Len(s) /\ at + 1 \in 1..Len(s) /\ at + 2 \in 1..Len(s)
                          /\ at + 3 \in 1..Len(s)
  BY <1>1, SMT
<1> QED
  BY <1>2, <1>3, <1>4, <1>5, SMT DEF U16, I32

(* A number is read behind a byte string as from its own. *)
LEMMA ReadBehind ==
  ASSUME NEW s \in Seq(Byte), NEW t \in Seq(Byte)
  PROVE  /\ Len(t) >= 2 => U16(s \o t, Len(s) + 1) = U16(t, 1)
         /\ Len(t) >= 4 => I32(s \o t, Len(s) + 1) = I32(t, 1)
<1>1. Len(s) \in Nat /\ Len(t) \in Nat
  BY LenProperties
<1>2. \A i \in 1..Len(t) : (s \o t)[Len(s) + i] = t[i]
  BY Joined
<1>3. Len(t) >= 2 => (s \o t)[Len(s) + 1] = t[1] /\ (s \o t)[(Len(s) + 1) + 1] = t[1 + 1]
  <2>1. (Len(s) + 1) + 1 = Len(s) + 2 /\ 1 + 1 = 2
    BY <1>1, SMT
  <2> QED
    BY <1>1, <1>2, <2>1, SMT
<1>4. Len(t) >= 4 => /\ (s \o t)[(Len(s) + 1) + 2] = t[1 + 2]
                     /\ (s \o t)[(Len(s) + 1) + 3] = t[1 + 3]
  <2>1. (Len(s) + 1) + 2 = Len(s) + 3 /\ (Len(s) + 1) + 3 = Len(s) + 4 /\ 1 + 2 = 3 /\ 1 + 3 = 4
    BY <1>1, SMT
  <2> QED
    BY <1>1, <1>2, <2>1, SMT
<1> QED
  BY <1>1, <1>3, <1>4, SMT DEF U16, I32

-----------------------------------------------------------------------------
(* One record. *)

(* The fields of a record and the bounds on them. *)
LEMMA Fields ==
  ASSUME NEW r \in Writable
  PROVE  /\ r.name \in Seq(Byte) /\ r.long \in BOOLEAN /\ r.live \in BOOLEAN
         /\ Word(r.kvno) /\ Word(r.etype) /\ Word(Len(r.name)) /\ Fits(r)
<1>1. r \in FileRecord /\ Fits(r)
  BY Zenon DEF Writable
<1>2. /\ r.name \in Seq(Byte) /\ r.long \in BOOLEAN /\ r.live \in BOOLEAN
      /\ r.kvno \in Short /\ r.etype \in Short
  BY <1>1, Zenon DEF FileRecord
<1>3. Len(r.name) \in Nat
  BY <1>2, LenProperties, Zenon
<1>4. Word(Len(r.name))
  BY <1>1, <1>3, SMT DEF Fits, Word
<1>5. \A n \in Short : Word(n)
  BY SMT DEF Short, Word
<1> QED
  BY <1>1, <1>2, <1>4, <1>5, Zenon

(* The lower byte of a number below 2^16. *)
LEMMA LowByte ==
  ASSUME NEW n, Word(n)
  PROVE  n % 256 \in Byte /\ (n < 256 => n % 256 = n)
<1> USE DEF Word
<1>1. n % 256 \in Int
  BY SMT
<1>2. n % 256 >= 0 /\ n % 256 < 256
  BY SMT
<1>3. n < 256 => n % 256 = n
  BY SMT
<1> QED
  BY <1>1, <1>2, <1>3, SMT DEF Byte

(* Where a writer puts the fields that a reader wants. *)
Laid(b, r) ==
    LET L == Len(r.name)
    IN  /\ b \in Seq(Byte) /\ L \in Nat
        /\ Len(b) = IF r.long THEN 26 + L ELSE 22 + L
        /\ U16(b, 1) = 1 /\ U16(b, 3) = 1 /\ U16(b, 6) = L
        /\ b[16 + L] = r.kvno % 256
        /\ U16(b, 17 + L) = r.etype /\ U16(b, 19 + L) = 2
        /\ r.long => I32(b, 23 + L) = r.kvno

(* Body puts them there. *)
LEMMA BodyLaid ==
  ASSUME NEW r \in Writable
  PROVE  Laid(Body(r), r)
<1> DEFINE L == Len(r.name)
           low == r.kvno % 256
           s1 == Size(1)
           s2 == Size(2)
           w1 == Wide(1)
           w7 == Wide(7)
           b1 == s1 \o s1
           b2 == b1 \o <<82>>
           b3 == b2 \o Size(L)
           b4 == b3 \o r.name
           b5 == b4 \o w1
           b6 == b5 \o w7
           b7 == b6 \o <<low>>
           b8 == b7 \o Size(r.etype)
           b9 == b8 \o s2
           b10 == b9 \o <<9, 9>>
           end == IF r.long THEN Wide(r.kvno) ELSE <<>>
           b == b10 \o end
<1>1. /\ r.name \in Seq(Byte) /\ r.long \in BOOLEAN
      /\ Word(r.kvno) /\ Word(r.etype) /\ Word(L)
  BY Fields, Zenon
<1>2. L \in Nat
  BY <1>1, SMT DEF Word
<1>3. low \in Byte
  BY <1>1, LowByte, Zenon
<1>4. Body(r) = b
  BY Zenon DEF Body
<1>5. Word(1) /\ Word(2) /\ Word(7)
  BY SMT DEF Word
<1>6. /\ s1 \in Seq(Byte) /\ Len(s1) = 2 /\ U16(s1, 1) = 1
      /\ s2 \in Seq(Byte) /\ Len(s2) = 2 /\ U16(s2, 1) = 2
      /\ Size(L) \in Seq(Byte) /\ Len(Size(L)) = 2 /\ U16(Size(L), 1) = L
      /\ Size(r.etype) \in Seq(Byte) /\ Len(Size(r.etype)) = 2 /\ U16(Size(r.etype), 1) = r.etype
  BY <1>1, <1>5, SizeRead, Zenon
<1>7. /\ w1 \in Seq(Byte) /\ Len(w1) = 4
      /\ w7 \in Seq(Byte) /\ Len(w7) = 4
      /\ Wide(r.kvno) \in Seq(Byte) /\ Len(Wide(r.kvno)) = 4 /\ I32(Wide(r.kvno), 1) = r.kvno
  BY <1>1, <1>5, WideRead, Zenon
<1> HIDE DEF low, s1, s2, w1, w7
<1>8. /\ <<82>> \in Seq(Byte) /\ Len(<<82>>) = 1
      /\ <<9, 9>> \in Seq(Byte) /\ Len(<<9, 9>>) = 2
      /\ <<low>> \in Seq(Byte) /\ Len(<<low>>) = 1 /\ <<low>>[1] = low
      /\ <<>> \in Seq(Byte) /\ Len(<<>>) = 0
  <2>1. 82 \in Byte /\ 9 \in Byte
    BY SMT DEF Byte
  <2> QED
    BY <1>3, <2>1
<1>9. end \in Seq(Byte) /\ Len(end) = IF r.long THEN 4 ELSE 0
  <2>1. CASE r.long
    BY <1>7, <2>1, Zenon
  <2>2. CASE ~r.long
    BY <1>8, <2>2
  <2> QED
    BY <2>1, <2>2
<1> HIDE DEF L, end
<1>10. b1 \in Seq(Byte) /\ Len(b1) = Len(s1) + Len(s1) /\ Starts(b1, s1)
  BY <1>6, Joined, Zenon
<1>11. b2 \in Seq(Byte) /\ Len(b2) = Len(b1) + Len(<<82>>) /\ Starts(b2, b1)
  <2> HIDE DEF b1
  <2> QED
    BY <1>8, <1>10, Joined, Zenon
<1>12. b3 \in Seq(Byte) /\ Len(b3) = Len(b2) + Len(Size(L)) /\ Starts(b3, b2)
  <2> HIDE DEF b2
  <2> QED
    BY <1>6, <1>11, Joined, Zenon
<1>13. b4 \in Seq(Byte) /\ Len(b4) = Len(b3) + Len(r.name) /\ Starts(b4, b3)
  <2> HIDE DEF b3
  <2> QED
    BY <1>1, <1>12, Joined, Zenon
<1>14. b5 \in Seq(Byte) /\ Len(b5) = Len(b4) + Len(w1) /\ Starts(b5, b4)
  <2> HIDE DEF b4
  <2> QED
    BY <1>7, <1>13, Joined, Zenon
<1>15. b6 \in Seq(Byte) /\ Len(b6) = Len(b5) + Len(w7) /\ Starts(b6, b5)
  <2> HIDE DEF b5
  <2> QED
    BY <1>7, <1>14, Joined, Zenon
<1>16. /\ b7 \in Seq(Byte) /\ Len(b7) = Len(b6) + Len(<<low>>) /\ Starts(b7, b6)
       /\ \A i \in 1..Len(<<low>>) : b7[Len(b6) + i] = <<low>>[i]
  <2> HIDE DEF b6
  <2> QED
    BY <1>8, <1>15, Joined, Zenon
<1>17. b8 \in Seq(Byte) /\ Len(b8) = Len(b7) + Len(Size(r.etype)) /\ Starts(b8, b7)
  <2> HIDE DEF b7
  <2> QED
    BY <1>6, <1>16, Joined, Zenon
<1>18. b9 \in Seq(Byte) /\ Len(b9) = Len(b8) + Len(s2) /\ Starts(b9, b8)
  <2> HIDE DEF b8
  <2> QED
    BY <1>6, <1>17, Joined, Zenon
<1>19. b10 \in Seq(Byte) /\ Len(b10) = Len(b9) + Len(<<9, 9>>) /\ Starts(b10, b9)
  <2> HIDE DEF b9
  <2> QED
    BY <1>8, <1>18, Joined, Zenon
<1>20. b \in Seq(Byte) /\ Len(b) = Len(b10) + Len(end) /\ Starts(b, b10)
  <2> HIDE DEF b10
  <2> QED
    BY <1>9, <1>19, Joined, Zenon
<1>21. /\ Len(b1) = 4 /\ Len(b2) = 5 /\ Len(b3) = 7 /\ Len(b4) = 7 + L /\ Len(b5) = 11 + L
       /\ Len(b6) = 15 + L /\ Len(b7) = 16 + L /\ Len(b8) = 18 + L /\ Len(b9) = 20 + L
       /\ Len(b10) = 22 + L /\ Len(b) = 22 + L + Len(end)
  <2>1. Len(r.name) = L
    BY DEF L
  <2> HIDE DEF b1, b2, b3, b4, b5, b6, b7, b8, b9, b10, b
  <2>2. Len(b1) = 4
    BY <1>6, <1>10, SMT
  <2>3. Len(b2) = 5
    BY <1>8, <1>11, <2>2, SMT
  <2>4. Len(b3) = 7
    BY <1>6, <1>12, <2>3, SMT
  <2>5. Len(b4) = 7 + L
    BY <1>13, <2>1, <2>4, SMT
  <2>6. Len(b5) = 11 + L
    BY <1>2, <1>7, <1>14, <2>5, SMT
  <2>7. Len(b6) = 15 + L
    BY <1>2, <1>7, <1>15, <2>6, SMT
  <2>8. Len(b7) = 16 + L
    BY <1>2, <1>8, <1>16, <2>7, SMT
  <2>9. Len(b8) = 18 + L
    BY <1>2, <1>6, <1>17, <2>8, SMT
  <2>10. Len(b9) = 20 + L
    BY <1>2, <1>6, <1>18, <2>9, SMT
  <2>11. Len(b10) = 22 + L
    BY <1>2, <1>8, <1>19, <2>10, SMT
  <2>12. Len(b) = 22 + L + Len(end)
    BY <1>20, <2>11
  <2> QED
    BY <2>2, <2>3, <2>4, <2>5, <2>6, <2>7, <2>8, <2>9, <2>10, <2>11, <2>12
<1>22. U16(b1, 3) = 1 /\ U16(b1, 1) = 1
  <2>1. Len(s1) >= 2 /\ Len(s1) + 1 = 3 /\ 1 \in Int /\ 1 >= 1 /\ 1 + 1 <= Len(s1)
    BY <1>6, SMT
  <2>2. U16(b1, Len(s1) + 1) = U16(s1, 1)
    BY <1>6, <2>1, ReadBehind, Zenon
  <2> HIDE DEF b1
  <2>3. U16(b1, 1) = U16(s1, 1)
    BY <1>6, <1>10, <2>1, ReadStart, Zenon
  <2> QED
    BY <1>6, <2>1, <2>2, <2>3, Zenon
<1>23. U16(b3, 6) = L
  <2>1. Len(Size(L)) >= 2 /\ Len(b2) + 1 = 6
    BY <1>6, <1>21, SMT
  <2>2. U16(b3, Len(b2) + 1) = U16(Size(L), 1)
    <3> HIDE DEF b2
    <3> QED
      BY <1>6, <1>11, <2>1, ReadBehind, Zenon
  <2> QED
    BY <1>6, <2>1, <2>2, Zenon
<1>24. b7[16 + L] = low
  <2> HIDE DEF b6, b7
  <2>1. 1 \in 1..Len(<<low>>) /\ Len(b6) + 1 = 16 + L
    BY <1>2, <1>8, <1>21, SMT
  <2> QED
    BY <1>8, <1>16, <2>1, Zenon
<1>25. U16(b8, 17 + L) = r.etype
  <2> HIDE DEF b7
  <2>1. Len(Size(r.etype)) >= 2 /\ Len(b7) + 1 = 17 + L
    BY <1>2, <1>6, <1>21, SMT
  <2>2. U16(b8, Len(b7) + 1) = U16(Size(r.etype), 1)
    BY <1>6, <1>16, <2>1, ReadBehind, Zenon
  <2> QED
    BY <1>6, <2>1, <2>2, Zenon
<1>26. U16(b9, 19 + L) = 2
  <2> HIDE DEF b8
  <2>1. Len(s2) >= 2 /\ Len(b8) + 1 = 19 + L
    BY <1>2, <1>6, <1>21, SMT
  <2>2. U16(b9, Len(b8) + 1) = U16(s2, 1)
    BY <1>6, <1>17, <2>1, ReadBehind, Zenon
  <2> QED
    BY <1>6, <2>1, <2>2, Zenon
<1>27. ASSUME r.long PROVE I32(b, 23 + L) = r.kvno
  <2>1. end = Wide(r.kvno)
    BY <1>27 DEF end
  <2> HIDE DEF b10
  <2>2. Len(end) >= 4 /\ Len(b10) + 1 = 23 + L
    <3>1. Len(end) = 4
      BY <1>7, <2>1, Zenon
    <3> QED
      BY <1>2, <1>21, <3>1, SMT
  <2>3. I32(b, Len(b10) + 1) = I32(end, 1)
    BY <1>9, <1>19, <2>2, ReadBehind, Zenon
  <2> QED
    BY <1>7, <2>1, <2>2, <2>3, Zenon
<1> HIDE DEF b1, b2, b3, b4, b5, b6, b7, b8, b9, b10, b
<1>28. /\ Starts(b, b9) /\ Starts(b, b8) /\ Starts(b, b7) /\ Starts(b, b3) /\ Starts(b, b1)
  <2>1. Starts(b, b9)
    BY <1>18, <1>19, <1>20, StartsTransitive, Zenon
  <2>2. Starts(b, b8)
    BY <1>17, <1>18, <1>20, <2>1, StartsTransitive, Zenon
  <2>3. Starts(b, b7)
    BY <1>16, <1>17, <1>18, <1>20, <2>2, StartsTransitive, Zenon
  <2>4. Starts(b, b6)
    BY <1>15, <1>16, <1>20, <2>3, StartsTransitive, Zenon
  <2>5. Starts(b, b5)
    BY <1>14, <1>15, <1>20, <2>4, StartsTransitive, Zenon
  <2>6. Starts(b, b4)
    BY <1>13, <1>14, <1>20, <2>5, StartsTransitive, Zenon
  <2>7. Starts(b, b3)
    BY <1>12, <1>13, <1>20, <2>6, StartsTransitive, Zenon
  <2>8. Starts(b, b2)
    BY <1>11, <1>12, <1>20, <2>7, StartsTransitive, Zenon
  <2>9. Starts(b, b1)
    BY <1>10, <1>11, <1>20, <2>8, StartsTransitive, Zenon
  <2> QED
    BY <2>1, <2>2, <2>3, <2>7, <2>9, Zenon
<1>29. /\ 1 \in Int /\ 1 >= 1 /\ 1 + 1 <= Len(b1)
       /\ 3 \in Int /\ 3 >= 1 /\ 3 + 1 <= Len(b1)
       /\ 6 \in Int /\ 6 >= 1 /\ 6 + 1 <= Len(b3)
       /\ 16 + L \in Int /\ 16 + L >= 1 /\ 16 + L <= Len(b7)
       /\ 17 + L \in Int /\ 17 + L >= 1 /\ 17 + L + 1 <= Len(b8)
       /\ 19 + L \in Int /\ 19 + L >= 1 /\ 19 + L + 1 <= Len(b9)
  BY <1>2, <1>21, SMT
<1>30. /\ U16(b, 1) = U16(b1, 1) /\ U16(b, 3) = U16(b1, 3) /\ U16(b, 6) = U16(b3, 6)
       /\ b[16 + L] = b7[16 + L]
       /\ U16(b, 17 + L) = U16(b8, 17 + L) /\ U16(b, 19 + L) = U16(b9, 19 + L)
  <2>1. U16(b, 1) = U16(b1, 1) /\ U16(b, 3) = U16(b1, 3)
    BY <1>10, <1>20, <1>28, <1>29, ReadStart, Zenon
  <2>2. U16(b, 6) = U16(b3, 6)
    BY <1>12, <1>20, <1>28, <1>29, ReadStart, Zenon
  <2>3. b[16 + L] = b7[16 + L]
    BY <1>16, <1>20, <1>28, <1>29, ReadStart, Zenon
  <2>4. U16(b, 17 + L) = U16(b8, 17 + L)
    BY <1>17, <1>20, <1>28, <1>29, ReadStart, Zenon
  <2>5. U16(b, 19 + L) = U16(b9, 19 + L)
    BY <1>18, <1>20, <1>28, <1>29, ReadStart, Zenon
  <2> QED
    BY <2>1, <2>2, <2>3, <2>4, <2>5, Zenon
<1>31. Len(b) = IF r.long THEN 26 + L ELSE 22 + L
  <2>1. ASSUME r.long PROVE Len(b) = 26 + L
    BY <1>2, <1>9, <1>21, <2>1, SMT
  <2>2. ASSUME ~r.long PROVE Len(b) = 22 + L
    BY <1>2, <1>9, <1>21, <2>2, SMT
  <2> QED
    BY <2>1, <2>2, Zenon
<1> QED
  BY <1>2, <1>4, <1>20, <1>22, <1>23, <1>24, <1>25, <1>26, <1>27, <1>30, <1>31, Zenon DEF Laid, L, low

(* One counted string: its length, and the length of the rest. *)
LEMMA CountedRead ==
  ASSUME NEW b, NEW at \in Nat, NEW n \in Nat, U16(b, at) = n, Len(b) \in Nat,
         at + 1 + n <= Len(b)
  PROVE  readCountedString(b, at) = at + 2 + n
<1>1. at # Truncated
  BY SMT DEF Truncated
<1>2. ~(at + 1 > Len(b))
  BY SMT
<1>3. ~((at + 2 + U16(b, at)) - 1 > Len(b))
  BY SMT
<1>4. readCountedString(b, at) = at + 2 + U16(b, at)
  BY <1>1, <1>2, <1>3, Zenon DEF readCountedString
<1> QED
  BY <1>4, Zenon

(* The realm and one component behind it. *)
LEMMA PrincipalRead ==
  ASSUME NEW b, NEW p, NEW q,
         readCountedString(b, 3) = p, readCountedString(b, p) = q
  PROVE  behindPrincipal(b, 1) = q
<1> DEFINE g == [i \in 0..1 |-> IF i = 0 THEN p ELSE q]
           Is(f) == f = [i \in 0..1 |-> IF i = 0 THEN readCountedString(b, 3)
                                        ELSE readCountedString(b, f[i - 1])]
<1>1. Is(g)
  <2>1. \A i \in 0..1 : i # 0 => i - 1 = 0 /\ 0 \in 0..1
    BY SMT
  <2>2. \A i \in 0..1 : i # 0 => g[i - 1] = p
    BY <2>1, Zenon
  <2> QED
    BY <2>2, Zenon
<1>2. behindPrincipal(b, 1) = (CHOOSE f : Is(f))[1]
  BY Zenon DEF behindPrincipal
<1>3. PICK f : Is(f) /\ behindPrincipal(b, 1) = f[1]
  <2> HIDE DEF Is, g
  <2> QED
    BY <1>1, <1>2, Zenon
<1>4. 0 \in 0..1 /\ 1 \in 0..1 /\ 1 # 0 /\ 1 - 1 = 0
  BY SMT
<1>5. f[0] = p
  BY <1>3, <1>4, Zenon
<1>6. f[1] = readCountedString(b, f[0])
  BY <1>3, <1>4, Zenon
<1> QED
  BY <1>3, <1>5, <1>6, Zenon

(* parseEntry finds the version and the type that were written. *)
LEMMA EntryRead ==
  ASSUME NEW r \in Writable
  PROVE  parseEntry(Body(r)) = [kvno |-> r.kvno, etype |-> r.etype]
<1> DEFINE b == Body(r)
           L == Len(r.name)
           at == 8 + L
           end == 23 + L
<1>1. Laid(b, r)
  BY BodyLaid, Zenon
<1> HIDE DEF b, L
<1>2. /\ b \in Seq(Byte) /\ L \in Nat
      /\ Len(b) = IF r.long THEN 26 + L ELSE 22 + L
      /\ U16(b, 1) = 1 /\ U16(b, 3) = 1 /\ U16(b, 6) = L
      /\ b[16 + L] = r.kvno % 256
      /\ U16(b, 17 + L) = r.etype /\ U16(b, 19 + L) = 2
      /\ r.long => I32(b, 23 + L) = r.kvno
  BY <1>1, Zenon DEF Laid, L
<1>3. Len(b) \in Nat /\ Len(b) >= 22 + L /\ (r.long => Len(b) = 26 + L) /\ (~r.long => Len(b) = 22 + L)
  <2>1. r.long => Len(b) = 26 + L
    BY <1>2, Zenon
  <2>2. ~r.long => Len(b) = 22 + L
    BY <1>2, Zenon
  <2> QED
    BY <1>2, <2>1, <2>2, SMT
<1>4. readCountedString(b, 3) = 6
  <2>1. 3 \in Nat /\ 1 \in Nat /\ 3 + 1 + 1 <= Len(b) /\ 3 + 2 + 1 = 6
    BY <1>2, <1>3, SMT
  <2> QED
    BY <1>2, <1>3, <2>1, CountedRead, Zenon
<1>5. readCountedString(b, 6) = at
  <2>1. 6 \in Nat /\ 6 + 1 + L <= Len(b) /\ 6 + 2 + L = at
    BY <1>2, <1>3, SMT
  <2> QED
    BY <1>2, <1>3, <2>1, CountedRead, Zenon
<1>6. behindPrincipal(b, 1) = at
  BY <1>4, <1>5, PrincipalRead, Zenon
<1>7. /\ ~(Len(b) < 2) /\ at # Truncated /\ ~(at + 12 > Len(b))
      /\ at + 11 = 19 + L /\ at + 9 = 17 + L /\ at + 8 = 16 + L /\ at + 13 + 2 = end
      /\ ~(end - 1 > Len(b))
      /\ (r.long => Len(b) - end + 1 >= 4) /\ (~r.long => ~(Len(b) - end + 1 >= 4))
  BY <1>2, <1>3, SMT DEF Truncated
<1>8. kvnoOf(b, at, end) = r.kvno
  <2>1. CASE r.long
    BY <1>2, <1>7, <2>1, Zenon DEF kvnoOf
  <2>2. CASE ~r.long
    <3>1. r.kvno % 256 = r.kvno
      <4>1. Word(r.kvno) /\ Fits(r)
        BY Fields, Zenon
      <4>2. r.kvno < 256
        BY <2>2, <4>1, SMT DEF Fits
      <4> QED
        BY <4>1, <4>2, LowByte, Zenon
    <3> QED
      BY <1>2, <1>7, <2>2, <3>1, Zenon DEF kvnoOf
  <2> QED
    BY <2>1, <2>2, Zenon
<1>9. parseEntry(b) = [kvno |-> kvnoOf(b, at, end), etype |-> U16(b, at + 9)]
  <2>1. behindPrincipal(b, U16(b, 1)) = at
    BY <1>2, <1>6, Zenon
  <2>2. at + 13 + U16(b, at + 11) = end
    BY <1>2, <1>7, Zenon
  <2> HIDE DEF at, end
  <2> QED
    BY <1>7, <2>1, <2>2, Zenon DEF parseEntry
<1> QED
  BY <1>2, <1>7, <1>8, <1>9, Zenon DEF b

(* The length in front of a record, negative for a deleted one. *)
Framed(b, r, n) ==
    /\ b \in Seq(Byte) /\ n \in Nat /\ n > 0 /\ Len(b) = 4 + n /\ Len(Body(r)) = n
    /\ I32(b, 1) # MinInt32
    /\ I32(b, 1) = IF r.live THEN n ELSE -n
    /\ \A i \in 1..n : b[4 + i] = Body(r)[i]

(* Record puts it there. *)
LEMMA RecordFramed ==
  ASSUME NEW r \in Writable
  PROVE  Body(r) \in Seq(Byte) /\ Framed(Record(r), r, Len(Body(r)))
<1> DEFINE n == Len(Body(r))
           del == <<255, 255, 255, 256 - n>>
           head == IF r.live THEN Wide(n) ELSE del
<1>1. Laid(Body(r), r)
  BY BodyLaid, Zenon
<1>2. /\ Body(r) \in Seq(Byte) /\ Len(r.name) \in Nat
      /\ n = IF r.long THEN 26 + Len(r.name) ELSE 22 + Len(r.name)
  BY <1>1, Zenon DEF Laid
<1> HIDE DEF n
<1>3. n \in Nat /\ n >= 22 /\ n <= 26 + Len(r.name)
  <2>1. r.long => n = 26 + Len(r.name)
    BY <1>2, Zenon
  <2>2. ~r.long => n = 22 + Len(r.name)
    BY <1>2, Zenon
  <2> QED
    BY <1>2, <2>1, <2>2, SMT
<1>4. r.live \in BOOLEAN /\ Fits(r)
  BY Fields, Zenon
<1>5. Word(n)
  BY <1>2, <1>3, <1>4, SMT DEF Fits, Word
<1>6. ASSUME ~r.live PROVE n <= 255
  BY <1>2, <1>3, <1>4, <1>6, SMT DEF Fits
<1>7. ASSUME r.live
      PROVE  head \in Seq(Byte) /\ Len(head) = 4 /\ I32(head, 1) = n /\ I32(head, 1) # MinInt32
  <2>1. head = Wide(n)
    BY <1>7, Zenon
  <2>2. n # MinInt32
    BY <1>3, SMT DEF MinInt32
  <2> HIDE DEF head
  <2> QED
    BY <1>5, <2>1, <2>2, WideRead, Zenon
<1>8. ASSUME ~r.live
      PROVE  head \in Seq(Byte) /\ Len(head) = 4 /\ I32(head, 1) = -n /\ I32(head, 1) # MinInt32
  <2>1. head = del
    BY <1>8, Zenon
  <2>2. 255 \in Byte /\ 256 - n \in Byte
    BY <1>3, <1>6, <1>8, SMT DEF Byte
  <2>3. del \in Seq(Byte) /\ Len(del) = 4
    BY <2>2, SMT
  <2>4. del[1] = 255 /\ del[1 + 1] = 255 /\ del[1 + 2] = 255 /\ del[1 + 3] = 256 - n
    BY SMT
  <2>5. I32(del, 1) = -n /\ -n # MinInt32
    BY <1>3, <1>6, <1>8, <2>4, SMT DEF I32, MinInt32
  <2> QED
    BY <2>1, <2>3, <2>5, Zenon
<1> HIDE DEF head
<1>9. /\ head \in Seq(Byte) /\ Len(head) = 4 /\ I32(head, 1) # MinInt32
      /\ I32(head, 1) = IF r.live THEN n ELSE -n
  BY <1>4, <1>7, <1>8, Zenon
<1> DEFINE b == head \o Body(r)
<1>10. Record(r) = b
  BY Zenon DEF Record, n, head
<1>11. /\ b \in Seq(Byte) /\ Len(b) = Len(head) + Len(Body(r)) /\ Starts(b, head)
       /\ \A i \in 1..Len(Body(r)) : b[Len(head) + i] = Body(r)[i]
  BY <1>2, <1>9, Joined, Zenon
<1> HIDE DEF b
<1>12. I32(b, 1) = I32(head, 1)
  <2>1. 1 \in Int /\ 1 >= 1 /\ 1 + 3 <= Len(head)
    BY <1>9, SMT
  <2> QED
    BY <1>9, <1>11, <2>1, ReadStart, Zenon
<1>13. n > 0
  BY <1>3, SMT
<1> QED
  BY <1>2, <1>3, <1>9, <1>10, <1>11, <1>12, <1>13, Zenon DEF Framed, n

-----------------------------------------------------------------------------
(* Induction, with sets for the predicates the library's theorems take. *)

(* A set of numbers has a least one. *)
LEMMA Least ==
  ASSUME NEW T \in SUBSET Nat, T # {}
  PROVE  \E x \in T : \A y \in T : x <= y
<1> DEFINE R == {ss \in Nat \X Nat : ss[1] < ss[2]}
<1>1. IsWellFoundedOn(R, Nat)
  BY NatLessThanWellFounded, Zenon DEF OpToRel
<1> HIDE DEF R
<1>2. PICK x \in T : \A y \in T : ~(<<y, x>> \in R)
  BY <1>1, WFMin
<1>3. \A y \in T : ~(y < x)
  BY <1>2 DEF R
<1> QED
  BY <1>3

(* What holds of 0 and passes on holds of every number up to m. *)
LEMMA Upwards ==
  ASSUME NEW m \in Nat, NEW T, 0 \in T, \A i \in 0..m : i < m /\ i \in T => i + 1 \in T
  PROVE  \A i \in 0..m : i \in T
<1> DEFINE C == {i \in 0..m : i \notin T}
<1> SUFFICES ASSUME C # {} PROVE FALSE
  OBVIOUS
<1>1. C \in SUBSET Nat
  OBVIOUS
<1>2. PICK k \in C : \A y \in C : k <= y
  <2> HIDE DEF C
  <2> QED
    BY <1>1, Least
<1>3. k # 0 /\ k - 1 \in 0..m /\ k - 1 < m /\ (k - 1) + 1 = k /\ ~(k <= k - 1)
  BY <1>2
<1>4. k - 1 \in T
  BY <1>2, <1>3
<1> QED
  BY <1>2, <1>3, <1>4

(* What holds of m and passes down holds of every number up to m. *)
LEMMA Downwards ==
  ASSUME NEW m \in Nat, NEW T, m \in T, \A i \in 0..m : i < m /\ i + 1 \in T => i \in T
  PROVE  \A i \in 0..m : i \in T
<1> DEFINE S == {i \in 0..m : m - i \in T}
<1>1. 0 \in S
  OBVIOUS
<1>2. \A i \in 0..m : i < m /\ i \in S => i + 1 \in S
  <2> SUFFICES ASSUME NEW i \in 0..m, i < m, m - i \in T PROVE m - (i + 1) \in T
    OBVIOUS
  <2>1. m - (i + 1) \in 0..m /\ m - (i + 1) < m /\ (m - (i + 1)) + 1 = m - i
    OBVIOUS
  <2> QED
    BY <2>1
<1> HIDE DEF S
<1>3. \A i \in 0..m : i \in S
  BY <1>1, <1>2, Upwards
<1> QED
  <2> SUFFICES ASSUME NEW i \in 0..m PROVE i \in T
    OBVIOUS
  <2>1. m - i \in 0..m /\ m - (m - i) = i
    OBVIOUS
  <2> QED
    BY <1>3, <2>1 DEF S

Iterates(f, v, g, m) == f[0] = v /\ \A i \in 1..m : f[i] = g[i][f[i - 1]]

(* A recursive function over 0..m, each value made from the one before,    *)
(* exists.                                                                 *)
LEMMA Steps ==
  ASSUME NEW V, NEW m \in Nat, NEW v \in V, NEW g \in [0..m -> [V -> V]]
  PROVE  \E f \in [0..m -> V] : Iterates(f, v, g, m)
<1> DEFINE Upto(k) == \E f \in [0..m -> V] :
                         \A i \in 0..k : f[i] = IF i = 0 THEN v ELSE g[i][f[i - 1]]
           T == {k \in 0..m : Upto(k)}
<1>1. 0 \in T
  <2> DEFINE c == [i \in 0..m |-> v]
  <2>1. c \in [0..m -> V] /\ \A i \in 0..0 : c[i] = IF i = 0 THEN v ELSE g[i][c[i - 1]]
    OBVIOUS
  <2> HIDE DEF c
  <2> QED
    BY <2>1
<1>2. \A k \in 0..m : k < m /\ k \in T => k + 1 \in T
  <2> SUFFICES ASSUME NEW k \in 0..m, k < m, k \in T PROVE k + 1 \in T
    OBVIOUS
  <2>1. PICK f \in [0..m -> V] : \A i \in 0..k : f[i] = IF i = 0 THEN v ELSE g[i][f[i - 1]]
    OBVIOUS
  <2> DEFINE h == [f EXCEPT ![k + 1] = g[k + 1][f[k]]]
  <2>2. h \in [0..m -> V]
    OBVIOUS
  <2>3. \A i \in 0..(k + 1) : h[i] = IF i = 0 THEN v ELSE g[i][h[i - 1]]
    BY <2>1
  <2> HIDE DEF h
  <2> QED
    BY <2>2, <2>3
<1>3. m \in T
  <2> HIDE DEF T
  <2>1. \A k \in 0..m : k \in T
    BY <1>1, <1>2, Upwards
  <2>2. m \in 0..m
    OBVIOUS
  <2> QED
    BY <2>1, <2>2
<1>4. PICK f \in [0..m -> V] : \A i \in 0..m : f[i] = IF i = 0 THEN v ELSE g[i][f[i - 1]]
  BY <1>3
<1> QED
  BY <1>4 DEF Iterates

-----------------------------------------------------------------------------
(* A file of records. *)

Entry == [kvno : Short, etype : Short]
EntryOf(r) == [kvno |-> r.kvno, etype |-> r.etype]

(* F has the bytes of the first i records, G what they say. *)
Stores(F, rs) ==
    /\ F \in [0..Len(rs) -> Seq(Byte)] /\ F[0] = <<5, 2>>
    /\ \A i \in 1..Len(rs) : F[i] = F[i - 1] \o Record(rs[i])
Says(G, rs) ==
    /\ G \in [0..Len(rs) -> Seq(Entry)] /\ G[0] = <<>>
    /\ \A i \in 1..Len(rs) :
          G[i] = IF ~rs[i].live THEN G[i - 1] ELSE Append(G[i - 1], EntryOf(rs[i]))

(* There are such functions. *)
LEMMA StoresExists ==
  ASSUME NEW rs \in Seq(Writable)
  PROVE  \E F : Stores(F, rs)
<1> DEFINE V == Seq(Byte)
           m == Len(rs)
           g == [i \in 0..m |-> [x \in V |-> IF i = 0 THEN x ELSE x \o Record(rs[i])]]
           v == <<5, 2>>
<1>1. m \in Nat
  BY LenProperties
<1>2. v \in V
  <2>1. 5 \in Byte /\ 2 \in Byte
    BY SMT DEF Byte
  <2> QED
    BY <2>1
<1>3. \A i \in 1..m : Record(rs[i]) \in V
  <2> SUFFICES ASSUME NEW i \in 1..m PROVE Record(rs[i]) \in V
    OBVIOUS
  <2>1. rs[i] \in Writable
    BY ElementOfSeq
  <2> QED
    BY <2>1, RecordFramed, Zenon DEF Framed
<1>4. \A i \in 0..m : i # 0 => i \in 1..m /\ i - 1 \in 0..m
  BY <1>1
<1>5. g \in [0..m -> [V -> V]]
  <2> SUFFICES ASSUME NEW i \in 0..m, NEW x \in V
               PROVE  (IF i = 0 THEN x ELSE x \o Record(rs[i])) \in V
    OBVIOUS
  <2>1. CASE i = 0
    BY <2>1
  <2>2. CASE i # 0
    BY <1>3, <1>4, <2>2, Joined, Zenon
  <2> QED
    BY <2>1, <2>2
<1>6. PICK F \in [0..m -> V] : Iterates(F, v, g, m)
  <2> HIDE DEF g, V, v, m
  <2> QED
    BY <1>1, <1>2, <1>5, Steps
<1>7. \A i \in 1..m : i \in 0..m /\ i # 0 /\ i - 1 \in 0..m
  BY <1>1
<1>8. \A i \in 1..m : F[i] = F[i - 1] \o Record(rs[i])
  <2> SUFFICES ASSUME NEW i \in 1..m PROVE F[i] = F[i - 1] \o Record(rs[i])
    OBVIOUS
  <2>1. i \in 0..m /\ i # 0 /\ F[i - 1] \in V
    BY <1>6, <1>7, Zenon
  <2>2. F[i] = g[i][F[i - 1]]
    BY <1>6, <2>1, Zenon DEF Iterates
  <2> QED
    BY <2>1, <2>2, Zenon
<1> QED
  BY <1>6, <1>8, Zenon DEF Stores, Iterates

(* A writable record says a version and a type. *)
LEMMA EntryType == ASSUME NEW r \in Writable PROVE EntryOf(r) \in Entry
<1>1. r \in FileRecord
  BY Zenon DEF Writable
<1>2. r.kvno \in Short /\ r.etype \in Short
  BY <1>1, Zenon DEF FileRecord
<1> QED
  BY <1>2, Zenon DEF EntryOf, Entry

(* And what the records say. *)
LEMMA SaysExists ==
  ASSUME NEW rs \in Seq(Writable)
  PROVE  \E G : Says(G, rs)
<1> DEFINE V == Seq(Entry)
           m == Len(rs)
           Next1(i, x) == IF ~rs[i].live THEN x ELSE Append(x, EntryOf(rs[i]))
           g == [i \in 0..m |-> [x \in V |-> IF i = 0 THEN x ELSE Next1(i, x)]]
           v == <<>>
<1>1. m \in Nat
  BY LenProperties
<1>2. v \in V
  OBVIOUS
<1>3. \A i \in 1..m : EntryOf(rs[i]) \in Entry
  BY ElementOfSeq, EntryType
<1>4. \A i \in 0..m : i # 0 => i \in 1..m /\ i - 1 \in 0..m
  BY <1>1
<1>5. g \in [0..m -> [V -> V]]
  <2> SUFFICES ASSUME NEW i \in 0..m, NEW x \in V
               PROVE  (IF i = 0 THEN x ELSE Next1(i, x)) \in V
    OBVIOUS
  <2>1. CASE i = 0
    BY <2>1
  <2>2. CASE i # 0
    <3>1. EntryOf(rs[i]) \in Entry
      BY <1>3, <1>4, <2>2
    <3>2. Append(x, EntryOf(rs[i])) \in V
      BY <3>1, AppendProperties
    <3> QED
      BY <2>2, <3>2, Zenon
  <2> QED
    BY <2>1, <2>2
<1>6. PICK G \in [0..m -> V] : Iterates(G, v, g, m)
  <2> HIDE DEF g, V, v, m
  <2> QED
    BY <1>1, <1>2, <1>5, Steps
<1>7. \A i \in 1..m : i \in 0..m /\ i # 0 /\ i - 1 \in 0..m
  BY <1>1
<1>8. \A i \in 1..m : G[i] = Next1(i, G[i - 1])
  <2> SUFFICES ASSUME NEW i \in 1..m PROVE G[i] = Next1(i, G[i - 1])
    OBVIOUS
  <2>1. i \in 0..m /\ i # 0 /\ G[i - 1] \in V
    BY <1>6, <1>7, Zenon
  <2>2. G[i] = g[i][G[i - 1]]
    BY <1>6, <2>1, Zenon DEF Iterates
  <2> HIDE DEF Next1
  <2> QED
    BY <2>1, <2>2, Zenon
<1> QED
  BY <1>6, <1>8, Zenon DEF Says, Iterates

(* Bytes and Said are these functions' values: a writer that stops after n *)
(* records has written the beginning of the longer file.                   *)
LEMMA BytesAre ==
  ASSUME NEW rs \in Seq(Writable), NEW F, Stores(F, rs), NEW n \in 0..Len(rs)
  PROVE  Bytes(SubSeq(rs, 1, n)) = F[n]
<1> DEFINE s == SubSeq(rs, 1, n)
           v == <<5, 2>>
           Is(f) == f = [i \in 0..n |-> IF i = 0 THEN v ELSE f[i - 1] \o Record(s[i])]
           h == [i \in 0..n |-> F[i]]
<1>1. n \in Nat /\ Len(rs) \in Nat /\ n <= Len(rs)
  BY LenProperties
<1>2. Len(s) = n /\ \A i \in 1..n : s[i] = rs[i]
  BY <1>1, SubSeqProperties
<1> HIDE DEF s, v
<1>3. F[0] = v /\ \A i \in 1..n : F[i] = F[i - 1] \o Record(s[i])
  <2>1. \A i \in 1..n : i \in 1..Len(rs)
    BY <1>1
  <2> QED
    BY <1>2, <2>1, Zenon DEF Stores, v
<1>4. 0 \in 0..n /\ n \in 0..n /\ \A i \in 0..n : i # 0 => i \in 1..n /\ i - 1 \in 0..n
  BY <1>1
<1>5. Is(h)
  <2>1. \A i \in 0..n : h[i] = IF i = 0 THEN v ELSE h[i - 1] \o Record(s[i])
    BY <1>3, <1>4, Zenon
  <2> QED
    BY <2>1, Zenon
<1>6. Bytes(s) = (CHOOSE f : Is(f))[n]
  BY <1>2, Zenon DEF Bytes, v
<1>7. PICK f : Is(f) /\ Bytes(s) = f[n]
  <2> HIDE DEF Is, h
  <2> QED
    BY <1>5, <1>6, Zenon
<1> DEFINE T == {i \in 0..n : f[i] = F[i]}
<1>8. 0 \in T
  BY <1>3, <1>4, <1>7, Zenon
<1>9. \A i \in 0..n : i < n /\ i \in T => i + 1 \in T
  <2> SUFFICES ASSUME NEW i \in 0..n, i < n, f[i] = F[i] PROVE i + 1 \in 0..n /\ f[i + 1] = F[i + 1]
    OBVIOUS
  <2>1. i + 1 \in 0..n /\ i + 1 \in 1..n /\ i + 1 # 0 /\ (i + 1) - 1 = i
    BY <1>1
  <2>2. f[i + 1] = f[(i + 1) - 1] \o Record(s[i + 1])
    BY <1>7, <2>1, Zenon
  <2>3. F[i + 1] = F[(i + 1) - 1] \o Record(s[i + 1])
    BY <1>3, <2>1, Zenon
  <2> QED
    BY <2>1, <2>2, <2>3, Zenon
<1>10. n \in T
  <2> HIDE DEF T
  <2>1. \A i \in 0..n : i \in T
    BY <1>1, <1>8, <1>9, Upwards
  <2> QED
    BY <1>4, <2>1, Zenon
<1> QED
  BY <1>7, <1>10, Zenon DEF s

(* Said has the values of such a function. *)
LEMMA SaidAre ==
  ASSUME NEW rs \in Seq(Writable), NEW G, Says(G, rs), NEW n \in 0..Len(rs)
  PROVE  Said(rs, n) = G[n]
<1> DEFINE Next1(i, x) == IF ~rs[i].live THEN x ELSE Append(x, EntryOf(rs[i]))
           Is(f) == f = [i \in 0..n |-> IF i = 0 THEN <<>> ELSE Next1(i, f[i - 1])]
           h == [i \in 0..n |-> G[i]]
<1>1. n \in Nat /\ Len(rs) \in Nat /\ n <= Len(rs)
  BY LenProperties
<1>2. G[0] = <<>> /\ \A i \in 1..n : G[i] = Next1(i, G[i - 1])
  BY <1>1 DEF Says
<1>3. 0 \in 0..n /\ n \in 0..n /\ \A i \in 0..n : i # 0 => i \in 1..n /\ i - 1 \in 0..n
  BY <1>1
<1>4. Said(rs, n) = (CHOOSE f : Is(f))[n]
  BY Zenon DEF Said, EntryOf
<1> HIDE DEF Next1
<1>5. Is(h)
  <2>1. \A i \in 0..n : h[i] = IF i = 0 THEN <<>> ELSE Next1(i, h[i - 1])
    BY <1>2, <1>3, Zenon
  <2> QED
    BY <2>1, Zenon
<1>6. PICK f : Is(f) /\ Said(rs, n) = f[n]
  <2> HIDE DEF Is, h
  <2> QED
    BY <1>5, <1>4, Zenon
<1> DEFINE T == {i \in 0..n : f[i] = G[i]}
<1>7. 0 \in T
  BY <1>2, <1>3, <1>6, Zenon
<1>8. \A i \in 0..n : i < n /\ i \in T => i + 1 \in T
  <2> SUFFICES ASSUME NEW i \in 0..n, i < n, f[i] = G[i] PROVE i + 1 \in 0..n /\ f[i + 1] = G[i + 1]
    OBVIOUS
  <2>1. i + 1 \in 0..n /\ i + 1 \in 1..n /\ i + 1 # 0 /\ (i + 1) - 1 = i
    BY <1>1
  <2>2. f[i + 1] = Next1(i + 1, f[(i + 1) - 1])
    BY <1>6, <2>1, Zenon
  <2>3. G[i + 1] = Next1(i + 1, G[(i + 1) - 1])
    BY <1>2, <2>1, Zenon
  <2> QED
    BY <2>1, <2>2, <2>3, Zenon
<1>9. n \in T
  <2> HIDE DEF T
  <2>1. \A i \in 0..n : i \in T
    BY <1>1, <1>7, <1>8, Upwards
  <2> QED
    BY <1>3, <2>1, Zenon
<1> QED
  BY <1>6, <1>9, Zenon

(* What the i-th record adds to the file. *)
Added(F, rs, i, n) ==
    /\ F[i - 1] \in Seq(Byte) /\ F[i] \in Seq(Byte) /\ Starts(F[i], F[i - 1])
    /\ n \in Nat /\ n > 0 /\ n = Len(Body(rs[i])) /\ Body(rs[i]) \in Seq(Byte)
    /\ Len(F[i]) = Len(F[i - 1]) + (4 + n)
    /\ I32(F[i], Len(F[i - 1]) + 1) # MinInt32
    /\ I32(F[i], Len(F[i - 1]) + 1) = IF rs[i].live THEN n ELSE -n
    /\ \A k \in 1..n : F[i][Len(F[i - 1]) + (4 + k)] = Body(rs[i])[k]

(* Bytes adds Record(r) behind what is there. *)
LEMMA RecordAdded ==
  ASSUME NEW rs \in Seq(Writable), NEW F, Stores(F, rs), NEW i \in 1..Len(rs)
  PROVE  rs[i] \in Writable /\ Added(F, rs, i, Len(Body(rs[i])))
<1> DEFINE n == Len(Body(rs[i]))
           p == F[i - 1]
           q == Record(rs[i])
<1>1. Len(rs) \in Nat /\ i - 1 \in 0..Len(rs) /\ i \in 0..Len(rs)
  BY LenProperties
<1>2. rs[i] \in Writable
  BY ElementOfSeq
<1>3. Body(rs[i]) \in Seq(Byte) /\ Framed(q, rs[i], n)
  BY <1>2, RecordFramed, Zenon
<1>4. p \in Seq(Byte) /\ F[i] \in Seq(Byte) /\ F[i] = p \o q
  BY <1>1, Zenon DEF Stores
<1> HIDE DEF n, p, q
<1>5. /\ q \in Seq(Byte) /\ n \in Nat /\ n > 0 /\ Len(q) = 4 + n
      /\ I32(q, 1) # MinInt32 /\ I32(q, 1) = (IF rs[i].live THEN n ELSE -n)
      /\ \A k \in 1..n : q[4 + k] = Body(rs[i])[k]
  BY <1>3, Zenon DEF Framed
<1>6. /\ Len(F[i]) = Len(p) + Len(q) /\ Starts(F[i], p)
      /\ \A k \in 1..Len(q) : F[i][Len(p) + k] = q[k]
  <2>1. /\ Len(p \o q) = Len(p) + Len(q) /\ Starts(p \o q, p)
        /\ \A k \in 1..Len(q) : (p \o q)[Len(p) + k] = q[k]
    BY <1>4, <1>5, Joined, Zenon
  <2> QED
    BY <1>4, <2>1, Zenon
<1>7. I32(F[i], Len(p) + 1) = I32(q, 1)
  <2>1. Len(q) >= 4
    BY <1>5, SMT
  <2> QED
    BY <1>4, <1>5, <2>1, ReadBehind, Zenon
<1>8. \A k \in 1..n : F[i][Len(p) + (4 + k)] = Body(rs[i])[k]
  <2>1. \A k \in 1..n : 4 + k \in 1..Len(q)
    BY <1>5, SMT
  <2> QED
    BY <1>5, <1>6, <2>1, Zenon
<1> QED
  BY <1>2, <1>3, <1>4, <1>5, <1>6, <1>7, <1>8, Zenon DEF Added, n, p

(* Every part of a file begins the file, and more records are more bytes. *)
LEMMA Grown ==
  ASSUME NEW rs \in Seq(Writable), NEW F, Stores(F, rs)
  PROVE  /\ \A i \in 0..Len(rs) : F[i] \in Seq(Byte) /\ Len(F[i]) \in Nat /\ Len(F[i]) >= 2
         /\ \A i \in 0..Len(rs) : Starts(F[Len(rs)], F[i])
         /\ \A i, j \in 0..Len(rs) : i < j => Len(F[i]) < Len(F[j])
<1> DEFINE m == Len(rs)
<1>1. m \in Nat
  BY LenProperties
<1>2. \A i \in 0..m : F[i] \in Seq(Byte) /\ Len(F[i]) \in Nat
  BY LenProperties DEF Stores
<1>3. \A i \in 0..m : i < m => /\ i + 1 \in 1..m /\ i + 1 \in 0..m
                               /\ Len(F[i]) < Len(F[i + 1]) /\ Starts(F[i + 1], F[i])
  <2> SUFFICES ASSUME NEW i \in 0..m, i < m
               PROVE  /\ i + 1 \in 1..m /\ i + 1 \in 0..m
                      /\ Len(F[i]) < Len(F[i + 1]) /\ Starts(F[i + 1], F[i])
    OBVIOUS
  <2>1. i + 1 \in 1..m /\ i + 1 \in 0..m /\ (i + 1) - 1 = i
    BY <1>1
  <2> DEFINE n == Len(Body(rs[i + 1]))
  <2>2. Added(F, rs, i + 1, n)
    BY <2>1, RecordAdded, Zenon
  <2> HIDE DEF n
  <2>3. n \in Nat /\ n > 0 /\ Len(F[i + 1]) = Len(F[i]) + (4 + n) /\ Starts(F[i + 1], F[i])
    BY <2>1, <2>2, Zenon DEF Added
  <2>4. Len(F[i]) \in Nat
    BY <1>2
  <2>5. Len(F[i]) < Len(F[i + 1])
    <3> DEFINE x == Len(F[i])
               y == Len(F[i + 1])
    <3>1. x \in Nat /\ n \in Nat /\ n > 0 /\ y = x + (4 + n)
      BY <2>3, <2>4, Zenon
    <3> HIDE DEF x, y
    <3>2. x < y
      BY <3>1, SMT
    <3> QED
      BY <3>2, Zenon DEF x, y
  <2> QED
    BY <2>1, <2>3, <2>5, Zenon
<1>4. \A j \in 0..m : \A i \in 0..m : i < j => Len(F[i]) < Len(F[j])
  <2> DEFINE T == {j \in 0..m : \A i \in 0..m : i < j => Len(F[i]) < Len(F[j])}
  <2>1. 0 \in T
    BY <1>1
  <2>2. \A j \in 0..m : j < m /\ j \in T => j + 1 \in T
    <3> SUFFICES ASSUME NEW j \in 0..m, j < m, j \in T, NEW i \in 0..m, i < j + 1
                 PROVE  Len(F[i]) < Len(F[j + 1])
      BY <1>3
    <3>1. i < j \/ i = j
      OBVIOUS
    <3>2. Len(F[i]) <= Len(F[j])
      BY <1>2, <3>1
    <3> QED
      BY <1>2, <1>3, <3>2
  <2> HIDE DEF T
  <2>3. \A j \in 0..m : j \in T
    BY <1>1, <2>1, <2>2, Upwards
  <2> QED
    BY <2>3 DEF T
<1>5. \A i \in 0..m : Starts(F[m], F[i])
  <2> DEFINE T == {i \in 0..m : Starts(F[m], F[i])}
  <2>1. m \in T
    BY <1>1, <1>2 DEF Starts
  <2>2. \A i \in 0..m : i < m /\ i + 1 \in T => i \in T
    <3> SUFFICES ASSUME NEW i \in 0..m, i < m, Starts(F[m], F[i + 1])
                 PROVE  Starts(F[m], F[i])
      OBVIOUS
    <3>1. i + 1 \in 0..m /\ m \in 0..m /\ Starts(F[i + 1], F[i])
      BY <1>1, <1>3
    <3> QED
      BY <1>2, <3>1, StartsTransitive, Zenon
  <2> HIDE DEF T
  <2>3. \A i \in 0..m : i \in T
    BY <1>1, <2>1, <2>2, Downwards
  <2> QED
    BY <2>3 DEF T
<1>6. \A i \in 0..m : Len(F[i]) >= 2
  <2>1. 0 \in 0..m /\ \A i \in 0..m : i = 0 \/ 0 < i
    BY <1>1
  <2>2. Len(F[0]) = 2
    BY DEF Stores
  <2>3. \A i \in 0..m : i # 0 => Len(F[0]) < Len(F[i])
    BY <1>4, <2>1, Zenon
  <2> SUFFICES ASSUME NEW i \in 0..m PROVE Len(F[i]) >= 2
    OBVIOUS
  <2> DEFINE x == Len(F[i])
  <2>4. x \in Nat /\ (x = 2 \/ 2 < x)
    BY <1>2, <2>2, <2>3, Zenon
  <2> HIDE DEF x
  <2>5. x >= 2
    BY <2>4, SMT
  <2> QED
    BY <2>5, Zenon DEF x
<1> QED
  BY <1>2, <1>4, <1>5, <1>6, Zenon

-----------------------------------------------------------------------------
(* The loop over the records. *)

NextAt(b, pos) == pos + 4 + (IF I32(b, pos) < 0 THEN -I32(b, pos) ELSE I32(b, pos))

(* The body of the loop, with f for what is behind the record. *)
RestAt(b, f, pos) ==
    IF pos > Len(b) THEN [err |-> "none", entries |-> <<>>]
    ELSE IF pos + 3 > Len(b) THEN Failed("truncated")
    ELSE IF I32(b, pos) = MinInt32 THEN Failed("panic")
    ELSE IF I32(b, pos) = 0 THEN [err |-> "none", entries |-> <<>>]
    ELSE IF NextAt(b, pos) - 1 > Len(b) THEN Failed("truncated")
    ELSE IF I32(b, pos) < 0 THEN f[NextAt(b, pos)]
    ELSE IF parseEntry(SubSeq(b, pos + 4, NextAt(b, pos) - 1)) = BadEntry THEN Failed("truncated")
    ELSE IF f[NextAt(b, pos)].err # "none" THEN f[NextAt(b, pos)]
    ELSE [err |-> "none",
          entries |-> <<parseEntry(SubSeq(b, pos + 4, NextAt(b, pos) - 1))>>
                         \o f[NextAt(b, pos)].entries]

Rest(b, f) == f = [pos \in 1..Len(b) + 1 |-> RestAt(b, f, pos)]

(* I32 is a number. *)
LEMMA I32Type ==
  ASSUME NEW b \in Seq(Byte), NEW pos \in Nat, pos >= 1, pos + 3 <= Len(b)
  PROVE  I32(b, pos) \in Int
<1>1. Len(b) \in Nat
  BY LenProperties
<1>2. pos \in 1..Len(b) /\ pos + 1 \in 1..Len(b) /\ pos + 2 \in 1..Len(b) /\ pos + 3 \in 1..Len(b)
  BY <1>1, SMT
<1>3. b[pos] \in Byte /\ b[pos + 1] \in Byte /\ b[pos + 2] \in Byte /\ b[pos + 3] \in Byte
  BY <1>2, ElementOfSeq, Zenon
<1>4. \A x \in Byte : x \in Int
  BY SMT DEF Byte
<1>5. b[pos] \in Int /\ b[pos + 1] \in Int /\ b[pos + 2] \in Int /\ b[pos + 3] \in Int
  BY <1>3, <1>4, Zenon
<1> DEFINE w == b[pos]
           x == b[pos + 1]
           y == b[pos + 2]
           z == b[pos + 3]
<1>6. I32(b, pos) = (IF w < 128 THEN w ELSE w - 256) * 16777216 + x * 65536 + y * 256 + z
  BY SMT DEF I32
<1>7. w \in Int /\ x \in Int /\ y \in Int /\ z \in Int
  BY <1>5, Zenon
<1> HIDE DEF w, x, y, z
<1>8. (IF w < 128 THEN w ELSE w - 256) * 16777216 + x * 65536 + y * 256 + z \in Int
  BY <1>7, SMT
<1> QED
  BY <1>6, <1>8, SMT

(* A record ends behind its beginning. *)
LEMMA NextBehind ==
  ASSUME NEW b \in Seq(Byte), NEW pos \in 1..Len(b) + 1, ~(pos > Len(b)), ~(pos + 3 > Len(b)),
         I32(b, pos) # 0, ~(NextAt(b, pos) - 1 > Len(b))
  PROVE  NextAt(b, pos) \in 1..Len(b) + 1 /\ NextAt(b, pos) > pos
<1>1. Len(b) \in Nat
  BY LenProperties
<1>2. pos \in Nat /\ pos >= 1 /\ pos + 3 <= Len(b)
  BY <1>1, SMT
<1> DEFINE x == I32(b, pos)
           y == NextAt(b, pos)
<1>3. x \in Int
  BY <1>2, I32Type
<1>4. y = pos + 4 + (IF x < 0 THEN -x ELSE x) /\ x # 0 /\ ~(y - 1 > Len(b))
  BY Zenon DEF NextAt
<1> HIDE DEF x, y
<1>5. y \in 1..Len(b) + 1 /\ y > pos
  BY <1>1, <1>2, <1>3, <1>4, SMT
<1> QED
  BY <1>5, Zenon DEF y

(* The body looks only at what is behind its record. *)
LEMMA RestLocal ==
  ASSUME NEW b \in Seq(Byte), NEW f, NEW h, NEW pos \in 1..Len(b) + 1,
         \A q \in 1..Len(b) + 1 : q > pos => f[q] = h[q]
  PROVE  RestAt(b, f, pos) = RestAt(b, h, pos)
<1>1. CASE pos > Len(b) \/ pos + 3 > Len(b) \/ I32(b, pos) = 0 \/ NextAt(b, pos) - 1 > Len(b)
  BY <1>1, Zenon DEF RestAt
<1>2. CASE ~(pos > Len(b) \/ pos + 3 > Len(b) \/ I32(b, pos) = 0 \/ NextAt(b, pos) - 1 > Len(b))
  <2>1. f[NextAt(b, pos)] = h[NextAt(b, pos)]
    BY <1>2, NextBehind, Zenon
  <2> QED
    BY <2>1, Zenon DEF RestAt
<1> QED
  BY <1>1, <1>2

(* So the recursion from the end of the file has a solution. *)
LEMMA RestExists ==
  ASSUME NEW b \in Seq(Byte)
  PROVE  \E f : Rest(b, f)
<1> DEFINE N == Len(b) + 1
           Upto(k) == \E f : /\ f = [pos \in 1..N |-> f[pos]]
                             /\ \A pos \in 1..N : pos > N - k => f[pos] = RestAt(b, f, pos)
           T == {k \in 0..N : Upto(k)}
<1>1. N \in Nat
  BY LenProperties
<1>2. 0 \in T
  <2> DEFINE c == [pos \in 1..N |-> 0]
  <2>1. c = [pos \in 1..N |-> c[pos]] /\ \A pos \in 1..N : pos > N - 0 => c[pos] = RestAt(b, c, pos)
    BY <1>1
  <2> HIDE DEF c
  <2> QED
    BY <1>1, <2>1
<1>3. \A k \in 0..N : k < N /\ k \in T => k + 1 \in T
  <2> SUFFICES ASSUME NEW k \in 0..N, k < N, k \in T PROVE k + 1 \in T
    OBVIOUS
  <2>1. PICK f : /\ f = [pos \in 1..N |-> f[pos]]
                 /\ \A pos \in 1..N : pos > N - k => f[pos] = RestAt(b, f, pos)
    OBVIOUS
  <2> DEFINE p == N - k
             h == [pos \in 1..N |-> IF pos = p THEN RestAt(b, f, p) ELSE f[pos]]
  <2>2. h = [pos \in 1..N |-> h[pos]]
    BY Zenon
  <2>3. \A pos \in 1..N : pos >= p => RestAt(b, f, pos) = RestAt(b, h, pos)
    <3> SUFFICES ASSUME NEW pos \in 1..N, pos >= p PROVE RestAt(b, f, pos) = RestAt(b, h, pos)
      OBVIOUS
    <3>1. \A q \in 1..N : q > pos => q # p
      BY <1>1
    <3>2. \A q \in 1..N : q > pos => f[q] = h[q]
      BY <3>1, Zenon
    <3> HIDE DEF h
    <3> QED
      BY <3>2, RestLocal, Zenon
  <2>4. \A pos \in 1..N : pos > N - (k + 1) => pos >= p /\ (pos = p \/ pos > N - k)
    BY <1>1
  <2>5. \A pos \in 1..N : pos > N - (k + 1) => h[pos] = RestAt(b, f, pos)
    BY <2>1, <2>4, Zenon
  <2>6. \A pos \in 1..N : pos > N - (k + 1) => h[pos] = RestAt(b, h, pos)
    <3> HIDE DEF h
    <3> QED
      BY <2>3, <2>4, <2>5, Zenon
  <2>7. k + 1 \in 0..N
    BY <1>1
  <2> HIDE DEF h
  <2> QED
    BY <2>2, <2>6, <2>7, Zenon
<1>4. N \in T
  <2> HIDE DEF T, N
  <2>1. \A k \in 0..N : k \in T
    BY <1>1, <1>2, <1>3, Upwards
  <2>2. N \in 0..N
    BY <1>1
  <2> QED
    BY <2>1, <2>2, Zenon
<1>5. PICK f : /\ f = [pos \in 1..N |-> f[pos]]
               /\ \A pos \in 1..N : pos > N - N => f[pos] = RestAt(b, f, pos)
  BY <1>4, Zenon
<1>6. \A pos \in 1..N : pos > N - N
  BY <1>1
<1> QED
  BY <1>5, <1>6, Zenon DEF Rest

(* parseRecords is such a solution from position 3. *)
LEMMA RecordsAre ==
  ASSUME NEW b \in Seq(Byte)
  PROVE  \E f : Rest(b, f) /\ parseRecords(b) = f[3]
<1>1. parseRecords(b) = (CHOOSE f : Rest(b, f))[3]
  BY Zenon DEF parseRecords, Rest, RestAt, NextAt
<1> QED
  BY <1>1, RestExists, Zenon

(* The length in front of record r, which ends before next. *)
HeadAt(b, pos, r, next) ==
    /\ I32(b, pos) # MinInt32 /\ I32(b, pos) # 0
    /\ I32(b, pos) < 0 <=> ~r.live
    /\ NextAt(b, pos) = next

(* It is read from a copy that has it. *)
LEMMA HeadRead ==
  ASSUME NEW rs \in Seq(Writable), NEW F, Stores(F, rs), NEW i \in 1..Len(rs),
         NEW b \in Seq(Byte), Starts(F[Len(rs)], b),
         NEW pos, pos = Len(F[i - 1]) + 1, ~(pos + 3 > Len(b))
  PROVE  HeadAt(b, pos, rs[i], Len(F[i]) + 1)
<1> DEFINE n == Len(Body(rs[i]))
           p == Len(F[i - 1])
           q == Len(F[i])
           m == Len(rs)
           x == I32(b, pos)
<1>1. m \in Nat /\ i - 1 \in 0..m /\ i \in 0..m /\ m \in 0..m /\ Len(b) \in Nat
  BY LenProperties
<1>2. rs[i] \in Writable /\ Added(F, rs, i, n)
  BY RecordAdded, Zenon
<1>3. /\ F[i] \in Seq(Byte) /\ F[m] \in Seq(Byte) /\ p \in Nat /\ Starts(F[m], F[i])
  BY <1>1, Grown, Zenon
<1> HIDE DEF n
<1>4. n \in Nat /\ n > 0 /\ q = p + (4 + n)
  BY <1>2, Zenon DEF Added
<1>5. I32(F[i], pos) # MinInt32 /\ I32(F[i], pos) = IF rs[i].live THEN n ELSE -n
  BY <1>2, Zenon DEF Added
<1>6. rs[i].live \in BOOLEAN
  BY <1>2, Fields, Zenon
<1>7. pos = p + 1 /\ ~(pos + 3 > Len(b))
  BY Zenon
<1> HIDE DEF p, q, m
<1>8. pos \in Int /\ pos >= 1 /\ pos + 3 <= Len(b) /\ pos + 3 <= q
  BY <1>1, <1>3, <1>4, <1>7, SMT
<1>9. I32(F[m], pos) = x
  BY <1>3, <1>8, ReadStart, Zenon DEF m
<1>10. I32(F[m], pos) = I32(F[i], pos)
  BY <1>3, <1>8, ReadStart, Zenon DEF q
<1>11. x # MinInt32 /\ (rs[i].live => x = n) /\ (~rs[i].live => x = -n)
  BY <1>5, <1>9, <1>10, Zenon
<1> HIDE DEF x
<1>12. p \in Nat /\ n \in Nat /\ n > 0 /\ q = p + (4 + n) /\ pos = p + 1
  BY <1>3, <1>4, <1>7, Zenon
<1>13. n # 0 /\ ~(n < 0) /\ -n < 0 /\ -n # 0 /\ pos + 4 + n = q + 1 /\ -(-n) = n
  BY <1>12, SMT
<1>14. CASE rs[i].live
  <2>1. x = n
    BY <1>11, <1>14, Zenon
  <2>2. x # 0 /\ ~(x < 0) /\ pos + 4 + x = q + 1
    BY <1>13, <2>1, Zenon
  <2> QED
    BY <1>11, <1>14, <2>2, Zenon DEF HeadAt, NextAt, x, q
<1>15. CASE ~rs[i].live
  <2>1. x = -n
    BY <1>11, <1>15, Zenon
  <2>2. x # 0 /\ x < 0 /\ pos + 4 + (-x) = q + 1
    BY <1>13, <2>1, Zenon
  <2> QED
    BY <1>11, <1>15, <2>2, Zenon DEF HeadAt, NextAt, x, q
<1> QED
  BY <1>14, <1>15, Zenon

(* The bytes behind the length, from a copy that has all of the record. *)
LEMMA BodyRead ==
  ASSUME NEW rs \in Seq(Writable), NEW F, Stores(F, rs), NEW i \in 1..Len(rs),
         NEW b \in Seq(Byte), Starts(F[Len(rs)], b),
         NEW pos, pos = Len(F[i - 1]) + 1, Len(F[i]) <= Len(b)
  PROVE  SubSeq(b, pos + 4, (Len(F[i]) + 1) - 1) = Body(rs[i])
<1> DEFINE n == Len(Body(rs[i]))
           p == Len(F[i - 1])
           q == Len(F[i])
           m == Len(rs)
           lo == pos + 4
           hi == (q + 1) - 1
           s == SubSeq(b, lo, hi)
<1>1. m \in Nat /\ i - 1 \in 0..m /\ i \in 0..m /\ m \in 0..m /\ Len(b) \in Nat
  BY LenProperties
<1>2. rs[i] \in Writable /\ Added(F, rs, i, n)
  BY RecordAdded, Zenon
<1>3. F[i] \in Seq(Byte) /\ F[m] \in Seq(Byte) /\ p \in Nat /\ Starts(F[m], F[i])
  BY <1>1, Grown, Zenon
<1>4. n \in Nat /\ n > 0 /\ q = p + (4 + n) /\ Body(rs[i]) \in Seq(Byte)
  BY <1>2, Zenon DEF Added
<1>5. \A k \in 1..n : F[i][p + (4 + k)] = Body(rs[i])[k]
  BY <1>2, Zenon DEF Added
<1>6. pos = p + 1 /\ q <= Len(b)
  BY Zenon
<1> HIDE DEF n, p, q, m
<1> DEFINE l == Len(b)
<1>7. /\ lo \in Int /\ hi \in Int /\ lo <= hi /\ hi - lo + 1 = n
      /\ \A k \in lo..hi : k \in 1..Len(b)
      /\ \A k \in 1..n : lo + k - 1 = p + (4 + k) /\ p + (4 + k) \in 1..Len(b) /\ p + (4 + k) \in 1..q
  <2>1. p \in Nat /\ n \in Nat /\ n > 0 /\ q = p + (4 + n) /\ pos = p + 1 /\ l \in Nat /\ q <= l
    BY <1>1, <1>3, <1>4, <1>6, Zenon
  <2> HIDE DEF l
  <2>2. lo \in Int /\ hi \in Int /\ lo <= hi /\ hi - lo + 1 = n /\ lo >= 1 /\ hi <= l
    BY <2>1, SMT
  <2>3. \A k \in lo..hi : k \in 1..l
    BY <2>1, <2>2, SMT
  <2>4. \A k \in 1..n : lo + k - 1 = p + (4 + k) /\ p + (4 + k) \in 1..l /\ p + (4 + k) \in 1..q
    BY <2>1, SMT
  <2> QED
    BY <2>2, <2>3, <2>4, Zenon DEF l
<1> HIDE DEF lo, hi
<1>8. \A k \in lo..hi : b[k] \in Byte
  BY <1>7, ElementOfSeq, Zenon
<1>9. /\ s \in Seq(Byte) /\ Len(s) = (IF lo <= hi THEN hi - lo + 1 ELSE 0)
       /\ \A k \in 1..(hi - lo + 1) : s[k] = b[lo + k - 1]
  <2>1. lo \in Int /\ hi \in Int
    BY <1>7, Zenon
  <2> QED
    BY <1>8, <2>1, SubSeqProperties
<1> HIDE DEF s
<1>10. Len(s) = n /\ \A k \in 1..n : s[k] = b[p + (4 + k)]
  BY <1>7, <1>9, Zenon
<1>11. \A k \in 1..n : b[p + (4 + k)] = F[m][p + (4 + k)]
  BY <1>7, Zenon DEF Starts, m
<1>12. \A k \in 1..n : F[m][p + (4 + k)] = F[i][p + (4 + k)]
  BY <1>3, <1>7, Zenon DEF Starts, q
<1>13. \A k \in 1..n : s[k] = Body(rs[i])[k]
  BY <1>5, <1>10, <1>11, <1>12, Zenon
<1>14. s = Body(rs[i])
  BY <1>4, <1>9, <1>10, <1>13, SeqEqual, Zenon DEF n
<1> QED
  BY <1>14, Zenon DEF s, lo, hi, q

(* What the loop has read behind the first i of the j records that the     *)
(* copy b has whole: the entries that are missing when the copy ends there *)
(* and an error when it has a part of another record.                      *)
ReadBack(F, G, b, f, j, i) ==
    LET k == f[Len(F[i]) + 1]
    IN  IF Len(F[j]) = Len(b)
        THEN k.err = "none" /\ k.entries \in Seq(Entry) /\ G[i] \o k.entries = G[j]
        ELSE k.err # "none"

(* The value of the loop at a position of the file. *)
LEMMA RestValue ==
  ASSUME NEW b, NEW f, Rest(b, f), NEW pos \in 1..Len(b) + 1
  PROVE  f[pos] = RestAt(b, f, pos)
BY Zenon DEF Rest

(* At the end of what was copied. *)
LEMMA ReadLast ==
  ASSUME NEW rs \in Seq(Writable), NEW F, Stores(F, rs), NEW G, Says(G, rs),
         NEW b \in Seq(Byte), Starts(F[Len(rs)], b), NEW f, Rest(b, f),
         NEW j \in 0..Len(rs), Len(F[j]) <= Len(b), j = Len(rs) \/ Len(F[j + 1]) > Len(b)
  PROVE  ReadBack(F, G, b, f, j, j)
<1> DEFINE pos == Len(F[j]) + 1
           l == Len(b)
           p == Len(F[j])
           m == Len(rs)
<1>1. l \in Nat /\ m \in Nat /\ m \in 0..m
  BY LenProperties
<1>2. p \in Nat /\ F[m] \in Seq(Byte)
  BY <1>1, Grown, Zenon
<1>3. p <= l
  BY Zenon
<1> HIDE DEF l, p
<1>4. pos \in 1..l + 1
  <2>1. pos = p + 1
    BY DEF p
  <2> HIDE DEF pos
  <2> QED
    BY <1>1, <1>2, <1>3, <2>1, SMT
<1>5. f[pos] = RestAt(b, f, pos)
  BY <1>4, RestValue, Zenon DEF l
<1>6. G[j] \in Seq(Entry) /\ <<>> \in Seq(Entry)
  <2>1. G[j] \in Seq(Entry)
    BY Zenon DEF Says
  <2> QED
    BY <2>1
<1>7. CASE p = l
  <2>1. pos > Len(b)
    <3>1. p + 1 > l
      BY <1>1, <1>7, SMT
    <3> QED
      BY <3>1 DEF l, p
  <2>2. f[pos] = [err |-> "none", entries |-> <<>>]
    BY <1>5, <2>1, Zenon DEF RestAt
  <2>3. f[pos].err = "none" /\ f[pos].entries = <<>>
    <3> HIDE DEF pos
    <3> QED
      BY <2>2
  <2>4. G[j] \o <<>> = G[j]
    BY <1>6, ConcatEmptySeq, Zenon
  <2> QED
    BY <1>6, <1>7, <2>3, <2>4, Zenon DEF ReadBack, l, p
<1>8. CASE p # l
  <2>1. j # m
    <3>1. Len(F[m]) >= l
      <4>1. Len(F[m]) \in Nat /\ l <= Len(F[m])
        BY <1>1, Grown, Zenon DEF Starts, l
      <4> QED
        BY <1>1, <4>1, SMT
    <3> SUFFICES ASSUME j = m PROVE FALSE
      OBVIOUS
    <3>2. p >= l
      BY <3>1 DEF p
    <3> QED
      BY <1>1, <1>2, <1>3, <1>8, <3>2, SMT
  <2>2. j + 1 \in 1..m /\ (j + 1) - 1 = j
    BY <1>1, <2>1
  <2> DEFINE q == Len(F[j + 1])
  <2>3. q > l /\ q \in Nat
    <3>1. j + 1 \in 0..m
      BY <1>1, <2>2
    <3> QED
      BY <2>1, <3>1, Grown, Zenon DEF l
  <2>4. ~(pos > Len(b))
    <3>1. ~(p + 1 > l)
      BY <1>1, <1>2, <1>3, <1>8, SMT
    <3> QED
      BY <3>1 DEF l, p
  <2>5. CASE pos + 3 > Len(b)
    <3>1. f[pos] = Failed("truncated")
      BY <1>5, <2>4, <2>5, Zenon DEF RestAt
    <3>2. f[pos].err # "none"
      BY <3>1 DEF Failed
    <3> QED
      BY <1>8, <3>2, Zenon DEF ReadBack, l, p
  <2>6. CASE ~(pos + 3 > Len(b))
    <3>1. pos = Len(F[(j + 1) - 1]) + 1
      BY <2>2, Zenon
    <3>2. I32(b, pos) # MinInt32 /\ I32(b, pos) # 0 /\ NextAt(b, pos) = q + 1
      <4> HIDE DEF pos
      <4> QED
        BY <2>2, <2>6, <3>1, HeadRead, Zenon DEF HeadAt
    <3>3. (q + 1) - 1 > Len(b)
      <4> HIDE DEF q
      <4>1. (q + 1) - 1 > l
        BY <1>1, <2>3, SMT
      <4> QED
        BY <4>1, Zenon DEF l
    <3>4. NextAt(b, pos) - 1 > Len(b)
      BY <3>2, <3>3, Zenon
    <3>5. f[pos] = Failed("truncated")
      <4> HIDE DEF pos
      <4> QED
        BY <1>5, <2>4, <2>6, <3>2, <3>4, Zenon DEF RestAt
    <3>6. f[pos].err # "none"
      BY <3>5 DEF Failed
    <3> QED
      BY <1>8, <3>6, Zenon DEF ReadBack, l, p
  <2> QED
    BY <2>5, <2>6
<1> QED
  BY <1>7, <1>8

(* One record before that. *)
LEMMA ReadStep ==
  ASSUME NEW rs \in Seq(Writable), NEW F, Stores(F, rs), NEW G, Says(G, rs),
         NEW b \in Seq(Byte), Starts(F[Len(rs)], b), NEW f, Rest(b, f),
         NEW j \in 0..Len(rs), Len(F[j]) <= Len(b),
         NEW i \in 1..j, ReadBack(F, G, b, f, j, i)
  PROVE  ReadBack(F, G, b, f, j, i - 1)
<1> DEFINE pos == Len(F[i - 1]) + 1
           next == Len(F[i]) + 1
           r == rs[i]
           e == EntryOf(r)
           m == Len(rs)
           l == Len(b)
           p == Len(F[i - 1])
           q == Len(F[i])
<1>1. l \in Nat /\ m \in Nat /\ i - 1 \in 0..m /\ i \in 0..m /\ i \in 1..m
  BY LenProperties
<1>2. p \in Nat /\ q \in Nat /\ q <= l
  <2>1. p \in Nat /\ q \in Nat /\ Len(F[j]) \in Nat
    BY <1>1, Grown, Zenon
  <2>2. i = j \/ i < j
    OBVIOUS
  <2>3. q = Len(F[j]) \/ q < Len(F[j])
    BY <1>1, <2>2, Grown, Zenon
  <2> DEFINE z == Len(F[j])
  <2>4. z \in Nat /\ q \in Nat /\ (q = z \/ q < z) /\ z <= l
    BY <2>1, <2>3, Zenon
  <2> HIDE DEF z, q, l
  <2>5. q <= l
    BY <1>1, <2>4, SMT
  <2> QED
    BY <2>1, <2>5, Zenon
<1>3. r \in Writable /\ Added(F, rs, i, Len(Body(r)))
  BY <1>1, RecordAdded, Zenon
<1>4. \E n \in Nat : q = p + (4 + n)
  BY <1>3, Zenon DEF Added
<1> HIDE DEF l, p, q
<1>5. p + 1 \in 1..l + 1 /\ ~(p + 1 > l) /\ ~((p + 1) + 3 > l) /\ ~((q + 1) - 1 > l)
  BY <1>1, <1>2, <1>4, SMT
<1>6. pos \in 1..Len(b) + 1 /\ ~(pos > Len(b)) /\ ~(pos + 3 > Len(b)) /\ ~(next - 1 > Len(b))
  BY <1>5, Zenon DEF p, q, l
<1>7. f[pos] = RestAt(b, f, pos)
  BY <1>6, RestValue, Zenon
<1>8. /\ I32(b, pos) # MinInt32 /\ I32(b, pos) # 0
      /\ I32(b, pos) < 0 <=> ~r.live
      /\ NextAt(b, pos) = next
  <2>1. pos = Len(F[i - 1]) + 1
    OBVIOUS
  <2>2. ~(pos + 3 > Len(b))
    BY <1>6, Zenon
  <2> HIDE DEF pos
  <2>3. HeadAt(b, pos, r, next)
    BY <1>1, <2>1, <2>2, HeadRead, Zenon
  <2> QED
    BY <2>3, Zenon DEF HeadAt
<1>9. SubSeq(b, pos + 4, next - 1) = Body(r)
  <2>1. Len(F[i]) <= Len(b)
    BY <1>2, Zenon DEF q, l
  <2>2. pos = Len(F[i - 1]) + 1
    OBVIOUS
  <2> HIDE DEF pos
  <2> QED
    BY <1>1, <2>1, <2>2, BodyRead, Zenon
<1>10. parseEntry(SubSeq(b, pos + 4, next - 1)) = e
  BY <1>3, <1>9, EntryRead, Zenon DEF EntryOf
<1>11. e \in Entry
  BY <1>3, EntryType, Zenon
<1>12. e # BadEntry
  <2>1. Word(r.kvno)
    BY <1>3, Fields, Zenon
  <2>2. r.kvno # Truncated
    BY <2>1, SMT DEF Word, Truncated
  <2>3. e.kvno = r.kvno /\ BadEntry.kvno = Truncated
    BY DEF EntryOf, BadEntry
  <2> QED
    BY <2>2, <2>3, Zenon
<1>13. G[i - 1] \in Seq(Entry) /\ G[i] = IF ~r.live THEN G[i - 1] ELSE Append(G[i - 1], e)
  BY <1>1, Zenon DEF Says
<1>14. r.live \in BOOLEAN
  BY <1>3, Fields, Zenon
<1> DEFINE k == f[next]
           k0 == f[pos]
<1>15. IF Len(F[j]) = Len(b)
       THEN k.err = "none" /\ k.entries \in Seq(Entry) /\ G[i] \o k.entries = G[j]
       ELSE k.err # "none"
  BY Zenon DEF ReadBack
<1> HIDE DEF pos, next, e
<1>16. CASE ~r.live
  <2>1. k0 = k
    BY <1>6, <1>7, <1>8, <1>16, Zenon DEF RestAt
  <2>2. G[i] = G[i - 1]
    BY <1>13, <1>16, Zenon
  <2> QED
    BY <1>15, <2>1, <2>2, Zenon DEF ReadBack, pos
<1>17. CASE r.live
  <2>1. G[i] = Append(G[i - 1], e)
    BY <1>13, <1>17, Zenon
  <2>2. CASE k.err # "none"
    <3>1. k0 = k
      BY <1>6, <1>7, <1>8, <1>10, <1>12, <1>17, <2>2, Zenon DEF RestAt
    <3> QED
      BY <1>15, <2>2, <3>1, Zenon DEF ReadBack, pos
  <2>3. CASE k.err = "none"
    <3>1. k0 = [err |-> "none", entries |-> <<e>> \o k.entries]
      BY <1>6, <1>7, <1>8, <1>10, <1>12, <1>17, <2>3, Zenon DEF RestAt
    <3>2. Len(F[j]) = Len(b) /\ k.entries \in Seq(Entry) /\ G[i] \o k.entries = G[j]
      BY <1>15, <2>3, Zenon
    <3>3. k0.err = "none" /\ k0.entries = <<e>> \o k.entries
      <4> HIDE DEF k, k0
      <4> QED
        BY <3>1
    <3>4. <<e>> \in Seq(Entry)
      BY <1>11
    <3>5. <<e>> \o k.entries \in Seq(Entry)
      BY <3>2, <3>4, ConcatProperties, Zenon
    <3>6. G[i - 1] \o (<<e>> \o k.entries) = (G[i - 1] \o <<e>>) \o k.entries
      <4> DEFINE x == G[i - 1]
                 y == <<e>>
                 z == k.entries
      <4>1. x \in Seq(Entry) /\ y \in Seq(Entry) /\ z \in Seq(Entry)
        BY <1>13, <3>2, <3>4, Zenon
      <4> HIDE DEF x, y, z
      <4>2. (x \o y) \o z = x \o (y \o z)
        BY <4>1, ConcatAssociative
      <4> QED
        BY <4>2, Zenon DEF x, y, z
    <3>7. Append(G[i - 1], e) = G[i - 1] \o <<e>>
      BY <1>11, <1>13, AppendIsConcat, Zenon
    <3>8. G[i - 1] \o k0.entries = G[j]
      BY <2>1, <3>2, <3>3, <3>6, <3>7, Zenon
    <3> QED
      BY <3>2, <3>3, <3>5, <3>8, Zenon DEF ReadBack, pos
  <2> QED
    BY <2>2, <2>3
<1> QED
  BY <1>14, <1>16, <1>17

(* The first j records are read, if the copy b ends behind them; if it     *)
(* ends behind none, it is refused.                                        *)
ReadsFirst(F, G, rs, b, j) ==
    /\ Len(F[j]) = Len(b) \/ \A n \in 0..Len(rs) : Len(F[n]) # Len(b)
    /\ IF Len(F[j]) = Len(b)
       THEN parseRecords(b).err = "none" /\ parseRecords(b).entries = G[j]
       ELSE parseRecords(b).err # "none"

(* A copy of a file, cut anywhere behind its version. *)
LEMMA CopyRead ==
  ASSUME NEW rs \in Seq(Writable), NEW F, Stores(F, rs), NEW G, Says(G, rs),
         NEW b \in Seq(Byte), Starts(F[Len(rs)], b), Len(b) >= 2
  PROVE  \E j \in 0..Len(rs) : ReadsFirst(F, G, rs, b, j)
<1> DEFINE m == Len(rs)
           l == Len(b)
<1>1. m \in Nat /\ l \in Nat /\ 0 \in 0..m /\ m \in 0..m
  BY LenProperties
<1>2. PICK j \in 0..m : Len(F[j]) <= l /\ (j = m \/ Len(F[j + 1]) > l)
  <2> SUFFICES ASSUME \A j \in 0..m : ~(Len(F[j]) <= l /\ (j = m \/ Len(F[j + 1]) > l))
               PROVE  FALSE
    BY Zenon
  <2> DEFINE T == {i \in 0..m : Len(F[i]) <= l}
  <2>1. 0 \in T
    <3>1. Len(F[0]) = 2
      BY DEF Stores
    <3> QED
      BY <1>1, <3>1
  <2>2. \A i \in 0..m : i < m /\ i \in T => i + 1 \in T
    <3> SUFFICES ASSUME NEW i \in 0..m, i < m, i \in T PROVE i + 1 \in T
      OBVIOUS
    <3>1. i + 1 \in 0..m /\ i # m
      BY <1>1
    <3>2. Len(F[i + 1]) \in Nat
      BY <3>1, Grown, Zenon
    <3>3. ~(Len(F[i + 1]) > l)
      BY <3>1, Zenon
    <3> DEFINE z == Len(F[i + 1])
    <3>4. z \in Nat /\ ~(z > l)
      BY <3>2, <3>3, Zenon
    <3> HIDE DEF z, l
    <3>5. z <= l
      BY <1>1, <3>4, SMT
    <3> QED
      BY <3>1, <3>5, Zenon DEF z
  <2> HIDE DEF T
  <2>3. \A i \in 0..m : i \in T
    BY <1>1, <2>1, <2>2, Upwards
  <2> QED
    BY <1>1, <2>3, Zenon DEF T
<1>3. PICK f : Rest(b, f) /\ parseRecords(b) = f[3]
  BY RecordsAre, Zenon
<1>4. ReadBack(F, G, b, f, j, 0)
  <2> DEFINE T == {i \in 0..j : ReadBack(F, G, b, f, j, i)}
  <2>1. j \in Nat /\ 0 \in 0..j /\ j \in 0..j
    BY <1>1
  <2>2. j \in T
    <3>1. ReadBack(F, G, b, f, j, j)
      BY <1>2, <1>3, ReadLast, Zenon
    <3> QED
      BY <2>1, <3>1, Zenon
  <2>3. \A i \in 0..j : i < j /\ i + 1 \in T => i \in T
    <3> SUFFICES ASSUME NEW i \in 0..j, i < j, i + 1 \in T PROVE ReadBack(F, G, b, f, j, i)
      OBVIOUS
    <3>1. i + 1 \in 1..j /\ (i + 1) - 1 = i
      BY <2>1
    <3>2. ReadBack(F, G, b, f, j, i + 1)
      BY Zenon
    <3>3. ReadBack(F, G, b, f, j, (i + 1) - 1)
      BY <1>2, <1>3, <3>1, <3>2, ReadStep, Zenon
    <3> QED
      BY <3>1, <3>3, Zenon
  <2> HIDE DEF T
  <2>4. \A i \in 0..j : i \in T
    BY <2>1, <2>2, <2>3, Downwards
  <2> QED
    BY <2>1, <2>4, Zenon DEF T
<1>5. Len(F[0]) + 1 = 3 /\ G[0] = <<>>
  <2>1. Len(F[0]) = 2
    BY DEF Stores
  <2>2. G[0] = <<>>
    BY Zenon DEF Says
  <2> QED
    BY <2>1, <2>2
<1> DEFINE k == parseRecords(b)
<1>6. IF Len(F[j]) = Len(b)
      THEN k.err = "none" /\ k.entries \in Seq(Entry) /\ <<>> \o k.entries = G[j]
      ELSE k.err # "none"
  BY <1>3, <1>4, <1>5, Zenon DEF ReadBack
<1> HIDE DEF k
<1>7. k.entries \in Seq(Entry) => <<>> \o k.entries = k.entries
  BY ConcatEmptySeq, Zenon
<1>8. ASSUME Len(F[j]) # l, NEW n \in 0..m PROVE Len(F[n]) # l
  <2> DEFINE x == Len(F[j])
             y == Len(F[n])
             z == Len(F[j + 1])
  <2>1. x \in Nat /\ y \in Nat /\ x <= l /\ x # l
    BY <1>2, <1>8, Grown, Zenon
  <2>2. CASE n <= j
    <3>1. n = j \/ n < j
      BY <2>2, <1>1
    <3>2. y = x \/ y < x
      BY <3>1, Grown, Zenon
    <3> HIDE DEF x, y, l
    <3>3. y # l
      BY <1>1, <2>1, <3>2, SMT
    <3> QED
      BY <3>3, Zenon DEF y
  <2>3. CASE j < n
    <3>1. j # m /\ j + 1 \in 0..m /\ (n = j + 1 \/ j + 1 < n)
      BY <2>3, <1>1
    <3>2. z > l /\ z \in Nat /\ (y = z \/ z < y)
      <4>1. z > l
        BY <1>2, <3>1, Zenon
      <4>2. z \in Nat
        BY <3>1, Grown, Zenon
      <4>3. y = z \/ z < y
        BY <3>1, Grown, Zenon
      <4> QED
        BY <4>1, <4>2, <4>3, Zenon
    <3> HIDE DEF x, y, z, l
    <3>3. y # l
      BY <1>1, <2>1, <3>2, SMT
    <3> QED
      BY <3>3, Zenon DEF y
  <2> QED
    BY <2>2, <2>3, <1>1
<1> QED
  BY <1>6, <1>7, <1>8, Zenon DEF k, ReadsFirst

(* Parse: a file written from any list of records parses to exactly its    *)
(* live ones, and a copy of it that is cut short is refused unless it ends *)
(* behind a record.                                                        *)
THEOREM ParserExact == \A rs \in Seq(Writable) : Exact(rs)
<1> SUFFICES ASSUME NEW rs \in Seq(Writable), NEW cut \in 0..Len(Bytes(rs))
             PROVE  LET k == Parse(SubSeq(Bytes(rs), 1, cut))
                        whole == {n \in 0..Len(rs) : Len(Bytes(SubSeq(rs, 1, n))) = cut}
                    IN  IF whole = {} THEN k.err # "none"
                        ELSE k.err = "none" /\ \A n \in whole : k.entries = Said(rs, n)
  BY Zenon DEF Exact
<1> DEFINE m == Len(rs)
           b == SubSeq(Bytes(rs), 1, cut)
           k == Parse(b)
           whole == {n \in 0..m : Len(Bytes(SubSeq(rs, 1, n))) = cut}
<1>1. PICK F : Stores(F, rs)
  BY StoresExists, Zenon
<1>2. PICK G : Says(G, rs)
  BY SaysExists, Zenon
<1>3. m \in Nat /\ 0 \in 0..m /\ m \in 0..m
  BY LenProperties
<1>4. Bytes(rs) = F[m]
  <2>1. SubSeq(rs, 1, m) = rs
    BY SubSeqFull
  <2>2. Bytes(SubSeq(rs, 1, m)) = F[m]
    BY <1>1, <1>3, BytesAre, Zenon
  <2> QED
    BY <2>1, <2>2, Zenon
<1>5. F[m] \in Seq(Byte) /\ Len(F[m]) \in Nat /\ cut \in 0..Len(F[m])
  BY <1>1, <1>3, <1>4, Grown, Zenon
<1>6. cut \in Nat /\ cut <= Len(F[m])
  BY <1>5
<1>7. b \in Seq(Byte) /\ Len(b) = cut /\ Starts(F[m], b)
  <2> DEFINE s == F[m]
  <2>1. \A i \in 1..cut : s[i] \in Byte
    <3>1. \A i \in 1..cut : i \in 1..Len(s)
      BY <1>5, <1>6
    <3> QED
      BY <1>5, <3>1, ElementOfSeq, Zenon
  <2>2. 1 \in Int /\ cut \in Int /\ s \in Seq(Byte) /\ b = SubSeq(s, 1, cut)
    BY <1>4, <1>5, <1>6
  <2> HIDE DEF s, b
  <2>3. /\ SubSeq(s, 1, cut) \in Seq(Byte)
        /\ Len(SubSeq(s, 1, cut)) = (IF 1 <= cut THEN cut - 1 + 1 ELSE 0)
        /\ \A i \in 1..(cut - 1 + 1) : SubSeq(s, 1, cut)[i] = s[1 + i - 1]
    BY <2>1, <2>2, SubSeqProperties
  <2>4. (IF 1 <= cut THEN cut - 1 + 1 ELSE 0) = cut /\ cut - 1 + 1 = cut
    BY <1>6
  <2>5. \A i \in 1..cut : 1 + i - 1 = i
    BY <1>6
  <2>6. b \in Seq(Byte) /\ Len(b) = cut /\ \A i \in 1..cut : b[i] = s[i]
    BY <2>2, <2>3, <2>4, <2>5, Zenon
  <2>7. cut <= Len(s)
    BY <1>6 DEF s
  <2> QED
    BY <2>6, <2>7, Zenon DEF Starts, s
<1>8. whole = {n \in 0..m : Len(F[n]) = cut}
  BY <1>1, BytesAre, Zenon
<1>9. \A n \in 0..m : Said(rs, n) = G[n]
  BY <1>2, SaidAre, Zenon
<1>10. \A n, o \in 0..m : Len(F[n]) = cut /\ Len(F[o]) = cut => n = o
  <2> SUFFICES ASSUME NEW n \in 0..m, NEW o \in 0..m, Len(F[n]) = cut, Len(F[o]) = cut, n # o
               PROVE  FALSE
    BY Zenon
  <2>1. n < o \/ o < n
    BY <1>3
  <2>2. cut < cut
    BY <1>1, <2>1, Grown, Zenon
  <2> QED
    BY <1>6, <2>2
<1> HIDE DEF b, whole
<1>11. CASE cut < 2
  <2>1. whole = {}
    <3>1. \A n \in 0..m : Len(F[n]) \in Nat /\ Len(F[n]) >= 2
      BY <1>1, Grown, Zenon
    <3> QED
      BY <1>6, <1>8, <1>11, <3>1
  <2>2. k = Failed("empty") \/ k = Failed("truncated")
    BY <1>7, <1>11, Zenon DEF Parse
  <2>3. k.err # "none"
    BY <2>2 DEF Failed
  <2> QED
    BY <2>1, <2>3, Zenon DEF b, whole
<1>12. CASE ~(cut < 2)
  <2>1. Len(b) >= 2 /\ ~(Len(b) < 2) /\ b # <<>>
    BY <1>6, <1>7, <1>12
  <2>2. U16(b, 1) = 1282
    <3>1. 1 \in Int /\ 1 >= 1 /\ 1 + 1 <= Len(b)
      BY <2>1, <1>6, <1>7
    <3>2. U16(F[m], 1) = U16(b, 1)
      BY <1>5, <1>7, <3>1, ReadStart, Zenon
    <3>3. Starts(F[m], F[0]) /\ F[0] \in Seq(Byte)
      BY <1>1, <1>3, Grown, Zenon
    <3>4. 1 + 1 <= Len(F[0]) /\ U16(F[0], 1) = 1282
      <4>1. F[0] = <<5, 2>>
        BY <1>1, Zenon DEF Stores
      <4> QED
        BY <4>1, SMT DEF U16
    <3>5. 1 + 1 <= Len(F[0])
      BY <3>4, SMT
    <3>6. U16(F[m], 1) = U16(F[0], 1)
      BY <1>5, <3>1, <3>3, <3>5, ReadStart, Zenon
    <3> QED
      BY <3>2, <3>4, <3>6, SMT
  <2>3. k = parseRecords(b)
    BY <2>1, <2>2, Zenon DEF Parse
  <2>4. PICK j \in 0..m : ReadsFirst(F, G, rs, b, j)
    BY <1>1, <1>2, <1>7, <2>1, CopyRead, Zenon
  <2>5. CASE Len(F[j]) = cut
    <3>1. j \in whole /\ \A n \in whole : n = j
      BY <1>8, <1>10, <2>5, Zenon
    <3>2. k.err = "none" /\ k.entries = G[j]
      BY <1>7, <2>3, <2>4, <2>5, Zenon DEF ReadsFirst
    <3>3. k.err = "none" /\ \A n \in whole : k.entries = Said(rs, n)
      BY <1>9, <3>1, <3>2, Zenon
    <3> QED
      BY <3>1, <3>3, Zenon DEF b, whole
  <2>6. CASE Len(F[j]) # cut
    <3>1. whole = {}
      BY <1>7, <1>8, <2>4, <2>6, Zenon DEF ReadsFirst
    <3>2. k.err # "none"
      BY <1>7, <2>3, <2>4, <2>6, Zenon DEF ReadsFirst
    <3> QED
      BY <3>1, <3>2, Zenon DEF b, whole
  <2> QED
    BY <2>5, <2>6, Zenon
<1> QED
  BY <1>11, <1>12, Zenon

-----------------------------------------------------------------------------
(* What is published of a file. *)

(* A bounded set of numbers has a largest one. *)
LEMMA Largest ==
  ASSUME NEW M \in Nat, NEW vs \in SUBSET (0..M), vs # {}
  PROVE  \E v \in vs : \A w \in vs : v >= w
<1> DEFINE T == {M - v : v \in vs}
<1>1. T \in SUBSET Nat /\ T # {}
  <2>1. \A v \in vs : M - v \in Nat
    OBVIOUS
  <2> QED
    BY <2>1, Zenon
<1>2. PICK x \in T : \A y \in T : x <= y
  <2> HIDE DEF T
  <2> QED
    BY <1>1, Least
<1>3. PICK v \in vs : x = M - v
  BY <1>2
<1>4. \A w \in vs : M - v <= M - w
  BY <1>2, <1>3
<1>5. \A w \in vs : v >= w
  BY <1>4
<1> QED
  BY <1>5

(* MaxKvno of what Parse accepts of a written file is a version. *)
LEMMA MaxKvnoType ==
  ASSUME NEW rs \in Seq(Writable), NEW cut \in 0..Len(Bytes(rs)),
         Parse(SubSeq(Bytes(rs), 1, cut)).err = "none"
  PROVE  MaxKvno(Parse(SubSeq(Bytes(rs), 1, cut))) \in Short
<1> DEFINE k == Parse(SubSeq(Bytes(rs), 1, cut))
           whole == {n \in 0..Len(rs) : Len(Bytes(SubSeq(rs, 1, n))) = cut}
           vs == {0} \cup {k.entries[i].kvno : i \in DOMAIN k.entries}
<1>1. IF whole = {} THEN k.err # "none"
      ELSE k.err = "none" /\ \A n \in whole : k.entries = Said(rs, n)
  BY ParserExact, Zenon DEF Exact
<1>2. PICK n \in whole : k.entries = Said(rs, n)
  BY <1>1, Zenon
<1>3. k.entries \in Seq(Entry)
  <2>1. PICK G : Says(G, rs)
    BY SaysExists, Zenon
  <2>2. n \in 0..Len(rs) /\ Said(rs, n) = G[n]
    BY <1>2, <2>1, SaidAre, Zenon
  <2> QED
    BY <1>2, <2>1, <2>2, Zenon DEF Says
<1> HIDE DEF k
<1>4. \A i \in DOMAIN k.entries : k.entries[i].kvno \in Short
  <2>1. \A i \in DOMAIN k.entries : k.entries[i] \in Entry
    BY <1>3, ElementOfSeq, LenProperties
  <2>2. \A e \in Entry : e.kvno \in Short
    BY Zenon DEF Entry
  <2> QED
    BY <2>1, <2>2, Zenon
<1>5. 0 \in Short
  BY SMT DEF Short
<1>6. vs \in SUBSET Short /\ vs # {}
  BY <1>4, <1>5, Zenon
<1>7. \E v \in vs : \A w \in vs : v >= w
  <2> DEFINE M == 65535
  <2>1. M \in Nat /\ Short = 0..M
    BY SMT DEF Short
  <2> HIDE DEF vs, M
  <2> QED
    BY <1>6, <2>1, Largest
<1>8. MaxKvno(k) = CHOOSE v \in vs : \A w \in vs : v >= w
  BY Zenon DEF MaxKvno
<1>9. MaxKvno(k) \in vs
  <2> HIDE DEF vs
  <2> QED
    BY <1>7, <1>8, Zenon
<1>10. MaxKvno(k) \in Short
  <2> HIDE DEF vs
  <2> QED
    BY <1>6, <1>9, Zenon
<1> QED
  BY <1>10, Zenon DEF k
=============================================================================
