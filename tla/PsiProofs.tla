------------------------------ MODULE PsiProofs ------------------------------
(***************************************************************************)
(* parser_psi_t, for every stream of sections and every way of cutting it    *)
(* into packets: it implements PsiSections, and holds no section back.        *)
(***************************************************************************)
EXTENDS PsiParser, LeastNumbers, SequenceTheorems

USE PsiAssumption

(* The end of what was handed on, and how much has arrived behind it. *)
End  == Promise!HandedEnd
Left == arrived - End

IsEnd(n) == \E h \in Heads : sections[h] = n

(* What section_data holds behind consumed_bytes. *)
Rest == /\ Available >= Left
        /\ \A i \in 0..(Available - 1) :
             ByteAt(consumed + i) = IF i < Left THEN End + 1 + i ELSE Stuffing

(* put() returns only when every section that has arrived whole has been handed on. *)
NothingWithheld ==
  ~parsing => \A h \in Heads : sections[h] <= arrived => sections[h] <= Promise!HandedEnd

IInv == /\ TypeOK
        /\ Len(section_data) <= StreamLength + MaxPayload
        /\ End \in 0..arrived /\ (End = 0 \/ IsEnd(End))
        /\ Rest
        /\ Available > Left => parsing /\ Left > 0 /\ IsEnd(arrived)
        /\ ~parsing => consumed = 0
        /\ NothingWithheld
-----------------------------------------------------------------------------
(* Sections lie one behind the other, none of them empty. *)
LEMMA SectionFacts ==
  ASSUME sections \in Streams
  PROVE  /\ Heads \subseteq 1..StreamLength /\ 1 \in Heads
         /\ \A h \in Heads :
              /\ sections[h] \in 1..StreamLength
              /\ sections[h] >= h + HeaderLength + ExtLength
              /\ sections[h] = StreamLength \/ sections[h] + 1 \in Heads
              /\ \A g \in Heads : g <= h \/ g > sections[h]
<1>1. Promise!IsStream(sections)
  OBVIOUS
<1>2. \A h \in Heads : h \in 1..StreamLength /\ sections[h] \in (h + HeaderLength + ExtLength)..StreamLength
  BY <1>1 DEF Promise!IsStream, Heads
<1>3. ASSUME NEW h \in Heads
      PROVE  sections[h] \in 1..StreamLength /\ sections[h] >= h + HeaderLength + ExtLength
  <2>1. h \in 1..StreamLength /\ sections[h] \in (h + HeaderLength + ExtLength)..StreamLength
    BY <1>2
  <2>2. QED
    BY <2>1
<1>4. QED
  BY <1>1, <1>3 DEF Promise!IsStream, Heads

(* Behind the end of a section, and at the beginning, the next one starts. *)
LEMMA NextHead ==
  ASSUME sections \in Streams, NEW e \in 0..StreamLength, e < StreamLength, e = 0 \/ IsEnd(e)
  PROVE  e + 1 \in Heads
<1>1. CASE e = 0
  BY <1>1, SectionFacts
<1>2. CASE IsEnd(e)
  BY <1>2, SectionFacts DEF IsEnd
<1>3. QED
  BY <1>1, <1>2

(* What ends behind the beginning of a section ends behind that section. *)
LEMMA EndsBehind ==
  ASSUME sections \in Streams, NEW e \in Nat, e + 1 \in Heads, NEW n \in Nat, n > e, IsEnd(n)
  PROVE  sections[e + 1] <= n
<1>1. PICK g \in Heads : sections[g] = n
  BY DEF IsEnd
<1>2. /\ g \in Nat /\ n >= g /\ sections[e + 1] \in Nat
      /\ g <= e + 1 \/ g > sections[e + 1]
      /\ e + 1 <= g \/ e + 1 > n
  <2>1. /\ g \in 1..StreamLength /\ n >= g + HeaderLength + ExtLength
        /\ sections[e + 1] \in 1..StreamLength
    BY <1>1, SectionFacts
  <2>2. /\ g <= e + 1 \/ g > sections[e + 1]
        /\ e + 1 <= g \/ e + 1 > sections[g]
    BY SectionFacts
  <2>3. QED
    BY <1>1, <2>1, <2>2
<1>3. QED
  BY <1>1, <1>2
-----------------------------------------------------------------------------
LEMMA TypeFacts ==
  ASSUME IInv
  PROVE  /\ sections \in Streams /\ arrived \in 0..StreamLength
         /\ section_data \in Seq(Bytes) /\ Len(section_data) \in Nat
         /\ consumed \in 0..Len(section_data) /\ Available \in Nat
         /\ End \in 0..arrived /\ Left \in Nat /\ Available >= Left
<1>1. /\ sections \in Streams /\ arrived \in 0..StreamLength
      /\ section_data \in Seq(Bytes) /\ Len(section_data) \in Nat
      /\ consumed \in 0..Len(section_data)
      /\ End \in 0..arrived /\ Available >= Left
  BY LenProperties DEF IInv, TypeOK, Rest
<1>2. Available \in Nat
  BY <1>1 DEF Available
<1>3. Left \in Nat
  BY <1>1 DEF Left
<1>4. QED
  BY <1>1, <1>2, <1>3

(* A header that is there is that of the next section, which is complete if and only if *)
(* its last byte has arrived: what follows the sections cannot be taken for a header.    *)
LEMMA NextHeader ==
  ASSUME IInv, Available >= HeaderLength
  PROVE  /\ End + 1 \in Heads /\ Left >= HeaderLength
         /\ \A length \in section_length(consumed) :
              /\ length = sections[End + 1] - End - HeaderLength
              /\ Complete(length) <=> sections[End + 1] <= arrived
         /\ section_length(consumed) # {}
<1>1. PICK a \in Nat, e \in Nat, c \in Nat, v \in Nat, p \in Nat :
        /\ a = arrived /\ e = End /\ c = consumed /\ v = Available /\ p = Left
        /\ e <= a /\ a <= StreamLength /\ p = a - e /\ v >= p /\ v >= HeaderLength
  BY TypeFacts DEF Left
<1>2. p > 0
  BY <1>1 DEF IInv
<1>3. e + 1 \in Heads
  <2>1. sections \in Streams
    BY TypeFacts
  <2>2. e \in 0..StreamLength /\ e < StreamLength /\ (e = 0 \/ IsEnd(e))
    BY <1>1, <1>2 DEF IInv
  <2>3. QED
    BY <2>1, <2>2, NextHead
<1>4. PICK t \in Nat : t = sections[e + 1] /\ t >= e + 1 + HeaderLength + ExtLength /\ t <= StreamLength
  <2>1. sections \in Streams
    BY TypeFacts
  <2>2. /\ sections[e + 1] \in 1..StreamLength
        /\ sections[e + 1] >= e + 1 + HeaderLength + ExtLength
    BY <1>3, <2>1, SectionFacts
  <2>3. QED
    BY <2>2
<1>5. v > p => t <= a
  BY <1>1, <1>2, <1>3, <1>4, EndsBehind, TypeFacts DEF IInv
<1>6. p >= HeaderLength
  BY <1>1, <1>4, <1>5
<1>7. \A j \in c..(c + HeaderLength - 1) : ByteAt(j) = e + 1 + (j - c)
  <2>1. ASSUME NEW j \in c..(c + HeaderLength - 1) PROVE ByteAt(j) = e + 1 + (j - c)
    <3>1. PICK i \in 0..(v - 1) : i = j - c /\ i < p /\ c + i = j
      BY <1>1, <1>6
    <3>2. ByteAt(c + i) = e + 1 + i
      BY <1>1, <3>1 DEF IInv, Rest
    <3>3. QED
      BY <3>1, <3>2
  <2>2. QED
    BY <2>1
<1> DEFINE field == {c + k : k \in 1..(HeaderLength - 1)}
<1>8. /\ c + 1 \in field /\ \A j \in field : j \in c..(c + HeaderLength - 1)
  <2>1. 1 \in 1..(HeaderLength - 1)
    OBVIOUS
  <2>2. QED
    BY <2>1
<1>9. {g \in Heads : \A j \in field : ByteAt(j) = g + j - c} = {e + 1}
  <2>1. \A j \in field : ByteAt(j) = (e + 1) + j - c
    <3>1. ASSUME NEW j \in field PROVE ByteAt(j) = (e + 1) + j - c
      <4>1. j \in c..(c + HeaderLength - 1) /\ j \in Nat
        BY <1>8
      <4>2. ByteAt(j) = e + 1 + (j - c)
        BY <1>7, <4>1
      <4>3. QED
        BY <4>1, <4>2
    <3>2. QED
      BY <3>1
  <2>2. ASSUME NEW g \in Heads, \A j \in field : ByteAt(j) = g + j - c PROVE g = e + 1
    <3>1. ByteAt(c + 1) = g + (c + 1) - c /\ ByteAt(c + 1) = (e + 1) + (c + 1) - c
      BY <1>8, <2>1, <2>2
    <3>2. g \in Nat
      BY SectionFacts, TypeFacts
    <3>3. QED
      BY <3>1, <3>2
  <2>3. QED
    BY <1>3, <2>1, <2>2
<1>10. section_length(c) = {t - e - HeaderLength}
  <2>1. section_length(c) = {sections[h] - h + 1 - HeaderLength : h \in {e + 1}}
    BY <1>9 DEF section_length
  <2>2. t - (e + 1) + 1 - HeaderLength = t - e - HeaderLength
    OBVIOUS
  <2>3. QED
    BY <1>4, <2>1, <2>2
<1>11. Complete(t - e - HeaderLength) <=> t <= a
  <2>1. Complete(t - e - HeaderLength) <=> v >= t - e
    BY <1>1 DEF Complete
  <2>2. QED
    BY <1>1, <1>5, <2>1
<1>12. QED
  BY <1>1, <1>3, <1>4, <1>6, <1>10, <1>11

(* When the loop of put() ends, no section that has arrived is left, and no stuffing. *)
LEMMA NoneLeft ==
  ASSUME IInv, Incomplete
  PROVE  /\ \A h \in Heads : sections[h] <= arrived => sections[h] <= End
         /\ Available = Left
<1>1. PICK a \in Nat, e \in Nat : a = arrived /\ e = End /\ e <= a /\ a <= StreamLength
  BY TypeFacts
<1>2. sections \in Streams
  BY TypeFacts
<1>3. ASSUME NEW h \in Heads, sections[h] <= a, ~(sections[h] <= e) PROVE FALSE
  <2>1. PICK n \in Nat : n = sections[h] /\ n <= a /\ n > e
    BY <1>2, <1>3, SectionFacts
  <2>2. e + 1 \in Heads
    <3>1. e \in 0..StreamLength /\ e < StreamLength /\ (e = 0 \/ IsEnd(e))
      BY <1>1, <2>1 DEF IInv
    <3>2. QED
      BY <1>2, <3>1, NextHead
  <2>3. sections[e + 1] <= a
    <3>1. IsEnd(n)
      BY <2>1 DEF IsEnd
    <3>2. PICK t \in Nat : t = sections[e + 1]
      BY <1>2, <2>2, SectionFacts
    <3>3. t <= n
      BY <1>2, <2>1, <2>2, <3>1, <3>2, EndsBehind
    <3>4. QED
      BY <2>1, <3>2, <3>3
  <2>4. CASE Available < HeaderLength
    <3>1. PICK t \in Nat : t = sections[e + 1] /\ t >= e + 1 + HeaderLength + ExtLength
      BY <1>2, <2>2, SectionFacts
    <3>2. Available >= a - e /\ Available \in Nat
      BY <1>1, TypeFacts DEF Left
    <3>3. QED
      BY <2>3, <2>4, <3>1, <3>2
  <2>5. CASE Available >= HeaderLength
    <3>1. Available \in Nat
      BY TypeFacts
    <3>2. PICK length \in section_length(consumed) : ~Complete(length)
      BY <2>5, <3>1 DEF Incomplete
    <3>3. ~(sections[e + 1] <= a)
      BY <1>1, <2>5, <3>2, NextHeader
    <3>4. QED
      BY <2>3, <3>3
  <2>6. Available \in Nat
    BY TypeFacts
  <2>7. QED
    BY <2>4, <2>5, <2>6
<1>4. Available = Left
  <2>1. Available \in Nat /\ Left \in Nat /\ Available >= Left /\ Left = a - e
    BY <1>1, TypeFacts DEF Left
  <2>2. ASSUME Available > Left PROVE FALSE
    <3>1. IsEnd(a) /\ a > e
      BY <1>1, <2>1, <2>2 DEF IInv
    <3>2. QED
      BY <1>1, <1>3, <3>1 DEF IsEnd
  <2>3. QED
    BY <2>1, <2>2
<1>5. QED
  BY <1>1, <1>3, <1>4

LEMMA InitIInv == Init => IInv
<1>1. SUFFICES ASSUME Init PROVE IInv
  OBVIOUS
<1>2. /\ arrived = 0 /\ section_data = <<>> /\ consumed = 0 /\ parsing = FALSE /\ handed = <<>>
      /\ sections \in Streams
  BY <1>1 DEF Init
<1>3. End = 0 /\ Left = 0 /\ Available = 0
  BY <1>2 DEF End, Left, Promise!HandedEnd, Available
<1>4. TypeOK
  <2>1. <<>> \in Seq(Bytes) /\ <<>> \in Seq([from : Bytes, size : 0..(SizeModulus - 1)])
    OBVIOUS
  <2>2. 0 \in 0..StreamLength /\ 0 \in 0..Len(<<>>)
    OBVIOUS
  <2>3. QED
    BY <1>2, <2>1, <2>2 DEF TypeOK
<1>5. NothingWithheld
  <2>1. \A h \in Heads : ~(sections[h] <= 0)
    BY <1>2, SectionFacts
  <2>2. QED
    BY <1>2, <2>1 DEF NothingWithheld
<1>6. QED
  BY <1>2, <1>3, <1>4, <1>5 DEF IInv, Rest

LEMMA EndPutIInv == ASSUME IInv, EndPut PROVE IInv'
<1>1. /\ section_data' = SubSeq(section_data, consumed + 1, Len(section_data))
      /\ consumed' = 0 /\ parsing' = FALSE
      /\ sections' = sections /\ arrived' = arrived /\ handed' = handed /\ Incomplete
  BY DEF EndPut, Erase
<1>2. PICK c \in Nat, l \in Nat, v \in Nat :
        c = consumed /\ l = Len(section_data) /\ v = Available /\ c <= l /\ v = l - c
        /\ c + v = l /\ v = Left
  BY <1>1, TypeFacts, NoneLeft DEF Available
<1>3. section_data \in Seq(Bytes)
  BY TypeFacts
<1>4. /\ section_data' \in Seq(Bytes) /\ Len(section_data') = v
      /\ \A i \in 1..v : section_data'[i] = section_data[c + i]
  <2>1. ASSUME NEW d, d = SubSeq(section_data, c + 1, l)
        PROVE  d \in Seq(Bytes) /\ Len(d) = v /\ \A i \in 1..v : d[i] = section_data[c + i]
    BY <1>2, <1>3, <2>1
  <2>2. QED
    BY <1>1, <1>2, <2>1
<1>5. End' = End /\ Left' = Left /\ Available' = v
  <2>1. End' = End
    BY <1>1 DEF End, Promise!HandedEnd
  <2>2. QED
    BY <1>1, <1>4, <2>1 DEF Left, Available
<1>6. TypeOK'
  <2>1. consumed' \in 0..Len(section_data')
    BY <1>1, <1>2, <1>4
  <2>2. parsing' \in BOOLEAN
    BY <1>1
  <2>3. QED
    BY <1>1, <1>4, <2>1, <2>2 DEF IInv, TypeOK, Bytes
<1>7. Rest'
  <2>1. ASSUME NEW i \in 0..(v - 1)
        PROVE  section_data'[i + 1] = IF i < Left THEN End + 1 + i ELSE Stuffing
    <3>1. i + 1 \in 1..v
      BY <1>2
    <3>2. section_data'[i + 1] = section_data[c + (i + 1)]
      BY <1>4, <3>1
    <3>3. section_data[(c + i) + 1] = IF i < Left THEN End + 1 + i ELSE Stuffing
      BY <1>2 DEF IInv, Rest, ByteAt
    <3>4. (c + i) + 1 = c + (i + 1)
      BY <1>2
    <3>5. QED
      BY <3>2, <3>3, <3>4
  <2>2. \A i \in 0..(v - 1) : consumed' + i = i
    BY <1>1
  <2>3. QED
    BY <1>2, <1>5, <2>1, <2>2 DEF Rest, ByteAt
<1>8. NothingWithheld'
  <2>1. \A h \in Heads : sections[h] <= arrived => sections[h] <= End
    BY <1>1, NoneLeft
  <2>2. QED
    BY <1>1, <2>1 DEF NothingWithheld, End, Heads, Promise!HandedEnd
<1>9. Len(section_data') <= StreamLength + MaxPayload
  BY <1>2, <1>4 DEF IInv
<1>10. End' \in 0..arrived' /\ (End' = 0 \/ IsEnd(End)')
  BY <1>1, <1>5 DEF IInv, IsEnd, Heads
<1>11. QED
  BY <1>1, <1>2, <1>5, <1>6, <1>7, <1>8, <1>9, <1>10 DEF IInv
-----------------------------------------------------------------------------
(* What a packet brings behind its pointer_field. *)
Brought(k, m) == [i \in 1..k |-> arrived + i] \o [i \in 1..m |-> Stuffing]

LEMMA BroughtFacts ==
  ASSUME NEW k \in Nat, NEW m \in Nat, arrived \in Nat, arrived + k <= StreamLength
  PROVE  /\ Appended(Packet(k, m)) = Brought(k, m)
         /\ Brought(k, m) \in Seq(Bytes) /\ Len(Brought(k, m)) = k + m
         /\ \A i \in 1..(k + m) : Brought(k, m)[i] = IF i <= k THEN arrived + i ELSE Stuffing
<1> DEFINE X == [i \in 1..k |-> arrived + i]
           Y == [i \in 1..m |-> Stuffing]
<1>1. X \in Seq(Bytes) /\ Len(X) = k /\ \A i \in 1..k : X[i] = arrived + i
  <2>1. \A i \in 1..k : arrived + i \in Bytes
    BY DEF Bytes, Pointer
  <2>2. QED
    BY <2>1
<1>2. Y \in Seq(Bytes) /\ Len(Y) = m /\ \A i \in 1..m : Y[i] = Stuffing
  BY DEF Stuffing, Bytes, Pointer
<1>3. Brought(k, m) = X \o Y
  BY DEF Brought
<1> HIDE DEF X, Y
<1>4. /\ X \o Y \in Seq(Bytes) /\ Len(X \o Y) = k + m
      /\ \A i \in 1..(k + m) : (X \o Y)[i] = IF i <= k THEN X[i] ELSE Y[i - k]
  BY <1>1, <1>2, ConcatProperties, ZenonT(30)
<1>5. \A i \in 1..(k + m) : (X \o Y)[i] = IF i <= k THEN arrived + i ELSE Stuffing
  <2>1. ASSUME NEW i \in 1..(k + m)
        PROVE  (X \o Y)[i] = IF i <= k THEN arrived + i ELSE Stuffing
    <3>1. CASE i <= k
      BY <1>1, <1>4, <3>1
    <3>2. CASE ~(i <= k)
      <4>1. i - k \in 1..m
        BY <3>2
      <4>2. QED
        BY <1>2, <1>4, <3>2, <4>1
    <3>3. QED
      BY <3>1, <3>2
  <2>2. QED
    BY <2>1
<1>6. Appended(Packet(k, m)) = X \o Y
  <2>1. PICK b \in BOOLEAN :
          Packet(k, m) = [payload_unit_start_indicator |-> b,
                          payload |-> (IF b THEN <<Pointer>> ELSE <<>>) \o X \o Y]
    BY DEF Packet, X, Y
  <2>2. CASE b = TRUE
    <3>1. Appended(Packet(k, m)) = Tail(<<Pointer>> \o X \o Y)
      BY <2>1, <2>2 DEF Appended
    <3>2. <<Pointer>> \o X \o Y = <<Pointer>> \o (X \o Y)
      BY <1>1, <1>2
    <3>3. ASSUME NEW Z \in Seq(Bytes) PROVE Tail(<<Pointer>> \o Z) = Z
      BY DEF Pointer, Bytes
    <3>4. QED
      BY <1>4, <3>1, <3>2, <3>3
  <2>3. CASE b = FALSE
    BY <1>1, <1>2, <2>1, <2>3 DEF Appended
  <2>4. QED
    BY <2>1, <2>2, <2>3
<1>7. QED
  BY <1>3, <1>4, <1>5, <1>6

(* They are in its payload. *)
LEMMA PayloadHolds ==
  ASSUME NEW k \in Nat, NEW m \in Nat, arrived \in Nat
  PROVE  Len(Packet(k, m).payload) \in Nat /\ Len(Packet(k, m).payload) >= k + m
<1>1. [i \in 1..k |-> arrived + i] \in Seq(Int) /\ Len([i \in 1..k |-> arrived + i]) = k
  OBVIOUS
<1>2. [i \in 1..m |-> Stuffing] \in Seq(Int) /\ Len([i \in 1..m |-> Stuffing]) = m
  BY DEF Stuffing
<1>3. ASSUME NEW X \in Seq(Int), NEW Y \in Seq(Int), NEW P \in Seq(Int)
      PROVE  Len(P \o X \o Y) \in Nat /\ Len(P \o X \o Y) >= Len(X) + Len(Y)
  OBVIOUS
<1>4. <<Pointer>> \in Seq(Int) /\ <<>> \in Seq(Int)
  BY DEF Pointer
<1>5. QED
  BY <1>1, <1>2, <1>3, <1>4 DEF Packet

LEMMA ReceiveIInv ==
  ASSUME IInv, NEW k \in 0..MaxPayload, NEW m \in 0..MaxPayload, Receive(k, m) PROVE IInv'
<1> DEFINE new == Brought(k, m)
<1>1. /\ ~parsing /\ parsing' = TRUE /\ consumed' = 0
      /\ section_data' = section_data \o Appended(Packet(k, m))
      /\ arrived' = arrived + k /\ sections' = sections /\ handed' = handed
      /\ arrived + k <= StreamLength
      /\ m > 0 => k > 0 /\ IsEnd(arrived + k)
  BY DEF Receive, Put, MaySend, IsEnd
<1>2. PICK a \in Nat, e \in Nat, n \in Nat :
        /\ a = arrived /\ e = End /\ e <= a /\ a + k <= StreamLength
        /\ n = Left /\ n = a - e /\ a = e + n /\ Len(section_data) = n
  <2>1. consumed = 0 /\ ~(Available > Left)
    BY <1>1 DEF IInv
  <2>2. QED
    BY <1>1, <2>1, TypeFacts DEF Left, Available
<1>3. /\ new \in Seq(Bytes) /\ Len(new) = k + m /\ section_data' = section_data \o new
      /\ \A i \in 1..(k + m) : new[i] = IF i <= k THEN a + i ELSE Stuffing
  <2>1. k \in Nat /\ m \in Nat /\ arrived \in Nat /\ arrived + k <= StreamLength
    BY <1>2
  <2>2. /\ Appended(Packet(k, m)) = Brought(k, m)
        /\ Brought(k, m) \in Seq(Bytes) /\ Len(Brought(k, m)) = k + m
        /\ \A i \in 1..(k + m) : Brought(k, m)[i] = IF i <= k THEN arrived + i ELSE Stuffing
    BY <2>1, BroughtFacts
  <2>3. QED
    BY <1>1, <1>2, <2>2
<1> HIDE DEF new
<1>4. section_data \in Seq(Bytes)
  BY TypeFacts
<1>5. /\ section_data' \in Seq(Bytes) /\ Len(section_data') = n + (k + m)
      /\ \A i \in 1..(n + (k + m)) :
           section_data'[i] = IF i <= n THEN section_data[i] ELSE new[i - n]
  <2>1. ASSUME NEW d, d = section_data \o new
        PROVE  /\ d \in Seq(Bytes) /\ Len(d) = n + (k + m)
               /\ \A i \in 1..(n + (k + m)) :
                    d[i] = IF i <= n THEN section_data[i] ELSE new[i - n]
    <3>1. Len(section_data) = n /\ Len(new) = k + m /\ new \in Seq(Bytes)
      BY <1>2, <1>3
    <3>2. /\ d \in Seq(Bytes) /\ Len(d) = Len(section_data) + Len(new)
          /\ \A i \in 1..(Len(section_data) + Len(new)) :
               d[i] = IF i <= Len(section_data) THEN section_data[i] ELSE new[i - Len(section_data)]
      BY <1>4, <2>1, <3>1, ConcatProperties
    <3>3. QED
      BY <3>1, <3>2
  <2>2. QED
    BY <1>3, <2>1
<1>6. End' = e /\ Left' = n + k /\ Available' = n + (k + m)
  <2>1. End' = End
    BY <1>1 DEF End, Promise!HandedEnd
  <2>2. arrived' = a + k /\ a + k - e = n + k
    BY <1>1, <1>2
  <2>3. QED
    BY <1>1, <1>2, <1>5, <2>1, <2>2 DEF Left, Available
<1>7. TypeOK'
  <2>1. arrived' \in 0..StreamLength /\ consumed' \in 0..Len(section_data') /\ parsing' \in BOOLEAN
    BY <1>1, <1>2, <1>5
  <2>2. QED
    BY <1>1, <1>5, <2>1 DEF IInv, TypeOK, Bytes
<1>8. Rest'
  <2>1. ASSUME NEW i \in 0..(n + (k + m) - 1)
        PROVE  section_data'[i + 1] = IF i < n + k THEN e + 1 + i ELSE Stuffing
    <3>1. CASE i < n
      <4>1. i + 1 \in 1..(n + (k + m)) /\ i + 1 <= n /\ i < n + k
        BY <3>1
      <4>2. section_data'[i + 1] = section_data[i + 1]
        BY <1>5, <4>1
      <4>3. section_data[i + 1] = e + 1 + i
        <5>1. consumed = 0 /\ Available = n /\ Left = n /\ i \in 0..(n - 1)
          BY <1>1, <1>2, <3>1 DEF IInv, Available
        <5>2. section_data[(0 + i) + 1] = e + 1 + i
          BY <1>2, <3>1, <5>1 DEF IInv, Rest, ByteAt
        <5>3. QED
          BY <5>2
      <4>4. QED
        BY <4>1, <4>2, <4>3
    <3>2. CASE ~(i < n)
      <4>1. PICK j \in 1..(k + m) : j = i + 1 - n /\ i + 1 \in 1..(n + (k + m)) /\ ~(i + 1 <= n)
        BY <3>2
      <4>2. section_data'[i + 1] = new[j]
        BY <1>5, <4>1
      <4>3. new[j] = IF j <= k THEN a + j ELSE Stuffing
        BY <1>3
      <4>4. (j <= k <=> i < n + k) /\ a + j = e + 1 + i
        BY <1>2, <4>1
      <4>5. QED
        BY <4>2, <4>3, <4>4
    <3>3. QED
      BY <3>1, <3>2
  <2>2. \A i \in 0..(n + (k + m) - 1) : consumed' + i = i
    BY <1>1
  <2>3. QED
    BY <1>6, <2>1, <2>2 DEF Rest, ByteAt
<1>9. Available' > Left' => parsing' /\ Left' > 0 /\ IsEnd(arrived)'
  <2>1. SUFFICES ASSUME Available' > Left' PROVE parsing' /\ Left' > 0 /\ IsEnd(arrived)'
    OBVIOUS
  <2>2. m > 0
    BY <1>6, <2>1
  <2>3. QED
    BY <1>1, <1>6, <2>2 DEF IsEnd, Heads
<1>10. Len(section_data') <= StreamLength + MaxPayload
  BY <1>2, <1>5
<1>11. End' \in 0..arrived' /\ (End' = 0 \/ IsEnd(End)')
  <2>1. End' \in 0..arrived'
    BY <1>1, <1>2, <1>6
  <2>2. e = 0 \/ IsEnd(e)
    BY <1>2 DEF IInv
  <2>3. QED
    BY <1>1, <1>2, <1>6, <2>1, <2>2 DEF IsEnd, Heads
<1>12. QED
  BY <1>1, <1>7, <1>8, <1>9, <1>10, <1>11 DEF IInv, NothingWithheld
-----------------------------------------------------------------------------
(* skip_padding_bytes stays where there is no stuffing, and runs to the end of it. *)
LEMMA SkipFacts ==
  ASSUME NEW l \in Nat, l = Len(section_data), NEW d \in 0..l
  PROVE  /\ d < l /\ ByteAt(d) # Stuffing => skip_padding_bytes(d) = d
         /\ (\A i \in d..(l - 1) : ByteAt(i) = Stuffing) => skip_padding_bytes(d) = l
<1> DEFINE Stops(e) == /\ \A i \in d..(e - 1) : ByteAt(i) = Stuffing
                       /\ e < l => ByteAt(e) # Stuffing
<1>1. skip_padding_bytes(d) = CHOOSE e \in d..l : Stops(e)
  BY DEF skip_padding_bytes
<1>2. ASSUME d < l, ByteAt(d) # Stuffing PROVE skip_padding_bytes(d) = d
  <2>1. d \in d..l /\ Stops(d)
    BY <1>2
  <2>2. ASSUME NEW e \in d..l, Stops(e) PROVE e = d
    <3>1. e > d => d \in d..(e - 1)
      OBVIOUS
    <3>2. QED
      BY <1>2, <2>2, <3>1
  <2>3. QED
    BY <1>1, <2>1, <2>2
<1>3. ASSUME \A i \in d..(l - 1) : ByteAt(i) = Stuffing PROVE skip_padding_bytes(d) = l
  <2>1. l \in d..l /\ Stops(l)
    BY <1>3
  <2>2. ASSUME NEW e \in d..l, Stops(e) PROVE e = l
    <3>1. e < l => e \in d..(l - 1)
      OBVIOUS
    <3>2. QED
      BY <1>3, <2>2, <3>1
  <2>3. QED
    BY <1>1, <2>1, <2>2
<1>4. QED
  BY <1>2, <1>3

(* What a round of the loop does: the section behind the last one is handed on. *)
LEMMA HandFacts ==
  ASSUME IInv, HandOn
  PROVE  \E t \in Nat :
           /\ End + 1 \in Heads /\ t = sections[End + 1] /\ t <= arrived
           /\ t >= End + 1 + HeaderLength + ExtLength
           /\ handed' = Append(handed, Promise!Payload(End + 1))
           /\ consumed' = skip_padding_bytes(consumed + (t - End))
           /\ UNCHANGED <<sections, arrived, section_data, parsing>> /\ parsing = TRUE
<1>1. PICK a \in Nat, e \in Nat, c \in Nat, v \in Nat, p \in Nat, l \in Nat :
        /\ a = arrived /\ e = End /\ c = consumed /\ v = Available /\ p = Left
        /\ l = Len(section_data) /\ l = c + v /\ l < SizeModulus
        /\ e <= a /\ a <= StreamLength /\ p = a - e /\ v >= p
  <2>1. Len(section_data) \in Nat /\ Len(section_data) < SizeModulus
    BY TypeFacts DEF IInv
  <2>2. QED
    BY <2>1, TypeFacts DEF Left, Available
<1>2. PICK length \in section_length(c) :
        /\ Complete(length) /\ Available >= HeaderLength
        /\ handed' = Append(handed,
             [from |-> IF c + HeaderLength + ExtLength < l
                       THEN ByteAt(c + HeaderLength + ExtLength) ELSE Stuffing,
              size |-> AsSize(length - ExtLength)])
        /\ consumed' = skip_padding_bytes(AsSize(c + HeaderLength + ExtLength
                                                  + AsSize(length - ExtLength)))
  BY <1>1 DEF HandOn
<1>3. /\ e + 1 \in Heads /\ length = sections[e + 1] - e - HeaderLength
      /\ sections[e + 1] <= a
  BY <1>1, <1>2, NextHeader
<1>4. PICK t \in Nat : t = sections[e + 1] /\ t >= e + 1 + HeaderLength + ExtLength
  BY <1>3, SectionFacts, TypeFacts, SMTT(30)
<1>5. PICK q \in Nat :
        /\ q = t - e - HeaderLength - ExtLength /\ q > 0 /\ q < SizeModulus
        /\ length - ExtLength = q /\ HeaderLength + ExtLength + q = t - e
        /\ q = t - (e + 1) + 1 - HeaderLength - ExtLength
  BY <1>1, <1>3, <1>4
<1>6. AsSize(length - ExtLength) = q
  BY <1>5 DEF AsSize
<1>7. AsSize(c + HeaderLength + ExtLength + q) = c + (t - e)
  <2>1. c + HeaderLength + ExtLength + q = c + (t - e)
    BY <1>5
  <2>2. c + (t - e) \in Nat /\ c + (t - e) < SizeModulus
    BY <1>1, <1>3, <1>4
  <2>3. QED
    BY <2>1, <2>2 DEF AsSize
<1>8. /\ c + HeaderLength + ExtLength < l
      /\ ByteAt(c + HeaderLength + ExtLength) = (e + 1) + HeaderLength + ExtLength
  <2>1. PICK i \in 0..(v - 1) : i = HeaderLength + ExtLength /\ i < p
    BY <1>1, <1>3, <1>4, <1>5
  <2>2. ByteAt(c + i) = e + 1 + i
    BY <1>1, <2>1 DEF IInv, Rest
  <2>3. c + i = c + HeaderLength + ExtLength /\ c + i < l /\ e + 1 + i = (e + 1) + HeaderLength + ExtLength
    BY <1>1, <2>1
  <2>4. QED
    BY <2>2, <2>3
<1>9. handed' = Append(handed, Promise!Payload(e + 1))
  <2>1. Promise!Payload(e + 1) = [from |-> (e + 1) + HeaderLength + ExtLength, size |-> q]
    BY <1>4, <1>5 DEF Promise!Payload
  <2>2. QED
    BY <1>2, <1>6, <1>8, <2>1
<1>10. UNCHANGED <<sections, arrived, section_data, parsing>> /\ parsing = TRUE
  BY DEF HandOn, IInv, TypeOK
<1>11. consumed' = skip_padding_bytes(c + (t - e))
  BY <1>2, <1>6, <1>7
<1>12. QED
  BY <1>1, <1>3, <1>4, <1>9, <1>10, <1>11

LEMMA HandOnIInv == ASSUME IInv, HandOn PROVE IInv'
<1>1. PICK t \in Nat :
        /\ End + 1 \in Heads /\ t = sections[End + 1] /\ t <= arrived
        /\ t >= End + 1 + HeaderLength + ExtLength
        /\ handed' = Append(handed, Promise!Payload(End + 1))
        /\ consumed' = skip_padding_bytes(consumed + (t - End))
        /\ UNCHANGED <<sections, arrived, section_data, parsing>> /\ parsing = TRUE
  BY HandFacts
<1>2. PICK a \in Nat, e \in Nat, c \in Nat, v \in Nat, p \in Nat, l \in Nat :
        /\ a = arrived /\ e = End /\ c = consumed /\ v = Available /\ p = Left
        /\ l = Len(section_data) /\ l = c + v
        /\ e <= a /\ a <= StreamLength /\ p = a - e /\ v >= p
  BY TypeFacts DEF Left, Available
<1>3. PICK d \in 0..l, n \in Nat, w \in Nat :
        /\ d = c + (t - e) /\ n = a - t /\ w = l - d /\ w >= n /\ d + w = l
        /\ p = n + (t - e) /\ v = w + (t - e) /\ a = n + t
  <2>1. t <= a /\ t >= e + 1 + HeaderLength + ExtLength
    BY <1>1, <1>2
  <2>2. PICK g \in Nat : g = t - e /\ t = e + g
    BY <2>1
  <2>3. PICK n \in Nat : n = a - t /\ a = n + t
    BY <2>1
  <2>4. p = n + g
    BY <1>2, <2>2, <2>3
  <2>5. PICK w \in Nat : w = v - g /\ v = w + g /\ w >= n
    BY <1>2, <2>4
  <2>6. c + g \in 0..l /\ w = l - (c + g) /\ (c + g) + w = l
    BY <1>2, <2>5
  <2>7. QED
    BY <2>2, <2>3, <2>4, <2>5, <2>6
<1>4. handed \in Seq([from : Bytes, size : 0..(SizeModulus - 1)])
  BY DEF IInv, TypeOK
<1>5. /\ Promise!Payload(e + 1) \in [from : Bytes, size : 0..(SizeModulus - 1)]
      /\ Promise!Payload(e + 1).from + Promise!Payload(e + 1).size - 1 = t
  <2>1. Promise!Payload(e + 1) =
          [from |-> (e + 1) + HeaderLength + ExtLength,
           size |-> t - (e + 1) + 1 - HeaderLength - ExtLength]
    BY <1>1, <1>2 DEF Promise!Payload
  <2>2. /\ (e + 1) + HeaderLength + ExtLength \in Bytes
        /\ t - (e + 1) + 1 - HeaderLength - ExtLength \in 0..(SizeModulus - 1)
    <3>1. /\ t >= e + 1 + HeaderLength + ExtLength /\ t <= StreamLength
          /\ StreamLength + MaxPayload < SizeModulus
      <4>1. t >= e + 1 + HeaderLength + ExtLength /\ t <= a /\ a <= StreamLength
        BY <1>1, <1>2
      <4>2. QED
        BY <4>1
    <3>2. QED
      BY <3>1 DEF Bytes, Pointer
  <2>3. (e + 1) + HeaderLength + ExtLength + (t - (e + 1) + 1 - HeaderLength - ExtLength) - 1 = t
    OBVIOUS
  <2>4. QED
    BY <2>1, <2>2, <2>3
<1>6. /\ handed' \in Seq([from : Bytes, size : 0..(SizeModulus - 1)])
      /\ End' = t
  <2>1. ASSUME NEW P, P = Promise!Payload(e + 1), NEW h, h = Append(handed, P)
        PROVE  /\ h \in Seq([from : Bytes, size : 0..(SizeModulus - 1)])
               /\ h # <<>> /\ h[Len(h)] = P
    BY <1>4, <1>5, <2>1, SMTT(30)
  <2>2. handed' = Append(handed, Promise!Payload(e + 1))
    BY <1>1, <1>2
  <2>3. /\ handed' \in Seq([from : Bytes, size : 0..(SizeModulus - 1)])
        /\ handed' # <<>> /\ handed'[Len(handed')] = Promise!Payload(e + 1)
    BY <2>1, <2>2
  <2>4. QED
    BY <1>5, <2>3 DEF End, Promise!HandedEnd
<1>7. Left' = n
  BY <1>1, <1>2, <1>3, <1>6 DEF Left
<1>8. ASSUME NEW i \in 0..(w - 1)
      PROVE  ByteAt(d + i) = IF i < n THEN t + 1 + i ELSE Stuffing
  <2>1. PICK j \in 0..(v - 1) :
          /\ j = i + (t - e) /\ c + j = d + i /\ (j < p <=> i < n) /\ e + 1 + j = t + 1 + i
    <3>1. PICK g \in Nat : g = t - e /\ t = e + g /\ p = n + g /\ v = w + g /\ d = c + g
      <4>1. t >= e + 1 + HeaderLength + ExtLength
        BY <1>1, <1>2
      <4>2. t - e \in Nat /\ t = e + (t - e)
        BY <4>1
      <4>3. QED
        BY <1>3, <4>2
    <3>2. i + g \in 0..(v - 1) /\ c + (i + g) = d + i /\ (i + g < p <=> i < n) /\ e + 1 + (i + g) = t + 1 + i
      BY <3>1
    <3>3. QED
      BY <3>1, <3>2
  <2>2. ByteAt(c + j) = IF j < p THEN e + 1 + j ELSE Stuffing
    BY <1>2 DEF IInv, Rest
  <2>3. QED
    BY <2>1, <2>2
<1>9. consumed' = IF n > 0 THEN d ELSE l
  <2>1. CASE n > 0
    <3>1. ByteAt(d + 0) = t + 1 + 0 /\ d < l
      BY <1>3, <1>8, <2>1
    <3>2. ByteAt(d) # Stuffing
      BY <3>1 DEF Stuffing
    <3>3. QED
      BY <1>1, <1>2, <1>3, <2>1, <3>1, <3>2, SkipFacts
  <2>2. CASE n = 0
    <3>1. ASSUME NEW i \in d..(l - 1) PROVE ByteAt(i) = Stuffing
      <4>1. PICK j \in 0..(w - 1) : d + j = i /\ ~(j < n)
        BY <1>3, <2>2
      <4>2. QED
        BY <1>8, <4>1
    <3>2. skip_padding_bytes(d) = l
      BY <1>2, <3>1, SkipFacts
    <3>3. QED
      BY <1>1, <1>2, <1>3, <2>2, <3>2
  <2>3. QED
    BY <2>1, <2>2
<1>10. Available' = IF n > 0 THEN w ELSE 0
  BY <1>1, <1>2, <1>3, <1>9 DEF Available
<1>11. TypeOK'
  <2>1. consumed' \in 0..Len(section_data')
    BY <1>1, <1>2, <1>3, <1>9, SMTT(30)
  <2>2. QED
    BY <1>1, <1>6, <2>1 DEF IInv, TypeOK, Bytes
<1>12. Rest'
  <2>1. CASE n > 0
    <3>1. \A i \in 0..(w - 1) : ByteAt(d + i) = IF i < n THEN t + 1 + i ELSE Stuffing
      BY <1>8
    <3>2. \A i : ByteAt(i)' = ByteAt(i)
      BY <1>1 DEF ByteAt
    <3>3. consumed' = d /\ Available' = w
      BY <1>9, <1>10, <2>1
    <3>4. QED
      BY <1>3, <1>6, <1>7, <3>1, <3>2, <3>3 DEF Rest, ByteAt
  <2>2. CASE n = 0
    <3>1. Available' = 0 /\ Left' = 0
      BY <1>7, <1>10, <2>2
    <3>2. QED
      BY <3>1 DEF Rest
  <2>3. QED
    BY <2>1, <2>2
<1>13. Available' > Left' => parsing' /\ Left' > 0 /\ IsEnd(arrived)'
  <2>1. SUFFICES ASSUME Available' > Left' PROVE parsing' /\ Left' > 0 /\ IsEnd(arrived)'
    OBVIOUS
  <2>2. n > 0 /\ w > n
    BY <1>3, <1>7, <1>10, <2>1
  <2>3. Available > Left
    BY <1>2, <1>3, <2>2
  <2>4. IsEnd(arrived)
    BY <2>3 DEF IInv
  <2>5. QED
    BY <1>1, <1>7, <2>2, <2>4 DEF IsEnd, Heads
<1>14. End' \in 0..arrived' /\ IsEnd(End)'
  <2>1. IsEnd(t)
    BY <1>1 DEF IsEnd
  <2>2. QED
    BY <1>1, <1>6, <2>1 DEF IsEnd, Heads
<1>15. Len(section_data') <= StreamLength + MaxPayload
  BY <1>1 DEF IInv
<1>16. QED
  BY <1>1, <1>11, <1>12, <1>13, <1>14, <1>15 DEF IInv, NothingWithheld
-----------------------------------------------------------------------------
LEMMA StepIInv == IInv /\ [Next]_vars => IInv'
<1>1. ASSUME IInv, UNCHANGED vars PROVE IInv'
  BY <1>1 DEF vars, IInv, TypeOK, Rest, ByteAt, Available, Left, End, Promise!HandedEnd,
              IsEnd, Heads, NothingWithheld
<1>2. QED
  BY <1>1, ReceiveIInv, HandOnIInv, EndPutIInv DEF Next

(* The invariant holds in every reachable state. *)
THEOREM Inductive == Spec => []IInv
<1>1. QED
  BY InitIInv, StepIInv, PTL DEF Spec

(* parser_psi.cpp: consumed_bytes stays inside section_data, and payload_size never wraps. *)
THEOREM TypeCorrect == Spec => []TypeOK
<1>1. IInv => TypeOK
  BY DEF IInv
<1>2. QED
  BY <1>1, Inductive, PTL

(* parser_psi.cpp:9-14, 28-36: a header is only ever read where a section begins. *)
THEOREM RestStaysInOrder == Spec => []RestInOrder
<1>1. IInv => RestInOrder
  BY DEF IInv, Rest, RestInOrder, Left, End, IsEnd
<1>2. QED
  BY <1>1, Inductive, PTL

(* parser_psi.h:11-13: however the stream is cut into packets and padded, on_payload is  *)
(* called as PsiSections allows: with every section, whole, once and in order.           *)
THEOREM ImplementsSections == Spec => SectionsSpec
<1>1. Init => Promise!Init
  BY DEF Init, Promise!Init
<1>2. IInv /\ [Next]_vars => [Promise!Next]_(Promise!vars)
  <2>1. SUFFICES ASSUME IInv, Next PROVE Promise!Next \/ UNCHANGED Promise!vars
    BY DEF vars, Promise!vars
  <2>2. ASSUME NEW k \in 0..MaxPayload, NEW m \in 0..MaxPayload, Receive(k, m)
        PROVE  Promise!Next
    <3>1. arrived \in 0..StreamLength
      BY <2>1, TypeFacts
    <3>2. arrived' = arrived + k /\ arrived + k <= StreamLength /\ UNCHANGED <<sections, handed>>
      BY <2>2 DEF Receive, MaySend
    <3>3. arrived + k \in arrived..StreamLength
      BY <3>1, <3>2
    <3>4. QED
      BY <3>2, <3>3 DEF Promise!Next, Promise!Arrive
  <2>3. ASSUME HandOn PROVE Promise!Next
    <3>1. PICK t \in Nat :
            /\ End + 1 \in Heads /\ t = sections[End + 1] /\ t <= arrived
            /\ handed' = Append(handed, Promise!Payload(End + 1))
            /\ UNCHANGED <<sections, arrived>>
      BY <2>1, <2>3, HandFacts
    <3>2. QED
      BY <3>1 DEF Promise!Next, Promise!Hand, End, Heads
  <2>4. ASSUME EndPut PROVE UNCHANGED Promise!vars
    BY <2>4 DEF EndPut, Promise!vars
  <2>5. QED
    BY <2>1, <2>2, <2>3, <2>4 DEF Next
<1>3. QED
  BY <1>1, <1>2, Inductive, PTL DEF Spec, SectionsSpec, Promise!Spec
-----------------------------------------------------------------------------
(* The sections that end by n. *)
Ended(n) == {g \in Heads : sections[g] <= n}

(* What has been handed on is the sections up to HandedEnd, in their order. *)
HandedInv ==
  /\ \A k \in DOMAIN handed : \E h \in Ended(End) : handed[k] = Promise!Payload(h)
  /\ \A h \in Ended(End) : \E k \in DOMAIN handed : handed[k] = Promise!Payload(h)
  /\ \A j, k \in DOMAIN handed : j < k => handed[j].from < handed[k].from

(* Handing on the section behind e adds it to those that end by the end of it. *)
LEMMA EndedGrows ==
  ASSUME sections \in Streams, NEW e \in Nat, e + 1 \in Heads
  PROVE  Ended(sections[e + 1]) = Ended(e) \cup {e + 1}
<1>1. PICK t \in Nat : t = sections[e + 1] /\ t > e
  BY SectionFacts
<1>2. ASSUME NEW h \in Heads PROVE sections[h] <= t <=> sections[h] <= e \/ h = e + 1
  <2>1. PICK z \in Nat : z = sections[h] /\ h <= z /\ h \in Nat
    BY SectionFacts
  <2>2. (h <= e + 1 \/ h > t) /\ (e + 1 <= h \/ e + 1 > z)
    BY <1>1, <2>1, SectionFacts
  <2>3. z <= t <=> z <= e \/ h = e + 1
    BY <1>1, <2>1, <2>2
  <2>4. QED
    BY <2>1, <2>3
<1>3. QED
  BY <1>1, <1>2 DEF Ended

LEMMA HandOnHanded == ASSUME IInv, HandedInv, HandOn PROVE HandedInv'
<1>1. PICK e \in Nat, t \in Nat :
        /\ e = End /\ e + 1 \in Heads /\ t = sections[e + 1]
        /\ t >= e + 1 + HeaderLength + ExtLength
        /\ handed' = Append(handed, Promise!Payload(e + 1))
        /\ sections' = sections
  <2>1. PICK t \in Nat :
          /\ End + 1 \in Heads /\ t = sections[End + 1]
          /\ t >= End + 1 + HeaderLength + ExtLength
          /\ handed' = Append(handed, Promise!Payload(End + 1))
          /\ sections' = sections
    BY HandFacts
  <2>2. PICK e \in Nat : e = End
    BY TypeFacts
  <2>3. QED
    BY <2>1, <2>2
<1>2. PICK n \in Nat : n = Len(handed) /\ handed \in Seq([from : Bytes, size : 0..(SizeModulus - 1)])
  BY DEF IInv, TypeOK
<1>3. /\ DOMAIN handed = 1..n /\ DOMAIN handed' = 1..(n + 1) /\ Len(handed') = n + 1
      /\ handed'[n + 1] = Promise!Payload(e + 1)
      /\ \A k \in 1..n : handed'[k] = handed[k]
  BY <1>1, <1>2
<1>4. /\ Promise!Payload(e + 1).from = e + 1 + HeaderLength + ExtLength
      /\ Promise!Payload(e + 1).from + Promise!Payload(e + 1).size - 1 = t
  BY <1>1, SMTT(30) DEF Promise!Payload
<1>5. End' = t
  <2>1. handed' # <<>>
    BY <1>3
  <2>2. QED
    BY <1>3, <1>4, <2>1 DEF End, Promise!HandedEnd
<1>6. \A h : (Promise!Payload(h))' = Promise!Payload(h)
  BY <1>1 DEF Promise!Payload
<1>7. Ended(End)' = Ended(e) \cup {e + 1}
  <2>1. Ended(End)' = Ended(t)
    BY <1>1, <1>5 DEF Ended, Heads
  <2>2. QED
    BY <1>1, <2>1, EndedGrows, TypeFacts
<1>8. ASSUME NEW k \in 1..(n + 1) PROVE \E h \in Ended(End)' : handed'[k] = Promise!Payload(h)
  <2>1. CASE k \in 1..n
    <3>1. PICK h \in Ended(e) : handed[k] = Promise!Payload(h)
      BY <1>1, <1>3, <2>1 DEF HandedInv
    <3>2. handed'[k] = handed[k]
      BY <1>3, <2>1
    <3>3. h \in Ended(End)'
      BY <1>7
    <3>4. QED
      BY <3>1, <3>2, <3>3
  <2>2. CASE k = n + 1
    <3>1. e + 1 \in Ended(End)'
      BY <1>7
    <3>2. QED
      BY <1>3, <2>2, <3>1
  <2>3. QED
    BY <1>8, <2>1, <2>2
<1>9. ASSUME NEW h \in Ended(End)' PROVE \E k \in 1..(n + 1) : handed'[k] = Promise!Payload(h)
  <2>1. CASE h \in Ended(e)
    <3>1. PICK k \in 1..n : handed[k] = Promise!Payload(h)
      BY <1>1, <1>3, <2>1 DEF HandedInv
    <3>2. QED
      BY <1>3, <3>1
  <2>2. CASE h = e + 1
    BY <1>3, <2>2
  <2>3. QED
    BY <1>7, <1>9, <2>1, <2>2
<1>10. ASSUME NEW j \in 1..(n + 1), NEW k \in 1..(n + 1), j < k
       PROVE  handed'[j].from < handed'[k].from
  <2>1. CASE k \in 1..n
    <3>1. j \in 1..n
      BY <1>10, <2>1
    <3>2. QED
      BY <1>3, <1>10, <2>1, <3>1 DEF HandedInv
  <2>2. CASE k = n + 1
    <3>1. j \in 1..n
      BY <1>10, <2>2
    <3>2. PICK h \in Ended(e) : handed[j] = Promise!Payload(h)
      BY <1>1, <1>3, <3>1 DEF HandedInv
    <3>3. h \in Nat /\ h <= e
      <4>1. PICK z \in Nat : z = sections[h] /\ h <= z /\ z <= e /\ h \in Nat
        BY <3>2, SectionFacts, TypeFacts, SMTT(30) DEF Ended
      <4>2. QED
        BY <4>1
    <3>4. handed[j].from = h + HeaderLength + ExtLength
      BY <3>2 DEF Promise!Payload
    <3>5. QED
      BY <1>3, <1>4, <2>2, <3>1, <3>3, <3>4
  <2>3. QED
    BY <1>10, <2>1, <2>2
<1>11. QED
  BY <1>3, <1>6, <1>8, <1>9, <1>10 DEF HandedInv

(* parser_psi.h:11-13: the calls of on_payload, told from the stream alone. *)
THEOREM HandedInductive == Spec => []HandedInv
<1>1. Init => HandedInv
  <2>1. SUFFICES ASSUME Init PROVE HandedInv
    OBVIOUS
  <2>2. handed = <<>> /\ End = 0 /\ sections \in Streams
    BY <2>1 DEF Init, End, Promise!HandedEnd
  <2>3. Ended(0) = {}
    BY <2>2, SectionFacts DEF Ended
  <2>4. QED
    BY <2>2, <2>3 DEF HandedInv
<1>2. IInv /\ HandedInv /\ [Next]_vars => HandedInv'
  <2>1. SUFFICES ASSUME IInv, HandedInv, [Next]_vars, ~HandOn PROVE HandedInv'
    BY HandOnHanded
  <2>2. handed' = handed /\ sections' = sections
    BY <2>1 DEF Next, Receive, EndPut, vars
  <2>3. End' = End /\ Ended(End)' = Ended(End) /\ \A h : (Promise!Payload(h))' = Promise!Payload(h)
    BY <2>2 DEF End, Promise!HandedEnd, Ended, Heads, Promise!Payload
  <2>4. QED
    BY <2>1, <2>2, <2>3 DEF HandedInv
<1>3. QED
  BY <1>1, <1>2, Inductive, PTL DEF Spec

(* parser_psi.h:11-13: every call of on_payload is given the whole payload of a section. *)
THEOREM SectionsAreComplete == Spec => []CompleteSections
<1>1. HandedInv => CompleteSections
  BY DEF HandedInv, CompleteSections, Ended
<1>2. QED
  BY <1>1, HandedInductive, PTL

(* parser_psi.h:11-13, parser_psi.cpp:17-36: between two packets exactly the sections that *)
(* have arrived whole have been handed on, once and in order.                              *)
THEOREM HandedExactly == Spec => []HandedSoFar
<1>1. ASSUME IInv, HandedInv PROVE HandedSoFar
  <2>1. ASSUME ~parsing PROVE Ended(End) = Ended(arrived)
    <3>1. \A h \in Heads : sections[h] <= arrived <=> sections[h] <= End
      <4>1. TAKE h \in Heads
      <4>2. sections[h] \in Nat /\ End \in Nat /\ arrived \in Nat /\ End <= arrived
        BY <1>1, SectionFacts, TypeFacts
      <4>3. sections[h] <= arrived => sections[h] <= End
        BY <1>1, <2>1 DEF IInv, NothingWithheld, End
      <4>4. QED
        BY <4>2, <4>3
    <3>2. QED
      BY <3>1 DEF Ended
  <2>2. ASSUME ~parsing
        PROVE  {handed[k] : k \in DOMAIN handed} = {Promise!Payload(h) : h \in Ended(arrived)}
    BY <1>1, <2>1, <2>2 DEF HandedInv
  <2>3. QED
    BY <1>1, <2>2 DEF HandedSoFar, HandedInv, Ended
<1>2. QED
  BY <1>1, Inductive, HandedInductive, PTL
-----------------------------------------------------------------------------
(* The rest is about a parser that joins a stream anywhere, so that what it takes for a   *)
(* header may be any bytes, and about streams for which section_data cannot grow to the   *)
(* size at which size_t wraps.                                                            *)
NeverFull == StreamLength * MaxPayload < SizeModulus

JoinInv == /\ TypeOK
           /\ NeverFull => Len(section_data) <= arrived * MaxPayload

(* skip_padding_bytes stays inside section_data and never goes back. *)
LEMMA SkipStays ==
  ASSUME NEW l \in Nat, l = Len(section_data), NEW d \in 0..l
  PROVE  skip_padding_bytes(d) \in d..l
<1> DEFINE Stops(e) == /\ \A i \in d..(e - 1) : ByteAt(i) = Stuffing
                       /\ e < l => ByteAt(e) # Stuffing
           others   == {i \in d..(l - 1) : ByteAt(i) # Stuffing}
<1>1. skip_padding_bytes(d) = CHOOSE e \in d..l : Stops(e)
  BY DEF skip_padding_bytes
<1>2. \E e \in d..l : Stops(e)
  <2>1. CASE others = {}
    <3>1. l \in d..l /\ Stops(l)
      BY <2>1
    <3>2. QED
      BY <3>1
  <2>2. CASE others # {}
    <3>1. PICK e \in others : \A i \in others : e <= i
      <4>1. others \subseteq Nat
        OBVIOUS
      <4>2. QED
        BY <2>2, <4>1, LeastElement
    <3>2. e \in d..(l - 1) /\ ByteAt(e) # Stuffing
      OBVIOUS
    <3>3. \A i \in d..(e - 1) : ByteAt(i) = Stuffing
      <4>1. TAKE i \in d..(e - 1)
      <4>2. i \in d..(l - 1) /\ ~(e <= i)
        BY <3>2
      <4>3. QED
        BY <3>1, <4>2
    <3>4. QED
      BY <3>2, <3>3
  <2>3. QED
    BY <2>1, <2>2
<1>3. QED
  BY <1>1, <1>2

(* What the section_length field is taken for is a number. *)
LEMMA LengthIsNumber ==
  ASSUME sections \in Streams, NEW i PROVE section_length(i) \subseteq Nat
<1>1. ASSUME NEW h \in Heads PROVE sections[h] - h + 1 - HeaderLength \in Nat
  <2>1. PICK z \in Nat : z = sections[h] /\ z >= h + HeaderLength + ExtLength /\ h \in Nat
    BY SectionFacts
  <2>2. QED
    BY <2>1
<1>2. QED
  BY <1>1 DEF section_length

LEMMA JoinTypes ==
  ASSUME JoinInv
  PROVE  /\ sections \in Streams /\ arrived \in 0..StreamLength
         /\ section_data \in Seq(Bytes) /\ Len(section_data) \in Nat
         /\ consumed \in 0..Len(section_data)
         /\ handed \in Seq([from : Bytes, size : 0..(SizeModulus - 1)])
BY LenProperties DEF JoinInv, TypeOK

(* However large or small the length, the sum comes back to the end of the section. *)
LEMMA HandAdvances ==
  ASSUME JoinInv, NeverFull, HandOn
  PROVE  /\ consumed' \in (consumed + HeaderLength)..Len(section_data)
         /\ handed' \in Seq([from : Bytes, size : 0..(SizeModulus - 1)])
<1>1. PICK c \in Nat, l \in Nat :
        c = consumed /\ l = Len(section_data) /\ c <= l /\ l < SizeModulus
  <2>1. /\ arrived \in 0..StreamLength /\ Len(section_data) \in Nat
        /\ consumed \in 0..Len(section_data)
    BY JoinTypes
  <2>2. PICK a \in Nat, b \in Nat : a = arrived /\ StreamLength = a + b
    <3>1. StreamLength - arrived \in Nat /\ StreamLength = arrived + (StreamLength - arrived)
      BY <2>1
    <3>2. QED
      BY <2>1, <3>1
  <2>3. StreamLength * MaxPayload = a * MaxPayload + b * MaxPayload
    BY <2>2
  <2>4. PICK x \in Nat, y \in Nat : x = a * MaxPayload /\ y = b * MaxPayload
    OBVIOUS
  <2>5. Len(section_data) <= x /\ x + y < SizeModulus
    BY <2>1, <2>2, <2>3, <2>4 DEF JoinInv, NeverFull
  <2>6. Len(section_data) < SizeModulus
    BY <2>1, <2>4, <2>5
  <2>7. QED
    BY <2>1, <2>6
<1>2. PICK length \in section_length(c) :
        /\ Complete(length)
        /\ handed' = Append(handed,
             [from |-> IF c + HeaderLength + ExtLength < l
                       THEN ByteAt(c + HeaderLength + ExtLength) ELSE Stuffing,
              size |-> AsSize(length - ExtLength)])
        /\ consumed' = skip_padding_bytes(AsSize(c + HeaderLength + ExtLength
                                                  + AsSize(length - ExtLength)))
  BY <1>1 DEF HandOn
<1>3. length \in Nat /\ c + HeaderLength + length <= l
  BY <1>1, <1>2, LengthIsNumber, SMTT(30) DEF JoinInv, TypeOK, Complete, Available
<1>4. ExtLength < SizeModulus
  <2>1. PICK z \in Nat : z <= StreamLength /\ z >= 1 + HeaderLength + ExtLength
    <3>1. 1 \in Heads
      BY JoinTypes, SectionFacts
    <3>2. sections[1] \in 1..StreamLength /\ sections[1] >= 1 + HeaderLength + ExtLength
      BY <3>1, JoinTypes, SectionFacts
    <3>3. QED
      BY <3>2
  <2>2. QED
    BY <2>1
<1>5. PICK q \in Nat :
        /\ q = AsSize(length - ExtLength) /\ q < SizeModulus
        /\ AsSize(c + HeaderLength + ExtLength + q) = c + HeaderLength + length
  <2>1. CASE length >= ExtLength
    <3>1. AsSize(length - ExtLength) = length - ExtLength
      BY <1>1, <1>3, <2>1 DEF AsSize
    <3>2. c + HeaderLength + ExtLength + (length - ExtLength) = c + HeaderLength + length
      BY <1>3
    <3>3. AsSize(c + HeaderLength + length) = c + HeaderLength + length
      BY <1>1, <1>3 DEF AsSize
    <3>4. QED
      BY <1>1, <1>3, <2>1, <3>1, <3>2, <3>3
  <2>2. CASE length < ExtLength
    <3>1. AsSize(length - ExtLength) = length - ExtLength + SizeModulus
      BY <1>3, <2>2 DEF AsSize
    <3>2. c + HeaderLength + ExtLength + (length - ExtLength + SizeModulus)
            = c + HeaderLength + length + SizeModulus
      BY <1>3
    <3>3. AsSize(c + HeaderLength + length + SizeModulus) = c + HeaderLength + length
      BY <1>3 DEF AsSize
    <3>4. QED
      BY <1>3, <1>4, <2>2, <3>1, <3>2, <3>3
  <2>3. QED
    BY <1>3, <2>1, <2>2
<1>6. consumed' \in (c + HeaderLength)..l
  <2>1. PICK d \in 0..l : d = c + HeaderLength + length
    BY <1>1, <1>3
  <2>2. consumed' = skip_padding_bytes(d)
    BY <1>2, <1>5, <2>1
  <2>3. consumed' \in d..l
    BY <1>1, <2>2, SkipStays
  <2>4. QED
    BY <1>3, <2>1, <2>3
<1>7. (IF c + HeaderLength + ExtLength < l
       THEN ByteAt(c + HeaderLength + ExtLength) ELSE Stuffing) \in Bytes
  <2>1. Stuffing \in Bytes
    BY DEF Stuffing, Bytes, Pointer
  <2>2. ASSUME c + HeaderLength + ExtLength < l PROVE ByteAt(c + HeaderLength + ExtLength) \in Bytes
    <3>1. (c + HeaderLength + ExtLength) + 1 \in 1..l
      BY <2>2
    <3>2. section_data \in Seq(Bytes)
      BY DEF JoinInv, TypeOK
    <3>3. section_data[(c + HeaderLength + ExtLength) + 1] \in Bytes
      BY <1>1, <3>1, <3>2, ElementOfSeq
    <3>4. QED
      BY <3>3 DEF ByteAt
  <2>3. QED
    BY <2>1, <2>2
<1>8. handed' \in Seq([from : Bytes, size : 0..(SizeModulus - 1)])
  <2>1. PICK b \in Bytes :
          handed' = Append(handed, [from |-> b, size |-> AsSize(length - ExtLength)])
    BY <1>2, <1>7
  <2>2. handed' = Append(handed, [from |-> b, size |-> q]) /\ q \in 0..(SizeModulus - 1)
    BY <1>5, <2>1
  <2>3. handed \in Seq([from : Bytes, size : 0..(SizeModulus - 1)])
    BY DEF JoinInv, TypeOK
  <2>4. QED
    BY <2>2, <2>3
<1>9. QED
  BY <1>1, <1>6, <1>8

LEMMA JoinReceive ==
  ASSUME JoinInv, NEW k \in 0..MaxPayload, NEW m \in 0..MaxPayload, Receive(k, m)
  PROVE  JoinInv'
<1>1. /\ parsing' = TRUE /\ consumed' = 0
      /\ section_data' = section_data \o Brought(k, m)
      /\ arrived' = arrived + k /\ sections' = sections /\ handed' = handed
      /\ arrived + k <= StreamLength
      /\ m > 0 => k > 0
      /\ Brought(k, m) \in Seq(Bytes) /\ Len(Brought(k, m)) = k + m
  <2>1. k \in Nat /\ m \in Nat /\ arrived \in Nat
    BY JoinTypes
  <2>2. /\ parsing' = TRUE /\ consumed' = 0
        /\ section_data' = section_data \o Appended(Packet(k, m))
        /\ arrived' = arrived + k /\ sections' = sections /\ handed' = handed
        /\ arrived + k <= StreamLength
        /\ m > 0 => k > 0
    BY DEF Receive, Put, MaySend
  <2>3. /\ Appended(Packet(k, m)) = Brought(k, m)
        /\ Brought(k, m) \in Seq(Bytes) /\ Len(Brought(k, m)) = k + m
    BY <2>1, <2>2, BroughtFacts
  <2>4. QED
    BY <2>2, <2>3
<1>2. k + m <= MaxPayload
  <2>1. Len(Packet(k, m).payload) <= MaxPayload
    BY DEF Receive, MaySend
  <2>2. k \in Nat /\ m \in Nat /\ arrived \in Nat
    BY JoinTypes
  <2>3. Len(Packet(k, m).payload) \in Nat /\ Len(Packet(k, m).payload) >= k + m
    BY <2>2, PayloadHolds, Zenon
  <2>4. QED
    BY <2>1, <2>2, <2>3
<1>3. section_data \in Seq(Bytes) /\ Len(section_data) \in Nat /\ arrived \in Nat
  BY JoinTypes
<1>4. section_data' \in Seq(Bytes) /\ Len(section_data') = Len(section_data) + k + m
  <2>1. PICK new \in Seq(Bytes) : new = Brought(k, m) /\ Len(new) = k + m
    BY <1>1
  <2>2. section_data' = section_data \o new
    BY <1>1, <2>1
  <2>3. section_data' \in Seq(Bytes) /\ Len(section_data') = Len(section_data) + Len(new)
    BY <1>3, <2>2, ConcatProperties
  <2>4. QED
    BY <1>3, <2>1, <2>3
<1>5. TypeOK'
  BY <1>1, <1>3, <1>4 DEF JoinInv, TypeOK, Bytes
<1>6. ASSUME NeverFull PROVE Len(section_data') <= arrived' * MaxPayload
  <2>1. PICK a \in Nat, l \in Nat : a = arrived /\ l = Len(section_data) /\ l <= a * MaxPayload
    BY <1>3, <1>6 DEF JoinInv
  <2>2. k + m <= k * MaxPayload
    <3>1. CASE k = 0
      BY <1>1, <3>1
    <3>2. CASE k > 0
      BY <1>2, <3>2
    <3>3. QED
      BY <3>1, <3>2
  <2>3. (a + k) * MaxPayload = a * MaxPayload + k * MaxPayload
    OBVIOUS
  <2>4. PICK x \in Nat, y \in Nat : x = a * MaxPayload /\ y = k * MaxPayload
    OBVIOUS
  <2>5. l + k + m <= (a + k) * MaxPayload
    BY <2>1, <2>2, <2>3, <2>4
  <2>6. QED
    BY <1>1, <1>4, <2>1, <2>5
<1>7. QED
  BY <1>5, <1>6 DEF JoinInv, NeverFull

LEMMA JoinEndPut == ASSUME JoinInv, EndPut PROVE JoinInv'
<1>1. /\ section_data' = SubSeq(section_data, consumed + 1, Len(section_data))
      /\ consumed' = 0 /\ parsing' = FALSE
      /\ sections' = sections /\ arrived' = arrived /\ handed' = handed
  BY DEF EndPut, Erase
<1>2. PICK c \in Nat, l \in Nat : c = consumed /\ l = Len(section_data) /\ c <= l
  BY JoinTypes
<1>3. section_data' \in Seq(Bytes) /\ Len(section_data') = l - c
  <2>1. section_data \in Seq(Bytes)
    BY JoinTypes
  <2>2. ASSUME NEW d, d = SubSeq(section_data, c + 1, l)
        PROVE  d \in Seq(Bytes) /\ Len(d) = l - c
    BY <1>2, <2>1, <2>2
  <2>3. QED
    BY <1>1, <1>2, <2>2
<1>4. TypeOK'
  <2>1. consumed' \in 0..Len(section_data')
    BY <1>1, <1>2, <1>3
  <2>2. parsing' \in BOOLEAN
    BY <1>1
  <2>3. QED
    BY <1>1, <1>3, <2>1, <2>2 DEF JoinInv, TypeOK, Bytes
<1>5. NeverFull => Len(section_data') <= arrived' * MaxPayload
  <2>1. arrived \in Nat
    BY DEF JoinInv, TypeOK
  <2>2. PICK x \in Nat : x = arrived * MaxPayload
    BY <2>1
  <2>3. QED
    BY <1>1, <1>2, <1>3, <2>2 DEF JoinInv
<1>6. QED
  BY <1>4, <1>5 DEF JoinInv, NeverFull

JoinStart == /\ sections \in Streams
             /\ arrived \in 0..StreamLength
             /\ section_data = <<>>
             /\ consumed = 0
             /\ parsing = FALSE
             /\ handed = <<>>

(* The invariant of a parser that joins holds in every reachable state. *)
THEOREM JoinInductive == NeverFull /\ JoinSpec => [](NeverFull /\ JoinInv)
<1>1. JoinStart => JoinInv
  <2>1. SUFFICES ASSUME JoinStart PROVE JoinInv
    OBVIOUS
  <2>2. section_data \in Seq(Bytes) /\ Len(section_data) = 0 /\ handed = <<>>
    BY <2>1 DEF JoinStart
  <2>3. TypeOK
    <3>1. consumed \in 0..Len(section_data)
      BY <2>1, <2>2 DEF JoinStart
    <3>4. parsing \in BOOLEAN
      BY <2>1, Zenon DEF JoinStart
    <3>2. handed \in Seq([from : Bytes, size : 0..(SizeModulus - 1)])
      BY <2>2
    <3>3. QED
      BY <2>1, <2>2, <3>1, <3>4, <3>2 DEF JoinStart, TypeOK
  <2>4. arrived * MaxPayload >= 0
    BY <2>1 DEF JoinStart
  <2>5. QED
    BY <2>2, <2>3, <2>4 DEF JoinInv
<1>2. NeverFull /\ JoinInv /\ [Next]_vars => (NeverFull /\ JoinInv)'
  <2>1. SUFFICES ASSUME NeverFull, JoinInv, [Next]_vars PROVE JoinInv'
    BY DEF NeverFull
  <2>2. CASE UNCHANGED vars
    BY <2>1, <2>2 DEF vars, JoinInv, TypeOK, NeverFull, Bytes
  <2>3. ASSUME HandOn PROVE JoinInv'
    <3>1. /\ sections' = sections /\ arrived' = arrived /\ section_data' = section_data
          /\ parsing' = parsing
      BY <2>3 DEF HandOn
    <3>2. consumed' \in 0..Len(section_data)
      <4>1. consumed' \in (consumed + HeaderLength)..Len(section_data)
        BY <2>1, <2>3, HandAdvances
      <4>2. consumed \in Nat
        BY <2>1 DEF JoinInv, TypeOK
      <4>3. QED
        BY <4>1, <4>2
    <3>3. QED
      BY <2>1, <2>3, <3>1, <3>2, HandAdvances DEF JoinInv, TypeOK, NeverFull, Bytes
  <2>4. QED
    BY <2>1, <2>2, <2>3, JoinReceive, JoinEndPut DEF Next
<1>3. QED
  BY <1>1, <1>2, PTL DEF JoinSpec, JoinStart

(* parser_psi.cpp:9-36: wherever a parser joins its stream, and whatever it then takes for  *)
(* headers, consumed_bytes stays inside section_data.                                       *)
THEOREM JoinedStaysInside == NeverFull /\ JoinSpec => []TypeOK
<1>1. JoinInv => TypeOK
  BY DEF JoinInv
<1>2. QED
  BY <1>1, JoinInductive, PTL

(* parser_psi.cpp:17-36: wherever it joins, put() returns: a round of its loop that is     *)
(* followed by another has consumed something, and no more than there is.                  *)
LEMMA RoundAdvances ==
  ASSUME NeverFull, JoinInv, [Next]_vars
  PROVE  [parsing /\ parsing' => consumed' \in (consumed + HeaderLength)..Len(section_data)]_vars
<1>1. SUFFICES ASSUME Next, parsing, parsing'
               PROVE  consumed' \in (consumed + HeaderLength)..Len(section_data)
  OBVIOUS
<1>2. HandOn
  BY <1>1 DEF Next, Receive, Put, EndPut
<1>3. QED
  BY <1>2, HandAdvances

THEOREM JoinedRoundsAdvance == NeverFull /\ JoinSpec => RoundsAdvance
<1>1. NeverFull /\ JoinInv /\ [Next]_vars
        => [parsing /\ parsing' => consumed' \in (consumed + HeaderLength)..Len(section_data)]_vars
  BY RoundAdvances
<1>2. QED
  BY <1>1, JoinInductive, PTL DEF JoinSpec, RoundsAdvance

(* A stream read from its beginning: here section_data never holds more than the stream and *)
(* one packet, so that no assumption on its size is needed.                                 *)
THEOREM EveryRoundAdvances == Spec => RoundsAdvance
<1>1. ASSUME IInv, [Next]_vars
      PROVE  [parsing /\ parsing' => consumed' \in (consumed + HeaderLength)..Len(section_data)]_vars
  <2>1. SUFFICES ASSUME Next, parsing, parsing'
                 PROVE  consumed' \in (consumed + HeaderLength)..Len(section_data)
    BY <1>1
  <2>2. HandOn
    BY <2>1 DEF Next, Receive, Put, EndPut
  <2>3. PICK t \in Nat :
          /\ t <= arrived /\ t >= End + 1 + HeaderLength + ExtLength
          /\ consumed' = skip_padding_bytes(consumed + (t - End))
    BY <1>1, <2>2, HandFacts
  <2>4. PICK c \in Nat, l \in Nat, n \in Nat :
          /\ c = consumed /\ l = Len(section_data) /\ n = t - End
          /\ n >= HeaderLength /\ c + n <= l
    <3>1. /\ consumed \in Nat /\ Len(section_data) \in Nat /\ arrived \in Nat /\ End \in Nat
          /\ Len(section_data) - consumed >= arrived - End
      BY <1>1, TypeFacts DEF Left, Available
    <3>2. t - End \in Nat /\ t - End >= HeaderLength
      BY <2>3, <3>1
    <3>3. consumed + (t - End) <= Len(section_data)
      BY <2>3, <3>1
    <3>4. QED
      BY <3>1, <3>2, <3>3
  <2>5. PICK d \in 0..l : d = c + n
    BY <2>4
  <2>6. consumed' \in d..l
    BY <2>3, <2>4, <2>5, SkipStays
  <2>7. QED
    BY <2>4, <2>5, <2>6
<1>2. QED
  BY <1>1, Inductive, PTL DEF Spec, RoundsAdvance
=============================================================================
