-------------------------- MODULE PacketizerProofs --------------------------
(***************************************************************************)
(* The packetizer's invariants, and that it implements TsFraming, for every *)
(* input, every buffer of at least one packet and every way of reading.     *)
(***************************************************************************)
EXTENDS PrefixedStream, LeastNumbers, SequenceTheorems

USE SizesAssumption

(* packetizer.cpp:11 computes the place of the next read from data_storage.data(), *)
(* not from input_buffer.data: the two must agree whenever main.cpp asks.          *)
RewoundWhenDepleted == is_depleted => data = 0

(* packetizer.cpp:25-34: the packet that get() returned is the next one of the input, *)
(* although it is parsed only after the buffer has moved on.                          *)
PendingIsNext ==
  packet # NoPacket => Framing!IsNextStart(packet.start, Framing!NextFree)

(* The inductive invariant.  LiveBytesInOrder alone is not inductive: that a read    *)
(* lands behind the live bytes takes RewoundWhenDepleted, and that a packet got is   *)
(* the next of the input takes HeadIsSync and NoSyncByteLost.                        *)
IInv == /\ TypeOK
        /\ LiveBytesInOrder
        /\ HeadIsSync
        /\ RewoundWhenDepleted
        /\ DamageConfinedToTail
        /\ NoSyncByteLost
        /\ PendingIsNext

(* What sync() leaves behind, given live bytes that are the last n of the f bytes read. *)
LEMMA SyncLemma ==
  ASSUME syncBytes \subseteq 1..StreamLength,
         NEW bytes \in [Cells -> Positions], NEW from \in Nat, NEW n \in Nat, NEW f \in Nat,
         from + n <= Capacity, n <= f,
         \A i \in 0..(n - 1) : bytes[from + i] = f - n + 1 + i,
         Sync(bytes, from, n)
  PROVE  /\ size' \in 0..n
         /\ data' \in 0..Capacity
         /\ data' + size' <= Capacity
         /\ data_storage' \in [Cells -> Positions]
         /\ \A i \in 0..(size' - 1) : data_storage'[data' + i] = f - size' + 1 + i
         /\ size' > 0 => data_storage'[data'] \in syncBytes
         /\ size' < PacketSize => data' = 0
         /\ \A i \in Cells : (size' < PacketSize /\ i < size') \/ data_storage'[i] = bytes[i]
         /\ \A q \in syncBytes : q >= f - n + 1 => q >= f - size' + 1
<1>1. PICK skip \in 0..n :
        /\ \A i \in 0..(skip - 1) : bytes[from + i] \notin syncBytes
        /\ skip < n => bytes[from + skip] \in syncBytes
        /\ size' = n - skip
        /\ \/ /\ n - skip < PacketSize
              /\ data' = 0
              /\ data_storage' = [i \in Cells |-> IF i < n - skip THEN bytes[from + skip + i]
                                                                  ELSE bytes[i]]
           \/ /\ n - skip >= PacketSize
              /\ data' = from + skip
              /\ data_storage' = bytes
  BY SMT DEF Sync, IsSkip, Settle, Moved, is_depleted
<1>2. \A q \in syncBytes : q >= f - n + 1 => q >= f - size' + 1
  <2>1. SUFFICES ASSUME NEW q \in syncBytes, q >= f - n + 1, q < f - size' + 1
                 PROVE  FALSE
    BY <1>1
  <2>2. PICK i \in 0..(skip - 1) : q = f - n + 1 + i
    <3>1. q - (f - n + 1) \in 0..(skip - 1)
      BY <1>1, <2>1
    <3>2. q = f - n + 1 + (q - (f - n + 1))
      BY <2>1
    <3>3. QED
      BY <3>1, <3>2
  <2>3. bytes[from + i] = q
    <3>1. i \in 0..(n - 1)
      BY <1>1, <2>2
    <3>2. QED
      BY <2>2, <3>1
  <2>4. QED
    BY <1>1, <2>2, <2>3
<1>3. \A i \in 0..(n - skip - 1) : bytes[from + skip + i] = f - (n - skip) + 1 + i
  <2>1. TAKE i \in 0..(n - skip - 1)
  <2>2. skip + i \in 0..(n - 1)
    BY <1>1
  <2>3. bytes[from + (skip + i)] = f - n + 1 + (skip + i)
    BY <2>2
  <2>4. QED
    BY <1>1, <2>3
<1>4. CASE n - skip < PacketSize
  <2>1. /\ data' = 0
        /\ data_storage' = [i \in Cells |-> IF i < n - skip THEN bytes[from + skip + i]
                                                            ELSE bytes[i]]
    BY <1>1, <1>4
  <2>2. data_storage' \in [Cells -> Positions]
    <3>1. \A i \in Cells : i < n - skip => from + skip + i \in Cells
      BY <1>1 DEF Cells
    <3>2. QED
      BY <2>1, <3>1
  <2>3. \A i \in 0..(n - skip - 1) : i \in Cells
    BY <1>1 DEF Cells
  <2>4. \A i \in 0..(size' - 1) : data_storage'[data' + i] = f - size' + 1 + i
    BY <1>1, <1>3, <2>1, <2>3
  <2>5. size' > 0 => data_storage'[data'] \in syncBytes
    BY <1>1, <2>1, <2>3
  <2>6. \A i \in Cells : (size' < PacketSize /\ i < size') \/ data_storage'[i] = bytes[i]
    BY <1>1, <1>4, <2>1
  <2>7. size' \in 0..n /\ data' \in 0..Capacity /\ data' + size' <= Capacity
    BY <1>1, <1>4, <2>1
  <2>8. size' < PacketSize => data' = 0
    BY <2>1
  <2>9. QED
    BY <1>2, <2>2, <2>4, <2>5, <2>6, <2>7, <2>8
<1>5. CASE n - skip >= PacketSize
  <2>1. data' = from + skip /\ data_storage' = bytes
    BY <1>1, <1>5
  <2>2. QED
    BY <1>1, <1>2, <1>3, <1>5, <2>1
<1>6. QED
  BY <1>1, <1>4, <1>5

(* The mapped variable of TsFraming, and what a delivery adds to it. *)
LEMMA StartsType ==
  ASSUME TypeOK
  PROVE  /\ Starts \in Seq(Positions)
         /\ Len(Starts) = Len(delivered)
         /\ Framing!NextFree \in Nat
         /\ Framing!NextFree > 0
<1>1. /\ delivered \in Seq(Deliveries)
      /\ DOMAIN delivered = 1..Len(delivered)
      /\ Len(delivered) \in Nat
      /\ \A k \in 1..Len(delivered) : delivered[k] \in Deliveries
  BY DEF TypeOK
<1>2. Starts = [k \in 1..Len(delivered) |-> delivered[k].start]
  BY <1>1 DEF Starts
<1>3. \A k \in 1..Len(delivered) : delivered[k].start \in Positions
  BY <1>1 DEF Deliveries
<1>4. Starts \in Seq(Positions) /\ Len(Starts) = Len(delivered)
  BY <1>1, <1>2, <1>3
<1>5. Starts # <<>> => Starts[Len(Starts)] \in Positions
  BY <1>4
<1>6. QED
  BY <1>4, <1>5 DEF Framing!NextFree, Positions

LEMMA StartsAppend ==
  ASSUME TypeOK, NEW d \in Deliveries, delivered' = Append(delivered, d)
  PROVE  /\ Starts' = Append(Starts, d.start)
         /\ Framing!NextFree' = d.start + PacketSize
<1>1. /\ delivered \in Seq(Deliveries)
      /\ Len(delivered) \in Nat
      /\ DOMAIN delivered' = 1..(Len(delivered) + 1)
      /\ \A k \in 1..Len(delivered) : delivered'[k] = delivered[k]
      /\ delivered'[Len(delivered) + 1] = d
  BY DEF TypeOK
<1>2. /\ Starts = [k \in 1..Len(delivered) |-> delivered[k].start]
      /\ Starts' = [k \in 1..(Len(delivered) + 1) |-> delivered'[k].start]
  BY <1>1 DEF Starts
<1>3. Starts \in Seq(Positions) /\ Len(Starts) = Len(delivered)
  BY StartsType
<1>4. Starts' = Append(Starts, d.start)
  BY <1>1, <1>2, <1>3
<1>5. /\ Starts' # <<>>
      /\ Len(Starts') = Len(delivered) + 1
      /\ Starts'[Len(delivered) + 1] = d.start
  BY <1>1, <1>3, <1>4, SMTT(30) DEF Deliveries
<1>6. QED
  BY <1>4, <1>5 DEF Framing!NextFree

LEMMA InitIInv == Init => IInv
<1>1. SUFFICES ASSUME Init PROVE IInv
  OBVIOUS
<1>2. TypeOK
  BY <1>1 DEF Init, TypeOK, Cells, Positions, Packets, NoPacket
<1>3. Starts = <<>>
  BY <1>1 DEF Init, Starts
<1>4. NoSyncByteLost
  BY <1>1, <1>3 DEF Init, NoSyncByteLost, Resume, LiveFrom, Framing!NextFree
<1>5. QED
  BY <1>1, <1>2, <1>4 DEF Init, IInv, LiveBytesInOrder, HeadIsSync, RewoundWhenDepleted,
       DamageConfinedToTail, PendingIsNext

(* A read: the new bytes join the live ones, and sync() drops what is no packet. *)
LEMMA ReadIInv == IInv /\ Read => IInv'
<1>1. SUFFICES ASSUME IInv, Read PROVE IInv'
  OBVIOUS
<1>2. PICK n \in 0..StreamLength : Fill(n)
  BY <1>1 DEF Read
<1> DEFINE bytes == Filled(n)
<1>3. /\ is_depleted /\ packet = NoPacket /\ data = 0
      /\ n <= Capacity - size /\ fed + n <= StreamLength /\ fed' = fed + n
      /\ Sync(bytes, data, size + n)
      /\ syncBytes' = syncBytes /\ packet' = packet /\ delivered' = delivered
  BY <1>1, <1>2 DEF Read, Fill, Room, Confirmed, IInv, RewoundWhenDepleted
<1>4. /\ syncBytes \subseteq 1..StreamLength /\ fed \in 0..StreamLength
      /\ size \in 0..Capacity /\ data \in Nat /\ data_storage \in [Cells -> Positions]
      /\ \A i \in 0..(size - 1) : data_storage[i] = fed - size + 1 + i
  BY <1>1, <1>3 DEF IInv, TypeOK, LiveBytesInOrder, Positions
<1>5. /\ Framing!NextFree \in Nat /\ Framing!NextFree > 0
      /\ Framing!NextFree <= fed - size + 1
      /\ \A q \in syncBytes : q >= Framing!NextFree => q >= fed - size + 1
  BY <1>1, <1>3, StartsType DEF IInv, NoSyncByteLost, Resume, LiveFrom
<1>6. bytes \in [Cells -> Positions]
  BY <1>3, <1>4 DEF Cells, Positions, Filled
<1>7. \A i \in 0..(size + n - 1) : bytes[data + i] = (fed + n) - (size + n) + 1 + i
  BY <1>3, <1>4 DEF Cells, Filled
<1>8. PICK b \in [Cells -> Positions], m \in Nat, f \in Nat :
         /\ b = bytes /\ m = size + n /\ f = fed + n
  BY <1>3, <1>4, <1>6
<1>9. /\ data + m <= Capacity /\ m <= f
      /\ Sync(b, data, m)
      /\ \A i \in 0..(m - 1) : b[data + i] = f - m + 1 + i
  <2>1. data + m <= Capacity /\ m <= f
    BY <1>3, <1>4, <1>5, <1>8
  <2>2. Sync(b, data, m)
    BY <1>3, <1>8
  <2>3. \A i \in 0..(m - 1) : b[data + i] = f - m + 1 + i
    <3>1. m - 1 = size + n - 1 /\ f - m + 1 = (fed + n) - (size + n) + 1
      BY <1>4, <1>8
    <3>2. QED
      BY <1>7, <1>8, <3>1
  <2>4. QED
    BY <2>1, <2>2, <2>3
<1>10. f - m + 1 = fed - size + 1 /\ f <= StreamLength /\ fed' = f
  BY <1>3, <1>4, <1>8
<1> HIDE DEF bytes
<1>11. /\ size' \in 0..m
       /\ data' \in 0..Capacity
       /\ data' + size' <= Capacity
       /\ data_storage' \in [Cells -> Positions]
       /\ \A i \in 0..(size' - 1) : data_storage'[data' + i] = f - size' + 1 + i
       /\ size' > 0 => data_storage'[data'] \in syncBytes
       /\ size' < PacketSize => data' = 0
       /\ \A i \in Cells : (size' < PacketSize /\ i < size') \/ data_storage'[i] = b[i]
       /\ \A q \in syncBytes : q >= f - m + 1 => q >= f - size' + 1
  <2>1. PICK from \in Nat : from = data
    BY <1>4
  <2>2. /\ from + m <= Capacity /\ m <= f /\ Sync(b, from, m)
        /\ \A i \in 0..(m - 1) : b[from + i] = f - m + 1 + i
    BY <1>9, <2>1
  <2>3. syncBytes \subseteq 1..StreamLength
    BY <1>4
  <2>4. QED
    BY <2>1, <2>2, <2>3, SyncLemma, ZenonT(30)
<1>12. PICK s \in 0..m : s = size'
  BY <1>11
<1>13. TypeOK'
  <2>1. s \in 0..Capacity /\ f \in Positions
    BY <1>4, <1>9, <1>10 DEF Positions
  <2>2. QED
    BY <1>1, <1>3, <1>10, <1>11, <1>12, <2>1 DEF IInv, TypeOK, Packets, Deliveries
<1>14. Resume' = Framing!NextFree
  BY <1>3 DEF Resume, Framing!NextFree, Starts, NoPacket
<1>15. NoSyncByteLost'
  <2>1. Framing!NextFree <= f - s + 1
    BY <1>5, <1>9, <1>10, <1>4
  <2>2. ASSUME NEW q \in syncBytes, q >= Framing!NextFree PROVE q >= f - s + 1
    BY <1>5, <1>10, <1>11, <1>12, <2>2
  <2>3. QED
    BY <1>3, <1>10, <1>12, <1>14, <2>1, <2>2 DEF NoSyncByteLost, LiveFrom
<1>16. LiveBytesInOrder' /\ HeadIsSync' /\ RewoundWhenDepleted'
  BY <1>3, <1>10, <1>11 DEF LiveBytesInOrder, HeadIsSync, RewoundWhenDepleted, is_depleted
<1>17. DamageConfinedToTail' /\ PendingIsNext'
  BY <1>3 DEF DamageConfinedToTail, PendingIsNext, NoPacket
<1>18. QED
  BY <1>13, <1>15, <1>16, <1>17 DEF IInv

(* get(): the packet leaves the front of the live bytes and they are synchronised anew. *)
LEMMA GetIInv == IInv /\ Get => IInv'
<1>1. SUFFICES ASSUME IInv, Get PROVE IInv'
  OBVIOUS
<1>2. /\ size >= PacketSize /\ packet = NoPacket
      /\ packet' = [start |-> data_storage[data], data |-> data]
      /\ Sync(data_storage, data + PacketSize, size - PacketSize)
      /\ syncBytes' = syncBytes /\ fed' = fed /\ delivered' = delivered
  BY <1>1 DEF Get, is_depleted, IInv, TypeOK
<1>3. /\ syncBytes \subseteq 1..StreamLength /\ fed \in 0..StreamLength
      /\ size \in 0..Capacity /\ data \in 0..Capacity /\ data + size <= Capacity
      /\ data_storage \in [Cells -> Positions]
      /\ \A i \in 0..(size - 1) : data_storage[data + i] = fed - size + 1 + i
      /\ size > 0 => data_storage[data] \in syncBytes
  BY <1>1 DEF IInv, TypeOK, LiveBytesInOrder, HeadIsSync, Positions
<1>4. /\ Framing!NextFree \in Nat /\ Framing!NextFree > 0
      /\ Framing!NextFree <= fed - size + 1
      /\ \A q \in syncBytes : q >= Framing!NextFree => q >= fed - size + 1
  BY <1>1, <1>2, StartsType DEF IInv, NoSyncByteLost, Resume, LiveFrom
<1>5. data_storage[data] = fed - size + 1
  <2>1. 0 \in 0..(size - 1)
    BY <1>2, <1>3
  <2>2. data_storage[data + 0] = fed - size + 1 + 0
    BY <1>3, <2>1
  <2>3. QED
    BY <1>3, <2>2
<1>6. \A i \in 0..(size - PacketSize - 1) :
         data_storage[(data + PacketSize) + i] = fed - (size - PacketSize) + 1 + i
  <2>1. TAKE i \in 0..(size - PacketSize - 1)
  <2>2. PacketSize + i \in 0..(size - 1)
    BY <1>2, <1>3
  <2>3. data_storage[data + (PacketSize + i)] = fed - size + 1 + (PacketSize + i)
    BY <1>3, <2>2
  <2>4. QED
    BY <1>2, <1>3, <2>3
<1>7. /\ size - PacketSize \in Nat /\ data + PacketSize \in Nat /\ fed \in Nat
      /\ (data + PacketSize) + (size - PacketSize) <= Capacity
      /\ size - PacketSize <= fed
  BY <1>2, <1>3, <1>4
<1>8. /\ size' \in 0..(size - PacketSize)
      /\ data' \in 0..Capacity
      /\ data' + size' <= Capacity
      /\ data_storage' \in [Cells -> Positions]
      /\ \A i \in 0..(size' - 1) : data_storage'[data' + i] = fed - size' + 1 + i
      /\ size' > 0 => data_storage'[data'] \in syncBytes
      /\ size' < PacketSize => data' = 0
      /\ \A i \in Cells : (size' < PacketSize /\ i < size') \/ data_storage'[i] = data_storage[i]
      /\ \A q \in syncBytes : q >= fed - (size - PacketSize) + 1 => q >= fed - size' + 1
  BY <1>2, <1>3, <1>6, <1>7, SyncLemma
<1>9. packet' \in Packets /\ packet' # NoPacket
  BY <1>2, <1>3, <1>4, <1>5 DEF Packets, NoPacket, Positions
<1>10. TypeOK'
  BY <1>1, <1>2, <1>3, <1>7, <1>8, <1>9
     DEF IInv, TypeOK, Positions, Cells, Deliveries, PayloadAt
<1>11. /\ packet'.start = fed - size + 1 /\ packet'.data = data
       /\ Resume' = fed - size + 1 + PacketSize
  BY <1>2, <1>5, <1>9 DEF Resume
<1>12. NoSyncByteLost'
  <2>1. Resume' <= fed - size' + 1
    <3>1. PICK s \in 0..(size - PacketSize) : s = size'
      BY <1>8
    <3>2. fed - size + 1 + PacketSize <= fed - s + 1
      <4>1. fed \in Int /\ size \in Int /\ s \in Int /\ s <= size - PacketSize
        BY <1>3, <3>1
      <4>2. QED
        BY <4>1
    <3>3. QED
      BY <1>11, <3>1, <3>2
  <2>2. ASSUME NEW q \in syncBytes, q >= Resume' PROVE q >= fed - size' + 1
    <3>1. fed - (size - PacketSize) + 1 = Resume'
      BY <1>2, <1>3, <1>11
    <3>2. QED
      BY <1>8, <2>2, <3>1
  <2>3. QED
    BY <1>2, <2>1, <2>2 DEF NoSyncByteLost, LiveFrom
<1>13. LiveBytesInOrder' /\ HeadIsSync' /\ RewoundWhenDepleted'
  BY <1>2, <1>8 DEF LiveBytesInOrder, HeadIsSync, RewoundWhenDepleted, is_depleted
<1>14. DamageConfinedToTail'
  <2>1. packet'.data + PacketSize <= Capacity
    BY <1>2, <1>3, <1>11
  <2>2. ASSUME NEW i \in PayloadAt
        PROVE  \/ data_storage'[packet'.data + i] = packet'.start + i
               \/ size' < PacketSize /\ packet'.data + i < size'
    <3>1. data + i \in Cells /\ i \in 0..(size - 1)
      BY <1>2, <1>3 DEF Cells, PayloadAt
    <3>2. QED
      BY <1>3, <1>8, <1>11, <3>1
  <2>3. QED
    BY <2>1, <2>2 DEF DamageConfinedToTail, is_depleted, PayloadAt
<1>15. PendingIsNext'
  <2>1. Framing!NextFree' = Framing!NextFree
    BY <1>2 DEF Framing!NextFree, Starts
  <2>2. QED
    BY <1>2, <1>3, <1>4, <1>5, <1>11, <2>1 DEF PendingIsNext, Framing!IsNextStart
<1>16. QED
  BY <1>10, <1>12, <1>13, <1>14, <1>15 DEF IInv

(* put(): the packet got is what TsFraming hands on next, so what remains to be framed *)
(* begins where it did.                                                                *)
LEMMA PutIInv == IInv /\ Put => IInv'
<1>1. SUFFICES ASSUME IInv, Put PROVE IInv'
  OBVIOUS
<1> DEFINE d == [start   |-> packet.start,
                 payload |-> [i \in PayloadAt |-> data_storage[packet.data + i]]]
<1>2. /\ packet # NoPacket /\ packet' = NoPacket
      /\ delivered' = Append(delivered, d)
      /\ syncBytes' = syncBytes /\ fed' = fed /\ data_storage' = data_storage
      /\ data' = data /\ size' = size
  BY <1>1 DEF Put
<1>3. /\ packet \in Packets /\ data_storage \in [Cells -> Positions]
      /\ packet.data + PacketSize <= Capacity
  BY <1>1, <1>2 DEF IInv, TypeOK, DamageConfinedToTail
<1>4. d \in Deliveries
  <2>1. \A i \in PayloadAt : packet.data + i \in Cells
    BY <1>3 DEF PayloadAt, Cells, Packets
  <2>2. QED
    BY <1>3, <2>1 DEF Deliveries, Packets
<1>5. TypeOK'
  <2>1. delivered' \in Seq(Deliveries)
    BY <1>1, <1>2, <1>4 DEF IInv, TypeOK
  <2>2. NoPacket \in Packets
    BY DEF NoPacket, Packets, Positions
  <2>3. QED
    BY <1>1, <1>2, <2>1, <2>2 DEF IInv, TypeOK, Positions, Cells
<1>6. Framing!NextFree' = packet.start + PacketSize
  BY <1>1, <1>2, <1>4, StartsAppend DEF IInv
<1>7. NoSyncByteLost'
  <2>1. Resume' = Resume /\ LiveFrom' = LiveFrom
    BY <1>2, <1>6 DEF Resume, LiveFrom
  <2>2. QED
    BY <1>1, <1>2, <2>1 DEF IInv, NoSyncByteLost
<1>8. LiveBytesInOrder' /\ HeadIsSync' /\ RewoundWhenDepleted'
  BY <1>1, <1>2 DEF IInv, LiveBytesInOrder, HeadIsSync, RewoundWhenDepleted, is_depleted
<1>9. DamageConfinedToTail' /\ PendingIsNext'
  BY <1>2 DEF DamageConfinedToTail, PendingIsNext
<1>10. QED
  BY <1>5, <1>7, <1>8, <1>9 DEF IInv

LEMMA StutterIInv == IInv /\ UNCHANGED vars => IInv'
<1>1. SUFFICES ASSUME IInv, UNCHANGED vars PROVE IInv'
  OBVIOUS
<1>2. /\ syncBytes' = syncBytes /\ fed' = fed /\ data_storage' = data_storage
      /\ data' = data /\ size' = size /\ packet' = packet /\ delivered' = delivered
  BY <1>1 DEF vars
<1>3. Starts' = Starts /\ Framing!NextFree' = Framing!NextFree
  BY <1>2 DEF Starts, Framing!NextFree
<1>4. TypeOK'
  BY <1>1, <1>2 DEF IInv, TypeOK
<1>5. LiveBytesInOrder' /\ HeadIsSync' /\ RewoundWhenDepleted' /\ DamageConfinedToTail'
  BY <1>1, <1>2 DEF IInv, LiveBytesInOrder, HeadIsSync, RewoundWhenDepleted,
     DamageConfinedToTail, is_depleted
<1>6. NoSyncByteLost' /\ PendingIsNext'
  BY <1>1, <1>2, <1>3 DEF IInv, NoSyncByteLost, Resume, LiveFrom, PendingIsNext,
     Framing!IsNextStart
<1>7. QED
  BY <1>4, <1>5, <1>6 DEF IInv

(* The strengthened invariant holds in every reachable state. *)
THEOREM Inductive == Spec => []IInv
<1>1. Init => IInv
  BY InitIInv
<1>2. IInv /\ [Next]_vars => IInv'
  BY ReadIInv, GetIInv, PutIInv, StutterIInv DEF Next
<1>3. QED
  BY <1>1, <1>2, PTL DEF Spec

(* packetizer.cpp: input_buffer never leaves data_storage, whatever is read and whatever *)
(* it contains.                                                                          *)
THEOREM TypeCorrect == Spec => []TypeOK
<1>1. IInv => TypeOK
  BY DEF IInv
<1>2. QED
  BY <1>1, Inductive, PTL

(* packetizer.cpp:10-19: no read of main.cpp lands on bytes still to be parsed, and the  *)
(* live bytes are the last ones read, without a gap.                                     *)
THEOREM BytesStayInOrder == Spec => []LiveBytesInOrder
<1>1. IInv => LiveBytesInOrder
  BY DEF IInv
<1>2. QED
  BY <1>1, Inductive, PTL

(* ts_packet.cpp:11: the assertion that a packet begins with the sync byte never fails.  *)
THEOREM EveryPacketBeginsWithSync == Spec => []HeadIsSync
<1>1. IInv => HeadIsSync
  BY DEF IInv
<1>2. QED
  BY <1>1, Inductive, PTL

(* packetizer.cpp:36-47: resynchronisation never drops a sync byte that could begin a    *)
(* packet.                                                                               *)
THEOREM ResyncLosesNothing == Spec => []NoSyncByteLost
<1>1. IInv => NoSyncByteLost
  BY DEF IInv
<1>2. QED
  BY <1>1, Inductive, PTL

(* packetizer.cpp:25-34: the packet pending between get() and put() can be damaged only   *)
(* in the cells that the bytes moved to the front of the storage now fill.               *)
THEOREM OnlyTheTailDamages == Spec => []DamageConfinedToTail
<1>1. IInv => DamageConfinedToTail
  BY DEF IInv
<1>2. QED
  BY <1>1, Inductive, PTL
-----------------------------------------------------------------------------
(* A step of the packetizer is an arrival, an emission or nothing to TsFraming. *)
LEMMA StepImplements == IInv /\ [Next]_vars => [Framing!Next]_(Framing!vars)
<1>1. SUFFICES ASSUME IInv, [Next]_vars PROVE [Framing!Next]_(Framing!vars)
  OBVIOUS
<1>2. CASE Read
  <2>1. PICK n \in 0..StreamLength : Fill(n)
    BY <1>2 DEF Read
  <2>2. /\ fed' = fed + n /\ fed + n <= StreamLength
        /\ syncBytes' = syncBytes /\ delivered' = delivered
    BY <2>1 DEF Fill
  <2>3. fed + n \in fed..StreamLength
    BY <1>1, <2>2 DEF IInv, TypeOK, Positions
  <2>4. Framing!Arrive
    BY <2>2, <2>3 DEF Framing!Arrive, Starts
  <2>5. QED
    BY <2>4 DEF Framing!Next
<1>3. CASE Get
  BY <1>3 DEF Get, Framing!vars, Starts
<1>4. CASE Put
  <2> DEFINE d == [start   |-> packet.start,
                   payload |-> [i \in PayloadAt |-> data_storage[packet.data + i]]]
  <2>1. /\ packet # NoPacket /\ delivered' = Append(delivered, d)
        /\ syncBytes' = syncBytes /\ fed' = fed
    BY <1>4 DEF Put
  <2>2. Framing!IsNextStart(packet.start, Framing!NextFree)
    BY <1>1, <2>1 DEF IInv, PendingIsNext
  <2>3. packet.start \in 1..StreamLength
    BY <1>1, <2>2 DEF IInv, TypeOK, Framing!IsNextStart
  <2>4. packet.start + PacketSize - 1 <= fed
    BY <1>1, <2>1, <2>3 DEF IInv, TypeOK, NoSyncByteLost, Resume, LiveFrom, Positions
  <2>5. d \in Deliveries
    <3>1. /\ packet \in Packets /\ data_storage \in [Cells -> Positions]
          /\ packet.data + PacketSize <= Capacity
      BY <1>1, <2>1 DEF IInv, TypeOK, DamageConfinedToTail
    <3>2. \A i \in PayloadAt : packet.data + i \in Cells
      BY <3>1 DEF PayloadAt, Cells, Packets
    <3>3. QED
      BY <3>1, <3>2 DEF Deliveries, Packets
  <2>6. Starts' = Append(Starts, packet.start)
    BY <1>1, <2>1, <2>5, StartsAppend DEF IInv
  <2>7. Framing!Emit
    BY <2>1, <2>2, <2>3, <2>4, <2>6 DEF Framing!Emit
  <2>8. QED
    BY <2>7 DEF Framing!Next
<1>5. CASE UNCHANGED vars
  BY <1>5 DEF vars, Framing!vars, Starts
<1>6. QED
  BY <1>1, <1>2, <1>3, <1>4, <1>5 DEF Next

(* packetizer.cpp:10-47: the packets handed to the demuxer are those that TsFraming       *)
(* defines on the input, whatever the size of the buffer and of the reads.               *)
THEOREM ImplementsFraming == Spec => FramingSpec
<1>1. Init => Framing!Init
  BY DEF Init, Framing!Init, Starts
<1>2. QED
  BY <1>1, StepImplements, Inductive, PTL DEF Spec, FramingSpec, Framing!Spec
-----------------------------------------------------------------------------
(* main.cpp:77-88: what is still to be framed at the end of the input is in the buffer, *)
(* and there are fewer bytes there than a packet has.                                   *)
THEOREM NothingIsLeft == Spec => []EndLeavesNothing
<1>1. ASSUME IInv PROVE EndLeavesNothing
  <2>1. SUFFICES ASSUME fed = StreamLength, is_depleted, packet = NoPacket,
                        NEW h \in syncBytes, Framing!IsNextStart(h, Framing!NextFree)
                 PROVE  h + PacketSize - 1 > StreamLength
    BY DEF EndLeavesNothing
  <2>2. size \in Nat /\ size < PacketSize /\ h \in Nat
    BY <1>1, <2>1 DEF IInv, TypeOK, is_depleted
  <2>3. h >= fed - size + 1
    BY <1>1, <2>1 DEF IInv, NoSyncByteLost, Resume, LiveFrom, Framing!IsNextStart
  <2>4. QED
    BY <2>1, <2>2, <2>3
<1>2. QED
  BY <1>1, Inductive, PTL
-----------------------------------------------------------------------------
(* The input determines its packets: two framings agree as far as both go. *)
LEMMA FramingsAgree ==
  ASSUME syncBytes \subseteq Nat, NEW s \in Seq(Nat), NEW t \in Seq(Nat),
         Framing!IsFraming(s), Framing!IsFraming(t),
         NEW n \in Nat, n <= Len(s), n <= Len(t)
  PROVE  \A k \in 1..n : s[k] = t[k]
<1> DEFINE apart == {k \in 1..n : s[k] # t[k]}
<1>1. SUFFICES ASSUME apart # {} PROVE FALSE
  OBVIOUS
<1>2. PICK k \in apart : \A j \in apart : k <= j
  <2>1. apart \subseteq Nat
    OBVIOUS
  <2>2. QED
    BY <1>1, <2>1, LeastElement
<1>3. k \in 1..n /\ k \in DOMAIN s /\ k \in DOMAIN t
  OBVIOUS
<1>4. Framing!Behind(s, k) = Framing!Behind(t, k)
  <2>1. ASSUME k # 1 PROVE s[k - 1] = t[k - 1]
    <3>1. k - 1 \in 1..n /\ k - 1 < k
      BY <1>3, <2>1
    <3>2. k - 1 \notin apart
      BY <1>2, <3>1
    <3>3. QED
      BY <3>1, <3>2
  <2>2. QED
    BY <2>1 DEF Framing!Behind
<1>5. /\ Framing!IsNextStart(s[k], Framing!Behind(s, k))
      /\ Framing!IsNextStart(t[k], Framing!Behind(s, k))
  BY <1>3, <1>4 DEF Framing!IsFraming
<1>6. s[k] >= t[k] /\ t[k] >= s[k] /\ s[k] \in Nat /\ t[k] \in Nat
  BY <1>5 DEF Framing!IsNextStart
<1>7. s[k] = t[k]
  BY <1>6
<1>8. QED
  BY <1>2, <1>7

(* A framing that leaves no packet out is as long as any other. *)
LEMMA CompleteIsLongest ==
  ASSUME syncBytes \subseteq Nat, NEW s \in Seq(Nat), NEW t \in Seq(Nat),
         Framing!IsFraming(s), Framing!IsFraming(t), Framing!IsComplete(s)
  PROVE  Len(t) <= Len(s)
<1>1. SUFFICES ASSUME Len(t) > Len(s) PROVE FALSE
  OBVIOUS
<1>2. PICK n \in Nat : n = Len(s)
  OBVIOUS
<1>3. \A k \in 1..n : s[k] = t[k]
  <2>1. n <= Len(s) /\ n <= Len(t)
    BY <1>1, <1>2
  <2>2. QED
    BY <2>1, FramingsAgree
<1>4. n + 1 \in DOMAIN t
  BY <1>1, <1>2
<1>5. Framing!Behind(t, n + 1) = Framing!Behind(s, n + 1)
  <2>1. n # 0 => s[(n + 1) - 1] = t[(n + 1) - 1]
    BY <1>3
  <2>2. QED
    BY <2>1 DEF Framing!Behind
<1>6. /\ Framing!IsNextStart(t[n + 1], Framing!Behind(s, n + 1))
      /\ t[n + 1] + PacketSize - 1 <= StreamLength
  BY <1>4, <1>5 DEF Framing!IsFraming
<1>7. t[n + 1] \in syncBytes
  BY <1>6 DEF Framing!IsNextStart
<1>8. QED
  BY <1>2, <1>6, <1>7 DEF Framing!IsComplete

LEMMA FramingIsUnique ==
  ASSUME syncBytes \subseteq Nat, NEW s \in Seq(Nat), NEW t \in Seq(Nat),
         Framing!IsFraming(s), Framing!IsFraming(t),
         Framing!IsComplete(s), Framing!IsComplete(t)
  PROVE  s = t
<1>1. Len(s) = Len(t)
  <2>1. Len(s) <= Len(t) /\ Len(t) <= Len(s)
    BY CompleteIsLongest
  <2>2. QED
    BY <2>1
<1>2. \A k \in 1..Len(s) : s[k] = t[k]
  BY <1>1, FramingsAgree
<1>3. QED
  BY <1>1, <1>2

(* What the packets handed on are, told from the input: at its end, the one framing of it *)
(* that leaves no packet out.                                                            *)
TheFraming ==
  /\ Framing!IsFraming(Starts)
  /\ fed = StreamLength /\ is_depleted /\ packet = NoPacket =>
       /\ Framing!IsComplete(Starts)
       /\ \A s \in Seq(Nat) : Framing!IsFraming(s) /\ Framing!IsComplete(s) => s = Starts

(* Where the next packet is looked for is behind the last one. *)
LEMMA NextFreeIsBehind ==
  ASSUME TypeOK
  PROVE  Framing!NextFree = Framing!Behind(Starts, Len(Starts) + 1)
<1>1. PICK n \in Nat : n = Len(Starts)
  BY StartsType
<1>2. Starts \in Seq(Positions)
  BY StartsType
<1>3. CASE n = 0
  <2>1. Len(Starts) = 0
    BY <1>1, <1>3
  <2>2. Starts = <<>>
    BY <1>2, <2>1, EmptySeq
  <2>3. Len(Starts) + 1 = 1
    BY <2>1
  <2>4. QED
    BY <2>2, <2>3 DEF Framing!NextFree, Framing!Behind
<1>4. CASE n > 0
  <2>1. Starts # <<>> /\ (n + 1) - 1 = n
    BY <1>1, <1>4
  <2>2. QED
    BY <1>1, <1>4, <2>1 DEF Framing!NextFree, Framing!Behind
<1>5. QED
  BY <1>3, <1>4

LEMMA PutExtendsFraming ==
  ASSUME IInv, Framing!IsFraming(Starts), Put
  PROVE  Framing!IsFraming(Starts)'
<1> DEFINE d == [start   |-> packet.start,
                 payload |-> [i \in PayloadAt |-> data_storage[packet.data + i]]]
<1>1. /\ packet # NoPacket /\ delivered' = Append(delivered, d) /\ syncBytes' = syncBytes
  BY DEF Put
<1>2. Framing!IsNextStart(packet.start, Framing!NextFree)
  BY <1>1 DEF IInv, PendingIsNext
<1>3. packet.start + PacketSize - 1 <= StreamLength
  <2>1. packet.start + PacketSize <= fed - size + 1 /\ packet.start \in 0..StreamLength
    BY <1>1 DEF IInv, NoSyncByteLost, Resume, LiveFrom, TypeOK, Packets, Positions
  <2>2. fed \in 0..StreamLength /\ size \in Nat
    BY DEF IInv, TypeOK, Positions
  <2>3. QED
    BY <2>1, <2>2
<1>4. d \in Deliveries
  <2>1. /\ packet \in Packets /\ data_storage \in [Cells -> Positions]
        /\ packet.data + PacketSize <= Capacity
    BY <1>1 DEF IInv, TypeOK, DamageConfinedToTail
  <2>2. \A i \in PayloadAt : packet.data + i \in Cells
    BY <2>1 DEF PayloadAt, Cells, Packets
  <2>3. QED
    BY <2>1, <2>2 DEF Deliveries, Packets
<1>5. d.start = packet.start
  OBVIOUS
<1> HIDE DEF d
<1>6. Starts' = Append(Starts, packet.start)
  BY <1>1, <1>4, <1>5, StartsAppend DEF IInv
<1>7. PICK n \in Nat : n = Len(Starts)
  BY StartsType DEF IInv
<1>8. /\ DOMAIN Starts = 1..n /\ DOMAIN Starts' = 1..(n + 1)
      /\ Starts'[n + 1] = packet.start
      /\ \A k \in 1..n : Starts'[k] = Starts[k]
  <2>1. Starts \in Seq(Positions) /\ packet.start \in Positions
    BY <1>4, <1>5, StartsType DEF IInv, Deliveries
  <2>2. QED
    BY <1>6, <1>7, <2>1
<1>9. ASSUME NEW k \in 1..(n + 1)
      PROVE  /\ Framing!IsNextStart(Starts'[k], Framing!Behind(Starts', k))
             /\ Starts'[k] + PacketSize - 1 <= StreamLength
  <2>1. Framing!Behind(Starts', k) = Framing!Behind(Starts, k)
    <3>1. k # 1 => k - 1 \in 1..n
      BY <1>9
    <3>2. QED
      BY <1>8, <3>1 DEF Framing!Behind
  <2>2. CASE k \in 1..n
    BY <1>8, <2>1, <2>2 DEF Framing!IsFraming
  <2>3. CASE k = n + 1
    BY <1>2, <1>3, <1>7, <1>8, <2>1, <2>3, NextFreeIsBehind DEF IInv
  <2>4. QED
    BY <1>9, <2>2, <2>3
<1>10. QED
  BY <1>1, <1>8, <1>9 DEF Framing!IsFraming, Framing!IsNextStart

(* packetizer.cpp:10-47, main.cpp:77-88: the packets handed on are packets of the input, in *)
(* order and none left out between them, and in the end they are all of them.              *)
THEOREM FramedExactly == Spec => []TheFraming
<1>1. Init => Framing!IsFraming(Starts)
  BY DEF Init, Starts, Framing!IsFraming
<1>2. IInv /\ Framing!IsFraming(Starts) /\ [Next]_vars => Framing!IsFraming(Starts)'
  <2>1. SUFFICES ASSUME IInv, Framing!IsFraming(Starts), [Next]_vars, ~Put
                 PROVE  Framing!IsFraming(Starts)'
    BY PutExtendsFraming
  <2>2. Starts' = Starts /\ syncBytes' = syncBytes
    BY <2>1 DEF Next, Read, Fill, Get, vars, Starts
  <2>3. QED
    BY <2>1, <2>2 DEF Framing!IsFraming, Framing!IsNextStart, Framing!Behind
<1>3. ASSUME TypeOK, EndLeavesNothing, Framing!IsFraming(Starts) PROVE TheFraming
  <2>1. SUFFICES ASSUME fed = StreamLength, is_depleted, packet = NoPacket
                 PROVE  /\ Framing!IsComplete(Starts)
                        /\ \A s \in Seq(Nat) :
                             Framing!IsFraming(s) /\ Framing!IsComplete(s) => s = Starts
    BY <1>3 DEF TheFraming
  <2>2. Framing!IsComplete(Starts)
    <3>1. SUFFICES ASSUME NEW h \in syncBytes, Framing!IsNextStart(h, Framing!NextFree),
                          h + PacketSize - 1 <= StreamLength
                   PROVE  FALSE
      BY <1>3, NextFreeIsBehind DEF Framing!IsComplete
    <3>2. h \in Nat /\ h + PacketSize - 1 > StreamLength
      BY <1>3, <2>1, <3>1 DEF EndLeavesNothing, TypeOK
    <3>3. QED
      BY <3>1, <3>2
  <2>3. Starts \in Seq(Nat)
    BY <1>3, StartsType, SeqMonotonic DEF Positions
  <2>4. syncBytes \subseteq Nat
    BY <1>3 DEF TypeOK
  <2>5. QED
    BY <1>3, <2>2, <2>3, <2>4, FramingIsUnique
<1>4. QED
  BY <1>1, <1>2, <1>3, Inductive, TypeCorrect, NothingIsLeft, PTL DEF Spec
-----------------------------------------------------------------------------
(* The inductive invariant on a recording: what has been handed on, and what is pending, *)
(* is its next packet.                                                                   *)
PendingInStep ==
  packet # NoPacket => packet.start = RealStart(Len(delivered) + 1)

FramesInv == IsRecording /\ ExtraIsClean => InStep /\ PendingInStep

(* Where the search for the next packet begins when the packets so far are the first n of *)
(* a recording.                                                                           *)
LEMMA FreeAfterFrames ==
  ASSUME TypeOK, InStep
  PROVE  Framing!NextFree = RealStart(Len(delivered) + 1) - Extra
<1>1. PICK n \in Nat : n = Len(delivered)
  BY DEF TypeOK
<1>2. Starts \in Seq(Positions) /\ Len(Starts) = n
  BY <1>1, StartsType
<1>3. CASE n = 0
  BY <1>1, <1>2, <1>3, ExtraAssumption DEF Framing!NextFree, RealStart
<1>4. CASE n > 0
  <2>1. n \in DOMAIN delivered /\ Starts # <<>>
    BY <1>1, <1>2, <1>4 DEF TypeOK
  <2>2. Starts[n] = RealStart(n)
    BY <2>1 DEF Starts, InStep
  <2>3. Framing!NextFree = RealStart(n) + PacketSize
    BY <1>2, <2>1, <2>2 DEF Framing!NextFree
  <2>4. RealStart(n) + PacketSize = RealStart(n + 1) - Extra
    <3>1. PICK w \in Nat, m \in Nat : w = Extra + PacketSize /\ m = n - 1
      BY <1>4, ExtraAssumption
    <3>2. (m + 1) * w = m * w + w
      OBVIOUS
    <3>3. PICK a \in Int : a = m * w
      OBVIOUS
    <3>4. RealStart(n) = a + Extra + 1 /\ RealStart(n + 1) = a + w + Extra + 1
      BY <3>1, <3>2, <3>3 DEF RealStart
    <3>5. QED
      BY <3>1, <3>4, ExtraAssumption
  <2>5. QED
    BY <1>1, <2>3, <2>4
<1>5. QED
  BY <1>3, <1>4

(* On a clean recording the next sync byte from there on begins its next packet. *)
LEMMA NextIsReal ==
  ASSUME TypeOK, IsRecording, ExtraIsClean, NEW n \in Nat, NEW h,
         Framing!IsNextStart(h, RealStart(n + 1) - Extra)
  PROVE  h = RealStart(n + 1)
<1>1. PICK w \in Nat : w = Extra + PacketSize /\ w >= 1
  BY ExtraAssumption
<1>2. PICK a \in Int : a = n * w
  OBVIOUS
<1>3. a >= n
  BY <1>1, <1>2
<1>4. RealStart(n + 1) = a + Extra + 1
  BY <1>1, <1>2 DEF RealStart
<1>5. /\ h \in syncBytes /\ h \in 1..StreamLength /\ h >= a + 1
      /\ \A q \in syncBytes : q >= a + 1 => q >= h
  BY <1>4, ExtraAssumption DEF Framing!IsNextStart, TypeOK
<1>6. n + 1 \in 1..StreamLength
  BY <1>3, <1>5
<1>7. h >= a + Extra + 1
  <2>1. h \notin (RealStart(n + 1) - Extra)..(RealStart(n + 1) - 1)
    BY <1>5, <1>6 DEF ExtraIsClean
  <2>2. h \notin (a + 1)..(a + Extra)
    BY <1>4, <2>1, ExtraAssumption
  <2>3. QED
    BY <1>5, <2>2, ExtraAssumption
<1>8. a + Extra + 1 \in syncBytes
  BY <1>4, <1>5, <1>6, <1>7, ExtraAssumption DEF IsRecording
<1>9. h <= a + Extra + 1
  BY <1>5, <1>8, ExtraAssumption
<1>10. QED
  BY <1>4, <1>5, <1>7, <1>9, ExtraAssumption

LEMMA GetFrames ==
  ASSUME IInv, IInv', FramesInv, Get PROVE FramesInv'
<1>1. SUFFICES ASSUME IsRecording', ExtraIsClean' PROVE InStep' /\ PendingInStep'
  BY DEF FramesInv
<1>2. syncBytes' = syncBytes /\ delivered' = delivered
  BY DEF Get
<1>3. IsRecording /\ ExtraIsClean
  BY <1>1, <1>2 DEF IsRecording, ExtraIsClean
<1>4. InStep
  BY <1>3 DEF FramesInv
<1>5. PendingInStep'
  <2>1. SUFFICES ASSUME packet' # NoPacket
                 PROVE  packet'.start = RealStart(Len(delivered) + 1)
    BY <1>2 DEF PendingInStep, NoPacket
  <2>2. Framing!IsNextStart(packet'.start, Framing!NextFree)
    BY <1>2, <2>1 DEF IInv, PendingIsNext, Framing!IsNextStart, Framing!NextFree, Starts,
       NoPacket
  <2>3. PICK n \in Nat : n = Len(delivered)
    BY DEF IInv, TypeOK
  <2>4. Framing!NextFree = RealStart(n + 1) - Extra
    BY <1>4, <2>3, FreeAfterFrames DEF IInv
  <2>5. PICK h : h = packet'.start
    OBVIOUS
  <2>6. h = RealStart(n + 1)
    BY <1>3, <2>2, <2>4, <2>5, NextIsReal DEF IInv
  <2>7. QED
    BY <2>3, <2>5, <2>6
<1>6. QED
  BY <1>2, <1>4, <1>5 DEF InStep

LEMMA PutFrames ==
  ASSUME IInv, FramesInv, Put PROVE FramesInv'
<1>1. SUFFICES ASSUME IsRecording', ExtraIsClean' PROVE InStep' /\ PendingInStep'
  BY DEF FramesInv
<1> DEFINE d == [start   |-> packet.start,
                 payload |-> [i \in PayloadAt |-> data_storage[packet.data + i]]]
<1>2. /\ packet # NoPacket /\ packet' = NoPacket /\ syncBytes' = syncBytes
      /\ delivered' = Append(delivered, d)
  BY DEF Put
<1>3. IsRecording /\ ExtraIsClean
  BY <1>1, <1>2 DEF IsRecording, ExtraIsClean
<1>4. InStep /\ packet.start = RealStart(Len(delivered) + 1)
  BY <1>2, <1>3 DEF FramesInv, PendingInStep
<1>5. delivered \in Seq(Deliveries)
  BY DEF IInv, TypeOK
<1>6. d.start = packet.start
  OBVIOUS
<1> HIDE DEF d
<1>7. /\ Len(delivered) \in Nat /\ DOMAIN delivered = 1..Len(delivered)
      /\ DOMAIN delivered' = 1..(Len(delivered) + 1)
      /\ \A k \in 1..Len(delivered) : delivered'[k] = delivered[k]
      /\ delivered'[Len(delivered) + 1] = d
  BY <1>2, <1>5
<1>8. ASSUME NEW k \in DOMAIN delivered' PROVE delivered'[k].start = RealStart(k)
  <2>1. CASE k \in 1..Len(delivered)
    BY <1>4, <1>7, <2>1 DEF InStep
  <2>2. CASE k = Len(delivered) + 1
    BY <1>4, <1>6, <1>7, <2>2
  <2>3. QED
    BY <1>7, <1>8, <2>1, <2>2
<1>9. QED
  BY <1>2, <1>8 DEF InStep, PendingInStep, NoPacket

(* The invariant on recordings holds in every reachable state. *)
THEOREM RecordingsInStep == Spec => []FramesInv
<1>1. Init => FramesInv
  BY DEF Init, FramesInv, InStep, PendingInStep
<1>2. IInv /\ IInv' /\ FramesInv /\ [Next]_vars => FramesInv'
  <2>1. SUFFICES ASSUME IInv, IInv', FramesInv, [Next]_vars PROVE FramesInv'
    OBVIOUS
  <2>2. CASE Read
    BY <2>1, <2>2 DEF Read, Fill, FramesInv, IsRecording, ExtraIsClean, InStep, PendingInStep,
       NoPacket
  <2>3. CASE UNCHANGED vars
    BY <2>1, <2>3 DEF vars, FramesInv, IsRecording, ExtraIsClean, InStep, PendingInStep, NoPacket
  <2>4. QED
    BY <2>1, <2>2, <2>3, GetFrames, PutFrames DEF Next
<1>3. QED
  BY <1>1, <1>2, Inductive, PTL DEF Spec

(* README.md:25-26: on every recording whose extra bytes hold no sync byte, what is handed *)
(* on is the packets of the recording, however many extra bytes there are.                 *)
THEOREM RecordingsAreFramed == Spec => []OnlyRealPackets
<1>1. FramesInv => OnlyRealPackets
  BY DEF FramesInv, OnlyRealPackets
<1>2. QED
  BY <1>1, RecordingsInStep, PTL
-----------------------------------------------------------------------------
(* The packets of a recording follow each other at a distance of Extra + PacketSize. *)
LEMMA RealStartStep ==
  ASSUME NEW n \in Nat
  PROVE  /\ RealStart(n + 2) = RealStart(n + 1) + Extra + PacketSize
         /\ RealStart(n + 1) \in Nat
         /\ RealStart(n + 1) >= n + Extra + 1
<1>1. PICK w \in Nat : w = Extra + PacketSize /\ w >= 1
  BY ExtraAssumption
<1>2. PICK a \in Nat : a = n * w /\ a >= n
  BY <1>1
<1>3. (n + 1) * w = n * w + w
  OBVIOUS
<1>4. PICK b \in Nat : b = (n + 1) * w /\ b = a + w
  BY <1>1, <1>2, <1>3
<1>5. RealStart(n + 1) = a + Extra + 1 /\ RealStart(n + 2) = b + Extra + 1
  BY <1>1, <1>2, <1>4 DEF RealStart
<1>6. QED
  BY <1>1, <1>2, <1>4, <1>5, ExtraAssumption

LEMMA RealStartMonotone ==
  ASSUME NEW j \in Nat, NEW k \in Nat, j <= k
  PROVE  RealStart(j + 1) <= RealStart(k + 1)
<1>1. PICK w \in Nat : w = Extra + PacketSize
  BY ExtraAssumption
<1>2. PICK m \in Nat : k = j + m
  <2>1. k - j \in Nat /\ k = j + (k - j)
    OBVIOUS
  <2>2. QED
    BY <2>1
<1>3. PICK a \in Nat, b \in Nat : a = j * w /\ b = m * w
  BY <1>1
<1>4. k * w = a + b
  <2>1. (j + m) * w = j * w + m * w
    BY <1>1
  <2>2. QED
    BY <1>2, <1>3, <2>1
<1>5. PICK c \in Nat : c = k * w /\ c = a + b
  BY <1>3, <1>4
<1>6. RealStart(j + 1) = a + Extra + 1 /\ RealStart(k + 1) = c + Extra + 1
  BY <1>1, <1>3, <1>5 DEF RealStart
<1>7. QED
  BY <1>3, <1>5, <1>6, ExtraAssumption

(* README.md:7: of a clean recording, every whole packet is handed on in the end. *)
THEOREM RecordingsAreWhole == Spec => []WholeRecording
<1>1. ASSUME TypeOK, EndLeavesNothing, OnlyRealPackets PROVE WholeRecording
  <2>1. SUFFICES ASSUME IsRecording, ExtraIsClean, fed = StreamLength, is_depleted,
                        packet = NoPacket, NEW k \in 1..StreamLength,
                        RealStart(k) + PacketSize - 1 <= StreamLength,
                        k \notin DOMAIN delivered
                 PROVE  FALSE
    BY DEF WholeRecording
  <2>2. PICK n \in Nat : n = Len(delivered) /\ n < k
    BY <1>1, <2>1 DEF TypeOK
  <2>3. RealStart(n + 1) <= RealStart(k)
    <3>1. k - 1 \in Nat /\ n <= k - 1 /\ (k - 1) + 1 = k
      BY <2>2
    <3>2. QED
      BY <2>2, <3>1, RealStartMonotone
  <2>4. PICK h \in Nat : h = RealStart(n + 1) /\ h >= n + Extra + 1
    BY <2>2, RealStartStep
  <2>5. h + PacketSize - 1 <= StreamLength
    <3>1. k - 1 \in Nat /\ (k - 1) + 1 = k
      OBVIOUS
    <3>2. PICK g \in Nat : g = RealStart(k)
      BY <3>1, RealStartStep
    <3>3. QED
      BY <2>1, <2>3, <2>4, <3>2
  <2>6. n + 1 \in 1..StreamLength
    BY <2>4, <2>5, ExtraAssumption
  <2>7. h \in syncBytes
    BY <2>1, <2>4, <2>5, <2>6 DEF IsRecording
  <2>8. Framing!NextFree = h - Extra
    BY <1>1, <2>1, <2>2, <2>4, FreeAfterFrames DEF OnlyRealPackets
  <2>9. ASSUME NEW q \in syncBytes, q >= h - Extra PROVE q >= h
    <3>1. q \in Nat
      BY <1>1 DEF TypeOK
    <3>2. q \notin (h - Extra)..(h - 1)
      BY <2>1, <2>4, <2>6 DEF ExtraIsClean
    <3>3. QED
      BY <2>4, <2>9, <3>1, <3>2, ExtraAssumption
  <2>10. Framing!IsNextStart(h, Framing!NextFree)
    BY <2>4, <2>7, <2>8, <2>9, ExtraAssumption DEF Framing!IsNextStart
  <2>11. QED
    BY <1>1, <2>1, <2>4, <2>5, <2>7, <2>10 DEF EndLeavesNothing
<1>2. QED
  BY <1>1, TypeCorrect, NothingIsLeft, RecordingsAreFramed, PTL
-----------------------------------------------------------------------------
(* What main.cpp's reads add to the invariant: a buffer with a packet in it is filled to  *)
(* the end, until the end of the input.                                                   *)
FullUntilEnd == fed < StreamLength /\ size >= PacketSize => data + size = Capacity

(* A pending packet is intact when another whole one follows it. *)
PendingUnharmed ==
  IsRecording /\ ExtraIsClean /\ RoomForThree /\ packet # NoPacket =>
    (RealStart(Len(delivered) + 2) + PacketSize - 1 <= StreamLength => PendingIntact)

IntactInv == FullUntilEnd /\ PendingUnharmed /\ AllButLastIntact

LEMMA MainReadIsRead == ASSUME TypeOK, MainRead PROVE Read
<1> DEFINE n == IF StreamLength - fed < Room THEN StreamLength - fed ELSE Room
<1>1. n \in 0..StreamLength
  BY DEF TypeOK, Positions, Room
<1>2. Fill(n)
  BY DEF MainRead
<1>3. QED
  BY <1>1, <1>2 DEF MainRead, Read

(* main.cpp's way of reading is one that the source_data interface allows. *)
THEOREM MainReadsAsAllowed == MainSpec => Spec
<1>1. Init => IInv
  BY InitIInv
<1>2. IInv /\ [MainRead \/ Get \/ Put]_vars => [Next]_vars
  BY MainReadIsRead DEF IInv, Next
<1>3. IInv /\ [Next]_vars => IInv'
  BY ReadIInv, GetIInv, PutIInv, StutterIInv DEF Next
<1>4. QED
  BY <1>1, <1>2, <1>3, PTL DEF MainSpec, Spec

(* sync() moves the live bytes or keeps their end where it is. *)
LEMMA SyncKeepsEnd ==
  ASSUME NEW bytes, NEW from \in Nat, NEW n \in Nat, Sync(bytes, from, n)
  PROVE  size' >= PacketSize => data' + size' = from + n
<1>1. PICK k \in 0..n :
        /\ size' = n - k
        /\ size' < PacketSize \/ data' = from + k
  BY DEF Sync, Settle, is_depleted
<1>2. QED
  BY <1>1

(* Where the live bytes are once get() has synchronised a clean recording. *)
LEMMA GetStaysClose ==
  ASSUME IInv, IInv', FramesInv', Get, IsRecording, ExtraIsClean
  PROVE  /\ packet' # NoPacket
         /\ packet'.start = RealStart(Len(delivered) + 1)
         /\ packet'.start = fed - size + 1
         /\ packet'.data = data
         /\ RealStart(Len(delivered) + 2) <= StreamLength =>
              fed - size' + 1 <= RealStart(Len(delivered) + 2)
         /\ size <= size' + Extra + PacketSize
<1>1. /\ size >= PacketSize /\ packet = NoPacket
      /\ packet' = [start |-> data_storage[data], data |-> data]
      /\ syncBytes' = syncBytes /\ fed' = fed /\ delivered' = delivered
  BY DEF Get, is_depleted, IInv, TypeOK
<1>2. /\ fed \in 0..StreamLength /\ size \in Nat /\ size' \in Nat /\ data \in Nat
      /\ \A i \in 0..(size - 1) : data_storage[data + i] = fed - size + 1 + i
      /\ Framing!NextFree > 0 /\ Framing!NextFree <= fed - size + 1
  BY <1>1, StartsType DEF IInv, TypeOK, LiveBytesInOrder, Positions, NoSyncByteLost, Resume,
     LiveFrom
<1>3. data_storage[data] = fed - size + 1
  <2>1. 0 \in 0..(size - 1)
    BY <1>1, <1>2
  <2>2. data_storage[data + 0] = fed - size + 1 + 0
    BY <1>2, <2>1
  <2>3. QED
    BY <1>2, <2>2
<1>4. PICK p \in Nat : p = fed - size + 1 /\ p > 0
  BY <1>2, StartsType DEF IInv
<1>5. packet'.start = p /\ packet'.data = data /\ packet' # NoPacket
  BY <1>1, <1>3, <1>4 DEF NoPacket
<1>6. PICK n \in Nat : n = Len(delivered)
  BY DEF IInv, TypeOK
<1>7. p = RealStart(n + 1)
  BY <1>1, <1>5, <1>6 DEF FramesInv, PendingInStep, IsRecording, ExtraIsClean
<1>8. PICK h \in Nat : h = RealStart(n + 2) /\ h = p + Extra + PacketSize /\ h >= n + 2
  BY <1>4, <1>6, <1>7, RealStartStep, ExtraAssumption
<1>9. ASSUME h <= StreamLength PROVE fed - size' + 1 <= h
  <2>1. n + 2 \in 1..StreamLength
    BY <1>8, <1>9
  <2>2. h \in syncBytes'
    BY <1>1, <1>8, <1>9, <2>1 DEF IsRecording
  <2>3. Resume' = p + PacketSize
    BY <1>5 DEF Resume
  <2>4. h >= Resume'
    BY <1>4, <1>8, <2>3, ExtraAssumption
  <2>5. h >= LiveFrom'
    BY <2>2, <2>4 DEF IInv, NoSyncByteLost
  <2>6. QED
    BY <1>1, <1>2, <1>8, <2>5 DEF LiveFrom
<1>10. size <= size' + Extra + PacketSize
  <2>1. PICK s \in Nat, f \in Nat, z \in Nat : s = size' /\ f = fed /\ z = size
    BY <1>2
  <2>2. f <= StreamLength /\ p = f - z + 1 /\ h = f - z + 1 + Extra + PacketSize
    BY <1>2, <1>4, <1>8, <2>1
  <2>3. h <= StreamLength => f - s + 1 <= h
    BY <1>9, <2>1
  <2>4. z <= s + Extra + PacketSize
    BY <2>2, <2>3, ExtraAssumption
  <2>5. QED
    BY <2>1, <2>4
<1>11. QED
  BY <1>4, <1>5, <1>6, <1>7, <1>8, <1>9, <1>10

(* A full buffer of three packets leaves the packet got behind the moved tail. *)
LEMMA FullKeeps ==
  ASSUME IInv, IInv', FramesInv', Get, IsRecording, ExtraIsClean, RoomForThree,
         data + size = Capacity
  PROVE  PendingIntact'
<1>1. SUFFICES ASSUME NEW i \in PayloadAt
               PROVE  data_storage'[packet'.data + i] = packet'.start + i
  BY DEF PendingIntact, PayloadAt
<1>2. /\ size \in Nat /\ size' \in Nat /\ data \in Nat
      /\ i \in Nat /\ i >= HeaderSize
  BY DEF IInv, TypeOK, PayloadAt
<1>3. packet'.data = data /\ size <= size' + Extra + PacketSize
  BY GetStaysClose
<1>4. packet' # NoPacket
  BY GetStaysClose
<1>5. ~(size' < PacketSize /\ packet'.data + i < size')
  <2>1. PICK s \in Nat, a \in Nat, z \in Nat : s = size' /\ a = data /\ z = size
    BY <1>2
  <2>2. a + z >= 3 * PacketSize + Extra - HeaderSize - 2 /\ z <= s + Extra + PacketSize
    BY <1>3, <2>1 DEF RoomForThree
  <2>3. ~(s < PacketSize /\ a + i < s)
    BY <1>2, <2>2, ExtraAssumption
  <2>4. QED
    BY <1>3, <2>1, <2>3
<1>6. QED
  BY <1>4, <1>5 DEF IInv, DamageConfinedToTail, is_depleted, PayloadAt

(* packetizer.cpp:32, 43-46: when the live bytes reach to the end of the buffer, get()    *)
(* does not damage the packet that it returns.                                            *)
THEOREM FullBufferIsSafe == Spec => FullBufferKeepsPayload
<1>1. IInv /\ IInv' /\ FramesInv' /\ [Next]_vars =>
        [IsRecording /\ ExtraIsClean /\ RoomForThree /\ Get
           /\ data + size = Capacity => PendingIntact']_vars
  BY FullKeeps
<1>2. QED
  BY <1>1, Inductive, RecordingsInStep, PTL DEF Spec, FullBufferKeepsPayload

LEMMA InitIntact == Init => IntactInv
BY DEF Init, IntactInv, FullUntilEnd, PendingUnharmed, AllButLastIntact, NoPacket

(* A read fills the buffer unless the input ends, and no packet is pending. *)
LEMMA MainReadIntact ==
  ASSUME IInv, IntactInv, MainRead PROVE IntactInv'
<1> DEFINE n == IF StreamLength - fed < Room THEN StreamLength - fed ELSE Room
<1>1. /\ is_depleted /\ packet = NoPacket /\ data = 0
      /\ fed' = fed + n /\ Sync(Filled(n), data, size + n)
      /\ syncBytes' = syncBytes /\ packet' = packet /\ delivered' = delivered
  BY DEF MainRead, Fill, Confirmed, IInv, RewoundWhenDepleted
<1>2. /\ size \in 0..Capacity /\ fed \in 0..StreamLength /\ n \in Nat
      /\ fed + n < StreamLength => n = Capacity - size
  BY DEF IInv, TypeOK, Positions, Room
<1> HIDE DEF n
<1>3. FullUntilEnd'
  <2>1. PICK c \in Nat, from \in Nat : c = size + n /\ from = data
    BY <1>1, <1>2
  <2>2. Sync(Filled(n), from, c)
    BY <1>1, <2>1
  <2>3. size' >= PacketSize => data' + size' = from + c
    BY <2>1, <2>2, SyncKeepsEnd
  <2>4. fed' < StreamLength => from + c = Capacity
    BY <1>1, <1>2, <2>1
  <2>5. QED
    BY <2>3, <2>4 DEF FullUntilEnd
<1>4. PendingUnharmed' /\ AllButLastIntact'
  BY <1>1 DEF IntactInv, PendingUnharmed, AllButLastIntact, NoPacket, IsRecording, ExtraIsClean
<1>5. QED
  BY <1>3, <1>4 DEF IntactInv

(* The packet got is intact when the buffer is full, and, at the end of the input, when *)
(* another whole packet remains live behind it.                                         *)
LEMMA GetIntact ==
  ASSUME IInv, IInv', FramesInv', IntactInv, Get PROVE IntactInv'
<1>1. /\ size >= PacketSize
      /\ Sync(data_storage, data + PacketSize, size - PacketSize)
      /\ syncBytes' = syncBytes /\ fed' = fed /\ delivered' = delivered
  BY DEF Get, is_depleted, IInv, TypeOK
<1>2. /\ size \in Nat /\ size' \in Nat /\ data \in Nat
      /\ fed \in Nat /\ fed <= StreamLength
  BY DEF IInv, TypeOK, Positions
<1>3. FullUntilEnd'
  <2>1. PICK c \in Nat, from \in Nat : c = size - PacketSize /\ from = data + PacketSize
    BY <1>1, <1>2
  <2>2. size' >= PacketSize => data' + size' = from + c
    BY <1>1, <2>1, SyncKeepsEnd
  <2>3. fed < StreamLength => from + c = Capacity
    BY <1>1, <1>2, <2>1 DEF IntactInv, FullUntilEnd
  <2>4. QED
    BY <1>1, <2>2, <2>3 DEF FullUntilEnd
<1>4. PendingUnharmed'
  <2>1. SUFFICES ASSUME IsRecording', ExtraIsClean', RoomForThree,
                        RealStart(Len(delivered) + 2) + PacketSize - 1 <= StreamLength
                 PROVE  PendingIntact'
    BY <1>1 DEF PendingUnharmed
  <2>2. IsRecording /\ ExtraIsClean
    BY <1>1, <2>1 DEF IsRecording, ExtraIsClean
  <2>3. CASE fed < StreamLength
    <3>1. data + size = Capacity
      BY <1>1, <2>3 DEF IntactInv, FullUntilEnd
    <3>2. QED
      BY <2>1, <2>2, <3>1, FullKeeps
  <2>4. CASE fed = StreamLength
    <3>1. PICK n \in Nat : n = Len(delivered)
      BY DEF IInv, TypeOK
    <3>2. PICK h \in Nat : h = RealStart(Len(delivered) + 2)
      BY <3>1, RealStartStep, ExtraAssumption
    <3>3. packet' # NoPacket /\ (h <= StreamLength => fed - size' + 1 <= h)
      BY <2>2, <3>2, GetStaysClose
    <3>4. size' >= PacketSize
      BY <1>2, <2>1, <2>4, <3>2, <3>3
    <3>5. ~is_depleted'
      BY <1>2, <3>4 DEF is_depleted
    <3>6. QED
      BY <3>3, <3>5 DEF IInv, DamageConfinedToTail, PendingIntact, PayloadAt
  <2>5. QED
    BY <1>2, <2>3, <2>4
<1>5. AllButLastIntact'
  BY <1>1 DEF IntactInv, AllButLastIntact, IsRecording, ExtraIsClean
<1>6. QED
  BY <1>3, <1>4, <1>5 DEF IntactInv

(* What is delivered is what was pending. *)
LEMMA PutIntact ==
  ASSUME IInv, IntactInv, Put PROVE IntactInv'
<1> DEFINE d == [start   |-> packet.start,
                 payload |-> [i \in PayloadAt |-> data_storage[packet.data + i]]]
<1>1. /\ packet # NoPacket /\ packet' = NoPacket
      /\ delivered' = Append(delivered, d)
      /\ syncBytes' = syncBytes /\ fed' = fed /\ data' = data /\ size' = size
  BY DEF Put
<1>2. FullUntilEnd' /\ PendingUnharmed'
  BY <1>1 DEF IntactInv, FullUntilEnd, PendingUnharmed
<1>3. AllButLastIntact'
  <2>1. SUFFICES ASSUME IsRecording', ExtraIsClean', RoomForThree,
                        NEW k \in DOMAIN delivered',
                        RealStart(k + 1) + PacketSize - 1 <= StreamLength,
                        NEW i \in PayloadAt
                 PROVE  delivered'[k].payload[i] = delivered'[k].start + i
    BY DEF AllButLastIntact, PayloadAt
  <2>2. IsRecording /\ ExtraIsClean
    BY <1>1, <2>1 DEF IsRecording, ExtraIsClean
  <2>3. delivered \in Seq(Deliveries)
    BY DEF IInv, TypeOK
  <2>4. d.start = packet.start /\ d.payload[i] = data_storage[packet.data + i]
    OBVIOUS
  <2> HIDE DEF d
  <2>5. /\ Len(delivered) \in Nat /\ DOMAIN delivered = 1..Len(delivered)
        /\ DOMAIN delivered' = 1..(Len(delivered) + 1)
        /\ \A j \in 1..Len(delivered) : delivered'[j] = delivered[j]
        /\ delivered'[Len(delivered) + 1] = d
    BY <1>1, <2>3
  <2>6. CASE k \in 1..Len(delivered)
    BY <2>1, <2>2, <2>5, <2>6 DEF IntactInv, AllButLastIntact
  <2>7. CASE k = Len(delivered) + 1
    <3>1. PICK n \in Nat : n = Len(delivered)
      BY <2>5
    <3>2. k + 1 = n + 2
      BY <2>7, <3>1
    <3>3. RealStart(Len(delivered) + 2) + PacketSize - 1 <= StreamLength
      BY <2>1, <3>1, <3>2
    <3>4. PendingIntact
      BY <1>1, <2>1, <2>2, <3>3 DEF IntactInv, PendingUnharmed
    <3>5. QED
      BY <2>4, <2>5, <2>7, <3>4 DEF PendingIntact
  <2>8. QED
    BY <2>1, <2>5, <2>6, <2>7
<1>4. QED
  BY <1>2, <1>3 DEF IntactInv

(* main.cpp:77-88: as main reads, every payload of a clean recording is handed on intact, *)
(* but for that of the last whole packet, when the buffer holds three packets.            *)
THEOREM OnlyLastDamaged == MainSpec => []AllButLastIntact
<1>1. IInv /\ IInv' /\ FramesInv' /\ IntactInv /\ [MainRead \/ Get \/ Put]_vars => IntactInv'
  <2>1. SUFFICES ASSUME IInv, IInv', FramesInv', IntactInv, [MainRead \/ Get \/ Put]_vars
                 PROVE  IntactInv'
    OBVIOUS
  <2>2. CASE UNCHANGED vars
    BY <2>1, <2>2 DEF vars, IntactInv, FullUntilEnd, PendingUnharmed, AllButLastIntact,
       PendingIntact, IsRecording, ExtraIsClean, NoPacket
  <2>3. QED
    BY <2>1, <2>2, MainReadIntact, GetIntact, PutIntact
<1>2. IntactInv => AllButLastIntact
  BY DEF IntactInv
<1>3. QED
  BY <1>1, <1>2, InitIntact, MainReadsAsAllowed, Inductive, RecordingsInStep, PTL DEF MainSpec
=============================================================================
