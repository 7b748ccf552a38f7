-------------------------- MODULE RemoteNode_proofs --------------------------
(***************************************************************************)
(* The jitter buffer puts the frames back in order, for every window and   *)
(* every range of sequence ids that the window divides, whatever the       *)
(* network loses, duplicates, delays or reorders.                          *)
(***************************************************************************)
EXTENDS RemoteNode, SequenceTheorems, TLAPS

(* The remainder. *)

\* DivMod: the division with remainder.
LEMMA DivMod ==
  ASSUME NEW a \in Int, NEW n \in Nat \ {0}
  PROVE  \E q \in Int, r \in 0 .. n - 1 : a % n = r /\ a = n * q + r
<1>1. PICK r : r = a % n
  OBVIOUS
<1>2. r \in 0 .. n - 1
  BY <1>1
<1>3. PICK q \in Int : q = a \div n
  OBVIOUS
<1>4. a % n = a - n * (a \div n)
  OBVIOUS
<1>5. r = a - n * q
  BY <1>1, <1>3, <1>4
<1>6. n * q \in Int
  BY <1>3
<1>7. a = n * q + r
  BY <1>2, <1>5, <1>6
<1> QED BY <1>1, <1>2, <1>7

\* SmallMultiple: a multiple of n between -n and n is 0.
LEMMA SmallMultiple ==
  ASSUME NEW x \in Int, NEW n \in Nat \ {0}, n * x < n, -n < n * x
  PROVE  x = 0
<1>1. CASE x >= 1
  <2>1. n * x >= n
    BY <1>1
  <2> QED BY <2>1
<1>2. CASE x <= -1
  <2>1. n * x <= -n
    BY <1>2
  <2> QED BY <2>1
<1> QED BY <1>1, <1>2

\* ModUnique: the remainder is the only one.
LEMMA ModUnique ==
  ASSUME NEW a \in Int, NEW n \in Nat \ {0}, NEW q \in Int, NEW r \in 0 .. n - 1,
         a = n * q + r
  PROVE  a % n = r
<1>1. PICK p \in Int, t \in 0 .. n - 1 : a % n = t /\ a = n * p + t
  BY DivMod
<1>2. n * (q - p) = n * q - n * p
  OBVIOUS
<1>3. n * q \in Int /\ n * p \in Int
  OBVIOUS
<1>4. n * (q - p) = t - r
  BY <1>1, <1>2, <1>3
<1>5. q - p = 0
  BY <1>4, SmallMultiple
<1>6. t - r = 0
  BY <1>4, <1>5
<1> QED BY <1>1, <1>6

\* ModShift: a multiple of n more or less does not change the remainder.
LEMMA ModShift ==
  ASSUME NEW a \in Int, NEW n \in Nat \ {0}, NEW q \in Int
  PROVE  (a + n * q) % n = a % n
<1>1. PICK p \in Int, t \in 0 .. n - 1 : a % n = t /\ a = n * p + t
  BY DivMod
<1>2. PICK s \in Int : s = p + q
  OBVIOUS
<1>3. n * s = n * p + n * q
  BY <1>2
<1>4. n * q \in Int /\ n * p \in Int
  OBVIOUS
<1>5. PICK b \in Int : b = a + n * q
  BY <1>4
<1>6. b = n * s + t
  BY <1>1, <1>3, <1>4, <1>5
<1>7. b % n = t
  BY <1>6, ModUnique
<1> QED BY <1>1, <1>5, <1>7

\* ModPlus: the remainder of a sum.
LEMMA ModPlus ==
  ASSUME NEW a \in Int, NEW b \in Int, NEW n \in Nat \ {0}
  PROVE  ((a % n) + b) % n = (a + b) % n
<1>1. PICK p \in Int, t \in 0 .. n - 1 : a % n = t /\ a = n * p + t
  BY DivMod
<1>2. n * p \in Int
  OBVIOUS
<1>3. PICK c \in Int : c = t + b
  OBVIOUS
<1>4. a + b = c + n * p
  BY <1>1, <1>2, <1>3
<1>5. (c + n * p) % n = c % n
  BY ModShift
<1> QED BY <1>1, <1>3, <1>4, <1>5

\* ModSmall: what is less than n is its own remainder.
LEMMA ModSmall ==
  ASSUME NEW n \in Nat \ {0}, NEW a \in 0 .. n - 1
  PROVE  a % n = a
OBVIOUS

\* ModMod: the slot of a sequence id is the slot of the packet number.
LEMMA ModMod ==
  ASSUME NEW a \in Int
  PROVE  (a % SeqRange) % Window = a % Window
<1>1. SeqRange \in Nat \ {0} /\ Window \in Nat \ {0} /\ SeqRange % Window = 0
  BY WindowAssumption
<1>2. PICK k \in Int : SeqRange = Window * k
  <2>1. PICK q \in Int, r \in 0 .. Window - 1 :
          SeqRange % Window = r /\ SeqRange = Window * q + r
    BY <1>1, DivMod
  <2>2. Window * q \in Int /\ r = 0
    BY <1>1, <2>1
  <2>3. SeqRange = Window * q
    BY <2>1, <2>2
  <2> QED BY <2>3
<1>3. PICK q \in Int, r \in 0 .. SeqRange - 1 : a % SeqRange = r /\ a = SeqRange * q + r
  BY <1>1, DivMod
<1>4. SeqRange * q = Window * (k * q)
  BY <1>1, <1>2
<1>5. k * q \in Int /\ Window * (k * q) \in Int
  BY <1>1
<1>6. r \in Int /\ a = r + Window * (k * q)
  BY <1>1, <1>3, <1>4, <1>5
<1>7. (r + Window * (k * q)) % Window = r % Window
  BY <1>1, <1>5, <1>6, ModShift
<1> QED BY <1>3, <1>6, <1>7

\* ModApart: within one window the slots are different.
LEMMA ModApart ==
  ASSUME NEW a \in Int, NEW d \in 0 .. Window - 1, NEW e \in 0 .. Window - 1,
         (a + d) % Window = (a + e) % Window
  PROVE  d = e
<1>1. Window \in Nat \ {0}
  BY WindowAssumption
<1>2. PICK p \in Int, r \in 0 .. Window - 1 :
        (a + d) % Window = r /\ a + d = Window * p + r
  <2>1. PICK x \in Int : x = a + d
    BY <1>1
  <2>2. \E p \in Int, r \in 0 .. Window - 1 : x % Window = r /\ x = Window * p + r
    BY <1>1, DivMod
  <2> QED BY <2>1, <2>2
<1>3. PICK q \in Int, t \in 0 .. Window - 1 :
        (a + e) % Window = t /\ a + e = Window * q + t
  <2>1. PICK x \in Int : x = a + e
    BY <1>1
  <2>2. \E q \in Int, t \in 0 .. Window - 1 : x % Window = t /\ x = Window * q + t
    BY <1>1, DivMod
  <2> QED BY <2>1, <2>2
<1>4. t = r
  BY <1>2, <1>3
<1>5. Window * (p - q) = Window * p - Window * q
  BY <1>1
<1>6. Window * p \in Int /\ Window * q \in Int
  BY <1>1
<1>7. Window * (p - q) = d - e
  BY <1>1, <1>2, <1>3, <1>4, <1>5, <1>6
<1>8. p - q = 0
  BY <1>1, <1>7, SmallMultiple
<1>9. d - e = 0
  BY <1>1, <1>7, <1>8
<1> QED BY <1>9

-----------------------------------------------------------------------------
(* The jitter buffer. *)

\* Place: a sequence id is as far ahead of the expected one as its difference says, and
\* its slot is the slot so many after the expected one.
LEMMA Place ==
  ASSUME NEW x \in 0 .. SeqRange - 1, NEW v \in 0 .. SeqRange - 1
  PROVE  LET d == (v - x) % SeqRange
         IN  /\ d \in 0 .. SeqRange - 1
             /\ v = (x + d) % SeqRange /\ v % Window = (x + d) % Window
<1>1. SeqRange \in Nat \ {0} /\ Window \in Nat \ {0}
  BY WindowAssumption
<1>2. PICK y \in Int : y = v - x
  BY <1>1
<1>3. PICK d : d = y % SeqRange
  OBVIOUS
<1>4. d \in 0 .. SeqRange - 1
  BY <1>1, <1>3
<1>5. ((y % SeqRange) + x) % SeqRange = (y + x) % SeqRange
  <2>1. x \in Int
    BY <1>1
  <2> QED BY <1>1, <2>1, ModPlus
<1>6. x + d = (y % SeqRange) + x /\ y + x = v
  BY <1>1, <1>2, <1>3, <1>4
<1>7. (x + d) % SeqRange = v % SeqRange
  BY <1>5, <1>6
<1>8. v % SeqRange = v
  BY <1>1, ModSmall
<1>9. PICK z \in Int : z = x + d
  BY <1>1, <1>4
<1>10. (z % SeqRange) % Window = z % Window
  BY ModMod
<1> QED BY <1>2, <1>3, <1>4, <1>7, <1>8, <1>9, <1>10

\* Ahead: and the other way round.
LEMMA Ahead ==
  ASSUME NEW x \in Int, NEW d \in 0 .. SeqRange - 1
  PROVE  (((x + d) % SeqRange) - x) % SeqRange = d
<1>1. SeqRange \in Nat \ {0}
  BY WindowAssumption
<1>2. PICK a \in Int : a = x + d
  BY <1>1
<1>3. PICK b \in Int : b = -x
  OBVIOUS
<1>4. ((a % SeqRange) + b) % SeqRange = (a + b) % SeqRange
  BY <1>1, ModPlus
<1>5. a + b = d
  BY <1>1, <1>2, <1>3
<1>6. d % SeqRange = d
  BY <1>1, ModSmall
<1>7. a % SeqRange \in Int
  BY <1>1
<1>8. (a % SeqRange) + b = (a % SeqRange) - x
  BY <1>3, <1>7
<1> QED BY <1>2, <1>4, <1>5, <1>6, <1>8

\* A buffer whose frames are in their slots and at most a window ahead of x.
Fits(buf, x) ==
  \A s \in Slots : buf[s] # Empty =>
    SeqId(buf[s]) % Window = s /\ (SeqId(buf[s]) - x) % SeqRange < Window

Numbers == 0 .. MaxPackets - 1

Buffers == [Slots -> Numbers \cup {Empty}]

\* SeqIdType: a sequence id is a uint32_t.
LEMMA SeqIdType ==
  ASSUME NEW n \in Int
  PROVE  SeqId(n) \in 0 .. SeqRange - 1
<1>1. SeqRange \in Nat \ {0}
  BY WindowAssumption
<1> QED BY <1>1 DEF SeqId

\* InSlot: a frame d ahead of x is in the slot so many after the slot of x.
LEMMA InSlot ==
  ASSUME NEW buf \in Buffers, NEW x \in 0 .. SeqRange - 1, Fits(buf, x),
         NEW s \in Slots, buf[s] # Empty
  PROVE  \E d \in 0 .. Window - 1 :
           s = (x + d) % Window /\ SeqId(buf[s]) = (x + d) % SeqRange
<1>1. Window \in Nat \ {0} /\ SeqRange \in Nat \ {0}
  BY WindowAssumption
<1>2. buf[s] \in Int
  BY NetworkAssumption DEF Buffers, Numbers, Empty
<1>3. PICK v \in 0 .. SeqRange - 1 : v = SeqId(buf[s])
  BY <1>2, SeqIdType
<1>4. v % Window = s /\ (v - x) % SeqRange < Window
  BY <1>3 DEF Fits
<1>5. PICK d : d = (v - x) % SeqRange
  OBVIOUS
<1>6. d \in 0 .. SeqRange - 1 /\ v = (x + d) % SeqRange /\ v % Window = (x + d) % Window
  BY <1>5, Place
<1>7. d \in 0 .. Window - 1
  BY <1>1, <1>4, <1>5, <1>6
<1> QED BY <1>3, <1>4, <1>6, <1>7

\* DueValue: what is in the slot i after the expected one is the frame i after the
\* expected one.
LEMMA DueValue ==
  ASSUME NEW buf \in Buffers, NEW x \in 0 .. SeqRange - 1, Fits(buf, x),
         NEW i \in 0 .. Window - 1, (x + i) % Window \in Slots,
         buf[(x + i) % Window] # Empty
  PROVE  SeqId(buf[(x + i) % Window]) = (x + i) % SeqRange
<1>1. PICK d \in 0 .. Window - 1 :
        /\ (x + i) % Window = (x + d) % Window
        /\ SeqId(buf[(x + i) % Window]) = (x + d) % SeqRange
  BY InSlot
<1>2. x \in Int
  OBVIOUS
<1>3. i = d
  BY <1>1, <1>2, ModApart
<1> QED BY <1>1, <1>3

\* DueType: a slot is an index of the buffer.
LEMMA DueType ==
  ASSUME NEW a \in Int
  PROVE  a % Window \in Slots
<1>1. Window \in Nat \ {0}
  BY WindowAssumption
<1> QED BY <1>1 DEF Slots

\* StoredFits: receive_loop stores a frame in its slot if it is in the window, and
\* rejects it otherwise.
LEMMA StoredFits ==
  ASSUME TypeOK, BufferInWindow, NEW n \in Numbers
  PROVE  Stored(n) \in Buffers /\ Fits(Stored(n), expected)
<1>1. Window \in Nat \ {0} /\ SeqRange \in Nat \ {0} /\ n \in Int /\ n # Empty
  BY WindowAssumption, NetworkAssumption DEF Numbers, Empty
<1>2. jitter \in Buffers /\ Fits(jitter, expected)
  BY DEF TypeOK, BufferInWindow, Fits, Buffers, Numbers
<1>3. CASE ~InWindow(SeqId(n))
  BY <1>2, <1>3 DEF Stored
<1>4. CASE InWindow(SeqId(n))
  <2>1. PICK t \in Slots : t = SeqId(n) % Window
    <3>1. SeqId(n) \in Int
      BY <1>1, SeqIdType
    <3> QED BY <3>1, DueType
  <2>2. Stored(n) = [jitter EXCEPT ![t] = n]
    BY <1>4, <2>1 DEF Stored
  <2>3. Stored(n) \in Buffers
    BY <1>2, <2>2 DEF Buffers
  <2>4. (SeqId(n) - expected) % SeqRange < Window
    <3>1. PICK d : d = (SeqId(n) - expected) % SeqRange
      OBVIOUS
    <3>2. d \in 0 .. SeqRange - 1
      <4>1. SeqId(n) \in 0 .. SeqRange - 1 /\ expected \in 0 .. SeqRange - 1
        BY <1>1, SeqIdType DEF TypeOK
      <4> QED BY <3>1, <4>1, Place
    <3>3. LET f == IF d < SeqRange \div 2 THEN d ELSE d - SeqRange
          IN  f >= 0 /\ f < Window
      BY <1>4, <3>1 DEF InWindow, Diff
    <3>4. d < Window
      <4>1. CASE d < SeqRange \div 2
        BY <3>3, <4>1
      <4>2. CASE ~(d < SeqRange \div 2)
        BY <1>1, <3>2, <3>3, <4>2
      <4> QED BY <4>1, <4>2
    <3> QED BY <3>1, <3>4
  <2>5. ASSUME NEW s \in Slots, Stored(n)[s] # Empty
        PROVE  /\ SeqId(Stored(n)[s]) % Window = s
               /\ (SeqId(Stored(n)[s]) - expected) % SeqRange < Window
    <3>1. CASE s = t
      <4>1. Stored(n)[s] = n
        BY <1>2, <2>2, <3>1 DEF Buffers
      <4> QED BY <2>1, <2>4, <3>1, <4>1
    <3>2. CASE s # t
      <4>1. Stored(n)[s] = jitter[s]
        BY <1>2, <2>2, <3>2 DEF Buffers
      <4> QED BY <1>2, <2>5, <4>1 DEF Fits
    <3> QED BY <3>1, <3>2
  <2> QED BY <2>3, <2>5 DEF Fits
<1> QED BY <1>3, <1>4

\* DrainFits: what the loop leaves in the buffer is ahead of the new expected id.
LEMMA DrainFits ==
  ASSUME NEW buf \in Buffers, NEW x \in 0 .. SeqRange - 1, Fits(buf, x),
         NEW k \in 0 .. Window, NEW rest \in Buffers,
         rest = [s \in Slots |-> IF \E i \in 0 .. k - 1 : s = (x + i) % Window
                                THEN Empty ELSE buf[s]]
  PROVE  Fits(rest, (x + k) % SeqRange)
<1>1. Window \in Nat \ {0} /\ SeqRange \in Nat \ {0} /\ Window <= SeqRange /\ x \in Int
  BY WindowAssumption
<1>2. PICK y \in Int : y = (x + k) % SeqRange
  <2>1. x + k \in Int
    BY <1>1
  <2> QED BY <1>1, <2>1
<1>3. ASSUME NEW s \in Slots, rest[s] # Empty
      PROVE  SeqId(rest[s]) % Window = s /\ (SeqId(rest[s]) - y) % SeqRange < Window
  <2>1. rest[s] = buf[s] /\ ~ \E i \in 0 .. k - 1 : s = (x + i) % Window
    BY <1>3
  <2>2. SeqId(rest[s]) % Window = s
    BY <1>3, <2>1 DEF Fits
  <2>3. PICK d \in 0 .. Window - 1 :
          s = (x + d) % Window /\ SeqId(buf[s]) = (x + d) % SeqRange
    BY <1>3, <2>1, InSlot
  <2>4. d >= k
    BY <1>1, <2>1, <2>3
  <2>5. PICK e \in 0 .. SeqRange - 1 : e = d - k /\ e < Window
    BY <1>1, <2>4
  <2>6. (y + e) % SeqRange = (x + d) % SeqRange
    <3>1. PICK a \in Int : a = x + k
      BY <1>1
    <3>2. e \in Int
      BY <1>1
    <3>3. ((a % SeqRange) + e) % SeqRange = (a + e) % SeqRange
      BY <1>1, <3>2, ModPlus
    <3>4. a + e = x + d
      BY <1>1, <2>5, <3>1
    <3> QED BY <1>2, <3>1, <3>3, <3>4
  <2>7. (((y + e) % SeqRange) - y) % SeqRange = e
    BY Ahead
  <2>8. (SeqId(rest[s]) - y) % SeqRange = e
    BY <2>1, <2>3, <2>6, <2>7
  <2> QED BY <2>2, <2>5, <2>8
<1>4. Fits(rest, y)
  BY <1>3 DEF Fits
<1> QED BY <1>2, <1>4

\* DrainStops: the frame due next is not in the buffer when the loop ends.
LEMMA DrainStops ==
  ASSUME NEW buf \in Buffers, NEW x \in 0 .. SeqRange - 1, NEW k \in 0 .. Window,
         k < Window => buf[(x + k) % Window] = Empty, NEW rest,
         rest = [s \in Slots |-> IF \E i \in 0 .. k - 1 : s = (x + i) % Window
                                THEN Empty ELSE buf[s]]
  PROVE  rest[((x + k) % SeqRange) % Window] = Empty
<1>1. Window \in Nat \ {0} /\ SeqRange \in Nat \ {0} /\ x \in Int /\ k \in Int
  BY WindowAssumption
<1>2. PICK a \in Int : a = x + k
  BY <1>1
<1>3. (a % SeqRange) % Window = a % Window /\ a % Window \in Slots
  BY ModMod, DueType
<1>4. CASE k < Window
  <2>1. buf[a % Window] = Empty
    BY <1>2, <1>4
  <2>2. rest[a % Window] = Empty
    BY <1>3, <2>1
  <2> QED BY <1>2, <1>3, <2>2
<1>5. CASE k = Window
  <2>1. (x + Window * 1) % Window = x % Window
    <3>1. 1 \in Int
      OBVIOUS
    <3> QED BY <1>1, <3>1, ModShift
  <2>2. a = x + Window * 1 /\ x = x + 0
    BY <1>1, <1>2, <1>5
  <2>3. a % Window = (x + 0) % Window /\ 0 \in 0 .. k - 1
    BY <1>1, <1>5, <2>1, <2>2
  <2>4. rest[a % Window] = Empty
    BY <1>3, <2>3
  <2> QED BY <1>2, <1>3, <2>4
<1> QED BY <1>1, <1>4, <1>5

\* Frames with the ids from x on, without a gap.
Consecutive(q, x) == \A i \in 1 .. Len(q) : SeqId(q[i]) = (x + (i - 1)) % SeqRange

\* RunOn: frames with consecutive ids that are handed on after others.
LEMMA RunOn ==
  ASSUME NEW q \in Seq(Numbers), NEW run \in Seq(Numbers), NEW x, x = Len(q) % SeqRange,
         Consecutive(q, 0), Consecutive(run, x)
  PROVE  /\ q \o run \in Seq(Numbers) /\ Consecutive(q \o run, 0)
         /\ (x + Len(run)) % SeqRange = Len(q \o run) % SeqRange
<1>1. SeqRange \in Nat \ {0}
  BY WindowAssumption
<1>2. PICK k \in Nat : Len(run) = k
  OBVIOUS
<1>3. PICK l \in Nat : l = Len(q)
  OBVIOUS
<1>4. /\ q \o run \in Seq(Numbers) /\ Len(q \o run) = l + k
      /\ \A i \in 1 .. l + k : (q \o run)[i] = IF i <= l THEN q[i] ELSE run[i - l]
  BY <1>2, <1>3
<1>5. PICK r : r = q \o run
  OBVIOUS
<1>6. ASSUME NEW b \in Int PROVE (x + b) % SeqRange = (l + b) % SeqRange
  <2>1. ((l % SeqRange) + b) % SeqRange = (l + b) % SeqRange
    <3>1. l \in Int
      OBVIOUS
    <3> QED BY <1>1, <3>1, ModPlus
  <2> QED BY <1>3, <2>1
<1>7. ASSUME NEW i \in 1 .. l + k PROVE SeqId(r[i]) = (0 + (i - 1)) % SeqRange
  <2>1. CASE i <= l
    <3>1. i \in 1 .. l
      BY <2>1
    <3>2. r[i] = q[i]
      BY <1>4, <1>5, <2>1
    <3> QED BY <1>3, <3>1, <3>2 DEF Consecutive
  <2>2. CASE i > l
    <3>1. PICK j \in 1 .. k : j = i - l
      BY <2>2
    <3>2. r[i] = run[j]
      BY <1>4, <1>5, <2>2, <3>1
    <3>3. SeqId(run[j]) = (x + (j - 1)) % SeqRange
      BY <1>2 DEF Consecutive
    <3>4. PICK b \in Int : b = j - 1
      OBVIOUS
    <3>5. (x + b) % SeqRange = (l + b) % SeqRange
      BY <1>6
    <3>6. l + b = 0 + (i - 1)
      BY <3>1, <3>4
    <3> QED BY <3>2, <3>3, <3>4, <3>5, <3>6
  <2> QED BY <2>1, <2>2
<1>8. (x + k) % SeqRange = (l + k) % SeqRange
  BY <1>6
<1>9. Consecutive(r, 0)
  BY <1>4, <1>5, <1>7 DEF Consecutive
<1> QED BY <1>2, <1>4, <1>5, <1>8, <1>9

\* PushAllType: what does not fit into the ring is dropped.
LEMMA PushAllType ==
  ASSUME NEW q \in Seq(Numbers), Len(q) < Depth, NEW k \in Nat,
         NEW run \in [1 .. k -> Numbers]
  PROVE  PushAll(q, run) \in Seq(Numbers) /\ Len(PushAll(q, run)) < Depth
<1>1. Depth \in Nat
  BY NetworkAssumption
<1>2. run \in Seq(Numbers) /\ Len(run) = k
  OBVIOUS
<1>3. PICK l \in Nat : l = Len(q) /\ l < Depth
  OBVIOUS
<1>4. PICK a \in Nat : a = Depth - 1 - l
  <2>1. Depth - 1 - l \in Nat
    BY <1>1, <1>3
  <2> QED BY <2>1
<1>5. PICK m : m = Min({k, a})
  OBVIOUS
<1>6. m \in {k, a} /\ m <= k /\ m <= a
  <2>1. CASE k <= a
    BY <1>4, <1>5, <2>1 DEF Min
  <2>2. CASE a <= k
    BY <1>4, <1>5, <2>2 DEF Min
  <2> QED BY <1>4, <2>1, <2>2
<1>7. m \in 0 .. k
  BY <1>4, <1>6
<1>8. SubSeq(run, 1, m) \in Seq(Numbers) /\ Len(SubSeq(run, 1, m)) = m
  BY <1>2, <1>7
<1>9. PICK t \in Seq(Numbers) : t = SubSeq(run, 1, m) /\ Len(t) = m
  BY <1>8
<1>10. PushAll(q, run) = q \o t
  BY <1>2, <1>3, <1>4, <1>5, <1>9 DEF PushAll
<1>11. q \o t \in Seq(Numbers) /\ Len(q \o t) = l + m
  BY <1>3, <1>9
<1>12. l + m < Depth
  BY <1>1, <1>4, <1>6, <1>7
<1> QED BY <1>10, <1>11, <1>12

-----------------------------------------------------------------------------
(* The steps. *)

Inv == TypeOK /\ BufferInWindow /\ GapFree

\* AudioInv: a frame is stored, and what is due is handed on.
LEMMA AudioInv ==
  ASSUME Inv, NEW p \in Packets, ReceiveAudio(p)
  PROVE  /\ expected' \in 0 .. SeqRange - 1 /\ jitter' \in Buffers
         /\ outQueue' \in Seq(Numbers) /\ Len(outQueue') < Depth
         /\ drained' \in Seq(Numbers)
         /\ BufferInWindow' /\ GapFree'
<1> USE DEF Inv
<1>1. Window \in Nat \ {0} /\ SeqRange \in Nat \ {0}
  BY WindowAssumption
<1>2. PICK n \in Numbers : n = p.n
  BY DEF Packets, Numbers
<1>3. PICK buf : buf = Stored(n)
  OBVIOUS
<1>4. buf \in Buffers /\ Fits(buf, expected)
  BY <1>3, StoredFits
<1>5. PICK x \in 0 .. SeqRange - 1 : x = expected
  BY DEF TypeOK
<1>6. PICK k \in 0 .. Window :
        LET b == Stored(p.n)
            r == [i \in 1 .. k |-> b[Due(i - 1)]]
        IN  /\ Ready(b, k)
            /\ jitter' = [s \in Slots |-> IF \E i \in 0 .. k - 1 : s = Due(i)
                                          THEN Empty ELSE b[s]]
            /\ expected' = (expected + k) % SeqRange
            /\ outQueue' = PushAll(outQueue, r)
            /\ drained' = drained \o r
  BY DEF ReceiveAudio
<1>7. PICK run : run = [i \in 1 .. k |-> buf[Due(i - 1)]]
  OBVIOUS
<1>8. /\ \A i \in 0 .. k - 1 : buf[(x + i) % Window] # Empty
      /\ k < Window => buf[(x + k) % Window] = Empty
  BY <1>2, <1>3, <1>5, <1>6 DEF Ready, Due
<1>9. /\ jitter' = [s \in Slots |-> IF \E i \in 0 .. k - 1 : s = (x + i) % Window
                                    THEN Empty ELSE buf[s]]
      /\ expected' = (x + k) % SeqRange
  BY <1>2, <1>3, <1>5, <1>6 DEF Due
<1>10. k \in Nat /\ k \in Int /\ x \in Int
  BY <1>1
<1>11. ASSUME NEW i \in 0 .. k - 1
       PROVE  /\ (x + i) % Window \in Slots /\ buf[(x + i) % Window] \in Numbers
              /\ SeqId(buf[(x + i) % Window]) = (x + i) % SeqRange
  <2>1. x + i \in Int /\ i \in 0 .. Window - 1
    BY <1>1, <1>10
  <2>2. PICK t : t = (x + i) % Window
    OBVIOUS
  <2>3. t \in Slots
    BY <2>1, <2>2, DueType
  <2>4. buf[t] # Empty
    BY <1>8, <2>2
  <2>5. buf[t] \in Numbers
    BY <1>4, <2>3, <2>4 DEF Buffers
  <2>6. SeqId(buf[t]) = (x + i) % SeqRange
    BY <1>4, <1>5, <2>1, <2>2, <2>3, <2>4, DueValue
  <2> QED BY <2>2, <2>3, <2>5, <2>6
<1>12. ASSUME NEW j \in 1 .. k
       PROVE  run[j] \in Numbers /\ SeqId(run[j]) = (x + (j - 1)) % SeqRange
  <2>1. PICK i \in 0 .. k - 1 : i = j - 1
    BY <1>10
  <2>2. run[j] = buf[(x + i) % Window]
    BY <1>5, <1>7, <2>1 DEF Due
  <2>3. SeqId(run[j]) = (x + i) % SeqRange /\ run[j] \in Numbers
    BY <1>11, <2>2
  <2> QED BY <2>1, <2>3
<1>13. run \in [1 .. k -> Numbers]
  BY <1>7, <1>12
<1>14. outQueue' = PushAll(outQueue, run) /\ drained' = drained \o run
  BY <1>2, <1>3, <1>6, <1>7
<1>15. outQueue' \in Seq(Numbers) /\ Len(outQueue') < Depth
  <2>1. outQueue \in Seq(Numbers) /\ Len(outQueue) < Depth
    BY DEF TypeOK, Numbers
  <2>2. PushAll(outQueue, run) \in Seq(Numbers) /\ Len(PushAll(outQueue, run)) < Depth
    BY <1>10, <1>13, <2>1, PushAllType
  <2> QED BY <1>14, <2>2
<1>16. PICK rest : rest = jitter'
  OBVIOUS
<1>17. rest = [s \in Slots |-> IF \E i \in 0 .. k - 1 : s = (x + i) % Window
                               THEN Empty ELSE buf[s]]
  BY <1>9, <1>16
<1>18. rest \in Buffers
  BY <1>4, <1>17 DEF Buffers
<1>19. expected' = (x + k) % SeqRange
  BY <1>9
<1>20. expected' \in 0 .. SeqRange - 1
  <2>1. x + k \in Int
    BY <1>10
  <2>2. (x + k) % SeqRange \in 0 .. SeqRange - 1
    BY <1>1, <2>1
  <2> QED BY <1>19, <2>2
<1>21. Fits(rest, (x + k) % SeqRange)
  BY <1>4, <1>5, <1>17, <1>18, DrainFits
<1>22. BufferInWindow'
  BY <1>16, <1>19, <1>21 DEF Fits, BufferInWindow
<1>23. rest[((x + k) % SeqRange) % Window] = Empty
  <2>1. k < Window => buf[(x + k) % Window] = Empty
    BY <1>8
  <2> QED BY <1>4, <1>17, <2>1, DrainStops
<1>24. PICK q \in Seq(Numbers) : q = drained /\ x = Len(q) % SeqRange
  BY <1>5 DEF TypeOK, GapFree, Numbers
<1>25. Consecutive(q, 0) /\ Consecutive(run, x)
  <2>1. ASSUME NEW i \in 1 .. Len(q) PROVE SeqId(q[i]) = (0 + (i - 1)) % SeqRange
    BY <1>24 DEF GapFree
  <2>2. Len(run) = k
    BY <1>10, <1>13
  <2> QED BY <1>12, <2>1, <2>2 DEF Consecutive
<1>26. /\ drained' \in Seq(Numbers) /\ Consecutive(drained', 0)
       /\ (x + k) % SeqRange = Len(drained') % SeqRange
  <2>1. run \in Seq(Numbers) /\ Len(run) = k
    BY <1>10, <1>13
  <2>2. /\ q \o run \in Seq(Numbers) /\ Consecutive(q \o run, 0)
        /\ (x + Len(run)) % SeqRange = Len(q \o run) % SeqRange
    BY <1>24, <1>25, <2>1, RunOn
  <2> QED BY <1>14, <1>24, <2>1, <2>2
<1>27. GapFree'
  <2>1. ASSUME NEW i \in 1 .. Len(drained')
        PROVE  SeqId(drained'[i]) = (i - 1) % SeqRange
    <3>1. SeqId(drained'[i]) = (0 + (i - 1)) % SeqRange
      BY <1>26 DEF Consecutive
    <3>2. 0 + (i - 1) = i - 1
      BY <1>26
    <3> QED BY <3>1, <3>2
  <2>2. expected' = Len(drained') % SeqRange
    BY <1>19, <1>26
  <2>3. jitter'[expected' % Window] = Empty
    BY <1>16, <1>19, <1>23
  <2> QED BY <2>1, <2>2, <2>3 DEF GapFree, SeqId
<1> QED BY <1>15, <1>16, <1>18, <1>20, <1>22, <1>26, <1>27

\* SendTypes: what is sent is a packet.
LEMMA SendTypes ==
  ASSUME TypeOK, NEW type \in Types, SendPacket(type)
  PROVE  sent' \in 0 .. MaxPackets /\ up' \subseteq Packets /\ down' \subseteq Packets
<1>1. sent' \in 0 .. MaxPackets /\ sent \in 0 .. MaxPackets - 1
  BY NetworkAssumption DEF TypeOK, SendPacket
<1>2. [n |-> sent, type |-> type] \in Packets
  BY <1>1 DEF Packets
<1>3. Alive(up) \subseteq Packets /\ Alive(down) \subseteq Packets
  BY DEF Alive, TypeOK
<1> QED BY <1>1, <1>2, <1>3 DEF SendPacket

\* InitInv: the buffer is empty, and frame 0 is expected.
LEMMA InitInv == Init => Inv
<1> SUFFICES ASSUME Init PROVE Inv
  OBVIOUS
<1>1. Window \in Nat \ {0} /\ SeqRange \in Nat \ {0} /\ 0 \in 0 .. SeqRange - 1
  BY WindowAssumption
<1>2. jitter \in Buffers /\ \A s \in Slots : jitter[s] = Empty
  BY DEF Init, Buffers
<1>3. TypeOK
  <2>1. attached \in BOOLEAN
    <3>1. FALSE \in BOOLEAN
      OBVIOUS
    <3> QED BY <3>1, Zenon DEF Init
  <2> QED BY <1>1, <1>2, <2>1, NetworkAssumption DEF Init, TypeOK, Buffers, Numbers
<1>4. BufferInWindow
  BY <1>2 DEF BufferInWindow
<1>5. 0 % SeqRange = 0 /\ 0 % Window \in Slots
  <2>1. 0 \in Int
    OBVIOUS
  <2> QED BY <1>1, <2>1, ModSmall, DueType
<1>6. GapFree
  BY <1>2, <1>5 DEF Init, GapFree
<1> QED BY <1>3, <1>4, <1>6 DEF Inv

\* StepInv: the invariant is inductive.
LEMMA StepInv == Inv /\ [Next]_vars => Inv'
<1> SUFFICES ASSUME Inv, [Next]_vars PROVE Inv'
  OBVIOUS
<1>1. TypeOK /\ BufferInWindow /\ GapFree
  BY DEF Inv
<1>2. ASSUME UNCHANGED <<expected, jitter, drained>>
      PROVE  BufferInWindow' /\ GapFree'
  BY <1>1, <1>2 DEF BufferInWindow, GapFree
<1>3. ASSUME NEW type \in Types, SendPacket(type), UNCHANGED <<attached, rxVars>>,
             node' \in {"new", "active", "closing", "closed"},
             rx' \in {"none", "check", "recv", "done"}
      PROVE  Inv'
  <2>1. TypeOK'
    BY <1>1, <1>3, SendTypes DEF TypeOK, rxVars
  <2> QED BY <1>2, <1>3, <2>1 DEF Inv, rxVars
<1>4. CASE Send
  BY <1>1, <1>3, <1>4 DEF Send, InitNode, ProcessStage, ApplyControlEvent, Types, TypeOK
<1>5. CASE SetShmPtr \/ BeginDestroy \/ Joined \/ CheckActive \/ ReceiveJunk
  <2>1. TypeOK'
    BY <1>1, <1>5 DEF SetShmPtr, BeginDestroy, Joined, CheckActive, ReceiveJunk, TypeOK, rxVars
  <2> QED BY <1>2, <1>5, <2>1 DEF SetShmPtr, BeginDestroy, Joined, CheckActive, ReceiveJunk,
                                  Inv, rxVars
<1>6. CASE Network
  <2>1. TypeOK'
    BY <1>1, <1>6 DEF Network, LoseUp, LoseDown, TypeOK, nodeVars, rxVars
  <2> QED BY <1>2, <1>6, <2>1 DEF Network, LoseUp, LoseDown, Inv, rxVars
<1>7. CASE Server
  <2>1. PICK p \in up : ServerReceive(p)
    BY <1>7 DEF Server
  <2>2. p \in Packets
    BY <1>1 DEF TypeOK
  <2>3. [p EXCEPT !.type = "KEEPALIVE"] \in Packets
    BY <2>2 DEF Packets, Types
  <2>4. up' \subseteq Packets /\ down' \subseteq Packets
    BY <1>1, <2>1, <2>2, <2>3 DEF ServerReceive, TypeOK
  <2>5. TypeOK'
    BY <1>1, <2>1, <2>4 DEF ServerReceive, TypeOK, nodeVars, rxVars
  <2> QED BY <1>2, <2>1, <2>5 DEF ServerReceive, Inv, rxVars
<1>8. ASSUME NEW p \in down, ClientReceive(p) PROVE Inv'
  <2>1. p \in Packets
    BY <1>1 DEF TypeOK
  <2>2. down' \subseteq Packets /\ rx' \in {"none", "check", "recv", "done"}
    BY <1>1, <1>8 DEF ClientReceive, Rest, TypeOK
  <2>3. CASE p.type = "AUDIO_FRAME" /\ attached
    <3>1. ReceiveAudio(p)
      BY <1>8, <2>3 DEF ClientReceive
    <3>2. /\ expected' \in 0 .. SeqRange - 1 /\ jitter' \in Buffers
          /\ outQueue' \in Seq(Numbers) /\ Len(outQueue') < Depth
          /\ drained' \in Seq(Numbers)
          /\ BufferInWindow' /\ GapFree'
      BY <2>1, <3>1, AudioInv
    <3>3. UNCHANGED <<node, sent, attached, up>>
      BY <1>8 DEF ClientReceive
    <3>4. TypeOK'
      BY <1>1, <2>2, <3>2, <3>3 DEF TypeOK, Buffers, Numbers
    <3> QED BY <3>2, <3>4 DEF Inv
  <2>4. CASE ~(p.type = "AUDIO_FRAME" /\ attached)
    <3>1. UNCHANGED rxVars /\ UNCHANGED <<node, sent, attached, up>>
      BY <1>8, <2>4 DEF ClientReceive
    <3>2. TypeOK'
      BY <1>1, <2>2, <3>1 DEF TypeOK, rxVars
    <3> QED BY <1>2, <3>1, <3>2 DEF Inv, rxVars
  <2> QED BY <2>3, <2>4
<1>9. CASE PluginTakes
  <2>1. outQueue \in Seq(Numbers) /\ outQueue # << >> /\ Len(outQueue) < Depth
    BY <1>1, <1>9 DEF PluginTakes, TypeOK, Numbers
  <2>2. Tail(outQueue) \in Seq(Numbers) /\ Len(Tail(outQueue)) = Len(outQueue) - 1
        /\ Len(outQueue) \in Nat
    BY <2>1
  <2>3. outQueue' \in Seq(Numbers) /\ Len(outQueue') < Depth
    BY <1>9, <2>1, <2>2, NetworkAssumption DEF PluginTakes
  <2>4. TypeOK'
    BY <1>1, <1>9, <2>3 DEF PluginTakes, TypeOK, nodeVars, Numbers
  <2> QED BY <1>2, <1>9, <2>4 DEF PluginTakes, Inv
<1>10. CASE UNCHANGED vars
  <2>1. TypeOK'
    BY <1>1, <1>10 DEF vars, nodeVars, rxVars, TypeOK
  <2> QED BY <1>2, <1>10, <2>1 DEF vars, rxVars, Inv
<1> QED BY <1>4, <1>5, <1>6, <1>7, <1>8, <1>9, <1>10 DEF Next, Client, Receive

\* Invariance: it holds in every behaviour.
LEMMA Invariance == Spec => []Inv
BY InitInv, StepInv, PTL DEF Spec

-----------------------------------------------------------------------------
(* What waits in the buffer. *)

\* The step keeps the frame in slot s, or hands it on.
KeptOrHandedOn(s) ==
  \/ jitter'[s] # Empty /\ SeqId(jitter'[s]) = SeqId(jitter[s])
  \/ \E i \in Len(drained) + 1 .. Len(drained') : SeqId(drained'[i]) = SeqId(jitter[s])

\* StoredKeeps: only a frame with the same sequence id is stored in the place of another.
LEMMA StoredKeeps ==
  ASSUME TypeOK, BufferInWindow, NEW n \in Numbers, NEW s \in Slots, jitter[s] # Empty
  PROVE  Stored(n)[s] # Empty /\ SeqId(Stored(n)[s]) = SeqId(jitter[s])
<1>1. PICK buf : buf = Stored(n)
  OBVIOUS
<1>2. buf \in Buffers /\ Fits(buf, expected)
  BY <1>1, StoredFits
<1>3. jitter \in Buffers /\ Fits(jitter, expected)
  BY DEF TypeOK, BufferInWindow, Fits, Buffers, Numbers
<1>4. buf[s] # Empty
  <2>1. buf[s] = jitter[s] \/ buf[s] = n
    BY <1>1, <1>3 DEF Stored, Buffers
  <2>2. n # Empty
    BY NetworkAssumption DEF Numbers, Empty
  <2> QED BY <2>1, <2>2
<1>5. PICK x \in 0 .. SeqRange - 1 : x = expected
  BY DEF TypeOK
<1>6. PICK d \in 0 .. Window - 1 :
        s = (x + d) % Window /\ SeqId(jitter[s]) = (x + d) % SeqRange
  BY <1>3, <1>5, InSlot
<1>7. PICK e \in 0 .. Window - 1 :
        s = (x + e) % Window /\ SeqId(buf[s]) = (x + e) % SeqRange
  BY <1>2, <1>4, <1>5, InSlot
<1>8. x \in Int
  OBVIOUS
<1>9. d = e
  BY <1>6, <1>7, <1>8, ModApart
<1> QED BY <1>1, <1>4, <1>6, <1>7, <1>9

\* AudioKeeps: the loop clears a slot only for the frame it has pushed.
LEMMA AudioKeeps ==
  ASSUME Inv, NEW p \in Packets, ReceiveAudio(p), NEW s \in Slots, jitter[s] # Empty
  PROVE  KeptOrHandedOn(s)
<1>1. PICK n \in Numbers : n = p.n
  BY DEF Packets, Numbers
<1>2. PICK buf : buf = Stored(n)
  OBVIOUS
<1>3. buf[s] # Empty /\ SeqId(buf[s]) = SeqId(jitter[s])
  BY <1>2, StoredKeeps DEF Inv
<1>4. PICK k \in 0 .. Window :
        LET b == Stored(p.n)
            r == [i \in 1 .. k |-> b[Due(i - 1)]]
        IN  /\ Ready(b, k)
            /\ jitter' = [t \in Slots |-> IF \E i \in 0 .. k - 1 : t = Due(i)
                                          THEN Empty ELSE b[t]]
            /\ expected' = (expected + k) % SeqRange
            /\ outQueue' = PushAll(outQueue, r)
            /\ drained' = drained \o r
  BY DEF ReceiveAudio
<1>5. PICK run : run = [i \in 1 .. k |-> buf[Due(i - 1)]]
  OBVIOUS
<1>6. /\ jitter' = [t \in Slots |-> IF \E i \in 0 .. k - 1 : t = Due(i)
                                    THEN Empty ELSE buf[t]]
      /\ drained' = drained \o run
  BY <1>1, <1>2, <1>4, <1>5
<1>7. CASE ~ \E i \in 0 .. k - 1 : s = Due(i)
  BY <1>3, <1>6, <1>7 DEF KeptOrHandedOn
<1>8. CASE \E i \in 0 .. k - 1 : s = Due(i)
  <2>1. PICK i \in 0 .. k - 1 : s = Due(i)
    BY <1>8
  <2>2. k \in Nat /\ i \in Nat
    BY WindowAssumption
  <2>3. PICK j \in 1 .. k : j = i + 1
    BY <2>2
  <2>4. j - 1 = i
    BY <2>2, <2>3
  <2>5. run[j] = buf[s]
    BY <1>5, <2>1, <2>4
  <2>6. drained \in Seq(Numbers)
    BY DEF Inv, TypeOK, Numbers
  <2>7. PICK l \in Nat : l = Len(drained)
    BY <2>6
  <2>8. drained' \in Seq(Numbers)
    BY AudioInv
  <2>9. DOMAIN run = 1 .. k /\ Len(run) = k
    BY <1>5, <2>2
  <2>10. Len(drained') = l + k /\ drained'[l + j] = run[j]
    BY <1>5, <1>6, <2>2, <2>6, <2>7, <2>9
  <2>11. l + j \in l + 1 .. l + k
    BY <2>2, <2>3
  <2>12. SeqId(drained'[l + j]) = SeqId(jitter[s])
    BY <1>3, <2>5, <2>10
  <2> QED BY <2>7, <2>10, <2>11, <2>12 DEF KeptOrHandedOn
<1> QED BY <1>7, <1>8

\* WaitsForItsTurn: receive_loop never loses a frame that it has stored: it stays in the
\* jitter buffer, or a copy with its sequence id does, until it is handed on.
THEOREM WaitsForItsTurn == Spec => HeldUntilDue
<1>1. ASSUME Inv, [Next]_vars, NEW s \in Slots, jitter[s] # Empty
      PROVE  KeptOrHandedOn(s)
  <2>1. ASSUME jitter' = jitter PROVE KeptOrHandedOn(s)
    BY <1>1, <2>1 DEF KeptOrHandedOn
  <2>2. CASE Send
    BY <2>1, <2>2 DEF Send, InitNode, ProcessStage, ApplyControlEvent, rxVars
  <2>3. CASE SetShmPtr \/ BeginDestroy \/ Joined \/ CheckActive \/ ReceiveJunk
    BY <2>1, <2>3 DEF SetShmPtr, BeginDestroy, Joined, CheckActive, ReceiveJunk, rxVars
  <2>4. CASE Network \/ Server
    BY <2>1, <2>4 DEF Network, LoseUp, LoseDown, Server, ServerReceive, rxVars
  <2>5. CASE Receive
    <3>1. PICK p \in down : ClientReceive(p)
      BY <2>5 DEF Receive
    <3>2. p \in Packets
      BY <1>1 DEF Inv, TypeOK
    <3>3. ReceiveAudio(p) \/ jitter' = jitter
      BY <3>1 DEF ClientReceive, rxVars
    <3> QED BY <1>1, <2>1, <3>2, <3>3, AudioKeeps
  <2>6. CASE PluginTakes \/ UNCHANGED vars
    BY <2>1, <2>6 DEF PluginTakes, vars, rxVars
  <2> QED BY <1>1, <2>2, <2>3, <2>4, <2>5, <2>6 DEF Next, Client
<1>2. Inv /\ [Next]_vars =>
        [\A s \in Slots : jitter[s] # Empty =>
           \/ jitter'[s] # Empty /\ SeqId(jitter'[s]) = SeqId(jitter[s])
           \/ \E i \in Len(drained) + 1 .. Len(drained') :
                SeqId(drained'[i]) = SeqId(jitter[s])]_vars
  BY <1>1 DEF KeptOrHandedOn
<1> QED BY <1>2, Invariance, PTL DEF Spec, HeldUntilDue

-----------------------------------------------------------------------------
\* RemoteTypes: the variables have their types; out_queue is never overrun although
\* receive_loop pushes without looking.
THEOREM RemoteTypes == Spec => []TypeOK
<1>1. Inv => TypeOK
  BY DEF Inv
<1> QED BY <1>1, Invariance, PTL

\* JitterInWindow: no late duplicate and no frame of the next turn of the jitter buffer
\* is ever in the place of a frame.
THEOREM JitterInWindow == Spec => []BufferInWindow
<1>1. Inv => BufferInWindow
  BY DEF Inv
<1> QED BY <1>1, Invariance, PTL

\* HandedOnInOrder: receive_loop hands the frames on with consecutive sequence ids, across
\* the wrap-around, and leaves none that is due in the buffer.
THEOREM HandedOnInOrder == Spec => []GapFree
<1>1. Inv => GapFree
  BY DEF Inv
<1> QED BY <1>1, Invariance, PTL
=============================================================================
