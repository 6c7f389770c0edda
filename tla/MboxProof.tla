----------------------------- MODULE MboxProof ------------------------------
(***************************************************************************)
(* Theorems about Mbox, for every finite set of threads, every size of the *)
(* queue and every width of the counters: the lists are exact, no writer   *)
(* waits beside a free slot, no message is lost or delivered twice, and    *)
(* the buffer is a first-in first-out queue.                               *)
(*                                                                         *)
(* The counters wrap around, and keep their places in the array because    *)
(* the size divides their range (CibOk, PutContent, GetContent).  A woken  *)
(* writer owns a slot until it runs (Room), and a message that was handed  *)
(* to a reader is in its buffer until it does (Placed, Apart).             *)
(***************************************************************************)
EXTENDS Mbox, SchedProof, FiniteSetTheorems

-----------------------------------------------------------------------------
(* Arithmetic *)

\* Division with remainder.
LEMMA DivMod ==
    ASSUME NEW S \in Nat \ {0}, NEW x \in Int
    PROVE  /\ x % S \in 0 .. S - 1 /\ x \div S \in Int
           /\ (x \div S) * S + (x % S) = x
<1>1. x % S \in 0 .. S - 1 /\ x \div S \in Int
  OBVIOUS
<1>2. (x \div S) * S + (x % S) = x
  OBVIOUS
<1> QED
  BY <1>1, <1>2, Zenon

\* The remainder is unique.
LEMMA Remainder ==
    ASSUME NEW S \in Nat \ {0}, NEW q \in Int, NEW r \in 0 .. S - 1
    PROVE  (S * q + r) % S = r
  OBVIOUS

\* The remainder of a sum or a difference of two counters.
LEMMA ModOnce ==
    ASSUME NEW U \in Nat \ {0}, NEW x \in Int, -U <= x, x < 2 * U
    PROVE  x % U = IF x < 0 THEN x + U ELSE IF x < U THEN x ELSE x - U
<1>1. CASE x < 0
  <2>1. x = U * (-1) + (x + U) /\ x + U \in 0 .. U - 1
    BY <1>1
  <2> QED
    BY <1>1, <2>1, Remainder
<1>2. CASE x >= 0 /\ x < U
  <2>1. x = U * 0 + x /\ x \in 0 .. U - 1
    BY <1>2
  <2> QED
    BY <1>2, <2>1, Remainder
<1>3. CASE x >= U
  <2>1. x = U * 1 + (x - U) /\ x - U \in 0 .. U - 1
    BY <1>3
  <2> QED
    BY <1>3, <2>1, Remainder
<1> QED
  BY <1>1, <1>2, <1>3

\* A multiple of the divisor does not change the remainder.
LEMMA ModShift ==
    ASSUME NEW S \in Nat \ {0}, NEW x \in Int, NEW q \in Nat
    PROVE  (x - S * q) % S = x % S
<1> DEFINE r == x % S
           d == x \div S
<1>1. r \in 0 .. S - 1 /\ d \in Int /\ d * S + r = x
  BY DivMod, Zenon
<1> HIDE DEF r, d
<1>2. x - S * q = S * (d - q) + r
  BY <1>1
<1>3. (S * (d - q) + r) % S = r
  BY <1>1, Remainder
<1> QED
  BY <1>1, <1>2, <1>3 DEF r

\* Numbers less than the divisor apart have different remainders.
LEMMA ModApart ==
    ASSUME NEW S \in Nat \ {0}, NEW x \in Int, NEW y \in Int, x < y, y < x + S
    PROVE  x % S # y % S
<1> DEFINE a == x \div S
           b == y \div S
           r == x % S
<1> SUFFICES ASSUME y % S = r PROVE FALSE
  OBVIOUS
<1>1. /\ a \in Int /\ b \in Int /\ r \in 0 .. S - 1
      /\ a * S + r = x /\ b * S + r = y
  BY DivMod, Zenon
<1> HIDE DEF a, b, r
<1>2. y - x = S * (b - a)
  BY <1>1
<1>3. b - a >= 1
  BY <1>1, <1>2
<1>4. S * (b - a) >= S
  BY <1>1, <1>3
<1> QED
  BY <1>2, <1>4

\* A power of 2 divides every greater one.
LEMMA PowerDivides ==
    ASSUME NEW k \in 0 .. Width, NEW n \in k .. Width
    PROVE  \E q \in Nat \ {0} : 2 ^ n = 2 ^ k * q
<1>0. Width \in Nat
  BY CibAssumption
<1>1. \A j \in 0 .. Width : 2 ^ j \in Nat \ {0}
  <2>1. SUFFICES ASSUME NEW j \in 0 .. Width PROVE 2 ^ j \in Nat \ {0}
    OBVIOUS
  <2>2. CASE j = Width
    <3>1. Width - 1 \in 0 .. Width - 1 /\ (Width - 1) + 1 = Width
      BY CibAssumption
    <3> QED
      BY <2>2, <3>1, PowersOfTwo
  <2>3. CASE j # Width
    BY <1>0, <2>3, PowersOfTwo
  <2> QED
    BY <2>2, <2>3
<1> DEFINE Divides(j) == \E q \in Nat \ {0} : 2 ^ j = 2 ^ k * q
           Bad == {j \in k .. Width : ~Divides(j)}
<1>2. Divides(k)
  <2>1. 2 ^ k = 2 ^ k * 1
    BY <1>1
  <2> QED
    BY <2>1
<1>3. ASSUME NEW j \in k .. Width - 1, Divides(j) PROVE Divides(j + 1)
  <2>1. PICK q \in Nat \ {0} : 2 ^ j = 2 ^ k * q
    BY <1>3
  <2>2. 2 ^ (j + 1) = 2 * 2 ^ j /\ 2 ^ k \in Nat
    BY <1>0, <1>1, PowersOfTwo
  <2>3. 2 * (2 ^ k * q) = 2 ^ k * (2 * q) /\ 2 * q \in Nat \ {0}
    BY <2>2
  <2> QED
    BY <2>1, <2>2, <2>3
<1>4. Bad = {}
  <2> SUFFICES ASSUME Bad # {} PROVE FALSE
    OBVIOUS
  <2>1. Bad \in SUBSET Nat
    BY <1>0
  <2>2. PICK j \in Bad : \A i \in Bad : j <= i
    BY <2>1, LeastMember
  <2>3. j \in k .. Width /\ ~Divides(j)
    OBVIOUS
  <2> HIDE DEF Divides
  <2>4. j - 1 \in k .. Width - 1 /\ (j - 1) + 1 = j /\ j - 1 \in k .. Width
    BY <1>0, <1>2, <2>3
  <2>5. Divides(j - 1)
    BY <2>2, <2>4
  <2> QED
    BY <1>3, <2>3, <2>4, <2>5
<1> QED
  BY <1>4

\* The size of the queue divides the number of values of a counter, and is
\* less than half of it.
LEMMA SizeFacts ==
    /\ Size \in Nat \ {0} /\ UINT \in Nat \ {0} /\ 2 ^ (Width - 1) \in Nat
    /\ Size < 2 ^ (Width - 1) /\ UINT = 2 * 2 ^ (Width - 1)
    /\ \E q \in Nat : UINT = Size * q
<1>1. PICK k \in 0 .. Width - 2 : Size = 2 ^ k
  BY MboxAssumption
<1>2. /\ Width \in Nat /\ k \in 0 .. Width - 1 /\ k \in 0 .. Width
      /\ Width - 1 \in 0 .. Width - 1 /\ (Width - 1) + 1 = Width
      /\ Width - 2 \in 0 .. Width - 1 /\ (Width - 2) + 1 = Width - 1
      /\ Width \in k .. Width /\ Width - 2 \in k .. Width
  BY CibAssumption
<1>3. /\ 2 ^ k \in Nat \ {0}
      /\ 2 ^ (Width - 1) \in Nat \ {0} /\ 2 ^ Width = 2 * 2 ^ (Width - 1)
      /\ 2 ^ (Width - 2) \in Nat \ {0} /\ 2 ^ (Width - 1) = 2 * 2 ^ (Width - 2)
  BY <1>2, PowersOfTwo
<1>4. PICK q \in Nat \ {0} : 2 ^ Width = 2 ^ k * q
  BY <1>2, PowerDivides
<1>5. PICK p \in Nat \ {0} : 2 ^ (Width - 2) = 2 ^ k * p
  BY <1>2, PowerDivides
<1>6. 2 ^ k * p >= 2 ^ k
  BY <1>3
<1>7. Size < 2 ^ (Width - 1)
  BY <1>1, <1>3, <1>5, <1>6
<1> QED
  BY <1>1, <1>3, <1>4, <1>7 DEF UINT

-----------------------------------------------------------------------------
(* The circular integer buffer *)

\* The counters have the width of an unsigned int and are at most Size apart.
CibOk(c) ==
    /\ c \in [read_count : 0 .. UINT - 1, write_count : 0 .. UINT - 1, mask : {Size - 1}]
    /\ cib_avail(c) <= Size

\* The counters, without the arithmetic of unsigned integers.
LEMMA Counters ==
    ASSUME NEW c, CibOk(c)
    PROVE  /\ c.read_count \in 0 .. UINT - 1 /\ c.write_count \in 0 .. UINT - 1
           /\ c.mask = Size - 1
           /\ cib_avail(c) \in 0 .. Size
           /\ c.write_count = c.read_count + cib_avail(c)
                \/ c.write_count = c.read_count + cib_avail(c) - UINT
           /\ cib_full(c) <=> cib_avail(c) = Size
<1> DEFINE r == c.read_count
           w == c.write_count
           a == cib_avail(c)
<1>1. r \in 0 .. UINT - 1 /\ w \in 0 .. UINT - 1 /\ c.mask = Size - 1 /\ a <= Size
  BY DEF CibOk
<1>2. a = (w - r) % UINT
  BY DEF cib_avail
<1> HIDE DEF r, w, a
<1>3. UINT \in Nat \ {0} /\ Size \in Nat \ {0}
  BY SizeFacts
<1>4. a = IF w - r < 0 THEN w - r + UINT ELSE w - r
  <2> DEFINE d == w - r
  <2>1. d \in Int /\ -UINT <= d /\ d < UINT /\ d < 2 * UINT
    BY <1>1, <1>3
  <2> HIDE DEF d
  <2>2. d % UINT = IF d < 0 THEN d + UINT ELSE IF d < UINT THEN d ELSE d - UINT
    BY <1>3, <2>1, ModOnce
  <2>3. a = d % UINT
    BY <1>2 DEF d
  <2>4. a = IF d < 0 THEN d + UINT ELSE d
    BY <2>1, <2>2, <2>3
  <2> QED
    BY <2>4 DEF d
<1>5. a \in 0 .. Size /\ (w = r + a \/ w = r + a - UINT)
  BY <1>1, <1>3, <1>4
<1>6. cib_full(c) <=> a = Size
  <2>1. int(a) = a /\ int(Size - 1) = Size - 1
    BY <1>5, SizeFacts DEF int
  <2>2. cib_full(c) <=> int(a) > int(Size - 1)
    BY <1>1 DEF cib_full, a
  <2> QED
    BY <1>3, <1>5, <2>1, <2>2
<1> QED
  BY <1>1, <1>5, <1>6 DEF r, w, a

\* The index of an entry is the remainder of its number: the wrap-around of
\* the counters goes unnoticed because the size divides their range.
LEMMA Wraps ==
    ASSUME NEW x \in Int, 0 <= x, x < 2 * UINT
    PROVE  /\ (x % UINT) % Size = x % Size
           /\ (x - UINT) % Size = x % Size
<1>1. PICK q \in Nat : UINT = Size * q
  BY SizeFacts
<1>0. Size \in Nat \ {0} /\ UINT \in Nat \ {0}
  BY SizeFacts
<1>2. (x - UINT) % Size = x % Size
  <2>1. (x - Size * q) % Size = x % Size
    BY <1>0, ModShift, Zenon
  <2> QED
    BY <1>1, <2>1, Zenon
<1>3. x % UINT = x \/ x % UINT = x - UINT
  <2>1. -UINT <= x
    BY <1>0
  <2>2. x % UINT = IF x < 0 THEN x + UINT ELSE IF x < UINT THEN x ELSE x - UINT
    BY <1>0, <2>1, ModOnce
  <2> QED
    BY <2>2
<1> QED
  BY <1>2, <1>3

\* Where the entries are.
LEMMA Indices ==
    ASSUME NEW c, CibOk(c)
    PROVE  /\ \A i \in 0 .. Size : cib_peek_at_unsafe(c, i) = (c.read_count + i) % Size
           /\ PutIndex(c) = (c.read_count + cib_avail(c)) % Size
           /\ GetIndex(c) = c.read_count % Size
<1> DEFINE r == c.read_count
           w == c.write_count
           a == cib_avail(c)
<1>1. /\ r \in 0 .. UINT - 1 /\ w \in 0 .. UINT - 1 /\ c.mask + 1 = Size /\ a \in 0 .. Size
      /\ w = r + a \/ w = r + a - UINT
  <2>1. (Size - 1) + 1 = Size
    BY SizeFacts
  <2> QED
    BY <2>1, Counters
<1>2. Size < UINT /\ Size \in Nat \ {0} /\ UINT \in Nat
  BY SizeFacts
<1>3. PutIndex(c) = w % Size /\ GetIndex(c) = r % Size
  BY <1>1 DEF PutIndex, GetIndex, masked
<1>4. ASSUME NEW i \in 0 .. Size PROVE cib_peek_at_unsafe(c, i) = (r + i) % Size
  <2>1. cib_peek_at_unsafe(c, i) = ((r + i) % UINT) % Size
    BY <1>1 DEF cib_peek_at_unsafe, masked
  <2> HIDE DEF r
  <2>2. r + i \in Int /\ 0 <= r + i /\ r + i < 2 * UINT
    BY <1>1, <1>2
  <2> QED
    BY <2>1, <2>2, Wraps
<1> HIDE DEF r, w, a
<1>5. r + a \in Int /\ 0 <= r + a /\ r + a < 2 * UINT
  BY <1>1, <1>2
<1>6. w % Size = (r + a) % Size
  <2>1. ((r + a) - UINT) % Size = (r + a) % Size
    BY <1>5, Wraps
  <2>2. w = r + a \/ w = (r + a) - UINT
    BY <1>1, <1>2
  <2> QED
    BY <2>1, <2>2, Zenon
<1> QED
  BY <1>3, <1>4, <1>6 DEF r, a

\* The entries in the buffer.
LEMMA Entries ==
    ASSUME NEW c, CibOk(c), NEW V, NEW array \in [0 .. Size - 1 -> V]
    PROVE  /\ Content(c, array) \in Seq(V)
           /\ Len(Content(c, array)) = cib_avail(c)
           /\ \A i \in 1 .. cib_avail(c) :
                  Content(c, array)[i] = array[(c.read_count + (i - 1)) % Size]
           /\ \A x \in Int : x % Size \in 0 .. Size - 1
<1> DEFINE a == cib_avail(c)
<1>1. a \in 0 .. Size /\ Size \in Nat \ {0}
  BY Counters, SizeFacts
<1>2. \A x \in Int : x % Size \in 0 .. Size - 1
  BY <1>1, DivMod
<1>3. c.read_count \in Int
  BY Counters, SizeFacts
<1>4. ASSUME NEW i \in 1 .. a
      PROVE  /\ Content(c, array)[i] = array[(c.read_count + (i - 1)) % Size]
             /\ Content(c, array)[i] \in V
  <2>1. i - 1 \in 0 .. Size /\ c.read_count + (i - 1) \in Int
    BY <1>1, <1>3
  <2>2. cib_peek_at_unsafe(c, i - 1) = (c.read_count + (i - 1)) % Size
    BY <2>1, Indices
  <2>3. Content(c, array)[i] = array[cib_peek_at_unsafe(c, i - 1)]
    BY DEF Content
  <2> QED
    BY <1>2, <2>1, <2>2, <2>3
<1>5. Content(c, array) \in [1 .. a -> V]
  BY <1>4 DEF Content
<1> HIDE DEF a
<1>6. Content(c, array) \in Seq(V) /\ Len(Content(c, array)) = a
  BY <1>1, <1>5
<1> QED
  BY <1>2, <1>4, <1>6 DEF a

\* v is stored at the index cib_put_unsafe() returns.
Stored(c, array, v) == [array EXCEPT ![PutIndex(c)] = v]

\* Putting an entry there appends it.
LEMMA PutContent ==
    ASSUME NEW c, CibOk(c), NEW V, NEW array \in [0 .. Size - 1 -> V], NEW v \in V,
           cib_avail(c) # Size
    PROVE  /\ CibOk(cib_put_unsafe(c))
           /\ Len(Content(c, array)) < Size
           /\ Content(cib_put_unsafe(c), Stored(c, array, v))
                  = Append(Content(c, array), v)
<1> DEFINE r == c.read_count
           w == c.write_count
           a == cib_avail(c)
           d == cib_put_unsafe(c)
           next == [array EXCEPT ![PutIndex(c)] = v]
<1>1. /\ r \in 0 .. UINT - 1 /\ w \in 0 .. UINT - 1 /\ c.mask = Size - 1
      /\ a \in 0 .. Size - 1
      /\ w = r + a \/ w = r + a - UINT
      /\ Size < UINT /\ Size \in Nat \ {0} /\ UINT \in Nat \ {0}
  BY Counters, SizeFacts
<1>2. c \in [read_count : 0 .. UINT - 1, write_count : 0 .. UINT - 1, mask : {Size - 1}]
  BY DEF CibOk
<1>3. d = [c EXCEPT !.write_count = (w + 1) % UINT]
  BY <1>2 DEF cib_put_unsafe
<1>4. (w + 1) % UINT = (IF w + 1 < UINT THEN w + 1 ELSE 0) /\ (w + 1) % UINT \in 0 .. UINT - 1
  <2> HIDE DEF w
  <2> DEFINE x == w + 1
  <2>1. x \in Int /\ -UINT <= x /\ x < 2 * UINT /\ 0 <= x /\ x <= UINT
    BY <1>1
  <2> HIDE DEF x
  <2>2. x % UINT = IF x < 0 THEN x + UINT ELSE IF x < UINT THEN x ELSE x - UINT
    BY <1>1, <2>1, ModOnce
  <2>3. x % UINT = (IF x < UINT THEN x ELSE 0) /\ x % UINT \in 0 .. UINT - 1
    BY <1>1, <2>1, <2>2
  <2> QED
    BY <2>3 DEF x
<1>5. /\ d \in [read_count : 0 .. UINT - 1, write_count : 0 .. UINT - 1, mask : {Size - 1}]
      /\ d.read_count = r /\ d.write_count = IF w + 1 < UINT THEN w + 1 ELSE 0
  <2> DEFINE y == (w + 1) % UINT
  <2>1. y \in 0 .. UINT - 1 /\ d = [c EXCEPT !.write_count = y]
    BY <1>3, <1>4
  <2> HIDE DEF y, d
  <2>2. /\ d \in [read_count : 0 .. UINT - 1, write_count : 0 .. UINT - 1, mask : {Size - 1}]
        /\ d.read_count = r /\ d.write_count = y
    BY <1>2, <2>1
  <2> QED
    BY <1>4, <2>2 DEF y
<1> HIDE DEF d
<1>6. cib_avail(d) = a + 1
  <2> DEFINE e == d.write_count
             x == e - r
  <2>1. e = IF w + 1 < UINT THEN w + 1 ELSE 0
    BY <1>5
  <2>2. cib_avail(d) = x % UINT
    BY <1>5 DEF cib_avail
  <2> HIDE DEF e, r, w, a
  <2>3. x \in Int /\ -UINT <= x /\ x < 2 * UINT
    BY <1>1, <2>1
  <2>4. a + 1 = IF x < 0 THEN x + UINT ELSE IF x < UINT THEN x ELSE x - UINT
    BY <1>1, <2>1
  <2> HIDE DEF x
  <2>5. x % UINT = IF x < 0 THEN x + UINT ELSE IF x < UINT THEN x ELSE x - UINT
    BY <1>1, <2>3, ModOnce
  <2> QED
    BY <2>2, <2>4, <2>5
<1>7. CibOk(d)
  <2>1. a + 1 <= Size
    BY <1>1
  <2> QED
    BY <1>5, <1>6, <2>1 DEF CibOk
<1>8. PutIndex(c) = (r + a) % Size /\ PutIndex(c) \in 0 .. Size - 1
  <2>1. r + a \in Int
    BY <1>1
  <2> QED
    BY <2>1, Indices, Entries
<1>9. next \in [0 .. Size - 1 -> V]
  BY <1>8
<1>10. /\ Content(c, array) \in Seq(V) /\ Len(Content(c, array)) = a
       /\ \A i \in 1 .. a : Content(c, array)[i] = array[(r + (i - 1)) % Size]
       /\ \A x \in Int : x % Size \in 0 .. Size - 1
  BY Entries
<1>11. /\ Content(d, next) \in Seq(V) /\ Len(Content(d, next)) = a + 1
       /\ \A i \in 1 .. a + 1 : Content(d, next)[i] = next[(r + (i - 1)) % Size]
  <2> HIDE DEF next, r
  <2>1. /\ Content(d, next) \in Seq(V) /\ Len(Content(d, next)) = cib_avail(d)
        /\ \A i \in 1 .. cib_avail(d) :
               Content(d, next)[i] = next[(d.read_count + (i - 1)) % Size]
    BY <1>7, <1>9, Entries, Zenon
  <2> QED
    BY <1>5, <1>6, <2>1, Zenon
<1>12. Content(d, next)[a + 1] = v
  <2>1. (r + ((a + 1) - 1)) = r + a /\ a + 1 \in 1 .. a + 1
    BY <1>1
  <2> QED
    BY <1>8, <1>11, <2>1
<1>13. ASSUME NEW i \in 1 .. a PROVE Content(d, next)[i] = Content(c, array)[i]
  <2> DEFINE x == r + (i - 1)
             y == r + a
  <2>1. x \in Int /\ y \in Int /\ x < y /\ y < x + Size /\ i \in 1 .. a + 1
    <3>1. r \in Int /\ a \in 0 .. Size - 1 /\ UINT \in Nat /\ Size \in Nat
      BY <1>1
    <3> HIDE DEF r, a
    <3> QED
      BY <3>1
  <2>2. Content(d, next)[i] = next[x % Size] /\ Content(c, array)[i] = array[x % Size]
    BY <1>10, <1>11, <2>1
  <2>3. PutIndex(c) = y % Size
    BY <1>8
  <2> HIDE DEF x, y
  <2>4. x % Size # y % Size /\ x % Size \in 0 .. Size - 1
    BY <1>1, <1>10, <2>1, ModApart
  <2> QED
    BY <2>2, <2>3, <2>4
<1>14. Content(d, next) = Append(Content(c, array), v)
  <2> DEFINE s == Content(c, array)
             t == Content(d, next)
  <2>1. s \in Seq(V) /\ Len(s) = a /\ t \in Seq(V) /\ Len(t) = a + 1
    BY <1>10, <1>11
  <2>2. t[a + 1] = v /\ \A i \in 1 .. a : t[i] = s[i]
    BY <1>12, <1>13
  <2>3. a \in Nat
    BY <1>1
  <2> HIDE DEF s, t, a
  <2>4. t = Append(s, v)
    BY <2>1, <2>2, <2>3
  <2> QED
    BY <2>4 DEF s, t
<1>15. Len(Content(c, array)) < Size
  <2>1. Len(Content(c, array)) = a /\ a \in 0 .. Size - 1 /\ Size \in Nat
    BY <1>1, <1>10
  <2> HIDE DEF a
  <2> QED
    BY <2>1
<1> QED
  BY <1>7, <1>14, <1>15, Zenon DEF d, Stored

\* Getting takes the first entry off.
LEMMA GetContent ==
    ASSUME NEW c, CibOk(c), NEW V, NEW array \in [0 .. Size - 1 -> V],
           cib_avail(c) # 0
    PROVE  LET d == cib_get_unsafe(c)
           IN  /\ CibOk(d)
               /\ Content(c, array) # << >>
               /\ array[GetIndex(c)] = Head(Content(c, array))
               /\ Content(d, array) = Tail(Content(c, array))
<1> DEFINE r == c.read_count
           w == c.write_count
           a == cib_avail(c)
           d == cib_get_unsafe(c)
           n == IF r + 1 < UINT THEN r + 1 ELSE 0
<1>1. /\ r \in 0 .. UINT - 1 /\ w \in 0 .. UINT - 1 /\ c.mask = Size - 1
      /\ a \in 1 .. Size
      /\ w = r + a \/ w = r + a - UINT
      /\ Size < UINT /\ Size \in Nat \ {0} /\ UINT \in Nat \ {0}
  BY Counters, SizeFacts
<1>2. c \in [read_count : 0 .. UINT - 1, write_count : 0 .. UINT - 1, mask : {Size - 1}]
  BY DEF CibOk
<1>3. d = [c EXCEPT !.read_count = (r + 1) % UINT]
  BY <1>2 DEF cib_get_unsafe
<1>4. (r + 1) % UINT = n /\ n \in 0 .. UINT - 1
  <2> HIDE DEF r
  <2> DEFINE x == r + 1
  <2>1. x \in Int /\ -UINT <= x /\ x < 2 * UINT /\ 0 <= x /\ x <= UINT
    BY <1>1
  <2>2. n = (IF x < UINT THEN x ELSE 0) /\ n \in 0 .. UINT - 1
    BY <1>1
  <2> HIDE DEF x, n
  <2>3. x % UINT = IF x < 0 THEN x + UINT ELSE IF x < UINT THEN x ELSE x - UINT
    BY <1>1, <2>1, ModOnce
  <2>4. x % UINT = n
    BY <1>1, <2>1, <2>2, <2>3
  <2> QED
    BY <2>2, <2>4 DEF x
<1>5. /\ d \in [read_count : 0 .. UINT - 1, write_count : 0 .. UINT - 1, mask : {Size - 1}]
      /\ d.read_count = n /\ d.write_count = w
  <2>1. d = [c EXCEPT !.read_count = n]
    BY <1>3, <1>4
  <2> HIDE DEF d, n
  <2> QED
    BY <1>2, <1>4, <2>1
<1> HIDE DEF d
<1>6. cib_avail(d) = a - 1
  <2> DEFINE x == w - n
  <2>1. cib_avail(d) = x % UINT
    BY <1>5 DEF cib_avail
  <2> HIDE DEF r, w, a
  <2>2. x \in Int /\ -UINT <= x /\ x < 2 * UINT
    BY <1>1
  <2>3. a - 1 = IF x < 0 THEN x + UINT ELSE IF x < UINT THEN x ELSE x - UINT
    BY <1>1
  <2> HIDE DEF x, n
  <2>4. x % UINT = IF x < 0 THEN x + UINT ELSE IF x < UINT THEN x ELSE x - UINT
    BY <1>1, <2>2, ModOnce
  <2> QED
    BY <2>1, <2>3, <2>4
<1>7. CibOk(d)
  <2>1. a - 1 <= Size
    BY <1>1
  <2> QED
    BY <1>5, <1>6, <2>1 DEF CibOk
<1>8. /\ Content(c, array) \in Seq(V) /\ Len(Content(c, array)) = a
      /\ \A i \in 1 .. a : Content(c, array)[i] = array[(r + (i - 1)) % Size]
  BY Entries
<1>9. /\ Content(d, array) \in Seq(V) /\ Len(Content(d, array)) = a - 1
      /\ \A i \in 1 .. a - 1 : Content(d, array)[i] = array[(n + (i - 1)) % Size]
  <2> HIDE DEF n
  <2>1. /\ Content(d, array) \in Seq(V) /\ Len(Content(d, array)) = cib_avail(d)
        /\ \A i \in 1 .. cib_avail(d) :
               Content(d, array)[i] = array[(d.read_count + (i - 1)) % Size]
    BY <1>7, Entries, Zenon
  <2> QED
    BY <1>5, <1>6, <2>1, Zenon
<1>10. ASSUME NEW i \in 1 .. a - 1 PROVE Content(d, array)[i] = Content(c, array)[i + 1]
  <2> DEFINE x == r + ((i + 1) - 1)
  <2>1. x \in Int /\ 0 <= x /\ x < 2 * UINT /\ i + 1 \in 1 .. a
    BY <1>1
  <2>2. n + (i - 1) = x \/ n + (i - 1) = x - UINT
    <3> HIDE DEF r
    <3> QED
      BY <1>1
  <2>3. Content(c, array)[i + 1] = array[x % Size]
    BY <1>8, <2>1
  <2>4. Content(d, array)[i] = array[(n + (i - 1)) % Size]
    BY <1>9
  <2> HIDE DEF x, n
  <2>5. (x - UINT) % Size = x % Size
    BY <2>1, Wraps
  <2> QED
    BY <2>2, <2>3, <2>4, <2>5, Zenon
<1>11. GetIndex(c) = r % Size /\ Content(c, array)[1] = array[r % Size]
  <2>1. 1 \in 1 .. a /\ r + (1 - 1) = r
    BY <1>1
  <2> QED
    BY <1>8, <2>1, Indices
<1>12. /\ Content(c, array) # << >>
       /\ array[GetIndex(c)] = Head(Content(c, array))
       /\ Content(d, array) = Tail(Content(c, array))
  <2> DEFINE s == Content(c, array)
             t == Content(d, array)
  <2>1. s \in Seq(V) /\ Len(s) = a /\ t \in Seq(V) /\ Len(t) = a - 1
    BY <1>8, <1>9
  <2>2. \A i \in 1 .. a - 1 : t[i] = s[i + 1]
    BY <1>10
  <2>3. a \in Nat \ {0} /\ s[1] = array[GetIndex(c)]
    BY <1>1, <1>11
  <2> HIDE DEF s, t, a
  <2>4. s # << >> /\ s[1] = Head(s) /\ t = Tail(s)
    BY <2>1, <2>2, <2>3
  <2> QED
    BY <2>3, <2>4 DEF s, t
<1> QED
  BY <1>7, <1>12 DEF d

-----------------------------------------------------------------------------
(* The inductive invariant *)

\* The threads inside mbox_put().
putting == {t \in Threads : inside[t] = "mbox_put"}

\* Of these, the ones that have been woken and still have to look at the queue.
woken == {t \in Threads : inside[t] = "mbox_put" /\ on_runqueue(sched, t)}

\* The readers that have been woken, and whose message a writer copied.
handed == {t \in Threads : inside[t] = "mbox_get" /\ on_runqueue(sched, t)}

MTypes ==
    /\ readers \in Seq(Threads)
    /\ writers \in Seq(Threads)
    /\ CibOk(cib)
    /\ msg_array \in [0 .. Size - 1 -> Msgs]
    /\ wait_data \in [Threads -> Msgs]
    /\ inside \in [Threads -> {"none", "mbox_put", "mbox_get"}]
    /\ sent \in Nat
    /\ got \in SUBSET Msgs

blocked(t) == sched.status[t] = "MBOX_BLOCKED"

\* ListsExact, by what occurs in the lists.
Lists ==
    /\ NoDup(readers) /\ NoDup(writers)
    /\ \A t \in Threads :
           /\ Occurs(readers, t) <=> blocked(t) /\ inside[t] = "mbox_get"
           /\ Occurs(writers, t) <=> blocked(t) /\ inside[t] = "mbox_put"

\* A thread inside _wait() waits or has been woken: it does nothing else.
InWait ==
    \A t \in Threads :
        inside[t] # "none" => t # Idle /\ (blocked(t) \/ on_runqueue(sched, t))

\* Every message that is still to be accepted has a number.
Numbered == sent + Cardinality(putting) <= MaxMsg

\* WriterWaitsForRoom.
Room == writers # << >> => Len(msgs) + Cardinality(woken) >= Size

\* Of n messages each is received (g), in the queue (q) or in the buffer d of
\* a reader it was handed to (H) ...
Placed(n, g, q, H, d) ==
    \A x \in Msgs :
        x \in 1 .. n <=> \/ x \in g
                         \/ Occurs(q, x)
                         \/ \E t \in H : d[t] = x

\* ... and in one of these places only.
Apart(g, q, H, d) ==
    /\ NoDup(q)
    /\ \A x \in g : ~Occurs(q, x)
    /\ \A t \in H : d[t] \notin g /\ ~Occurs(q, d[t])
    /\ \A t, u \in H : d[t] = d[u] => t = u

MInv ==
    /\ SchedInv(sched)
    /\ MTypes
    /\ Lists
    /\ InWait
    /\ Numbered
    /\ Room
    /\ Placed(sent, got, msgs, handed, wait_data)
    /\ Apart(got, msgs, handed, wait_data)

-----------------------------------------------------------------------------
(* Where the messages are *)

\* A new message is handed to a reader, ...
LEMMA MessageHanded ==
    ASSUME NEW n \in Nat, n + 1 \in Msgs, NEW g \in SUBSET Msgs, NEW q \in Seq(Msgs),
           NEW H \in SUBSET Threads, NEW d \in [Threads -> Msgs],
           NEW u \in Threads, u \notin H,
           Placed(n, g, q, H, d), Apart(g, q, H, d)
    PROVE  LET e == [d EXCEPT ![u] = n + 1]
           IN  Placed(n + 1, g, q, H \cup {u}, e) /\ Apart(g, q, H \cup {u}, e)
<1> DEFINE e == [d EXCEPT ![u] = n + 1]
<1>1. e[u] = n + 1 /\ \A t \in H : e[t] = d[t]
  OBVIOUS
<1>2. \A t \in H : d[t] \in 1 .. n
  BY DEF Placed
<1>3. n + 1 \notin g /\ ~Occurs(q, n + 1) /\ \A t \in H : d[t] # n + 1
  BY DEF Placed
<1>4. \A x \in Msgs : x \in 1 .. n + 1 <=> x \in 1 .. n \/ x = n + 1
  BY DEF Msgs
<1> HIDE DEF e
<1>5. Placed(n + 1, g, q, H \cup {u}, e)
  BY <1>1, <1>4 DEF Placed
<1>6. Apart(g, q, H \cup {u}, e)
  BY <1>1, <1>3 DEF Apart
<1> QED
  BY <1>5, <1>6 DEF e

\* ... or appended to the queue, ...
LEMMA MessageQueued ==
    ASSUME NEW n \in Nat, n + 1 \in Msgs, NEW g \in SUBSET Msgs, NEW q \in Seq(Msgs),
           NEW H \in SUBSET Threads, NEW d \in [Threads -> Msgs],
           Placed(n, g, q, H, d), Apart(g, q, H, d)
    PROVE  LET r == Append(q, n + 1)
           IN  Placed(n + 1, g, r, H, d) /\ Apart(g, r, H, d)
<1> DEFINE r == Append(q, n + 1)
<1>1. n + 1 \notin g /\ ~Occurs(q, n + 1) /\ \A t \in H : d[t] # n + 1
  BY DEF Placed
<1>2. NoDup(q)
  BY DEF Apart
<1>3. (\A x : Occurs(r, x) <=> Occurs(q, x) \/ x = n + 1) /\ NoDup(r)
  BY <1>1, <1>2, AppendQueue
<1>4. \A x \in Msgs : x \in 1 .. n + 1 <=> x \in 1 .. n \/ x = n + 1
  BY DEF Msgs
<1> HIDE DEF r
<1>5. Placed(n + 1, g, r, H, d)
  BY <1>3, <1>4 DEF Placed
<1>6. Apart(g, r, H, d)
  BY <1>1, <1>3 DEF Apart
<1> QED
  BY <1>5, <1>6 DEF r

\* ... where its oldest is received, ...
LEMMA MessageTaken ==
    ASSUME NEW n \in Nat, NEW g \in SUBSET Msgs, NEW q \in Seq(Msgs), q # << >>,
           NEW H \in SUBSET Threads, NEW d \in [Threads -> Msgs],
           Placed(n, g, q, H, d), Apart(g, q, H, d)
    PROVE  LET f == g \cup {Head(q)}
           IN  Placed(n, f, Tail(q), H, d) /\ Apart(f, Tail(q), H, d)
<1> DEFINE f == g \cup {Head(q)}
           r == Tail(q)
           h == Head(q)
<1>1. NoDup(q)
  BY DEF Apart
<1>2. /\ Occurs(q, h) /\ NoDup(r)
      /\ \A x : Occurs(r, x) <=> Occurs(q, x) /\ x # h
  BY <1>1, TailQueue
<1>3. f = g \cup {h}
  OBVIOUS
<1> HIDE DEF f, r, h
<1>4. Placed(n, f, r, H, d)
  BY <1>2, <1>3 DEF Placed
<1>5. Apart(f, r, H, d)
  BY <1>2, <1>3 DEF Apart
<1> QED
  BY <1>4, <1>5 DEF f, r, h

\* ... as is the message that was handed over.
LEMMA MessageReceived ==
    ASSUME NEW n \in Nat, NEW g \in SUBSET Msgs, NEW q \in Seq(Msgs),
           NEW H \in SUBSET Threads, NEW d \in [Threads -> Msgs], NEW u \in H,
           Placed(n, g, q, H, d), Apart(g, q, H, d)
    PROVE  LET f == g \cup {d[u]}
               e == [d EXCEPT ![u] = NoMsg]
           IN  Placed(n, f, q, H \ {u}, e) /\ Apart(f, q, H \ {u}, e)
<1> DEFINE f == g \cup {d[u]}
           e == [d EXCEPT ![u] = NoMsg]
           I == H \ {u}
<1>1. \A t \in I : e[t] = d[t] /\ t \in H /\ t # u
  OBVIOUS
<1>2. H = I \cup {u}
  OBVIOUS
<1> HIDE DEF e, I
<1>3. Placed(n, f, q, I, e)
  BY <1>1, <1>2 DEF Placed
<1>4. Apart(f, q, I, e)
  BY <1>1, <1>2 DEF Apart
<1> QED
  BY <1>3, <1>4 DEF e, I

\* The buffer of a reader without a message does not count.
LEMMA MessagesStay ==
    ASSUME NEW n \in Nat, NEW g \in SUBSET Msgs, NEW q \in Seq(Msgs),
           NEW H \in SUBSET Threads, NEW d \in [Threads -> Msgs],
           NEW u \in Threads, u \notin H,
           Placed(n, g, q, H, d), Apart(g, q, H, d)
    PROVE  LET e == [d EXCEPT ![u] = NoMsg]
           IN  Placed(n, g, q, H, e) /\ Apart(g, q, H, e)
<1> DEFINE e == [d EXCEPT ![u] = NoMsg]
<1>1. \A t \in H : e[t] = d[t]
  OBVIOUS
<1> HIDE DEF e
<1>2. Placed(n, g, q, H, e)
  BY <1>1 DEF Placed
<1>3. Apart(g, q, H, e)
  BY <1>1 DEF Apart
<1> QED
  BY <1>2, <1>3 DEF e

\* The messages that are somewhere.
Found(g, q, H, d) == g \cup {q[i] : i \in DOMAIN q} \cup {d[t] : t \in H}

\* Counting the places: no message is in two of them.
LEMMA Counted ==
    ASSUME NEW n \in Nat, n <= MaxMsg, NEW g \in SUBSET Msgs, NEW q \in Seq(Msgs),
           NEW H \in SUBSET Threads, NEW d \in [Threads -> Msgs],
           Placed(n, g, q, H, d), Apart(g, q, H, d)
    PROVE  /\ \A x : x \in Found(g, q, H, d) <=> x \in 1 .. n
           /\ Cardinality(g) + Len(q) + Cardinality(H) = n
<1> DEFINE Q == {q[i] : i \in DOMAIN q}
           D == {d[t] : t \in H}
           f == [t \in H |-> d[t]]
<1>1. g \cup Q \cup D = 1 .. n
  <2>1. g \cup Q \cup D \subseteq Msgs
    OBVIOUS
  <2>2. 1 .. n \subseteq Msgs
    BY MboxAssumption DEF Msgs
  <2>3. \A x : Occurs(q, x) <=> x \in Q
    BY DEF Occurs
  <2>4. \A x : (\E t \in H : d[t] = x) <=> x \in D
    OBVIOUS
  <2> HIDE DEF Q, D
  <2> QED
    BY <2>1, <2>2, <2>3, <2>4 DEF Placed
<1>2. g \cap Q = {} /\ (g \cup Q) \cap D = {}
  BY DEF Apart, Occurs
<1>3. IsFiniteSet(g) /\ IsFiniteSet(Q) /\ IsFiniteSet(D)
  <2>1. IsFiniteSet(1 .. n)
    BY FS_Interval
  <2>2. g \in SUBSET (1 .. n) /\ Q \in SUBSET (1 .. n) /\ D \in SUBSET (1 .. n)
    BY <1>1
  <2> HIDE DEF Q, D
  <2> QED
    BY <2>1, <2>2, FS_Subset
<1>4. Cardinality(Q) = Len(q)
  <2>1. q \in Surjection(1 .. Len(q), Q)
    BY DEF Surjection
  <2>2. q \in Injection(1 .. Len(q), Q)
    BY <2>1 DEF Surjection, Injection, IsInjective, Apart, NoDup
  <2>3. IsFiniteSet(1 .. Len(q)) /\ Cardinality(1 .. Len(q)) = Len(q)
    <3>1. PICK k \in Nat : k = Len(q)
      OBVIOUS
    <3>2. IsFiniteSet(1 .. k) /\ Cardinality(1 .. k) = k
      BY FS_Interval
    <3> QED
      BY <3>1, <3>2
  <2> HIDE DEF Q
  <2> QED
    BY <2>1, <2>2, <2>3, FS_Surjection
<1>5. Cardinality(D) = Cardinality(H)
  <2>1. f \in Surjection(H, D)
    BY DEF Surjection
  <2>2. f \in Injection(H, D)
    BY <2>1 DEF Surjection, Injection, IsInjective, Apart
  <2>3. IsFiniteSet(H)
    BY MboxAssumption, FS_Subset
  <2> HIDE DEF D, f
  <2> QED
    BY <2>1, <2>2, <2>3, FS_Surjection
<1>6. Cardinality(1 .. n) = n
  BY FS_Interval
<1> HIDE DEF Q, D
<1>7. IsFiniteSet(g \cup Q) /\ Cardinality(g \cup Q) = Cardinality(g) + Cardinality(Q)
  <2>1. Cardinality(g \cap Q) = 0 /\ Cardinality(g) \in Nat /\ Cardinality(Q) \in Nat
    BY <1>2, <1>3, FS_EmptySet, FS_CardinalityType
  <2>2. /\ IsFiniteSet(g \cup Q)
        /\ Cardinality(g \cup Q)
               = Cardinality(g) + Cardinality(Q) - Cardinality(g \cap Q)
    BY <1>3, FS_Union, Zenon
  <2> QED
    BY <2>1, <2>2
<1>8. Cardinality((g \cup Q) \cup D) = Cardinality(g \cup Q) + Cardinality(D)
  <2>1. /\ Cardinality((g \cup Q) \cap D) = 0
        /\ Cardinality(g \cup Q) \in Nat /\ Cardinality(D) \in Nat
    BY <1>2, <1>3, <1>7, FS_EmptySet, FS_CardinalityType
  <2>2. Cardinality((g \cup Q) \cup D)
            = Cardinality(g \cup Q) + Cardinality(D) - Cardinality((g \cup Q) \cap D)
    BY <1>3, <1>7, FS_Union, Zenon
  <2> QED
    BY <2>1, <2>2
<1>9. Cardinality(g) + Len(q) + Cardinality(H) = n
  BY <1>1, <1>4, <1>5, <1>6, <1>7, <1>8
<1> QED
  BY <1>1, <1>9, Zenon DEF Q, D, Found

-----------------------------------------------------------------------------
(* What the steps share *)

\* The queue of messages, by the lemmas on the buffer.
LEMMA QueueFacts ==
    ASSUME MTypes
    PROVE  /\ msgs \in Seq(Msgs)
           /\ Len(msgs) = cib_avail(cib)
           /\ Len(msgs) \in Nat
           /\ cib_full(cib) <=> Len(msgs) = Size
           /\ Size \in Nat \ {0}
<1>1. msgs \in Seq(Msgs) /\ Len(msgs) = cib_avail(cib)
  BY Entries DEF MTypes, msgs
<1>2. cib_full(cib) <=> cib_avail(cib) = Size
  BY Counters DEF MTypes
<1> QED
  BY <1>1, <1>2, SizeFacts

\* The numbers of the messages.
LEMMA MsgNumbers == MaxMsg \in Nat /\ NoMsg \in Msgs /\ Msgs = 0 .. MaxMsg
<1>1. MaxMsg \in Nat
  BY MboxAssumption
<1> QED
  BY <1>1 DEF NoMsg, Msgs

\* The sets of threads that are counted are finite.
LEMMA Groups ==
    /\ putting \in SUBSET Threads /\ woken \in SUBSET Threads /\ handed \in SUBSET Threads
    /\ IsFiniteSet(putting) /\ Cardinality(putting) \in Nat
    /\ IsFiniteSet(woken) /\ Cardinality(woken) \in Nat
    /\ IsFiniteSet(handed) /\ Cardinality(handed) \in Nat
<1>1. putting \in SUBSET Threads /\ woken \in SUBSET Threads /\ handed \in SUBSET Threads
  BY DEF putting, woken, handed
<1>2. IsFiniteSet(putting) /\ IsFiniteSet(woken) /\ IsFiniteSet(handed)
  BY <1>1, MboxAssumption, FS_Subset
<1> QED
  BY <1>1, <1>2, FS_CardinalityType

\* A step that sets the status of u alone.
LEMMA OneStatus ==
    ASSUME SchedInv(sched), NEW u \in Threads, NEW st \in Status,
           sched'.status = [sched.status EXCEPT ![u] = st]
    PROVE  /\ \A t \in Threads : t # u => /\ blocked(t)' <=> blocked(t)
                                          /\ on_runqueue(sched, t)' <=> on_runqueue(sched, t)
           /\ blocked(u)' <=> st = "MBOX_BLOCKED"
           /\ on_runqueue(sched, u)' <=> st \in OnRunqueue
<1>1. sched.status \in [Threads -> Status]
  BY SchedFields DEF SchedInv
<1> QED
  BY <1>1 DEF blocked, on_runqueue

\* A thread executes on the run queue, and is not in a wait list.
LEMMA ExecutingFree ==
    ASSUME SchedInv(sched), NEW t \in Threads, Executing(t)
    PROVE  on_runqueue(sched, t) /\ ~blocked(t)
<1>1. sched.status[t] = "RUNNING" /\ on_runqueue(sched, t)
  BY ExecutingHead
<1> QED
  BY <1>1 DEF blocked

LEMMA BlockedOff ==
    ASSUME NEW t \in Threads, blocked(t)
    PROVE  ~on_runqueue(sched, t)
BY DEF blocked, on_runqueue, OnRunqueue

\* _wait(): t blocks and is in the list.
LEMMA WaitStep ==
    ASSUME SchedInv(sched), NEW t \in Threads, Executing(t), t # Idle,
           NEW list \in Seq(Threads),
           sched' = [sched_set_status(sched, t, "MBOX_BLOCKED")
                        EXCEPT !.call[t] = CallThreadYield]
    PROVE  /\ SchedInv(sched')
           /\ sched'.status = [sched.status EXCEPT ![t] = "MBOX_BLOCKED"]
           /\ LET next == thread_add_to_list(
                              sched_set_status(sched, t, "MBOX_BLOCKED"), list, t)
              IN  /\ next \in Seq(Threads)
                  /\ next # << >>
                  /\ \A x : Occurs(next, x) <=> Occurs(list, x) \/ x = t
                  /\ NoDup(list) /\ ~Occurs(list, t) => NoDup(next)
<1>1. "MBOX_BLOCKED" \in BlockedStatus
  BY DEF BlockedStatus
<1>2. sched.active = t /\ on_runqueue(sched, t) /\ IsHead(sched, t)
  BY ExecutingHead
<1>3. CallThreadYield \in Calls /\ CallThreadYield.op \in YieldOps
  BY CallTypes DEF YieldOps
<1>4. SchedInv(sched') /\ sched'.status = [sched.status EXCEPT ![t] = "MBOX_BLOCKED"]
  BY <1>1, <1>2, <1>3, BlockCall
<1>5. sched_set_status(sched, t, "MBOX_BLOCKED") \in SchedState
  BY <1>1, <1>2, BlockSelf
<1> QED
  BY <1>4, <1>5, AddToList

\* _wake_waiter(), by a thread or by a handler: u is pending.
LEMMA WakeStep ==
    ASSUME SchedInv(sched), NEW u \in Threads, blocked(u),
           \/ isr_wake_waiter(u)
           \/ \E t \in Threads : Executing(t) /\ wake_waiter(t, u)
    PROVE  /\ SchedInv(sched')
           /\ sched'.status = [sched.status EXCEPT ![u] = "PENDING"]
<1>1. ~on_runqueue(sched, u) /\ "PENDING" \in OnRunqueue
  BY BlockedOff DEF OnRunqueue
<1>2. sched.priority[u] \in Prios
  BY SchedFields DEF SchedInv
<1>3. CASE isr_wake_waiter(u)
  <2> DEFINE s == sched_set_status(sched, u, "PENDING")
  <2>1. SchedInv(s) /\ s.status = [sched.status EXCEPT ![u] = "PENDING"]
    BY <1>1, PushInv
  <2>2. PICK garbage \in BOOLEAN :
            sched' = cortexm_isr_end(sched_switch_isr(s, sched.priority[u], garbage))
    BY <1>3 DEF isr_wake_waiter, IsrEnds
  <2> HIDE DEF s
  <2> QED
    BY <2>1, <2>2, IsrEndInv
<1>4. CASE \E t \in Threads : Executing(t) /\ wake_waiter(t, u)
  <2>1. PICK t \in Threads : Executing(t) /\ wake_waiter(t, u)
    BY <1>4
  <2>2. sched.active = t /\ sched.status[t] = "RUNNING" /\ IsHead(sched, t)
    BY <2>1, ExecutingHead
  <2>3. /\ CallSwitch(sched.priority[u]) \in Calls
        /\ CallSwitch(sched.priority[u]).op \in YieldOps \cup SwitchOps
    BY <1>2, CallTypes DEF SwitchOps
  <2> QED
    BY <1>1, <2>1, <2>2, <2>3, WakeAndCall DEF wake_waiter
<1> QED
  BY <1>3, <1>4

-----------------------------------------------------------------------------
(* The steps *)

\* A message is handed to the first reader.
LEMMA HandKeeps ==
    ASSUME MInv, MayPut, hand_to_reader,
           \/ isr_wake_waiter(Head(readers))
           \/ \E t \in Threads : Executing(t) /\ wake_waiter(t, Head(readers))
    PROVE  MInv' /\ msgs' = msgs
<1>1. /\ readers \in Seq(Threads) /\ readers # << >> /\ NoDup(readers)
      /\ inside \in [Threads -> {"none", "mbox_put", "mbox_get"}]
      /\ wait_data \in [Threads -> Msgs] /\ sent \in Nat /\ got \in SUBSET Msgs
      /\ SchedInv(sched)
  BY DEF MInv, MTypes, Lists, hand_to_reader
<1>2. PICK u \in Threads : u = Head(readers)
  BY <1>1, TailQueue
<1>3. /\ Occurs(readers, u) /\ readers' \in Seq(Threads) /\ NoDup(readers')
      /\ \A x : Occurs(readers', x) <=> Occurs(readers, x) /\ x # u
  BY <1>1, <1>2, TailQueue DEF hand_to_reader
<1>4. blocked(u) /\ inside[u] = "mbox_get" /\ ~on_runqueue(sched, u)
  <2>1. blocked(u) /\ inside[u] = "mbox_get"
    BY <1>3 DEF MInv, Lists
  <2> QED
    BY <2>1, BlockedOff
<1>5. SchedInv(sched') /\ sched'.status = [sched.status EXCEPT ![u] = "PENDING"]
  <2>1. \/ isr_wake_waiter(u)
        \/ \E t \in Threads : Executing(t) /\ wake_waiter(t, u)
    BY <1>2
  <2> QED
    BY <1>1, <1>4, <2>1, WakeStep
<1>6. /\ \A t \in Threads : t # u => /\ blocked(t)' <=> blocked(t)
                                     /\ on_runqueue(sched, t)' <=> on_runqueue(sched, t)
      /\ ~blocked(u)' /\ on_runqueue(sched, u)'
  <2>1. "PENDING" \in Status /\ "PENDING" \in OnRunqueue
    BY DEF Status, OnRunqueue
  <2> QED
    BY <1>1, <1>5, <2>1, OneStatus
<1>7. /\ wait_data' = [wait_data EXCEPT ![u] = sent + 1]
      /\ sent' = sent + 1 /\ got' = got /\ inside' = inside /\ writers' = writers
      /\ cib' = cib /\ msg_array' = msg_array
  BY <1>2 DEF hand_to_reader, Accepted, NewMsg, queue
<1>8. handed' = handed \cup {u} /\ u \notin handed /\ putting' = putting /\ woken' = woken
  BY <1>4, <1>6, <1>7 DEF handed, putting, woken
<1>9. msgs' = msgs
  BY <1>7 DEF msgs
<1>10. sent + Cardinality(putting) < MaxMsg /\ sent + 1 \in Msgs
  <2>1. sent + Cardinality(putting) < MaxMsg
    BY DEF MayPut, putting
  <2> QED
    BY <1>1, <2>1, Groups, MsgNumbers
<1>11. MTypes'
  <2>1. CibOk(cib) /\ msg_array \in [0 .. Size - 1 -> Msgs] /\ writers \in Seq(Threads)
    BY DEF MInv, MTypes
  <2>2. wait_data' \in [Threads -> Msgs] /\ sent' \in Nat
    BY <1>1, <1>7, <1>10
  <2> QED
    BY <1>1, <1>3, <1>7, <2>1, <2>2 DEF MTypes
<1>12. Lists'
  BY <1>3, <1>4, <1>6, <1>7 DEF MInv, Lists
<1>13. InWait'
  BY <1>6, <1>7 DEF MInv, InWait
<1>14. Numbered'
  BY <1>1, <1>7, <1>8, <1>10, Groups, MsgNumbers DEF Numbered
<1>15. Room'
  BY <1>7, <1>8, <1>9 DEF MInv, Room
<1>16. /\ Placed(sent', got', msgs', handed', wait_data')
       /\ Apart(got', msgs', handed', wait_data')
  <2>1. msgs \in Seq(Msgs) /\ handed \in SUBSET Threads
    BY QueueFacts, Groups DEF MInv
  <2>2. Placed(sent, got, msgs, handed, wait_data) /\ Apart(got, msgs, handed, wait_data)
    BY DEF MInv
  <2>3. LET e == [wait_data EXCEPT ![u] = sent + 1]
        IN  /\ Placed(sent + 1, got, msgs, handed \cup {u}, e)
            /\ Apart(got, msgs, handed \cup {u}, e)
    BY <1>1, <1>8, <1>10, <2>1, <2>2, MessageHanded
  <2> QED
    BY <1>7, <1>8, <1>9, <2>3
<1> QED
  BY <1>5, <1>9, <1>11, <1>12, <1>13, <1>14, <1>15, <1>16 DEF MInv

\* What the queue does when a message is enqueued ...
LEMMA EnqueueQueue ==
    ASSUME MInv, enqueue, sent + 1 \in Msgs, handed' = handed
    PROVE  /\ CibOk(cib') /\ msg_array' \in [0 .. Size - 1 -> Msgs]
           /\ Len(msgs) < Size
           /\ msgs' = Append(msgs, sent + 1)
           /\ Len(msgs') = Len(msgs) + 1
           /\ Placed(sent', got', msgs', handed', wait_data')
           /\ Apart(got', msgs', handed', wait_data')
<1>1. /\ CibOk(cib) /\ msg_array \in [0 .. Size - 1 -> Msgs] /\ ~cib_full(cib)
      /\ wait_data \in [Threads -> Msgs] /\ sent \in Nat /\ got \in SUBSET Msgs
  BY DEF MInv, MTypes, enqueue
<1>2. /\ cib' = cib_put_unsafe(cib)
      /\ msg_array' = [msg_array EXCEPT ![PutIndex(cib)] = sent + 1]
      /\ sent' = sent + 1 /\ got' = got /\ wait_data' = wait_data
  BY DEF enqueue, Accepted, NewMsg
<1>3. /\ CibOk(cib') /\ msg_array' \in [0 .. Size - 1 -> Msgs]
      /\ Len(Content(cib, msg_array)) < Size
      /\ Content(cib', msg_array') = Append(Content(cib, msg_array), sent + 1)
  <2>1. PICK v \in Msgs : v = sent + 1
    OBVIOUS
  <2>2. cib_avail(cib) # Size
    BY <1>1, Counters
  <2>3. CibOk(cib_put_unsafe(cib)) /\ Len(Content(cib, msg_array)) < Size
    BY <1>1, <2>2, PutContent
  <2>4. Content(cib_put_unsafe(cib), Stored(cib, msg_array, v))
            = Append(Content(cib, msg_array), v)
    BY <1>1, <2>2, PutContent, ZenonT(40)
  <2>5. msg_array' = Stored(cib, msg_array, v)
    BY <1>2, <2>1, Zenon DEF Stored
  <2>6. msg_array' \in [0 .. Size - 1 -> Msgs]
    BY <1>1, <1>2
  <2> QED
    BY <1>2, <2>1, <2>3, <2>4, <2>5, <2>6
<1>4. msgs \in Seq(Msgs) /\ handed \in SUBSET Threads
  BY QueueFacts, Groups DEF MInv
<1>5. msgs' = Append(msgs, sent + 1) /\ Len(msgs) < Size
  BY <1>3 DEF msgs
<1>6. Len(msgs') = Len(msgs) + 1
  BY <1>4, <1>5
<1>7. Placed(sent, got, msgs, handed, wait_data) /\ Apart(got, msgs, handed, wait_data)
  BY DEF MInv
<1>8. LET r == Append(msgs, sent + 1)
      IN  Placed(sent + 1, got, r, handed, wait_data) /\ Apart(got, r, handed, wait_data)
  BY <1>1, <1>4, <1>7, MessageQueued
<1> QED
  BY <1>2, <1>3, <1>5, <1>6, <1>8

\* ... and when the oldest one is taken.
LEMMA DequeueQueue ==
    ASSUME MInv, dequeue, handed' = handed
    PROVE  /\ CibOk(cib') /\ got' \in SUBSET Msgs
           /\ msgs # << >>
           /\ msgs' = Tail(msgs)
           /\ Len(msgs') = Len(msgs) - 1
           /\ Placed(sent', got', msgs', handed', wait_data')
           /\ Apart(got', msgs', handed', wait_data')
<1>1. /\ CibOk(cib) /\ msg_array \in [0 .. Size - 1 -> Msgs] /\ cib_avail(cib) # 0
      /\ wait_data \in [Threads -> Msgs] /\ sent \in Nat /\ got \in SUBSET Msgs
  BY DEF MInv, MTypes, dequeue
<1>2. /\ cib' = cib_get_unsafe(cib) /\ msg_array' = msg_array
      /\ got' = got \cup {msg_array[GetIndex(cib)]}
      /\ sent' = sent /\ wait_data' = wait_data
  BY DEF dequeue, Receives
<1>3. LET d == cib_get_unsafe(cib)
      IN  /\ CibOk(d)
          /\ Content(cib, msg_array) # << >>
          /\ msg_array[GetIndex(cib)] = Head(Content(cib, msg_array))
          /\ Content(d, msg_array) = Tail(Content(cib, msg_array))
  BY <1>1, GetContent
<1>4. /\ CibOk(cib') /\ msgs # << >> /\ msgs' = Tail(msgs)
      /\ got' = got \cup {Head(msgs)}
  BY <1>2, <1>3 DEF msgs
<1>5. msgs \in Seq(Msgs) /\ handed \in SUBSET Threads
  BY QueueFacts, Groups DEF MInv
<1>6. Len(msgs') = Len(msgs) - 1 /\ Head(msgs) \in Msgs
  BY <1>4, <1>5
<1>7. Placed(sent, got, msgs, handed, wait_data) /\ Apart(got, msgs, handed, wait_data)
  BY DEF MInv
<1>8. LET f == got \cup {Head(msgs)}
      IN  /\ Placed(sent, f, Tail(msgs), handed, wait_data)
          /\ Apart(f, Tail(msgs), handed, wait_data)
  BY <1>1, <1>4, <1>5, <1>7, MessageTaken
<1> QED
  BY <1>1, <1>2, <1>4, <1>6, <1>8

\* A message is enqueued by a caller that did not wait, ...
LEMMA EnqueueKeeps ==
    ASSUME MInv, MayPut, enqueue, UNCHANGED inside
    PROVE  MInv' /\ msgs' = Append(msgs, sent + 1) /\ Len(msgs) < Size /\ sent + 1 \in Msgs
<1>1. /\ sched' = sched /\ readers' = readers /\ writers' = writers /\ inside' = inside
      /\ sent' = sent + 1 /\ got' = got /\ wait_data' = wait_data
  BY DEF enqueue, Accepted, NewMsg
<1>2. handed' = handed /\ putting' = putting /\ woken' = woken
  BY <1>1 DEF handed, putting, woken
<1>3. sent \in Nat /\ Cardinality(putting) \in Nat /\ Cardinality(woken) \in Nat
  BY Groups DEF MInv, MTypes
<1>4. sent + Cardinality(putting) < MaxMsg /\ sent + 1 \in Msgs
  <2>1. sent + Cardinality(putting) < MaxMsg
    BY DEF MayPut, putting
  <2> QED
    BY <1>3, <2>1, MsgNumbers
<1>5. /\ CibOk(cib') /\ msg_array' \in [0 .. Size - 1 -> Msgs]
      /\ Len(msgs) < Size
      /\ msgs' = Append(msgs, sent + 1)
      /\ Len(msgs') = Len(msgs) + 1
      /\ Placed(sent', got', msgs', handed', wait_data')
      /\ Apart(got', msgs', handed', wait_data')
  BY <1>2, <1>4, EnqueueQueue
<1>6. MTypes'
  BY <1>1, <1>3, <1>5 DEF MInv, MTypes
<1>7. Lists' /\ InWait' /\ SchedInv(sched')
  BY <1>1 DEF MInv, Lists, InWait, blocked, on_runqueue
<1>8. Numbered'
  BY <1>1, <1>2, <1>3, <1>4, MsgNumbers DEF Numbered
<1>9. Room'
  <2>1. Len(msgs) \in Nat /\ Size \in Nat
    BY QueueFacts DEF MInv
  <2> QED
    BY <1>1, <1>2, <1>3, <1>5, <2>1 DEF MInv, Room
<1> QED
  BY <1>4, <1>5, <1>6, <1>7, <1>8, <1>9 DEF MInv

\* ... or by a writer that was woken.
LEMMA ResumeKeeps ==
    ASSUME MInv, NEW t \in Threads, Executing(t), inside[t] = "mbox_put", enqueue,
           inside' = [inside EXCEPT ![t] = "none"]
    PROVE  MInv' /\ msgs' = Append(msgs, sent + 1) /\ Len(msgs) < Size /\ sent + 1 \in Msgs
<1>1. /\ sched' = sched /\ readers' = readers /\ writers' = writers
      /\ sent' = sent + 1 /\ got' = got /\ wait_data' = wait_data
  BY DEF enqueue, Accepted, NewMsg
<1>2. /\ inside \in [Threads -> {"none", "mbox_put", "mbox_get"}]
      /\ SchedInv(sched) /\ sent \in Nat
  BY DEF MInv, MTypes
<1>3. on_runqueue(sched, t) /\ ~blocked(t)
  BY <1>2, ExecutingFree
<1>4. /\ inside' \in [Threads -> {"none", "mbox_put", "mbox_get"}]
      /\ inside'[t] = "none" /\ \A u \in Threads : u # t => inside'[u] = inside[u]
  BY <1>2
<1>5. \A u \in Threads : /\ on_runqueue(sched, u)' <=> on_runqueue(sched, u)
                         /\ blocked(u)' <=> blocked(u)
  BY <1>1 DEF on_runqueue, blocked
<1>6. /\ handed' = handed /\ putting' = putting \ {t} /\ woken' = woken \ {t}
      /\ t \in putting /\ t \in woken
  BY <1>3, <1>4, <1>5 DEF handed, putting, woken
<1>7. /\ Cardinality(putting) \in Nat /\ Cardinality(woken) \in Nat
      /\ Cardinality(putting') = Cardinality(putting) - 1
      /\ Cardinality(woken') = Cardinality(woken) - 1
      /\ Cardinality(putting) # 0
  <2>1. /\ IsFiniteSet(putting) /\ IsFiniteSet(woken)
        /\ Cardinality(putting) \in Nat /\ Cardinality(woken) \in Nat
    BY Groups
  <2>2. /\ Cardinality(putting \ {t}) = Cardinality(putting) - 1
        /\ Cardinality(woken \ {t}) = Cardinality(woken) - 1
    BY <1>6, <2>1, FS_RemoveElement
  <2>3. Cardinality(putting) # 0
    BY <1>6, <2>1, FS_EmptySet
  <2> QED
    BY <1>6, <2>1, <2>2, <2>3
<1>8. sent + Cardinality(putting) <= MaxMsg /\ sent + 1 \in Msgs
  <2>1. sent + Cardinality(putting) <= MaxMsg
    BY DEF MInv, Numbered
  <2> QED
    BY <1>2, <1>7, <2>1, MsgNumbers
<1>9. /\ CibOk(cib') /\ msg_array' \in [0 .. Size - 1 -> Msgs]
      /\ Len(msgs) < Size
      /\ msgs' = Append(msgs, sent + 1)
      /\ Len(msgs') = Len(msgs) + 1
      /\ Placed(sent', got', msgs', handed', wait_data')
      /\ Apart(got', msgs', handed', wait_data')
  BY <1>6, <1>8, EnqueueQueue
<1>10. MTypes'
  <2>1. /\ readers \in Seq(Threads) /\ writers \in Seq(Threads)
        /\ wait_data \in [Threads -> Msgs] /\ got \in SUBSET Msgs
    BY DEF MInv, MTypes
  <2> QED
    BY <1>1, <1>2, <1>4, <1>9, <2>1 DEF MTypes
<1>11. Lists'
  BY <1>1, <1>3, <1>4, <1>5 DEF MInv, Lists
<1>12. InWait'
  BY <1>4, <1>5 DEF MInv, InWait
<1>13. Numbered'
  BY <1>1, <1>2, <1>7, <1>8, MsgNumbers DEF Numbered
<1>14. Room'
  <2>1. Len(msgs) \in Nat /\ Size \in Nat
    BY QueueFacts DEF MInv
  <2> QED
    BY <1>1, <1>7, <1>9, <2>1 DEF MInv, Room
<1> QED
  BY <1>1, <1>2, <1>8, <1>9, <1>10, <1>11, <1>12, <1>13, <1>14 DEF MInv

\* A writer waits: for the first time or, when others were faster, again.
LEMMA WriterWaits ==
    ASSUME MInv, NEW t \in Threads, Executing(t), t # Idle, cib_full(cib),
           wait(t, writers),
           \/ inside[t] = "none" /\ MayPut
           \/ inside[t] = "mbox_put",
           inside' = [inside EXCEPT ![t] = "mbox_put"],
           UNCHANGED <<readers, queue, wait_data, sent, got>>
    PROVE  MInv' /\ msgs' = msgs
<1>1. /\ readers' = readers /\ cib' = cib /\ msg_array' = msg_array
      /\ wait_data' = wait_data /\ sent' = sent /\ got' = got
  BY DEF queue
<1>2. /\ inside \in [Threads -> {"none", "mbox_put", "mbox_get"}]
      /\ SchedInv(sched) /\ sent \in Nat /\ writers \in Seq(Threads) /\ NoDup(writers)
  BY DEF MInv, MTypes, Lists
<1>3. on_runqueue(sched, t) /\ ~blocked(t)
  BY <1>2, ExecutingFree
<1>4. ~Occurs(writers, t)
  BY <1>3 DEF MInv, Lists
<1>5. /\ SchedInv(sched')
      /\ sched'.status = [sched.status EXCEPT ![t] = "MBOX_BLOCKED"]
      /\ writers' \in Seq(Threads) /\ writers' # << >> /\ NoDup(writers')
      /\ \A x : Occurs(writers', x) <=> Occurs(writers, x) \/ x = t
  <2>1. /\ writers' = thread_add_to_list(sched_set_status(sched, t, "MBOX_BLOCKED"), writers, t)
        /\ sched' = [sched_set_status(sched, t, "MBOX_BLOCKED")
                        EXCEPT !.call[t] = CallThreadYield]
    BY DEF wait
  <2>2. LET next == thread_add_to_list(
                        sched_set_status(sched, t, "MBOX_BLOCKED"), writers, t)
        IN  /\ next \in Seq(Threads)
            /\ next # << >>
            /\ \A x : Occurs(next, x) <=> Occurs(writers, x) \/ x = t
            /\ NoDup(writers) /\ ~Occurs(writers, t) => NoDup(next)
    BY <1>2, <2>1, WaitStep
  <2>3. /\ SchedInv(sched')
        /\ sched'.status = [sched.status EXCEPT ![t] = "MBOX_BLOCKED"]
    BY <1>2, <2>1, WaitStep
  <2> QED
    BY <1>2, <1>4, <2>1, <2>2, <2>3
<1>6. /\ \A u \in Threads : u # t => /\ blocked(u)' <=> blocked(u)
                                     /\ on_runqueue(sched, u)' <=> on_runqueue(sched, u)
      /\ blocked(t)' /\ ~on_runqueue(sched, t)'
  <2>1. "MBOX_BLOCKED" \in Status /\ "MBOX_BLOCKED" \notin OnRunqueue
    BY DEF Status, BlockedStatus, OnRunqueue
  <2> QED
    BY <1>2, <1>5, <2>1, OneStatus
<1>7. /\ inside' \in [Threads -> {"none", "mbox_put", "mbox_get"}]
      /\ inside'[t] = "mbox_put" /\ \A u \in Threads : u # t => inside'[u] = inside[u]
  BY <1>2
<1>8. handed' = handed /\ putting' = putting \cup {t}
  BY <1>6, <1>7 DEF handed, putting
<1>9. msgs' = msgs
  BY <1>1 DEF msgs
<1>10. MTypes'
  BY <1>1, <1>5, <1>7 DEF MInv, MTypes
<1>11. Lists'
  BY <1>1, <1>3, <1>5, <1>6, <1>7 DEF MInv, Lists
<1>12. InWait'
  BY <1>6, <1>7 DEF MInv, InWait
<1>13. Numbered'
  <2>1. IsFiniteSet(putting) /\ Cardinality(putting) \in Nat
    BY Groups
  <2>2. Cardinality(putting') = IF t \in putting THEN Cardinality(putting)
                                ELSE Cardinality(putting) + 1
    BY <1>8, <2>1, FS_AddElement
  <2>3. t \notin putting => sent + Cardinality(putting) < MaxMsg
    BY DEF MayPut, putting
  <2>4. sent + Cardinality(putting) <= MaxMsg
    BY DEF MInv, Numbered
  <2> QED
    BY <1>1, <1>2, <2>1, <2>2, <2>3, <2>4, MsgNumbers DEF Numbered
<1>14. Room'
  <2>1. Len(msgs) = Size /\ Size \in Nat
    BY QueueFacts DEF MInv
  <2>2. Cardinality(woken') \in Nat
    <3>1. woken' \in SUBSET Threads
      BY DEF woken
    <3> QED
      BY <3>1, MboxAssumption, FS_Subset, FS_CardinalityType
  <2> QED
    BY <1>9, <2>1, <2>2 DEF Room
<1>15. /\ Placed(sent', got', msgs', handed', wait_data')
       /\ Apart(got', msgs', handed', wait_data')
  BY <1>1, <1>8, <1>9 DEF MInv
<1> QED
  BY <1>5, <1>9, <1>10, <1>11, <1>12, <1>13, <1>14, <1>15 DEF MInv

\* The oldest message is received, and the first writer woken.
LEMMA DequeueKeeps ==
    ASSUME MInv, dequeue,
           \/ writers = << >> /\ sched' = sched
           \/ /\ writers # << >>
              /\ \/ isr_wake_waiter(Head(writers))
                 \/ \E t \in Threads : Executing(t) /\ wake_waiter(t, Head(writers))
    PROVE  MInv' /\ msgs # << >> /\ msgs' = Tail(msgs)
<1>1. /\ readers' = readers /\ msg_array' = msg_array /\ wait_data' = wait_data
      /\ inside' = inside /\ sent' = sent
      /\ writers' = IF writers = << >> THEN << >> ELSE Tail(writers)
  BY DEF dequeue
<1>2. /\ inside \in [Threads -> {"none", "mbox_put", "mbox_get"}]
      /\ SchedInv(sched) /\ sent \in Nat /\ writers \in Seq(Threads) /\ NoDup(writers)
      /\ wait_data \in [Threads -> Msgs] /\ readers \in Seq(Threads)
      /\ msg_array \in [0 .. Size - 1 -> Msgs]
  BY DEF MInv, MTypes, Lists
<1>3. putting' = putting
  BY <1>1 DEF putting
<1>4. Numbered'
  BY <1>1, <1>3 DEF MInv, Numbered
<1>5. CASE writers = << >> /\ sched' = sched
  <2>1. writers' = << >> /\ writers' = writers
    BY <1>1, <1>5
  <2>2. handed' = handed
    BY <1>1, <1>5 DEF handed
  <2>3. /\ CibOk(cib') /\ got' \in SUBSET Msgs
        /\ msgs # << >> /\ msgs' = Tail(msgs)
        /\ Placed(sent', got', msgs', handed', wait_data')
        /\ Apart(got', msgs', handed', wait_data')
    BY <2>2, DequeueQueue
  <2>4. MTypes'
    BY <1>1, <1>2, <2>1, <2>3 DEF MTypes
  <2>5. Lists' /\ InWait' /\ SchedInv(sched')
    BY <1>1, <1>5, <2>1 DEF MInv, Lists, InWait, blocked, on_runqueue
  <2>6. Room'
    BY <2>1 DEF Room
  <2> QED
    BY <1>4, <2>3, <2>4, <2>5, <2>6 DEF MInv
<1>6. CASE /\ writers # << >>
           /\ \/ isr_wake_waiter(Head(writers))
              \/ \E t \in Threads : Executing(t) /\ wake_waiter(t, Head(writers))
  <2>1. PICK u \in Threads : u = Head(writers)
    BY <1>2, <1>6, TailQueue
  <2>2. /\ Occurs(writers, u) /\ writers' \in Seq(Threads) /\ NoDup(writers')
        /\ \A x : Occurs(writers', x) <=> Occurs(writers, x) /\ x # u
    BY <1>1, <1>2, <1>6, <2>1, TailQueue
  <2>3. blocked(u) /\ inside[u] = "mbox_put" /\ ~on_runqueue(sched, u)
    <3>1. blocked(u) /\ inside[u] = "mbox_put"
      BY <2>2 DEF MInv, Lists
    <3> QED
      BY <3>1, BlockedOff
  <2>4. SchedInv(sched') /\ sched'.status = [sched.status EXCEPT ![u] = "PENDING"]
    <3>1. \/ isr_wake_waiter(u)
          \/ \E t \in Threads : Executing(t) /\ wake_waiter(t, u)
      BY <1>6, <2>1
    <3> QED
      BY <1>2, <2>3, <3>1, WakeStep
  <2>5. /\ \A t \in Threads : t # u => /\ blocked(t)' <=> blocked(t)
                                       /\ on_runqueue(sched, t)' <=> on_runqueue(sched, t)
        /\ ~blocked(u)' /\ on_runqueue(sched, u)'
    <3>1. "PENDING" \in Status /\ "PENDING" \in OnRunqueue
      BY DEF Status, OnRunqueue
    <3> QED
      BY <1>2, <2>4, <3>1, OneStatus
  <2>6. handed' = handed /\ woken' = woken \cup {u} /\ u \notin woken
    BY <1>1, <2>3, <2>5 DEF handed, woken
  <2>7. /\ CibOk(cib') /\ got' \in SUBSET Msgs
        /\ msgs # << >> /\ msgs' = Tail(msgs) /\ Len(msgs') = Len(msgs) - 1
        /\ Placed(sent', got', msgs', handed', wait_data')
        /\ Apart(got', msgs', handed', wait_data')
    BY <2>6, DequeueQueue
  <2>8. MTypes'
    BY <1>1, <1>2, <2>2, <2>7 DEF MTypes
  <2>9. Lists'
    BY <1>1, <2>2, <2>3, <2>5 DEF MInv, Lists
  <2>10. InWait'
    BY <1>1, <2>5 DEF MInv, InWait
  <2>11. Room'
    <3>1. Len(msgs) \in Nat /\ Size \in Nat
      BY QueueFacts DEF MInv
    <3>2. Cardinality(woken) \in Nat /\ Cardinality(woken') = Cardinality(woken) + 1
      BY <2>6, Groups, FS_AddElement
    <3>3. Len(msgs) + Cardinality(woken) >= Size
      BY <1>6 DEF MInv, Room
    <3> QED
      BY <2>7, <3>1, <3>2, <3>3 DEF Room
  <2> QED
    BY <1>4, <2>4, <2>7, <2>8, <2>9, <2>10, <2>11 DEF MInv
<1> QED
  BY <1>5, <1>6

\* A reader waits for a message.
LEMMA ReaderWaits ==
    ASSUME MInv, NEW t \in Threads, Executing(t), t # Idle, inside[t] = "none",
           wait(t, readers),
           wait_data' = [wait_data EXCEPT ![t] = NoMsg],
           inside' = [inside EXCEPT ![t] = "mbox_get"],
           UNCHANGED <<writers, queue, sent, got>>
    PROVE  MInv' /\ msgs' = msgs
<1>1. /\ writers' = writers /\ cib' = cib /\ msg_array' = msg_array
      /\ sent' = sent /\ got' = got
  BY DEF queue
<1>2. /\ inside \in [Threads -> {"none", "mbox_put", "mbox_get"}]
      /\ SchedInv(sched) /\ sent \in Nat /\ got \in SUBSET Msgs
      /\ readers \in Seq(Threads) /\ NoDup(readers)
      /\ wait_data \in [Threads -> Msgs]
  BY DEF MInv, MTypes, Lists
<1>3. on_runqueue(sched, t) /\ ~blocked(t)
  BY <1>2, ExecutingFree
<1>4. ~Occurs(readers, t)
  BY <1>3 DEF MInv, Lists
<1>5. /\ SchedInv(sched')
      /\ sched'.status = [sched.status EXCEPT ![t] = "MBOX_BLOCKED"]
      /\ readers' \in Seq(Threads) /\ NoDup(readers')
      /\ \A x : Occurs(readers', x) <=> Occurs(readers, x) \/ x = t
  <2>1. /\ readers' = thread_add_to_list(sched_set_status(sched, t, "MBOX_BLOCKED"), readers, t)
        /\ sched' = [sched_set_status(sched, t, "MBOX_BLOCKED")
                        EXCEPT !.call[t] = CallThreadYield]
    BY DEF wait
  <2>2. LET next == thread_add_to_list(
                        sched_set_status(sched, t, "MBOX_BLOCKED"), readers, t)
        IN  /\ next \in Seq(Threads)
            /\ next # << >>
            /\ \A x : Occurs(next, x) <=> Occurs(readers, x) \/ x = t
            /\ NoDup(readers) /\ ~Occurs(readers, t) => NoDup(next)
    BY <1>2, <2>1, WaitStep
  <2>3. /\ SchedInv(sched')
        /\ sched'.status = [sched.status EXCEPT ![t] = "MBOX_BLOCKED"]
    BY <1>2, <2>1, WaitStep
  <2> QED
    BY <1>2, <1>4, <2>1, <2>2, <2>3
<1>6. /\ \A u \in Threads : u # t => /\ blocked(u)' <=> blocked(u)
                                     /\ on_runqueue(sched, u)' <=> on_runqueue(sched, u)
      /\ blocked(t)' /\ ~on_runqueue(sched, t)'
  <2>1. "MBOX_BLOCKED" \in Status /\ "MBOX_BLOCKED" \notin OnRunqueue
    BY DEF Status, BlockedStatus, OnRunqueue
  <2> QED
    BY <1>2, <1>5, <2>1, OneStatus
<1>7. /\ inside' \in [Threads -> {"none", "mbox_put", "mbox_get"}]
      /\ inside'[t] = "mbox_get" /\ \A u \in Threads : u # t => inside'[u] = inside[u]
  BY <1>2
<1>8. handed' = handed /\ t \notin handed /\ putting' = putting /\ woken' = woken
  BY <1>6, <1>7 DEF handed, putting, woken
<1>9. msgs' = msgs
  BY <1>1 DEF msgs
<1>10. MTypes'
  <2>1. NoMsg \in Msgs
    BY MsgNumbers
  <2> QED
    BY <1>1, <1>2, <1>5, <1>7, <2>1 DEF MInv, MTypes
<1>11. Lists'
  BY <1>1, <1>3, <1>5, <1>6, <1>7 DEF MInv, Lists
<1>12. InWait'
  BY <1>6, <1>7 DEF MInv, InWait
<1>13. Numbered' /\ Room'
  BY <1>1, <1>8, <1>9 DEF MInv, Numbered, Room
<1>14. /\ Placed(sent', got', msgs', handed', wait_data')
       /\ Apart(got', msgs', handed', wait_data')
  <2>1. msgs \in Seq(Msgs) /\ handed \in SUBSET Threads
    BY QueueFacts, Groups DEF MInv
  <2>2. Placed(sent, got, msgs, handed, wait_data) /\ Apart(got, msgs, handed, wait_data)
    BY DEF MInv
  <2>3. LET e == [wait_data EXCEPT ![t] = NoMsg]
        IN  Placed(sent, got, msgs, handed, e) /\ Apart(got, msgs, handed, e)
    BY <1>2, <1>8, <2>1, <2>2, MessagesStay
  <2> QED
    BY <1>1, <1>8, <1>9, <2>3
<1> QED
  BY <1>5, <1>9, <1>10, <1>11, <1>12, <1>13, <1>14 DEF MInv

\* mbox_get() returns with the message that was handed over.
LEMMA ReturnKeeps ==
    ASSUME MInv, NEW t \in Threads, get_returns(t)
    PROVE  MInv' /\ msgs' = msgs
<1>1. /\ sched' = sched /\ readers' = readers /\ writers' = writers /\ cib' = cib
      /\ msg_array' = msg_array /\ sent' = sent
      /\ Executing(t) /\ inside[t] = "mbox_get"
      /\ inside' = [inside EXCEPT ![t] = "none"]
      /\ wait_data' = [wait_data EXCEPT ![t] = NoMsg]
      /\ got' = got \cup {wait_data[t]}
  BY DEF get_returns, queue, Receives
<1>2. /\ inside \in [Threads -> {"none", "mbox_put", "mbox_get"}]
      /\ SchedInv(sched) /\ sent \in Nat /\ got \in SUBSET Msgs
      /\ wait_data \in [Threads -> Msgs]
  BY DEF MInv, MTypes
<1>3. on_runqueue(sched, t) /\ ~blocked(t)
  BY <1>1, <1>2, ExecutingFree
<1>4. \A u \in Threads : /\ blocked(u)' <=> blocked(u)
                         /\ on_runqueue(sched, u)' <=> on_runqueue(sched, u)
  BY <1>1 DEF blocked, on_runqueue
<1>5. /\ inside' \in [Threads -> {"none", "mbox_put", "mbox_get"}]
      /\ inside'[t] = "none" /\ \A u \in Threads : u # t => inside'[u] = inside[u]
  BY <1>1, <1>2
<1>6. handed' = handed \ {t} /\ t \in handed /\ putting' = putting /\ woken' = woken
  BY <1>1, <1>3, <1>4, <1>5 DEF handed, putting, woken
<1>7. msgs' = msgs
  BY <1>1 DEF msgs
<1>8. MTypes'
  <2>1. NoMsg \in Msgs
    BY MsgNumbers
  <2>2. /\ readers \in Seq(Threads) /\ writers \in Seq(Threads) /\ CibOk(cib)
        /\ msg_array \in [0 .. Size - 1 -> Msgs]
    BY DEF MInv, MTypes
  <2>3. wait_data' \in [Threads -> Msgs] /\ got' \in SUBSET Msgs
    BY <1>1, <1>2, <2>1
  <2> QED
    BY <1>1, <1>2, <1>5, <2>2, <2>3 DEF MTypes
<1>9. Lists'
  BY <1>1, <1>3, <1>4, <1>5 DEF MInv, Lists
<1>10. InWait'
  BY <1>4, <1>5 DEF MInv, InWait
<1>11. Numbered' /\ Room'
  BY <1>1, <1>6, <1>7 DEF MInv, Numbered, Room
<1>12. /\ Placed(sent', got', msgs', handed', wait_data')
       /\ Apart(got', msgs', handed', wait_data')
  <2>1. msgs \in Seq(Msgs) /\ handed \in SUBSET Threads
    BY QueueFacts, Groups DEF MInv
  <2>2. Placed(sent, got, msgs, handed, wait_data) /\ Apart(got, msgs, handed, wait_data)
    BY DEF MInv
  <2>3. LET f == got \cup {wait_data[t]}
            e == [wait_data EXCEPT ![t] = NoMsg]
        IN  Placed(sent, f, msgs, handed \ {t}, e) /\ Apart(f, msgs, handed \ {t}, e)
    BY <1>2, <1>6, <2>1, <2>2, MessageReceived
  <2> QED
    BY <1>1, <1>6, <1>7, <2>3
<1> QED
  BY <1>1, <1>2, <1>7, <1>8, <1>9, <1>10, <1>11, <1>12 DEF MInv

\* The steps that leave the mailbox alone: the threads in it keep waiting, or
\* stay runnable.
LEMMA AloneKeeps ==
    ASSUME MInv, SchedInv(sched'), UNCHANGED mvars,
           \A t \in Threads : inside[t] # "none" =>
               /\ blocked(t)' <=> blocked(t)
               /\ on_runqueue(sched, t)' <=> on_runqueue(sched, t)
    PROVE  MInv' /\ msgs' = msgs
<1>1. /\ readers' = readers /\ writers' = writers /\ cib' = cib /\ msg_array' = msg_array
      /\ wait_data' = wait_data /\ inside' = inside /\ sent' = sent /\ got' = got
  BY DEF mvars
<1>2. handed' = handed /\ putting' = putting /\ woken' = woken /\ msgs' = msgs
  BY <1>1 DEF handed, putting, woken, msgs
<1>3. MTypes'
  BY <1>1 DEF MInv, MTypes
<1>4. Lists'
  BY <1>1 DEF MInv, Lists
<1>5. InWait'
  BY <1>1 DEF MInv, InWait
<1>6. Numbered' /\ Room'
  BY <1>1, <1>2 DEF MInv, Numbered, Room
<1>7. /\ Placed(sent', got', msgs', handed', wait_data')
      /\ Apart(got', msgs', handed', wait_data')
  BY <1>1, <1>2 DEF MInv
<1> QED
  BY <1>2, <1>3, <1>4, <1>5, <1>6, <1>7 DEF MInv

\* These are the kernel's steps, and sleeping.
LEMMA OtherKeeps ==
    ASSUME MInv,
           Kernel \/ \E t \in Threads : Sleep(t) \/ Wakeup(t)
    PROVE  MInv' /\ msgs' = msgs
<1>1. SchedInv(sched)
  BY DEF MInv
<1>2. CASE Kernel
  <2>1. SchedInv(sched') /\ \A x \in Threads : \/ sched'.status[x] = sched.status[x]
                                               \/ on_runqueue(sched, x) /\ on_runqueue(sched', x)
    <3>1. CASE PendSV
      BY <1>1, <3>1, PendSVInv
    <3>2. CASE IdleWake
      BY <1>1, <3>2, IdleWakeInv
    <3>3. CASE \E t \in Threads : SchedCall(t)
      BY <1>1, <3>3, SchedCallInv
    <3> QED
      BY <1>2, <3>1, <3>2, <3>3 DEF Kernel, KernelStep
  <2>2. \A t \in Threads : /\ blocked(t)' <=> blocked(t)
                           /\ on_runqueue(sched, t)' <=> on_runqueue(sched, t)
    BY <2>1 DEF blocked, on_runqueue, OnRunqueue
  <2> QED
    BY <1>2, <2>1, <2>2, AloneKeeps DEF Kernel
<1>3. ASSUME NEW t \in Threads, Sleep(t) PROVE MInv' /\ msgs' = msgs
  <2>1. /\ Executing(t) /\ t # Idle /\ inside[t] = "none"
        /\ sched' = [sched_set_status(sched, t, "SLEEPING") EXCEPT !.call[t] = CallYield]
        /\ UNCHANGED mvars
    BY <1>3 DEF Sleep, Running, Sleeps
  <2>2. "SLEEPING" \in BlockedStatus /\ "SLEEPING" \in Status
    BY DEF BlockedStatus, Status
  <2>3. SchedInv(sched') /\ sched'.status = [sched.status EXCEPT ![t] = "SLEEPING"]
    <3>1. sched.active = t /\ on_runqueue(sched, t) /\ IsHead(sched, t)
      BY <1>1, <2>1, ExecutingHead
    <3> QED
      BY <1>1, <2>1, <2>2, <3>1, BlockYield
  <2>4. \A u \in Threads : u # t => /\ blocked(u)' <=> blocked(u)
                                    /\ on_runqueue(sched, u)' <=> on_runqueue(sched, u)
    BY <1>1, <2>2, <2>3, OneStatus
  <2> QED
    BY <2>1, <2>3, <2>4, AloneKeeps
<1>4. ASSUME NEW u \in Threads, Wakeup(u) PROVE MInv' /\ msgs' = msgs
  <2> DEFINE r == sched_set_status(sched, u, "RUNNING")
  <2>1. sched.status[u] = "SLEEPING" /\ IsrEnds(r, sched.priority[u]) /\ UNCHANGED mvars
    BY <1>4 DEF Wakeup, IsrWakes, wakeup
  <2>2. /\ ~on_runqueue(sched, u) /\ ~blocked(u)
        /\ "RUNNING" \in OnRunqueue /\ "RUNNING" \in Status
    BY <2>1 DEF on_runqueue, blocked, OnRunqueue, Status
  <2>3. inside[u] = "none"
    BY <2>2 DEF MInv, InWait
  <2>4. SchedInv(r) /\ r.status = [sched.status EXCEPT ![u] = "RUNNING"]
    BY <1>1, <2>2, PushInv
  <2>5. PICK garbage \in BOOLEAN :
            sched' = cortexm_isr_end(sched_switch_isr(r, sched.priority[u], garbage))
    BY <2>1 DEF IsrEnds
  <2> HIDE DEF r
  <2>6. SchedInv(sched') /\ sched'.status = [sched.status EXCEPT ![u] = "RUNNING"]
    BY <2>4, <2>5, IsrEndInv
  <2>7. \A t \in Threads : t # u => /\ blocked(t)' <=> blocked(t)
                                    /\ on_runqueue(sched, t)' <=> on_runqueue(sched, t)
    BY <1>1, <2>2, <2>6, OneStatus
  <2> QED
    BY <2>1, <2>3, <2>6, <2>7, AloneKeeps
<1> QED
  BY <1>2, <1>3, <1>4

\* A step of the abstract queue, or none.
QueueStep ==
    \/ msgs' = msgs
    \/ msgs # << >> /\ msgs' = Tail(msgs)
    \/ /\ Len(msgs) < Size
       /\ sent + 1 \in Msgs
       /\ msgs' = Append(msgs, sent + 1)

\* Every step keeps the invariant and is a step of the queue.
LEMMA MboxStep ==
    ASSUME MInv, Next
    PROVE  MInv' /\ QueueStep
<1>1. ASSUME NEW t \in Threads, mbox_try_put(t) \/ mbox_put(t) PROVE MInv' /\ QueueStep
  <2>1. Executing(t) /\ t # Idle /\ inside[t] = "none" /\ MayPut
    BY <1>1 DEF mbox_try_put, mbox_put, Running
  <2>2. CASE hand_to_reader /\ wake_waiter(t, Head(readers))
    BY <2>1, <2>2, HandKeeps DEF QueueStep
  <2>3. CASE readers = << >> /\ enqueue /\ UNCHANGED inside
    BY <2>1, <2>3, EnqueueKeeps DEF QueueStep
  <2>4. CASE /\ cib_full(cib)
             /\ wait(t, writers)
             /\ inside' = [inside EXCEPT ![t] = "mbox_put"]
             /\ UNCHANGED <<readers, queue, wait_data, sent, got>>
    BY <2>1, <2>4, WriterWaits DEF QueueStep
  <2> QED
    BY <1>1, <2>2, <2>3, <2>4 DEF mbox_try_put, mbox_put
<1>2. ASSUME NEW t \in Threads, put_resumes(t) PROVE MInv' /\ QueueStep
  <2>1. Executing(t) /\ inside[t] = "mbox_put"
    BY <1>2 DEF put_resumes
  <2>2. t # Idle /\ inside \in [Threads -> {"none", "mbox_put", "mbox_get"}]
    BY <2>1 DEF MInv, InWait, MTypes
  <2>3. CASE enqueue /\ inside' = [inside EXCEPT ![t] = "none"]
    BY <2>1, <2>3, ResumeKeeps DEF QueueStep
  <2>4. CASE /\ cib_full(cib)
             /\ wait(t, writers)
             /\ UNCHANGED <<readers, queue, wait_data, inside, sent, got>>
    <3>1. inside' = [inside EXCEPT ![t] = "mbox_put"]
      BY <2>1, <2>2, <2>4
    <3>2. UNCHANGED <<readers, queue, wait_data, sent, got>>
      BY <2>4
    <3> QED
      BY <2>1, <2>2, <2>4, <3>1, <3>2, WriterWaits DEF QueueStep
  <2> QED
    BY <1>2, <2>3, <2>4 DEF put_resumes
<1>3. ASSUME NEW t \in Threads, Running(t), dequeue,
             IF writers = << >> THEN UNCHANGED sched ELSE wake_waiter(t, Head(writers))
      PROVE  MInv' /\ QueueStep
  <2>1. Executing(t)
    BY <1>3 DEF Running
  <2> QED
    BY <1>3, <2>1, DequeueKeeps DEF QueueStep
<1>4. ASSUME NEW t \in Threads, mbox_try_get(t) \/ mbox_get(t) PROVE MInv' /\ QueueStep
  <2>1. Running(t) /\ Executing(t) /\ t # Idle /\ inside[t] = "none"
    BY <1>4 DEF mbox_try_get, mbox_get, Running
  <2>2. CASE /\ dequeue
             /\ IF writers = << >> THEN UNCHANGED sched ELSE wake_waiter(t, Head(writers))
    BY <1>3, <2>1, <2>2
  <2>3. CASE /\ wait(t, readers)
             /\ wait_data' = [wait_data EXCEPT ![t] = NoMsg]
             /\ inside' = [inside EXCEPT ![t] = "mbox_get"]
             /\ UNCHANGED <<writers, queue, sent, got>>
    BY <2>1, <2>3, ReaderWaits DEF QueueStep
  <2> QED
    BY <1>4, <2>2, <2>3 DEF mbox_try_get, mbox_get
<1>5. ASSUME NEW t \in Threads, get_returns(t) PROVE MInv' /\ QueueStep
  BY <1>5, ReturnKeeps DEF QueueStep
<1>6. CASE IsrPut
  <2>1. CASE hand_to_reader /\ isr_wake_waiter(Head(readers))
    BY <1>6, <2>1, HandKeeps DEF QueueStep, IsrPut
  <2>2. CASE readers = << >> /\ enqueue /\ UNCHANGED inside
    BY <1>6, <2>2, EnqueueKeeps DEF QueueStep, IsrPut
  <2> QED
    BY <1>6, <2>1, <2>2 DEF IsrPut
<1>7. CASE IsrGet
  <2>1. dequeue /\ IF writers = << >> THEN UNCHANGED sched ELSE isr_wake_waiter(Head(writers))
    BY <1>7 DEF IsrGet
  <2> QED
    BY <2>1, DequeueKeeps DEF QueueStep
<1>8. CASE Kernel \/ \E t \in Threads : Sleep(t) \/ Wakeup(t)
  BY <1>8, OtherKeeps DEF QueueStep
<1> QED
  BY <1>1, <1>2, <1>4, <1>5, <1>6, <1>7, <1>8 DEF Next, ThreadStep

-----------------------------------------------------------------------------
(* The theorems *)

\* The mailbox starts empty, wherever its counters stand.
LEMMA EmptyBuffer ==
    ASSUME Init
    PROVE  CibOk(cib) /\ cib_avail(cib) = 0
<1> DEFINE e == Earlier % UINT
           k == Size - 1
<1>1. Size \in Nat \ {0} /\ UINT \in Nat \ {0} /\ Size < UINT /\ Earlier \in Nat
  BY SizeFacts, MboxAssumption
<1>2. e \in 0 .. UINT - 1
  BY <1>1, DivMod
<1>3. k % UINT = k
  <2>1. k \in Int /\ -UINT <= k /\ k < 2 * UINT /\ 0 <= k /\ k < UINT
    BY <1>1
  <2> HIDE DEF k
  <2>2. k % UINT = IF k < 0 THEN k + UINT ELSE IF k < UINT THEN k ELSE k - UINT
    BY <1>1, <2>1, ModOnce
  <2> QED
    BY <2>1, <2>2
<1>4. cib = [[read_count |-> 0, write_count |-> 0, mask |-> k % UINT]
                EXCEPT !.read_count = e, !.write_count = e]
  BY Zenon DEF Init, cib_init
<1>5. cib = [[read_count |-> 0, write_count |-> 0, mask |-> k]
                EXCEPT !.read_count = e, !.write_count = e]
  BY <1>3, <1>4, Zenon
<1> HIDE DEF e
<1>6. /\ cib \in [read_count : 0 .. UINT - 1, write_count : 0 .. UINT - 1, mask : {Size - 1}]
      /\ cib.read_count = e /\ cib.write_count = e
  BY <1>2, <1>5
<1>7. cib_avail(cib) = 0
  <2> DEFINE z == e - e
  <2>1. cib_avail(cib) = z % UINT
    BY <1>6 DEF cib_avail
  <2>2. z = 0 /\ z \in Int /\ -UINT <= z /\ z < 2 * UINT /\ z < UINT
    BY <1>1, <1>2
  <2> HIDE DEF z
  <2>3. z % UINT = IF z < 0 THEN z + UINT ELSE IF z < UINT THEN z ELSE z - UINT
    BY <1>1, <2>2, ModOnce
  <2> QED
    BY <2>1, <2>2, <2>3
<1> QED
  BY <1>1, <1>6, <1>7 DEF CibOk

\* The invariant holds when the application starts.
LEMMA MboxInit ==
    ASSUME Init
    PROVE  MInv /\ msgs = << >>
<1>1. SchedInv(sched) /\ \A x \in Threads : on_runqueue(sched, x)
  <2>1. /\ \A t \in Threads, p \in Prios : Occurs(Runqueues[p], t) <=> Priority[t] = p
        /\ \A p \in Prios : NoDup(Runqueues[p])
    BY KernelAssumption DEF Occurs, NoDup
  <2>2. /\ Threads # {} /\ Priority \in [Threads -> Prios]
        /\ Runqueues \in [Prios -> Seq(Threads)]
    BY KernelAssumption
  <2> QED
    BY <2>1, <2>2, BootInv, Zenon DEF Booted, Init
<1>2. /\ readers = << >> /\ writers = << >> /\ sent = 0 /\ got = {}
      /\ msg_array = [i \in 0 .. Size - 1 |-> NoMsg]
      /\ wait_data = [t \in Threads |-> NoMsg]
      /\ inside = [t \in Threads |-> "none"]
  BY DEF Init
<1>3. MTypes
  <2>1. NoMsg \in Msgs
    BY MsgNumbers
  <2> QED
    BY <1>2, <2>1, EmptyBuffer DEF MTypes
<1>4. msgs = << >>
  <2>1. Len(msgs) = 0 /\ msgs \in Seq(Msgs)
    BY <1>3, QueueFacts, EmptyBuffer
  <2> QED
    BY <2>1
<1>5. Lists
  <2>1. \A t \in Threads : ~blocked(t)
    BY <1>1 DEF blocked, on_runqueue, OnRunqueue
  <2> QED
    BY <1>2, <2>1 DEF Lists, Occurs, NoDup
<1>6. InWait
  BY <1>2 DEF InWait
<1>7. Numbered
  <2>1. putting = {}
    BY <1>2 DEF putting
  <2> QED
    BY <1>2, <2>1, FS_EmptySet, MsgNumbers DEF Numbered
<1>8. Room
  BY <1>2 DEF Room
<1>9. Placed(sent, got, msgs, handed, wait_data) /\ Apart(got, msgs, handed, wait_data)
  <2>1. handed = {}
    BY <1>2 DEF handed
  <2>2. \A x : ~Occurs(msgs, x)
    BY <1>4 DEF Occurs
  <2>3. NoDup(msgs)
    BY <1>4 DEF NoDup
  <2>4. 1 .. sent = {}
    BY <1>2
  <2>5. Placed(sent, got, msgs, handed, wait_data)
    BY <1>2, <2>1, <2>2, <2>4 DEF Placed
  <2> QED
    BY <1>2, <2>1, <2>2, <2>3, <2>5 DEF Apart
<1> QED
  BY <1>1, <1>3, <1>4, <1>5, <1>6, <1>7, <1>8, <1>9 DEF MInv

\* The invariant is inductive.
THEOREM MboxInductive == Spec => []MInv
<1>1. Init => MInv
  BY MboxInit
<1>2. MInv /\ [Next]_vars => MInv'
  <2>1. ASSUME MInv, UNCHANGED vars PROVE MInv'
    <3>1. SchedInv(sched') /\ UNCHANGED mvars
      BY <2>1 DEF MInv, vars, mvars
    <3>2. \A t \in Threads : /\ blocked(t)' <=> blocked(t)
                             /\ on_runqueue(sched, t)' <=> on_runqueue(sched, t)
      BY <2>1 DEF vars, blocked, on_runqueue
    <3> QED
      BY <2>1, <3>1, <3>2, AloneKeeps
  <2> QED
    BY <2>1, MboxStep
<1> QED
  BY <1>1, <1>2, PTL DEF Spec

\* A thread is in the list of the function it waits in, once, exactly while it
\* is MBOX_BLOCKED (mbox.c: _wait() and _wake_waiter()).
THEOREM MboxLists == Spec => []ListsExact
<1>1. MInv => ListsExact
  <2> SUFFICES ASSUME MInv PROVE ListsExact
    OBVIOUS
  <2>1. Lists
    BY DEF MInv
  <2>2. ASSUME NEW t \in Threads
        PROVE  LET r == {i \in DOMAIN readers : readers[i] = t}
                   w == {i \in DOMAIN writers : writers[i] = t}
               IN  /\ \A i, j \in r : i = j
                   /\ \A i, j \in w : i = j
                   /\ r # {} <=> sched.status[t] = "MBOX_BLOCKED" /\ inside[t] = "mbox_get"
                   /\ w # {} <=> sched.status[t] = "MBOX_BLOCKED" /\ inside[t] = "mbox_put"
    <3> DEFINE r == {i \in DOMAIN readers : readers[i] = t}
               w == {i \in DOMAIN writers : writers[i] = t}
    <3>1. (\A i, j \in r : i = j) /\ (\A i, j \in w : i = j)
      BY <2>1, Zenon DEF Lists, NoDup
    <3>2. (r # {} <=> Occurs(readers, t)) /\ (w # {} <=> Occurs(writers, t))
      BY Zenon DEF Occurs
    <3>3. /\ Occurs(readers, t) <=> sched.status[t] = "MBOX_BLOCKED" /\ inside[t] = "mbox_get"
          /\ Occurs(writers, t) <=> sched.status[t] = "MBOX_BLOCKED" /\ inside[t] = "mbox_put"
      BY <2>1 DEF Lists, blocked
    <3> HIDE DEF r, w
    <3>4. /\ \A i, j \in r : i = j
          /\ \A i, j \in w : i = j
          /\ r # {} <=> sched.status[t] = "MBOX_BLOCKED" /\ inside[t] = "mbox_get"
          /\ w # {} <=> sched.status[t] = "MBOX_BLOCKED" /\ inside[t] = "mbox_put"
      BY <3>1, <3>2, <3>3
    <3> QED
      BY <3>4 DEF r, w
  <2> QED
    BY <2>2, Zenon DEF ListsExact
<1> QED
  BY <1>1, MboxInductive, PTL

\* No writer is left waiting beside a free slot: every free slot is claimed by
\* a writer that was woken and has not run yet.
THEOREM WritersAreWoken == Spec => []WriterWaitsForRoom
<1>1. MInv => WriterWaitsForRoom
  BY DEF MInv, Room, WriterWaitsForRoom, woken
<1> QED
  BY <1>1, MboxInductive, PTL

\* No message is lost, none is delivered twice.
THEOREM MessagesKept == Spec => []NothingLost
<1>1. MInv => NothingLost
  <2> SUFFICES ASSUME MInv PROVE NothingLost
    OBVIOUS
  <2>1. /\ sent \in Nat /\ got \in SUBSET Msgs /\ wait_data \in [Threads -> Msgs]
        /\ msgs \in Seq(Msgs) /\ handed \in SUBSET Threads
        /\ Placed(sent, got, msgs, handed, wait_data) /\ Apart(got, msgs, handed, wait_data)
    BY QueueFacts, Groups DEF MInv, MTypes
  <2>2. sent <= MaxMsg
    BY <2>1, Groups, MsgNumbers DEF MInv, Numbered
  <2>3. Cardinality(got) + Len(msgs) + Cardinality(handed) = sent
    BY <2>1, <2>2, Counted
  <2>4. Found(got, msgs, handed, wait_data) = 1 .. sent
    <3>1. \A x : x \in Found(got, msgs, handed, wait_data) <=> x \in 1 .. sent
      BY <2>1, <2>2, Counted
    <3> QED
      BY <3>1
  <2> QED
    BY <2>3, <2>4, Zenon DEF Found, NothingLost, handed
<1> QED
  BY <1>1, MboxInductive, PTL

\* The circular buffer with the array beside it implements a first-in first-out
\* queue of Size entries: initially empty, and every step of the mailbox is a
\* put, a get or no step of it.
THEOREM MboxRefinesFifo == Spec => ImplementsFifo
<1>1. Init => Abstract!Init
  BY MboxInit DEF Abstract!Init
<1>2. MInv /\ [Next]_vars => [Abstract!Next]_msgs
  <2>1. ASSUME UNCHANGED vars PROVE msgs' = msgs
    BY <2>1 DEF vars, msgs
  <2>2. ASSUME MInv, Next PROVE [Abstract!Next]_msgs
    <3>1. QueueStep
      BY <2>2, MboxStep
    <3> QED
      BY <3>1 DEF QueueStep, Abstract!Next, Abstract!Get, Abstract!Put
  <2> QED
    BY <2>1, <2>2
<1> QED
  BY <1>1, <1>2, MboxInductive, PTL DEF Spec, ImplementsFifo, Abstract!Spec

=============================================================================
