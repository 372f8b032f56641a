----------------------------- MODULE RulesProofs -----------------------------
(***************************************************************************)
(* Proofs about the pure functions of module Rules, for every tariff,      *)
(* every table of shifts, every payload and every read of the controller.  *)
(***************************************************************************)
EXTENDS Rules, TLAPS, FiniteSetTheorems, SequenceTheorems, WellFoundedInduction

-----------------------------------------------------------------------------
(* The fee *)

\* A larger number of equal, non-negative parts is not less.
LEMMA ProductMonotone ==
    ASSUME NEW a \in Nat, NEW b \in Nat, NEW c \in Nat, a <= b
    PROVE  a * c \in Nat /\ a * c <= b * c
  <1>1. PICK d \in Nat : b = a + d
    BY b - a \in Nat
  <1>2. /\ a * c \in Nat /\ d * c \in Nat /\ (a + d) * c = a * c + d * c
    OBVIOUS
  <1> QED
    BY <1>1, <1>2

\* A rate of a tariff has amounts that are not negative.
IsRate(r) ==
    /\ r.hourly \in Nat /\ r.cap \in Nat /\ r.base \in Nat /\ r.night \in Nat /\ r.penalty \in Nat
    /\ r.progressive \in BOOLEAN

\* Hours begun, days begun and nights are natural numbers that grow with the stay.
LEMMA CountsMonotone ==
    ASSUME NEW x \in Nat, NEW y \in Nat, x <= y, NEW arrival \in Nat
    PROVE  /\ StartedHours(x) \in Nat \ {0} /\ StartedHours(y) \in Nat \ {0}
           /\ StartedHours(x) <= StartedHours(y)
           /\ Larger(1, CeilDiv(x, MinutesPerDay)) \in Nat
           /\ Larger(1, CeilDiv(y, MinutesPerDay)) \in Nat
           /\ Larger(1, CeilDiv(x, MinutesPerDay)) <= Larger(1, CeilDiv(y, MinutesPerDay))
           /\ Larger(1, CeilDiv(x, MinutesPerDay)) <= x \div MinutesPerDay + 1
           /\ x \div MinutesPerDay \in Nat /\ (arrival + x) \div MinutesPerDay \in Nat
           /\ x \div MinutesPerDay <= y \div MinutesPerDay
           /\ (arrival + x) \div MinutesPerDay <= (arrival + y) \div MinutesPerDay
  <1>1. /\ (x + 59) \div 60 \in Nat /\ (y + 59) \div 60 \in Nat
        /\ (x + 59) \div 60 <= (y + 59) \div 60
    OBVIOUS
  <1>2. /\ (x + 1439) \div 1440 \in Nat /\ (y + 1439) \div 1440 \in Nat
        /\ (x + 1439) \div 1440 <= (y + 1439) \div 1440
        /\ (x + 1439) \div 1440 <= x \div 1440 + 1
    OBVIOUS
  <1>3. /\ x \div 1440 \in Nat /\ (arrival + x) \div 1440 \in Nat
        /\ x \div 1440 <= y \div 1440
        /\ (arrival + x) \div 1440 <= (arrival + y) \div 1440
    OBVIOUS
  <1>4. MinutesPerDay = 1440 /\ MinutesPerHour = 60
    BY DEF MinutesPerDay, MinutesPerHour
  <1>5. /\ CeilDiv(x, 60) = (x + 59) \div 60 /\ CeilDiv(y, 60) = (y + 59) \div 60
        /\ CeilDiv(x, 1440) = (x + 1439) \div 1440 /\ CeilDiv(y, 1440) = (y + 1439) \div 1440
    BY DEF CeilDiv
  <1> QED
    BY <1>1, <1>2, <1>3, <1>4, <1>5 DEF StartedHours, Larger

\* The fee for the time grows with the stay.
LEMMA TimeFeeMonotone ==
    ASSUME NEW r, IsRate(r), NEW x \in Nat, NEW y \in Nat, x <= y
    PROVE  TimeFee(r, x) \in Nat /\ TimeFee(r, y) \in Nat /\ TimeFee(r, x) <= TimeFee(r, y)
  <1> DEFINE p == StartedHours(x)
             q == StartedHours(y)
             first == IF r.base # 0 THEN r.base ELSE r.hourly
             each == IF r.hourly # 0 THEN r.hourly ELSE r.base
  <1>1. p \in Nat \ {0} /\ q \in Nat \ {0} /\ p <= q
    BY CountsMonotone, 0 \in Nat
  <1>2. first \in Nat /\ each \in Nat /\ r.hourly \in Nat
    BY DEF IsRate
  <1>3. /\ TimeFee(r, x) = IF r.progressive THEN first + (p - 1) * r.hourly ELSE p * each
        /\ TimeFee(r, y) = IF r.progressive THEN first + (q - 1) * r.hourly ELSE q * each
    BY DEF TimeFee
  <1> HIDE DEF p, q, first, each
  <1>4. /\ p * each \in Nat /\ q * each \in Nat /\ p * each <= q * each
    BY <1>1, <1>2, ProductMonotone
  <1>5. p - 1 \in Nat /\ q - 1 \in Nat /\ p - 1 <= q - 1
    BY <1>1
  <1>6. /\ (p - 1) * r.hourly \in Nat /\ (q - 1) * r.hourly \in Nat
        /\ (p - 1) * r.hourly <= (q - 1) * r.hourly
    BY <1>2, <1>5, ProductMonotone
  <1>7. CASE r.progressive
    <2>1. TimeFee(r, x) = first + (p - 1) * r.hourly /\ TimeFee(r, y) = first + (q - 1) * r.hourly
      BY <1>3, <1>7
    <2> QED
      BY <2>1, <1>2, <1>6
  <1>8. CASE ~r.progressive
    <2>1. TimeFee(r, x) = p * each /\ TimeFee(r, y) = q * each
      BY <1>3, <1>8
    <2> QED
      BY <2>1, <1>4
  <1> QED
    BY <1>7, <1>8

\* With the nights and the cap the fee still grows with the stay, and the cap
\* holds for every day begun.
LEMMA CappedMonotone ==
    ASSUME NEW r, IsRate(r), NEW arrival \in Nat, NEW x \in Nat, NEW y \in Nat, x <= y
    PROVE  LET total(s) == Capped(r, s, TimeFee(r, s) + Nights(r, arrival, s) * r.night)
           IN  /\ total(x) \in Nat /\ total(y) \in Nat /\ total(x) <= total(y)
               /\ r.cap > 0 => total(x) <= (x \div MinutesPerDay + 1) * r.cap
  <1> DEFINE f == TimeFee(r, x)
             g == TimeFee(r, y)
             m == Nights(r, arrival, x)
             n == Nights(r, arrival, y)
             d == Larger(1, CeilDiv(x, MinutesPerDay))
             e == Larger(1, CeilDiv(y, MinutesPerDay))
             u == x \div MinutesPerDay + 1
  <1>1. f \in Nat /\ g \in Nat /\ f <= g
    BY TimeFeeMonotone
  <1>a. /\ x \div MinutesPerDay \in Nat /\ (arrival + x) \div MinutesPerDay \in Nat
        /\ x \div MinutesPerDay <= y \div MinutesPerDay
        /\ (arrival + x) \div MinutesPerDay <= (arrival + y) \div MinutesPerDay
    BY CountsMonotone
  <1>b. y \div MinutesPerDay \in Nat /\ (arrival + y) \div MinutesPerDay \in Nat
    BY CountsMonotone, y <= y
  <1>2. d \in Nat /\ e \in Nat /\ u \in Nat /\ d <= e /\ d <= u
    <2>1. d \in Nat /\ e \in Nat /\ d <= e /\ d <= u
      BY CountsMonotone
    <2> QED
      BY <1>a, <2>1
  <1>3. m \in Nat /\ n \in Nat /\ m <= n
    BY <1>a, <1>b DEF Nights
  <1>4. r.cap \in Nat /\ r.night \in Nat
    BY DEF IsRate
  <1>5. /\ Capped(r, x, f + m * r.night) = IF r.cap > 0 THEN Smaller(f + m * r.night, d * r.cap)
                                                      ELSE f + m * r.night
        /\ Capped(r, y, g + n * r.night) = IF r.cap > 0 THEN Smaller(g + n * r.night, e * r.cap)
                                                      ELSE g + n * r.night
    BY DEF Capped
  <1>6. SUFFICES /\ Capped(r, x, f + m * r.night) \in Nat /\ Capped(r, y, g + n * r.night) \in Nat
                 /\ Capped(r, x, f + m * r.night) <= Capped(r, y, g + n * r.night)
                 /\ r.cap > 0 => Capped(r, x, f + m * r.night) <= u * r.cap
    OBVIOUS
  <1> HIDE DEF f, g, m, n, d, e, u
  <1>7. m * r.night \in Nat /\ n * r.night \in Nat /\ m * r.night <= n * r.night
    BY <1>3, <1>4, ProductMonotone
  <1>8. d * r.cap \in Nat /\ e * r.cap \in Nat /\ u * r.cap \in Nat /\ d * r.cap <= e * r.cap /\ d * r.cap <= u * r.cap
    BY <1>2, <1>4, ProductMonotone
  <1> QED
    BY <1>1, <1>4, <1>5, <1>7, <1>8 DEF Smaller

\* The fee of a row is a natural number that grows with the stay; a lost ticket
\* costs at least the penalty and never less than the ticket would have cost; and
\* apart from the penalty nobody pays more than the cap for each day begun.
LEMMA FeeSound ==
    ASSUME NEW r, IsRate(r), NEW arrival \in Nat, NEW s \in Int, GracePeriod \in Nat
    PROVE  /\ \A longer \in Int, lost \in BOOLEAN :
                longer >= s => TransactionFee(r, arrival, s, lost) <= TransactionFee(r, arrival, longer, lost)
           /\ TransactionFee(r, arrival, s, TRUE)
                >= Larger(TransactionFee(r, arrival, s, FALSE), r.penalty)
           /\ r.cap > 0 => TransactionFee(r, arrival, s, FALSE)
                             <= (Larger(0, s) \div MinutesPerDay + 1) * r.cap
           /\ TransactionFee(r, arrival, s, FALSE) \in Nat
  <1> DEFINE total(t) == Capped(r, t, TimeFee(r, t) + Nights(r, arrival, t) * r.night)
             x == Larger(0, s)
  <1>1. x \in Nat
    BY DEF Larger
  <1>2. r.penalty \in Nat /\ r.cap \in Nat
    BY DEF IsRate
  <1>3. /\ total(x) \in Nat
        /\ r.cap > 0 => total(x) <= (x \div MinutesPerDay + 1) * r.cap
    BY <1>1, CappedMonotone, x <= x
  <1>4. /\ \A lost \in BOOLEAN :
             TransactionFee(r, arrival, s, lost) =
               IF ~lost /\ x <= GracePeriod THEN 0
               ELSE IF lost THEN Larger(total(x), r.penalty) ELSE total(x)
    BY DEF TransactionFee, Fee
  <1>5. ASSUME NEW longer \in Int, NEW lost \in BOOLEAN, longer >= s
        PROVE  TransactionFee(r, arrival, s, lost) <= TransactionFee(r, arrival, longer, lost)
    <2> DEFINE y == Larger(0, longer)
    <2>1. y \in Nat /\ x <= y
      BY <1>5 DEF Larger
    <2>2. total(x) \in Nat /\ total(y) \in Nat /\ total(x) <= total(y)
      BY <1>1, <2>1, CappedMonotone
    <2>3. TransactionFee(r, arrival, longer, lost) =
               IF ~lost /\ y <= GracePeriod THEN 0
               ELSE IF lost THEN Larger(total(y), r.penalty) ELSE total(y)
      BY DEF TransactionFee, Fee
    <2>4. TransactionFee(r, arrival, s, lost) =
               IF ~lost /\ x <= GracePeriod THEN 0
               ELSE IF lost THEN Larger(total(x), r.penalty) ELSE total(x)
      BY <1>4
    <2> HIDE DEF total, x, y
    <2>5. CASE lost
      <3>1. /\ TransactionFee(r, arrival, longer, lost) = Larger(total(y), r.penalty)
            /\ TransactionFee(r, arrival, s, lost) = Larger(total(x), r.penalty)
        BY <2>3, <2>4, <2>5
      <3> QED
        BY <3>1, <2>2, <1>2 DEF Larger
    <2>6. CASE ~lost
      <3>1. /\ TransactionFee(r, arrival, longer, lost) = IF y <= GracePeriod THEN 0 ELSE total(y)
            /\ TransactionFee(r, arrival, s, lost) = IF x <= GracePeriod THEN 0 ELSE total(x)
        BY <2>3, <2>4, <2>6
      <3> QED
        BY <3>1, <2>1, <2>2, <1>1
    <2> QED
      BY <2>5, <2>6
  <1> DEFINE without == TransactionFee(r, arrival, s, TRUE)
             ticket == TransactionFee(r, arrival, s, FALSE)
             fee == total(x)
             u == x \div MinutesPerDay + 1
  <1>6. /\ without = Larger(fee, r.penalty)
        /\ ticket = IF x <= GracePeriod THEN 0 ELSE fee
    BY <1>4
  <1>7. u \in Nat
    BY <1>1 DEF MinutesPerDay
  <1>8. fee \in Nat /\ (r.cap > 0 => fee <= u * r.cap)
    BY <1>3
  <1> HIDE DEF total, x, without, ticket, fee, u
  <1>9. ticket \in Nat /\ without >= Larger(ticket, r.penalty)
    BY <1>2, <1>6, <1>8 DEF Larger
  <1>10. u * r.cap \in Nat
    BY <1>2, <1>7, ProductMonotone
  <1>11. r.cap > 0 => ticket <= u * r.cap
    BY <1>6, <1>8, <1>10
  <1> QED
    BY <1>5, <1>9, <1>11 DEF x, without, ticket, u

\* The property of the fees, for any sample.
LEMMA FeesHold ==
    ASSUME sample.of = "fee" => /\ sample.rate \in Rates /\ sample.types \in TypesPriced
                                /\ sample.arrival \in Arrivals /\ sample.stay \in Stays
    PROVE  FeeMonotone
  <1> SUFFICES ASSUME sample.of = "fee" PROVE FeeMonotone
    BY DEF FeeMonotone
  <1> DEFINE rate == RateOf(<<sample.rate>>, sample.types[1], sample.types[2])
  <1>0. /\ sample.rate \in Rates /\ sample.types \in TypesPriced
        /\ sample.arrival \in Arrivals /\ sample.stay \in Stays
    OBVIOUS
  <1>1. sample.arrival \in Nat /\ sample.stay \in Int /\ Stays \subseteq Int /\ GracePeriod \in Nat
    <2>1. Arrivals \subseteq Nat
      BY RulesAssumption
    <2>2. Stays \subseteq Int
      BY RulesAssumption
    <2>3. GracePeriod \in Nat
      BY RulesAssumption
    <2> QED
      BY <1>0, <2>1, <2>2, <2>3
  <1>2. IsRate(sample.rate) /\ IsRate(DefaultRate)
    <2>1. Amounts \subseteq Nat
      BY RulesAssumption
    <2>2. IsRate(sample.rate)
      BY <1>0, <2>1 DEF Rates, IsRate
    <2>3. IsRate(DefaultRate)
      BY DEF IsRate, DefaultRate
    <2> QED
      BY <2>2, <2>3
  <1>3. rate = sample.rate \/ rate = DefaultRate
    BY <1>0 DEF RateOf, TypesPriced, NoType
  <1>4. IsRate(rate)
    BY <1>2, <1>3
  <1> HIDE DEF rate
  <1>5. /\ \A longer \in Int, lost \in BOOLEAN :
             longer >= sample.stay => TransactionFee(rate, sample.arrival, sample.stay, lost)
                                        <= TransactionFee(rate, sample.arrival, longer, lost)
        /\ TransactionFee(rate, sample.arrival, sample.stay, TRUE)
             >= Larger(TransactionFee(rate, sample.arrival, sample.stay, FALSE), rate.penalty)
        /\ rate.cap > 0 => TransactionFee(rate, sample.arrival, sample.stay, FALSE)
                             <= (Larger(0, sample.stay) \div MinutesPerDay + 1) * rate.cap
    BY <1>1, <1>4, FeeSound
  <1> QED
    BY <1>1, <1>5 DEF FeeMonotone, rate

-----------------------------------------------------------------------------
(* The shift of an hour *)

\* Less-than on the naturals, as a set of pairs.
NatLess == {p \in Nat \X Nat : p[1] < p[2]}

\* Every non-empty set of natural numbers has a least element.
LEMMA LeastNatural ==
    ASSUME NEW T \in SUBSET Nat, T # {}
    PROVE  \E k \in T : \A m \in T : k <= m
  <1>1. IsWellFoundedOn(NatLess, Nat)
    BY NatLessThanWellFounded DEF OpToRel, NatLess
  <1>2. PICK k \in T : \A m \in T : <<m, k>> \notin NatLess
    BY <1>1, WFMin
  <1>3. ASSUME NEW m \in T PROVE k <= m
    <2>1. m \in Nat /\ k \in Nat /\ <<m, k>> \in Nat \X Nat /\ <<m, k>>[1] = m /\ <<m, k>>[2] = k
      OBVIOUS
    <2>2. m < k => <<m, k>> \in NatLess
      BY <2>1 DEF NatLess
    <2> QED
      BY <1>2, <2>1, <2>2
  <1> QED
    BY <1>3

\* The property of the shifts, for any sample.
LEMMA ShiftsHold ==
    ASSUME sample.of = "shift" => sample.table \in ShiftTables
    PROVE  ShiftFound
  <1> SUFFICES ASSUME sample.of = "shift" PROVE ShiftFound
    BY DEF ShiftFound
  <1> DEFINE on == {k \in DOMAIN sample.table : Covers(sample.table[k], sample.hour)}
  <1>1. on \in SUBSET Nat
    <2>1. PICK n \in 1..MaxShifts : sample.table \in [1..n -> [start : DayHours, end : DayHours]]
      BY DEF ShiftTables
    <2> QED
      BY <2>1
  <1>2. CASE on = {}
    BY <1>2 DEF ShiftFound
  <1>3. CASE on # {}
    <2>1. \E k \in on : \A m \in on : k <= m
      BY <1>1, <1>3, LeastNatural
    <2>2. CurrentShift(sample.table, sample.hour) \in on
      BY <1>3, <2>1 DEF CurrentShift
    <2> QED
      BY <2>2 DEF ShiftFound
  <1> QED
    BY <1>2, <1>3

-----------------------------------------------------------------------------
(* Frames of the reader *)

Weights == {1, 2, 4, 8, 16, 32, 64, 128}

\* A byte is the sum of its bits.
LEMMA ByteOfBits ==
    ASSUME NEW b \in 0..255
    PROVE  b = Bit(b, 1) + 2 * Bit(b, 2) + 4 * Bit(b, 4) + 8 * Bit(b, 8)
                 + 16 * Bit(b, 16) + 32 * Bit(b, 32) + 64 * Bit(b, 64) + 128 * Bit(b, 128)
  BY DEF Bit

\* Two bytes that differ do so in some bit.
LEMMA BitDiffers ==
    ASSUME NEW b \in 0..255, NEW c \in 0..255, b # c
    PROVE  \E w \in Weights : Bit(b, w) # Bit(c, w)
  <1>1. SUFFICES ASSUME \A w \in Weights : Bit(b, w) = Bit(c, w) PROVE FALSE
    OBVIOUS
  <1>2. /\ Bit(b, 1) = Bit(c, 1) /\ Bit(b, 2) = Bit(c, 2) /\ Bit(b, 4) = Bit(c, 4)
        /\ Bit(b, 8) = Bit(c, 8) /\ Bit(b, 16) = Bit(c, 16) /\ Bit(b, 32) = Bit(c, 32)
        /\ Bit(b, 64) = Bit(c, 64) /\ Bit(b, 128) = Bit(c, 128)
    BY <1>1 DEF Weights
  <1> QED
    BY <1>2, ByteOfBits

\* A bit is 0 or 1, and so is the exclusive or of one.
LEMMA OddType ==
    ASSUME NEW n \in Nat, NEW s, DOMAIN s = 1..n, NEW w
    PROVE  Odd(s, w) \in 0..1
  <1> DEFINE set == {i \in 1..n : Bit(s[i], w) = 1}
  <1>1. IsFiniteSet(1..n)
    BY FS_Interval
  <1>2. Cardinality(set) \in Nat
    BY <1>1, FS_Subset, FS_CardinalityType
  <1>3. Odd(s, w) = Cardinality(set) % 2
    BY DEF Odd
  <1> HIDE DEF set
  <1> QED
    BY <1>2, <1>3

\* Equal checksums agree in every bit.
LEMMA LrcBits ==
    ASSUME NEW n \in Nat, NEW s, DOMAIN s = 1..n, NEW t, DOMAIN t = 1..n,
           Lrc(s) = Lrc(t), NEW w \in Weights
    PROVE  Odd(s, w) = Odd(t, w)
  <1>1. \A v : Odd(s, v) \in 0..1 /\ Odd(t, v) \in 0..1
    BY OddType
  <1>2. /\ Odd(s, 1) = Odd(t, 1) /\ Odd(s, 2) = Odd(t, 2) /\ Odd(s, 4) = Odd(t, 4) /\ Odd(s, 8) = Odd(t, 8)
        /\ Odd(s, 16) = Odd(t, 16) /\ Odd(s, 32) = Odd(t, 32) /\ Odd(s, 64) = Odd(t, 64)
        /\ Odd(s, 128) = Odd(t, 128)
    <2>1. Odd(s, 1) + 2 * Odd(s, 2) + 4 * Odd(s, 4) + 8 * Odd(s, 8)
            + 16 * Odd(s, 16) + 32 * Odd(s, 32) + 64 * Odd(s, 64) + 128 * Odd(s, 128)
          = Odd(t, 1) + 2 * Odd(t, 2) + 4 * Odd(t, 4) + 8 * Odd(t, 8)
              + 16 * Odd(t, 16) + 32 * Odd(t, 32) + 64 * Odd(t, 64) + 128 * Odd(t, 128)
      BY Zenon DEF Lrc
    <2> DEFINE a == Odd(s, 1)   b == Odd(s, 2)   c == Odd(s, 4)   d == Odd(s, 8)
               e == Odd(s, 16)  f == Odd(s, 32)  g == Odd(s, 64)  h == Odd(s, 128)
               p == Odd(t, 1)   q == Odd(t, 2)   r == Odd(t, 4)   u == Odd(t, 8)
               v == Odd(t, 16)  x == Odd(t, 32)  y == Odd(t, 64)  z == Odd(t, 128)
    <2>2. /\ a \in 0..1 /\ b \in 0..1 /\ c \in 0..1 /\ d \in 0..1
          /\ e \in 0..1 /\ f \in 0..1 /\ g \in 0..1 /\ h \in 0..1
          /\ p \in 0..1 /\ q \in 0..1 /\ r \in 0..1 /\ u \in 0..1
          /\ v \in 0..1 /\ x \in 0..1 /\ y \in 0..1 /\ z \in 0..1
      BY <1>1
    <2>3. a + 2 * b + 4 * c + 8 * d + 16 * e + 32 * f + 64 * g + 128 * h
            = p + 2 * q + 4 * r + 8 * u + 16 * v + 32 * x + 64 * y + 128 * z
      BY <2>1
    <2> HIDE DEF a, b, c, d, e, f, g, h, p, q, r, u, v, x, y, z
    <2>4. a = p /\ b = q /\ c = r /\ d = u /\ e = v /\ f = x /\ g = y /\ h = z
      BY <2>2, <2>3
    <2> QED
      BY <2>4 DEF a, b, c, d, e, f, g, h, p, q, r, u, v, x, y, z
  <1> QED
    BY <1>2 DEF Weights

\* Two sequences of n numbers that are the same, and two that differ only at k.
Same(s, t, n) == DOMAIN s = 1..n /\ DOMAIN t = 1..n /\ \A i \in 1..n : s[i] = t[i]
DifferAt(s, t, n, k) ==
    /\ DOMAIN s = 1..n /\ DOMAIN t = 1..n /\ k \in 1..n
    /\ s[k] \in 0..255 /\ t[k] \in 0..255 /\ s[k] # t[k]
    /\ \A i \in 1..n : i # k => s[i] = t[i]

\* Sequences with the same bytes have the same checksum.
LEMMA LrcSame ==
    ASSUME NEW n \in Nat, NEW s, NEW t, Same(s, t, n)
    PROVE  Lrc(s) = Lrc(t)
  <1>1. ASSUME NEW w PROVE Odd(s, w) = Odd(t, w)
    <2> DEFINE A == {i \in DOMAIN s : Bit(s[i], w) = 1}
               B == {i \in DOMAIN t : Bit(t[i], w) = 1}
    <2>1. A = B
      BY DEF Same
    <2>2. Odd(s, w) = Cardinality(A) % 2 /\ Odd(t, w) = Cardinality(B) % 2
      BY DEF Odd
    <2> HIDE DEF A, B
    <2> QED
      BY <2>1, <2>2
  <1>2. /\ Odd(s, 1) = Odd(t, 1) /\ Odd(s, 2) = Odd(t, 2) /\ Odd(s, 4) = Odd(t, 4) /\ Odd(s, 8) = Odd(t, 8)
        /\ Odd(s, 16) = Odd(t, 16) /\ Odd(s, 32) = Odd(t, 32) /\ Odd(s, 64) = Odd(t, 64)
        /\ Odd(s, 128) = Odd(t, 128)
    BY <1>1
  <1> QED
    BY <1>2, SMT DEF Lrc

\* Sequences that differ in exactly one byte have different checksums.
LEMMA LrcDiffers ==
    ASSUME NEW n \in Nat, NEW s, NEW t, NEW k, DifferAt(s, t, n, k)
    PROVE  Lrc(s) # Lrc(t)
  <1>0. /\ DOMAIN s = 1..n /\ DOMAIN t = 1..n /\ k \in 1..n
        /\ s[k] \in 0..255 /\ t[k] \in 0..255 /\ s[k] # t[k]
        /\ \A i \in 1..n \ {k} : s[i] = t[i]
    BY DEF DifferAt
  <1>1. PICK w \in Weights : Bit(s[k], w) # Bit(t[k], w)
    BY <1>0, BitDiffers
  <1> DEFINE A == {i \in 1..n : Bit(s[i], w) = 1}
             B == {i \in 1..n : Bit(t[i], w) = 1}
             C == {i \in 1..n \ {k} : Bit(s[i], w) = 1}
  <1>2. IsFiniteSet(1..n)
    BY FS_Interval
  <1>3. IsFiniteSet(C) /\ k \notin C
    BY <1>2, FS_Subset
  <1>4. Cardinality(C) \in Nat /\ Cardinality(C \cup {k}) = Cardinality(C) + 1
    BY <1>3, FS_AddElement, FS_CardinalityType
  <1>5. Bit(s[k], w) \in {0, 1} /\ Bit(t[k], w) \in {0, 1}
    <2>1. w \in Nat \ {0}
      BY DEF Weights
    <2>2. w = 1 \/ w = 2 \/ w = 4 \/ w = 8 \/ w = 16 \/ w = 32 \/ w = 64 \/ w = 128
      BY DEF Weights
    <2>3. \A b \in 0..255 : Bit(b, w) \in {0, 1}
      BY <2>2 DEF Bit
    <2> QED
      BY <1>0, <2>3
  <1>6. \/ A = C \cup {k} /\ B = C
        \/ A = C /\ B = C \cup {k}
    <2>1. CASE Bit(s[k], w) = 1 /\ Bit(t[k], w) = 0
      <3>1. A = C \cup {k}
        BY <1>0, <2>1
      <3>2. B = C
        BY <1>0, <2>1
      <3> QED
        BY <3>1, <3>2
    <2>2. CASE Bit(s[k], w) = 0 /\ Bit(t[k], w) = 1
      <3>1. A = C
        BY <1>0, <2>2
      <3>2. B = C \cup {k}
        BY <1>0, <2>2
      <3> QED
        BY <3>1, <3>2
    <2> QED
      BY <1>1, <1>5, <2>1, <2>2
  <1>7. Odd(s, w) = Cardinality(A) % 2 /\ Odd(t, w) = Cardinality(B) % 2
    BY <1>0 DEF Odd
  <1> HIDE DEF A, B, C
  <1>8. Odd(s, w) # Odd(t, w)
    <2>1. \A c \in Nat : c % 2 # (c + 1) % 2
      OBVIOUS
    <2>2. Cardinality(C) % 2 # Cardinality(C \cup {k}) % 2
      BY <1>4, <2>1
    <2> QED
      BY <1>6, <1>7, <2>2
  <1> QED
    BY <1>0, <1>8, LrcBits

\* A checksum is a number.
LEMMA LrcType ==
    ASSUME NEW n \in Nat, NEW s, DOMAIN s = 1..n
    PROVE  Lrc(s) \in Int
  <1> DEFINE a == Odd(s, 1)   b == Odd(s, 2)   c == Odd(s, 4)   d == Odd(s, 8)
             e == Odd(s, 16)  f == Odd(s, 32)  g == Odd(s, 64)  h == Odd(s, 128)
  <1>1. \A w : Odd(s, w) \in Int
    BY OddType
  <1>2. /\ a \in Int /\ b \in Int /\ c \in Int /\ d \in Int
        /\ e \in Int /\ f \in Int /\ g \in Int /\ h \in Int
    BY <1>1
  <1>3. Lrc(s) = a + 2 * b + 4 * c + 8 * d + 16 * e + 32 * f + 64 * g + 128 * h
    BY DEF Lrc
  <1> HIDE DEF a, b, c, d, e, f, g, h
  <1>4. a + 2 * b + 4 * c + 8 * d + 16 * e + 32 * f + 64 * g + 128 * h \in Int
    BY <1>2
  <1> QED
    BY <1>3, <1>4

\* r is a sequence of a elements of s and then b of t.
IsJoin(r, s, t, a, b) ==
    /\ r \in Seq(Int) /\ Len(r) = a + b /\ DOMAIN r = 1..(a + b)
    /\ \A i \in 1..a : r[i] = s[i]
    /\ \A i \in 1..b : r[a + i] = t[i]

\* So is a concatenation.
LEMMA Joined ==
    ASSUME NEW s \in Seq(Int), NEW t \in Seq(Int)
    PROVE  IsJoin(s \o t, s, t, Len(s), Len(t))
  BY DEF IsJoin

\* The length and the payload, over which the checksum is taken.
Long(n, p) == <<(n \div 256) % 256, n % 256>> \o p

\* f is made of a start, the length and the payload p, and their checksum.
MadeOf(f, long, n, p) ==
    /\ f \in Seq(Int) /\ Len(f) = n + 4
    /\ f[1] = STX /\ f[2] * 256 + f[3] = n
    /\ \A i \in 1..n : f[3 + i] = p[i]
    /\ f[n + 4] = Lrc(long)
    /\ DOMAIN long = 1..(n + 2)
    /\ \A i \in 1..(n + 2) : long[i] = f[i + 1]

\* So is the frame of a payload.
LEMMA FrameParts ==
    ASSUME NEW n \in Nat, 1 <= n, n < LengthLimit, NEW p \in Seq(Int), Len(p) = n
    PROVE  MadeOf(Frame(p), Long(n, p), n, p)
  <1> DEFINE hi == (n \div 256) % 256
             lo == n % 256
             two == <<hi, lo>>
             long == Long(n, p)
             sum == Lrc(long)
             start == <<STX>>
             head == start \o long
             last == <<sum>>
             f == Frame(p)
  <1>1. hi \in Int /\ lo \in Int /\ hi * 256 + lo = n
    <2>1. n \div 256 \in Nat /\ n \div 256 < 256 /\ n % 256 \in Nat
      BY DEF LengthLimit
    <2>2. \A k \in Nat : k < 256 => k % 256 = k
      OBVIOUS
    <2>3. (n \div 256) % 256 = n \div 256
      BY <2>1, <2>2
    <2>4. n = 256 * (n \div 256) + (n % 256)
      OBVIOUS
    <2> QED
      BY <2>1, <2>3, <2>4
  <1>2. f = head \o last /\ long = two \o p
    BY DEF Frame, Long
  <1>3. start \in Seq(Int) /\ Len(start) = 1 /\ start[1] = STX
    BY DEF STX
  <1> HIDE DEF hi, lo
  <1>4. two \in Seq(Int) /\ Len(two) = 2 /\ two[1] = hi /\ two[2] = lo
    BY <1>1
  <1> HIDE DEF two
  <1>5. /\ long \in Seq(Int) /\ Len(long) = n + 2 /\ DOMAIN long = 1..(n + 2)
        /\ long[1] = hi /\ long[2] = lo
        /\ \A i \in 1..n : long[2 + i] = p[i]
    <2>1. IsJoin(two \o p, two, p, Len(two), Len(p))
      BY <1>4, Joined, Zenon
    <2> HIDE DEF long
    <2>2. IsJoin(long, two, p, 2, n)
      BY <1>2, <1>4, <2>1, Zenon
    <2>3. 2 + n = n + 2 /\ 1 \in 1..2 /\ 2 \in 1..2
      OBVIOUS
    <2> QED
      BY <1>4, <2>2, <2>3 DEF IsJoin
  <1>6. sum \in Int
    BY <1>5, n + 2 \in Nat, LrcType
  <1> HIDE DEF sum, long, start
  <1>7. last \in Seq(Int) /\ Len(last) = 1 /\ last[1] = sum
    BY <1>6
  <1>8. /\ head \in Seq(Int) /\ Len(head) = n + 3 /\ head[1] = STX
        /\ \A i \in 1..(n + 2) : head[1 + i] = long[i]
    <2>1. IsJoin(head, start, long, Len(start), Len(long))
      BY <1>3, <1>5, Joined, Zenon
    <2> HIDE DEF head
    <2>2. IsJoin(head, start, long, 1, n + 2)
      BY <1>3, <1>5, <2>1, Zenon
    <2> QED
      BY <1>3, <2>2 DEF IsJoin
  <1> HIDE DEF head, last, f
  <1>9. /\ f \in Seq(Int) /\ Len(f) = n + 4 /\ f[n + 4] = sum
        /\ \A i \in 1..(n + 3) : f[i] = head[i]
    <2>1. IsJoin(head \o last, head, last, Len(head), Len(last))
      BY <1>7, <1>8, Joined, Zenon
    <2>2. IsJoin(f, head, last, n + 3, 1)
      BY <1>2, <1>7, <1>8, <2>1, Zenon
    <2>3. (n + 3) + 1 = n + 4 /\ 1 \in 1..1
      OBVIOUS
    <2> QED
      BY <1>7, <2>2, <2>3 DEF IsJoin
  <1>10. f[1] = STX /\ \A i \in 1..(n + 2) : f[i + 1] = long[i]
    <2>1. f[1] = STX
      BY <1>8, <1>9, 1 \in 1..(n + 3)
    <2>2. ASSUME NEW i \in 1..(n + 2) PROVE f[i + 1] = long[i]
      <3>1. i + 1 \in 1..(n + 3) /\ i + 1 = 1 + i
        OBVIOUS
      <3> QED
        BY <1>8, <1>9, <3>1
    <2> QED
      BY <2>1, <2>2
  <1>11. f[2] = hi /\ f[3] = lo
    <2>1. f[1 + 1] = long[1] /\ f[2 + 1] = long[2]
      BY <1>10
    <2> QED
      BY <2>1, <1>5
  <1>12. ASSUME NEW i \in 1..n PROVE f[3 + i] = p[i]
    <2>1. 2 + i \in 1..(n + 2) /\ (2 + i) + 1 = 3 + i
      OBVIOUS
    <2> QED
      BY <1>5, <1>10, <2>1
  <1>13. f[2] * 256 + f[3] = n
    BY <1>1, <1>11
  <1>14. MadeOf(f, long, n, p)
    BY <1>5, <1>9, <1>10, <1>12, <1>13 DEF MadeOf, sum
  <1> QED
    BY <1>14, Zenon DEF f, long

\* A frame with n bytes of payload, as far as the parser looks.
IsFrame(g, n) == g \in Seq(Int) /\ Len(g) = n + 4 /\ g[2] * 256 + g[3] = n

\* Such a frame is taken exactly if it is long enough, starts as a frame does and
\* its checksum is that of the bytes before it.
LEMMA ParseFrame ==
    ASSUME NEW n \in Nat, 1 <= n, NEW g, IsFrame(g, n)
    PROVE  Parse(g) = "payload" <=>
             n + 4 >= 6 /\ g[1] = STX /\ g[n + 4] = Lrc(SubSeq(g, 2, n + 3))
  <1> DEFINE k == g[2] * 256 + g[3]
             sum == Lrc(SubSeq(g, 2, 3 + k))
  <1>1. k = n /\ Len(g) = n + 4
    BY DEF IsFrame
  <1>2. Parse(g) = IF Len(g) < 6 THEN "Response too short"
                   ELSE IF g[1] # STX THEN "Invalid STX"
                   ELSE IF Len(g) < 3 + k + 1 THEN "Incomplete response"
                   ELSE IF g[4 + k] # sum THEN "LRC mismatch" ELSE "payload"
    BY DEF Parse
  <1>3. 3 + k = n + 3 /\ 4 + k = n + 4
    BY <1>1
  <1>4. sum = Lrc(SubSeq(g, 2, n + 3)) /\ g[4 + k] = g[n + 4]
    BY <1>3, Zenon
  <1> DEFINE last == g[4 + k]
             first == g[1]
  <1> HIDE DEF k, sum, last, first
  <1>5. ~(n + 4 < 3 + k + 1) /\ (n + 4 < 6 <=> ~(n + 4 >= 6))
    BY <1>1
  <1>6. Parse(g) = "payload" <=> n + 4 >= 6 /\ first = STX /\ last = sum
    BY <1>1, <1>2, <1>5 DEF last, first
  <1> QED
    BY <1>4, <1>6 DEF last, first

\* The bytes between the start and the checksum.
LEMMA Middle ==
    ASSUME NEW n \in Nat, 1 <= n, NEW g \in Seq(Int), Len(g) = n + 4
    PROVE  /\ DOMAIN SubSeq(g, 2, n + 3) = 1..(n + 2)
           /\ \A i \in 1..(n + 2) : SubSeq(g, 2, n + 3)[i] = g[i + 1]
  <1>1. /\ SubSeq(g, 2, n + 3) \in Seq(Int) /\ Len(SubSeq(g, 2, n + 3)) = n + 2
    BY SubSeqProperties
  <1>2. \A i \in 1..(n + 2) : SubSeq(g, 2, n + 3)[i] = g[i + 1]
    OBVIOUS
  <1> DEFINE mid == SubSeq(g, 2, n + 3)
  <1> HIDE DEF mid
  <1>3. DOMAIN mid = 1..(n + 2)
    BY <1>1 DEF mid
  <1> QED
    BY <1>2, <1>3 DEF mid

\* The frame of p is read back, and with one byte outside its length changed it is not.
Kept(p, bytes) ==
    /\ Len(Frame(p)) >= 6 => Parse(Frame(p)) = "payload"
    /\ \A i \in DOMAIN Frame(p) \ {2, 3}, b \in bytes :
         b # Frame(p)[i] => Parse([Frame(p) EXCEPT ![i] = b]) # "payload"

\* This holds for every payload and every change.
LEMMA FrameSafe ==
    ASSUME NEW n \in Nat, 1 <= n, n < LengthLimit, NEW p \in Seq(Int), Len(p) = n,
           \A i \in 1..n : p[i] \in 0..255
    PROVE  Kept(p, 0..255)
  <1> DEFINE f == Frame(p)
             long == Long(n, p)
             mid == SubSeq(f, 2, n + 3)
  <1>1. /\ f \in Seq(Int) /\ Len(f) = n + 4 /\ f[1] = STX /\ f[2] * 256 + f[3] = n
        /\ \A i \in 1..n : f[3 + i] = p[i]
        /\ f[n + 4] = Lrc(long) /\ DOMAIN long = 1..(n + 2)
        /\ \A i \in 1..(n + 2) : long[i] = f[i + 1]
    <2>1. MadeOf(f, long, n, p)
      BY FrameParts
    <2> HIDE DEF f, long
    <2> QED
      BY <2>1 DEF MadeOf
  <1> HIDE DEF f, long
  <1>2. DOMAIN mid = 1..(n + 2) /\ \A i \in 1..(n + 2) : mid[i] = f[i + 1]
    BY <1>1, Middle
  <1>3. DOMAIN f = 1..(n + 4)
    BY <1>1
  <1>4. IsFrame(f, n)
    BY <1>1 DEF IsFrame
  <1>5. Lrc(mid) = Lrc(long)
    <2> HIDE DEF mid
    <2>1. Same(mid, long, n + 2)
      BY <1>1, <1>2 DEF Same
    <2> QED
      BY <2>1, n + 2 \in Nat, LrcSame
  <1>6. Len(f) >= 6 => Parse(f) = "payload"
    <2>1. Len(f) >= 6 => n + 4 >= 6
      BY <1>1
    <2>2. f[n + 4] = Lrc(mid)
      BY <1>1, <1>5
    <2> QED
      BY <1>1, <1>4, <2>1, <2>2, ParseFrame
  <1>7. ASSUME NEW i \in DOMAIN f \ {2, 3}, NEW b \in 0..255, b # f[i]
        PROVE  Parse([f EXCEPT ![i] = b]) # "payload"
    <2> DEFINE g == [f EXCEPT ![i] = b]
               cut == SubSeq(g, 2, n + 3)
    <2>1. /\ g \in Seq(Int) /\ Len(g) = n + 4 /\ g[i] = b
          /\ \A j \in 1..(n + 4) : j # i => g[j] = f[j]
      <3>1. f \in [1..(n + 4) -> Int]
        BY <1>1, <1>3
      <3>2. g \in [1..(n + 4) -> Int] /\ g[i] = b /\ \A j \in 1..(n + 4) : j # i => g[j] = f[j]
        BY <1>3, <3>1
      <3> HIDE DEF g
      <3>3. g \in Seq(Int)
        BY <3>2, n + 4 \in Nat, SeqDef
      <3>4. Len(g) = n + 4
        BY <3>2, <3>3
      <3> QED
        BY <3>2, <3>3, <3>4
    <2> HIDE DEF g
    <2>2. 2 \in 1..(n + 4) /\ 3 \in 1..(n + 4) /\ 1 \in 1..(n + 4) /\ n + 4 \in 1..(n + 4)
      OBVIOUS
    <2>3. g[2] = f[2] /\ g[3] = f[3]
      BY <2>1, <2>2
    <2>4. IsFrame(g, n)
      BY <1>1, <2>1, <2>3 DEF IsFrame
    <2>5. DOMAIN cut = 1..(n + 2) /\ \A j \in 1..(n + 2) : cut[j] = g[j + 1]
      BY <2>1, Middle
    <2> HIDE DEF cut
    <2>6. CASE i = 1
      <3>1. g[1] # STX
        BY <1>1, <1>7, <2>1, <2>6
      <3> QED
        BY <3>1, <2>4, ParseFrame DEF g
    <2>7. CASE i = n + 4
      <3>1. g[n + 4] # Lrc(long)
        BY <1>1, <1>7, <2>1, <2>7
      <3>2. \A j \in 1..(n + 2) : cut[j] = long[j]
        <4> SUFFICES ASSUME NEW j \in 1..(n + 2) PROVE cut[j] = long[j]
          OBVIOUS
        <4>1. j + 1 \in 1..(n + 4) /\ j + 1 # i
          BY <2>7
        <4> QED
          BY <1>1, <2>1, <2>5, <4>1
      <3>3. Same(cut, long, n + 2)
        BY <1>1, <2>5, <3>2 DEF Same
      <3>5. Lrc(cut) = Lrc(long)
        BY <3>3, n + 2 \in Nat, LrcSame
      <3>6. g[n + 4] # Lrc(cut)
        BY <3>1, <3>5
      <3> QED
        BY <3>6, <2>4, ParseFrame DEF g, cut
    <2>8. CASE i # 1 /\ i # n + 4
      <3>1. i \in 4..(n + 3)
        BY <1>3, <2>8
      <3> DEFINE k == i - 1
      <3>2. k \in 1..(n + 2) /\ k + 1 = i /\ i - 3 \in 1..n /\ 3 + (i - 3) = i /\ n + 2 \in Nat
        BY <3>1
      <3>3. f[i] = p[i - 3] /\ p[i - 3] \in 0..255
        BY <1>1, <3>2
      <3>4. mid[k] = f[i] /\ cut[k] = b
        BY <1>2, <2>1, <2>5, <3>2
      <3>5. \A j \in 1..(n + 2) \ {k} : mid[j] = cut[j]
        <4> SUFFICES ASSUME NEW j \in 1..(n + 2) \ {k} PROVE mid[j] = cut[j]
          OBVIOUS
        <4>1. j + 1 \in 1..(n + 4) /\ j + 1 # i
          BY <3>2
        <4> QED
          BY <1>2, <2>1, <2>5, <4>1
      <3> HIDE DEF k, mid
      <3>6. Lrc(mid) # Lrc(cut)
        <4>1. DifferAt(mid, cut, n + 2, k)
          BY <1>2, <1>7, <2>5, <3>2, <3>3, <3>4, <3>5 DEF DifferAt
        <4> QED
          BY <4>1, n + 2 \in Nat, LrcDiffers
      <3>7. g[n + 4] = Lrc(long)
        BY <1>1, <2>1, <2>2, <2>8
      <3>8. g[n + 4] # Lrc(cut)
        BY <1>5, <3>6, <3>7 DEF mid
      <3> QED
        BY <3>8, <2>4, ParseFrame DEF g, cut
    <2> QED
      BY <2>6, <2>7, <2>8 DEF g
  <1> QED
    BY <1>6, <1>7 DEF Kept, f

\* The property of the frames, for any sample.
LEMMA FramesHold ==
    ASSUME sample.of = "frame" => sample.payload \in Payloads,
           sample.of = "deduct" => sample.qr \in BOOLEAN /\ sample.length \in 0..90
    PROVE  FramesSafe
  <1>1. ASSUME sample.of = "frame"
        PROVE  /\ Len(Frame(sample.payload)) >= 6 => Parse(Frame(sample.payload)) = "payload"
               /\ \A i \in DOMAIN Frame(sample.payload) \ {2, 3}, b \in ByteValues :
                    b # Frame(sample.payload)[i]
                      => Parse([Frame(sample.payload) EXCEPT ![i] = b]) # "payload"
    <2> DEFINE p == sample.payload
    <2>1. PICK n \in 1..MaxPayload : p \in [1..n -> ByteValues]
      BY <1>1 DEF Payloads
    <2>2. MaxPayload \in Nat /\ MaxPayload < LengthLimit /\ LengthLimit \in Nat
      BY RulesAssumption DEF LengthLimit
    <2>3. n \in Nat /\ 1 <= n /\ n < LengthLimit
      BY <2>1, <2>2
    <2>4. ByteValues \subseteq 0..255
      BY RulesAssumption
    <2>b. \A b \in ByteValues : b \in 0..255
      BY <2>4
    <2> HIDE DEF p
    <2>5. p \in [1..n -> Int] /\ \A i \in 1..n : p[i] \in 0..255
      <3>3. p \in [1..n -> ByteValues]
        BY <2>1 DEF p
      <3>1. ASSUME NEW i \in 1..n PROVE p[i] \in 0..255
        <4>1. p[i] \in ByteValues
          BY <3>3
        <4> QED
          BY <4>1, <2>b
      <3>2. \A i \in 1..n : p[i] \in Int
        BY <3>1
      <3> QED
        BY <3>1, <3>2, <3>3
    <2>6. p \in Seq(Int)
      BY <2>3, <2>5, SeqDef
    <2>7. Len(p) = n
      BY <2>3, <2>5, <2>6
    <2>8. Kept(p, 0..255)
      BY <2>3, <2>5, <2>6, <2>7, FrameSafe
    <2> QED
      BY <2>8, <2>b DEF Kept, p
  <1>2. ASSUME sample.of = "deduct", DeductAccepted(sample.qr, sample.length),
               NEW x \in DeductFields(sample.qr)
        PROVE  x[2] <= sample.length
    <2>1. sample.length \in Int
      BY <1>2
    <2>2. CASE sample.qr
      <3>1. sample.length >= 84
        BY <1>2, <2>2 DEF DeductAccepted
      <3>2. x \in {<<2, 9>>, <<10, 13>>, <<14, 20>>, <<21, 21>>, <<22, 25>>, <<26, 47>>, <<48, 83>>, <<84, 84>>}
        BY <1>2, <2>2 DEF DeductFields
      <3>3. x[2] \in {9, 13, 20, 21, 25, 47, 83, 84}
        BY <3>2
      <3> QED
        BY <2>1, <3>1, <3>3
    <2>3. CASE ~sample.qr
      <3>1. sample.length >= 40
        BY <1>2, <2>3 DEF DeductAccepted
      <3>2. x \in {<<2, 9>>, <<10, 13>>, <<14, 20>>, <<21, 28>>, <<29, 32>>, <<33, 36>>, <<37, 40>>}
        BY <1>2, <2>3 DEF DeductFields
      <3>3. x[2] \in {9, 13, 20, 28, 32, 36, 40}
        BY <3>2
      <3> QED
        BY <2>1, <3>1, <3>3
    <2> QED
      BY <2>2, <2>3
  <1> QED
    BY <1>1, <1>2 DEF FramesSafe

-----------------------------------------------------------------------------
(* Messages of the gate controller *)

\* The property of the reads, for any sample.
LEMMA StatHolds ==
    ASSUME sample.of = "stat" => \E n \in Nat : sample.read \in [1..n -> PinTokens]
    PROVE  StatRead
  <1> SUFFICES ASSUME sample.of = "stat" PROVE StatRead
    BY DEF StatRead
  <1> DEFINE read == sample.read
  <1>1. PICK n \in Nat : read \in [1..n -> PinTokens]
    OBVIOUS
  <1>2. DOMAIN read = 1..n
    BY <1>1
  <1>3. Len(read) = n
    BY <1>1, <1>2
  <1> HIDE DEF read
  <1>4. \A i \in 1..n : read[i].kind \in {"STAT", "ON", "OFF"}
    BY <1>1 DEF PinTokens
  <1> DEFINE t(i) == read[i]
             has(k, p) == \E i \in DOMAIN read : read[i].kind = k /\ read[i].pin = p
             stats == {i \in DOMAIN read : read[i].kind = "STAT"}
             first == CHOOSE i \in stats : \A j \in stats : i <= j
  <1>5. \A p : InputOf(read, p) = IF has("ON", p) THEN TRUE
                                  ELSE IF has("OFF", p) THEN FALSE
                                  ELSE stats # {} /\ read[first].bits[p]
    BY DEF InputOf
  <1>6. ASSUME NEW i \in DOMAIN read, read[i].kind \in {"ON", "OFF"},
               \A j \in DOMAIN read \ {i} :
                   read[j].kind \in {"ON", "OFF"} => read[j].pin # read[i].pin
        PROVE  InputOf(read, read[i].pin) = (read[i].kind = "ON")
    <2>1. CASE read[i].kind = "ON"
      <3>1. has("ON", read[i].pin)
        BY <2>1
      <3> QED
        BY <1>5, <2>1, <3>1
    <2>2. CASE read[i].kind = "OFF"
      <3>1. has("OFF", read[i].pin)
        BY <2>2
      <3>2. ~has("ON", read[i].pin)
        BY <1>6, <2>2
      <3> QED
        BY <1>5, <2>2, <3>1, <3>2
    <2> QED
      BY <1>6, <2>1, <2>2
  <1>7. ASSUME NEW i \in DOMAIN read, Len(read) = 1, read[i].kind = "STAT", NEW p \in Pins
        PROVE  InputOf(read, p) = read[i].bits[p]
    <2>1. i = 1 /\ DOMAIN read = {1}
      BY <1>2, <1>3, <1>7
    <2>2. stats = {1}
      BY <1>7, <2>1
    <2>3. first = 1
      BY <2>2
    <2>4. ~has("ON", p) /\ ~has("OFF", p)
      BY <1>7, <2>1
    <2>5. read[i] \in PinTokens
      BY <1>1, <1>2
    <2>6. read[i].bits \in [Pins -> BOOLEAN]
      BY <1>7, <2>5 DEF PinTokens
    <2>7. read[i].bits[p] \in BOOLEAN
      BY <2>6
    <2> HIDE DEF has, stats, first
    <2>8. InputOf(read, p) = (stats # {} /\ read[first].bits[p])
      BY <1>5, <2>4
    <2> QED
      BY <2>1, <2>2, <2>3, <2>7, <2>8
  <1> QED
    BY <1>6, <1>7 DEF StatRead, read

-----------------------------------------------------------------------------

\* A sample is an input of one of the functions.
IsSample == sample = [of |-> "none"] \/ RulesInit

\* The contracts of the pure functions hold for every input.
LEMMA RulesSound == IsSample => RulesAgree
  <1> SUFFICES ASSUME IsSample PROVE RulesAgree
    OBVIOUS
  <1>1. /\ sample.of = "fee" => /\ sample.rate \in Rates /\ sample.types \in TypesPriced
                                /\ sample.arrival \in Arrivals /\ sample.stay \in Stays
    BY DEF IsSample, RulesInit
  <1>2. sample.of = "shift" => sample.table \in ShiftTables
    BY DEF IsSample, RulesInit
  <1>3. sample.of = "frame" => sample.payload \in Payloads
    BY DEF IsSample, RulesInit
  <1>4. sample.of = "deduct" => sample.qr \in BOOLEAN /\ sample.length \in 0..90
    BY DEF IsSample, RulesInit
  <1>5. sample.of = "stat" => \E n \in Nat : sample.read \in [1..n -> PinTokens]
    <2>1. sample.of = "stat" => sample.read \in UNION {[1..n -> PinTokens] : n \in 0..2}
      BY DEF IsSample, RulesInit
    <2>2. ASSUME sample.of = "stat" PROVE \E n \in Nat : sample.read \in [1..n -> PinTokens]
      <3>1. PICK n \in 0..2 : sample.read \in [1..n -> PinTokens]
        BY <2>1, <2>2
      <3>2. n \in Nat
        OBVIOUS
      <3> QED
        BY <3>1, <3>2
    <2> QED
      BY <2>2
  <1> QED
    BY <1>1, <1>2, <1>3, <1>4, <1>5, FeesHold, ShiftsHold, FramesHold, StatHolds DEF RulesAgree

=============================================================================
