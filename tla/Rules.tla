-------------------------------- MODULE Rules --------------------------------
(***************************************************************************)
(* The pure functions: the parking fee (services/tariff.py and the fee of  *)
(* a row, services/transaction.py), the shift of                           *)
(* an hour (services/shift_utils.py), frames of the e-money reader         *)
(* (protocols/passti) and messages of the gate controller                  *)
(* (protocols/compass/parser.py).  sample is one input of one of them;     *)
(* the properties are checked for every sample.                            *)
(***************************************************************************)
EXTENDS Integers, Sequences, FiniteSets

CONSTANTS
    Stays, Arrivals,   \* minutes from entry to exit, and minutes after midnight of the entry
    Amounts,           \* amounts of a tariff, 0 among them
    GracePeriod,       \* grace_period_minutes
    DayHours,          \* hours at which shifts start and end
    MaxShifts,         \* bound: shifts
    ByteValues,        \* byte values of payloads
    MaxPayload         \* bound: bytes of a payload

\* The lengths that two bytes can say.
LengthLimit == 256 * 256

ASSUME RulesAssumption ==
    /\ Stays \subseteq Int /\ Arrivals \subseteq Nat /\ Amounts \subseteq Nat
    /\ GracePeriod \in Nat /\ DayHours \subseteq Nat
    /\ ByteValues \subseteq 0..255 /\ MaxPayload \in Nat /\ MaxPayload < LengthLimit

VARIABLE sample

-----------------------------------------------------------------------------
(* calculate_tariff *)

MinutesPerHour == 60
MinutesPerDay  == 60 * 24
CeilDiv(a, b)  == (a + b - 1) \div b
Larger(a, b)   == IF a >= b THEN a ELSE b
Smaller(a, b)  == IF a <= b THEN a ELSE b

Rates ==
    [hourly : Amounts, cap : Amounts, base : Amounts, mode : {"midnight", "24h", "none"},
     night : Amounts, penalty : Amounts, progressive : BOOLEAN]

\* MUTANT of StartedHours: the hours of the last day only.
StartedHoursOfDay(stay) == Larger(1, CeilDiv(stay % MinutesPerDay, MinutesPerHour))

StartedHours(stay) == Larger(1, CeilDiv(stay, MinutesPerHour))

\* The fee for the time, before surcharges.
TimeFee(r, stay) ==
    IF r.progressive
    THEN (IF r.base # 0 THEN r.base ELSE r.hourly) + (StartedHours(stay) - 1) * r.hourly
    ELSE StartedHours(stay) * (IF r.hourly # 0 THEN r.hourly ELSE r.base)

Nights(r, arrival, stay) ==
    IF r.mode = "24h" THEN stay \div MinutesPerDay
    ELSE IF r.mode = "midnight" THEN (arrival + stay) \div MinutesPerDay ELSE 0

Capped(r, stay, fee) ==
    IF r.cap > 0 THEN Smaller(fee, Larger(1, CeilDiv(stay, MinutesPerDay)) * r.cap) ELSE fee

\* The fee of a vehicle that arrives so many minutes after midnight.
Fee(r, arrival, stay, lost) ==
    IF ~lost /\ stay <= GracePeriod THEN 0
    ELSE LET fee == Capped(r, stay, TimeFee(r, stay) + Nights(r, arrival, stay) * r.night)
         IN  IF lost THEN Larger(fee, r.penalty) ELSE fee

-----------------------------------------------------------------------------
(* calculate_transaction_fee *)

NoType == 0
TypesPriced == {<<NoType, NoType>>, <<1, NoType>>, <<NoType, 1>>}

\* DEFAULT_TARIFF_CONFIG has a MOBIL, and its other fields are the defaults.
DefaultRate ==
    [hourly |-> 5000, cap |-> 50000, base |-> 0, mode |-> "none",
     night |-> 0, penalty |-> 0, progressive |-> FALSE]

\* get_vehicle_type_tariff_config: the rates of the type chosen at the exit, else of
\* the one on the row; no type, or one that is gone, is priced as MOBIL.
RateOf(table, own, chosen) ==
    LET type == IF chosen # NoType THEN chosen ELSE own
    IN  IF type \in DOMAIN table THEN table[type] ELSE DefaultRate

\* An exit clock behind the entry's counts as no time at all.
TransactionFee(r, arrival, stay, lost) == Fee(r, arrival, Larger(0, stay), lost)

-----------------------------------------------------------------------------
(* get_current_shift *)

\* The times of a shift, both ends included; one that ends before it starts runs
\* over midnight.
Covers(s, h) ==
    IF s.start <= s.end THEN s.start <= h /\ h <= s.end ELSE h >= s.start \/ h <= s.end

\* The first of the active shifts, in the order of their starts, that covers the
\* hour, or just the first.
CurrentShift(table, h) ==
    LET on == {k \in DOMAIN table : Covers(table[k], h)}
    IN  IF on = {} THEN 1 ELSE CHOOSE k \in on : \A m \in on : k <= m

ShiftTables ==
    {t \in UNION {[1..n -> [start : DayHours, end : DayHours]] : n \in 1..MaxShifts} :
        \A i, j \in DOMAIN t : i < j => t[i].start <= t[j].start}

-----------------------------------------------------------------------------
(* Frames of the PASSTI reader *)

STX == 2
Payloads == UNION {[1..n -> ByteValues] : n \in 1..MaxPayload}

\* A bit of a byte, by its weight.
Bit(byte, weight) == (byte \div weight) % 2

\* The exclusive or of a bit over all bytes: whether it is set in an odd number.
Odd(s, weight) == Cardinality({i \in DOMAIN s : Bit(s[i], weight) = 1}) % 2

\* _lrc: the exclusive or of all bytes, bit by bit.
Lrc(s) ==
    Odd(s, 1) + 2 * Odd(s, 2) + 4 * Odd(s, 4) + 8 * Odd(s, 8)
      + 16 * Odd(s, 16) + 32 * Odd(s, 32) + 64 * Odd(s, 64) + 128 * Odd(s, 128)

\* build_frame: start, two bytes of length, payload, checksum.
Frame(payload) ==
    LET long == <<(Len(payload) \div 256) % 256, Len(payload) % 256>> \o payload
    IN  <<STX>> \o long \o <<Lrc(long)>>

\* parse_response: the payload, or the reason why there is none.
Parse(raw) ==
    LET n == raw[2] * 256 + raw[3]
    IN  IF Len(raw) < 6 THEN "Response too short"
        ELSE IF raw[1] # STX THEN "Invalid STX"
        ELSE IF Len(raw) < 3 + n + 1 THEN "Incomplete response"
        ELSE IF raw[4 + n] # Lrc(SubSeq(raw, 2, 3 + n)) THEN "LRC mismatch"
        ELSE "payload"

\* The fields of a deduct response: first and last byte, by the card's type.
DeductFields(qr) ==
    IF qr THEN {<<2, 9>>, <<10, 13>>, <<14, 20>>, <<21, 21>>, <<22, 25>>, <<26, 47>>, <<48, 83>>, <<84, 84>>}
    ELSE {<<2, 9>>, <<10, 13>>, <<14, 20>>, <<21, 28>>, <<29, 32>>, <<33, 36>>, <<37, 40>>}

\* parse_deduct_response takes a body of at least this length.
DeductAccepted(qr, length) == length >= (IF qr THEN 84 ELSE 40)

-----------------------------------------------------------------------------
(* Messages of the Compass controller *)

Pins == 1..2
PinTokens == [kind : {"STAT"}, bits : [Pins -> BOOLEAN]] \cup [kind : {"ON", "OFF"}, pin : Pins]

\* parse_stat: what one read says of an input.  A push overrides the STAT bits, ON
\* overrides OFF whichever came first, and silence is FALSE.
InputOf(read, p) ==
    LET has(k) == \E i \in DOMAIN read : read[i].kind = k /\ read[i].pin = p
        stats  == {i \in DOMAIN read : read[i].kind = "STAT"}
        first  == CHOOSE i \in stats : \A j \in stats : i <= j
    IN  IF has("ON") THEN TRUE
        ELSE IF has("OFF") THEN FALSE
        ELSE stats # {} /\ read[first].bits[p]

-----------------------------------------------------------------------------

RulesInit ==
    \/ sample \in [of : {"fee"}, rate : Rates, types : TypesPriced, arrival : Arrivals, stay : Stays]
    \/ sample \in [of : {"shift"}, table : ShiftTables, hour : DayHours]
    \/ sample \in [of : {"frame"}, payload : Payloads]
    \/ sample \in [of : {"deduct"}, qr : BOOLEAN, length : 0..90]
    \/ sample \in [of : {"stat"}, read : UNION {[1..n -> PinTokens] : n \in 0..2}]

\* A vehicle that stays longer never pays less, and one that lost its ticket pays
\* at least the penalty and never less than with it; apart from that penalty
\* nobody pays more than the cap for each day begun, whichever type is priced and
\* whichever clock is ahead (tariff.py calculate_tariff, transaction.py
\* calculate_transaction_fee).
FeeMonotone ==
    sample.of = "fee" =>
        LET rate == RateOf(<<sample.rate>>, sample.types[1], sample.types[2])
            F(stay, lost) == TransactionFee(rate, sample.arrival, stay, lost)
        IN  /\ \A longer \in Stays, lost \in BOOLEAN :
                 longer >= sample.stay => F(sample.stay, lost) <= F(longer, lost)
            /\ F(sample.stay, TRUE) >= Larger(F(sample.stay, FALSE), rate.penalty)
            /\ rate.cap > 0 =>
                 F(sample.stay, FALSE) <= (Larger(0, sample.stay) \div MinutesPerDay + 1) * rate.cap

\* An hour some shift covers is booked on a shift that covers it, around midnight
\* too (shift_utils.py get_current_shift).
ShiftFound ==
    sample.of = "shift" =>
        \/ Covers(sample.table[CurrentShift(sample.table, sample.hour)], sample.hour)
        \/ \A k \in DOMAIN sample.table : ~Covers(sample.table[k], sample.hour)

\* A frame is read back, and with any one byte outside its length changed it is
\* not; no field of an accepted deduct response lies outside it (frame.py
\* build_frame, parse_response, commands.py parse_deduct_response).
FramesSafe ==
    /\ sample.of = "frame" =>
         LET f == Frame(sample.payload)
         IN  /\ Len(f) >= 6 => Parse(f) = "payload"
             /\ \A i \in DOMAIN f \ {2, 3}, b \in ByteValues :
                  b # f[i] => Parse([f EXCEPT ![i] = b]) # "payload"
    /\ sample.of = "deduct" /\ DeductAccepted(sample.qr, sample.length) =>
         \A x \in DeductFields(sample.qr) : x[2] <= sample.length

\* What a read says of an input that it mentions once, or only by the STAT bits,
\* is what the controller sent (parser.py parse_stat).
StatRead ==
    sample.of = "stat" =>
        \A i \in DOMAIN sample.read :
            LET t == sample.read[i]
            IN  /\ t.kind \in {"ON", "OFF"} /\ (\A j \in DOMAIN sample.read \ {i} :
                        sample.read[j].kind \in {"ON", "OFF"} => sample.read[j].pin # t.pin)
                     => InputOf(sample.read, t.pin) = (t.kind = "ON")
                /\ Len(sample.read) = 1 /\ t.kind = "STAT"
                     => \A p \in Pins : InputOf(sample.read, p) = t.bits[p]

\* The pure functions keep their contracts.
RulesAgree == FeeMonotone /\ ShiftFound /\ FramesSafe /\ StatRead

=============================================================================
