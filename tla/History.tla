------------------------------- MODULE History -------------------------------
(***************************************************************************)
(* The history page of a device: which readings a request for a range of   *)
(* days is answered with, and where the browser interrupts the line it     *)
(* draws through them.  Requests change nothing, so that the state is what *)
(* is stored and a page is an operator on it.                              *)
(***************************************************************************)
EXTENDS Integers, Sequences, FiniteSets

CONSTANTS
    DayLength,      \* the times of a day
    MaxRangeDays,   \* HistoryFilterForm.max_range_days, 365 in the code
    DefaultDays,    \* DEFAULT_HISTORY_RANGE_DAYS, 7 in the code
    WindowSize,     \* GAP_WINDOW_SIZE, 5 in the code
    Delays,         \* from one reading to the next
    Lateness,       \* by how much a reading may arrive after a younger one
    MaxReadings,    \* bound: the readings stored
    LastDay         \* bound: the days a request may name

ASSUME HistoryConstants ==
    /\ {DayLength, WindowSize} \subseteq Nat \ {0}
    /\ {MaxRangeDays, DefaultDays, MaxReadings, LastDay, Lateness} \subseteq Nat
    /\ Delays \subseteq Nat

VARIABLES
    rows       \* the readings stored, in the order they arrived

Accuracies == 2..3      \* BSEC's two highest; 3 is calibrated
Days == 0..LastDay
None == -1              \* a date left empty

Init == rows = <<>>

-----------------------------------------------------------------------------
(* The ingestion process stores a reading; calibration is lost once. *)
LastTime == IF rows = <<>> THEN 0 ELSE rows[Len(rows)].time
Uncalibrated == {i \in DOMAIN rows : rows[i].accuracy < 3}
Times == {LastTime + delay : delay \in Delays} \cup ({LastTime - Lateness} \cap Nat)

Store(time, accuracy) ==
    /\ Len(rows) < MaxReadings
    /\ accuracy < 3 => Uncalibrated = {}
    /\ rows' = Append(rows, [time |-> time, accuracy |-> accuracy])

Next == \E time \in Times, accuracy \in Accuracies : Store(time, accuracy)

Spec == Init /\ [][Next]_rows

-----------------------------------------------------------------------------
(* The request: dates left empty are the default's. *)
From(start, today) == IF start = None THEN today - DefaultDays ELSE start
To(end, today) == IF end = None THEN today ELSE end

(* HistoryFilterForm.clean, of the dates as filled in *)
Valid(from, to) == from <= to /\ to - from <= MaxRangeDays

(* time.min of a day and time.max *)
Opening(day) == day * DayLength

(* Mutant: the last day's readings are cut at its beginning. *)
ClosingAtMidnight(day) == day * DayLength
Closing(day) == day * DayLength + DayLength - 1

(* The rows the query returns. *)
Selected(from, to) ==
    {i \in DOMAIN rows :
        rows[i].time \in Opening(from)..Closing(to) /\ rows[i].accuracy = 3}

(* order_by("timestamp"): rows of one time may come in any order. *)
Before(i, j) == rows[i].time < rows[j].time \/ (rows[i].time = rows[j].time /\ i < j)

Nth(indices, n) ==
    CHOOSE i \in indices : Cardinality({j \in indices : Before(j, i)}) = n - 1

Ordered(indices) == [n \in 1..Cardinality(indices) |-> rows[Nth(indices, n)].time]

(* IaqDeviceHistoryView: the times on the page, of a device the viewer may see. *)
Page(start, end, today) ==
    LET from == From(start, today)
        to == To(end, today)
    IN  IF Valid(from, to) THEN Ordered(Selected(from, to)) ELSE <<>>

-----------------------------------------------------------------------------
(* history.js, of the times on the page *)

Deltas(times) == [i \in 1..(Len(times) - 1) |-> times[i + 1] - times[i]]

(* Mutant: the lower of the two values in the middle. *)
LowerMiddle(n) == (n - 1) \div 2 + 1

(* sorted[Math.floor(n / 2)], counted from one *)
Middle(n) == n \div 2 + 1

(* Indices of the deltas around one, itself left out. *)
Window(deltas, i) == {j \in DOMAIN deltas \ {i} : j \in (i - WindowSize)..(i + WindowSize)}

(* The value at a place of the values at these indices, sorted. *)
Ranked(deltas, indices, place) ==
    CHOOSE v \in {deltas[j] : j \in indices} :
        /\ Cardinality({j \in indices : deltas[j] < v}) < place
        /\ Cardinality({j \in indices : deltas[j] <= v}) >= place

Median(deltas, indices) == Ranked(deltas, indices, Middle(Cardinality(indices)))

(* localGapThreshold() is infinite where there is no window. *)
IsGapSegment(deltas, i) ==
    LET window == Window(deltas, i)
    IN  window # {} /\ deltas[i] > Median(deltas, window) * 2

-----------------------------------------------------------------------------
AllPages == {Page(s, e, t) : s, e \in Days \cup {None}, t \in Days}

(* Between two days, both of them whole, a page has every calibrated reading of
   these days and no other, once and in the order of time, whatever order they
   arrived in (views.py:114-131). *)
PageIsFaithful ==
    \A from, to \in Days :
        LET page == Page(from, to, LastDay)
            OfDays == {i \in DOMAIN rows :
                          rows[i].accuracy = 3 /\ rows[i].time \div DayLength \in from..to}
        IN  from <= to /\ to - from <= MaxRangeDays =>
               /\ \A i, j \in DOMAIN page : i < j => page[i] <= page[j]
               /\ \A time \in {rows[i].time : i \in DOMAIN rows} :
                     Cardinality({i \in DOMAIN page : page[i] = time})
                       = Cardinality({i \in OfDays : rows[i].time = time})
               /\ Len(page) = Cardinality(OfDays)

(* The line is interrupted exactly where more than half of the neighbouring
   intervals are shorter than half of the interval: an outage among regular
   readings is always seen, and a change of the sampling rate, with as many
   readings after it as before, never is (history.js:39-65). *)
GapByMajority ==
    \A page \in AllPages :
        LET deltas == Deltas(page)
        IN  \A i \in DOMAIN deltas :
               LET near == {j \in DOMAIN deltas \ {i} : i - j \in (-WindowSize)..WindowSize}
                   shorter == {j \in near : 2 * deltas[j] < deltas[i]}
               IN  IsGapSegment(deltas, i) <=> 2 * Cardinality(shorter) > Cardinality(near)
=============================================================================
