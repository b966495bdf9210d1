------------------------------ MODULE EventTimes ------------------------------
(***************************************************************************)
(* Daily slots in civil time: Schedule::next_after of sf-core/events.rs.   *)
(* A zone is a function from UTC instants to offsets; a civil time may be  *)
(* shown by the clocks never (spring), once, or twice (autumn).             *)
(***************************************************************************)
EXTENDS Integers, FiniteSetsExt

CONSTANTS
    DayLength,    \* civil times of a day
    Week,         \* days of a week
    Horizon,      \* bound on instants
    Zones,        \* offsets over the instants
    SearchDays    \* civil dates next_after looks at

TimesAssumption ==
    /\ {DayLength, Week, Horizon, SearchDays} \subseteq Nat \ {0}
    /\ \A z \in Zones : z \in [0..Horizon -> Int]

VARIABLES zone, slot, days, now, last   \* a schedule and the slots it has taken
vars == <<zone, slot, days, now, last>>

Instants == 0..Horizon
Local(t) == t + zone[t]
Day(t) == Local(t) \div DayLength
\* from_local_datetime: none, one or two instants
Shown(day) == {t \in Instants : Local(t) = day * DayLength + slot}
\* Plausible mistake: the later of two occurrences.
LaterOf(T) == Max(T)
FirstOf(T) == Min(T)
\* Plausible mistake: the slot that is now is the next one.
NotBefore(t, after) == t >= after
After(t, after) == t > after
Usable(day, after) ==
    /\ day % Week \in days
    /\ Shown(day) # {} /\ After(FirstOf(Shown(day)), after)
NextAfter(after) ==
    LET D == {d \in Day(after)..(Day(after) + SearchDays - 1) : Usable(d, after)}
    IN  IF D = {} THEN {} ELSE {FirstOf(Shown(Min(D)))}

Init ==
    /\ zone \in Zones /\ slot \in 0..(DayLength - 1)
    /\ days \in SUBSET (0..(Week - 1)) \ {{}}
    /\ now \in 0..(DayLength * 2) /\ last = <<>>
Take == \E t \in NextAfter(now) : now' = t /\ last' = <<now>> /\ UNCHANGED <<zone, slot, days>>
Next == Take
Spec == Init /\ [][Next]_vars

\* The next slot is the first instant after now that shows the slot's time on a
\* chosen day for the first time.
SlotIsFirst ==
    LET Slots == {t \in Instants : /\ t > now /\ Local(t) % DayLength = slot
                                   /\ Day(t) % Week \in days
                                   /\ \A u \in 0..(t - 1) : Local(u) # Local(t)}
    IN  now + Week * DayLength * 2 < Horizon =>
            NextAfter(now) = IF Slots = {} THEN {} ELSE {Min(Slots)}

\* A run never takes two slots of one civil day, however the clocks move.
OneSlotADay == last # <<>> => Day(now') > Day(now)
=============================================================================
