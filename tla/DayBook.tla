------------------------------ MODULE DayBook ------------------------------
(***************************************************************************)
(* What the study economy promises, without requests, transactions, plans  *)
(* or clocks: a book with one line per date.  A line is open until it is   *)
(* judged, a verdict is final, and points and freezes move only by the     *)
(* verdicts and by buying.  Requests (one request at a time) and           *)
(* Concurrent (overlapping ones) are both shown to implement it.           *)
(***************************************************************************)
EXTENDS Integers, FiniteSetsExt

CONSTANTS Days,  \* the dates of the book
          Cost,  \* the price of a freeze
          Limit  \* how many freezes a learner can hold

VARIABLES
    verdict, \* of each date: what it was judged, and for how many points
    points,  \* the balance
    freezes  \* the freezes owned

vars == <<verdict, points, freezes>>

Open == [status |-> "open", points |-> 0]

\* Only a completed day earns, only a missed one costs.
Lawful(line) ==
    CASE line.status = "completed" -> line.points > 0
      [] line.status = "missed" -> line.points <= 0
      [] line.status \in {"frozen_item", "rest_day", "exempt"} ->
            line.points = 0
      [] OTHER -> FALSE

Init ==
    /\ verdict = [d \in Days |-> Open]
    /\ points = 0
    /\ freezes = 0

\* What the lines of the dates S are worth together.
Total(lines, S) == MapThenSumSet(LAMBDA d : lines[d].points, S)

\* Judge some open dates, pay and fine for them, and use a freeze for each
\* one that is frozen.  The balance and the inventory are never overdrawn.
Judge ==
    LET judged == {d \in Days : verdict'[d] # verdict[d]}
        frozen == {d \in judged : verdict'[d].status = "frozen_item"}
    IN  /\ DOMAIN verdict' = Days
        /\ \A d \in judged : verdict[d] = Open /\ Lawful(verdict'[d])
        /\ points' = points + Total(verdict', judged)
        /\ freezes' = freezes - Cardinality(frozen)
        /\ points' >= 0 /\ freezes' >= 0

Buy ==
    /\ points >= Cost
    /\ freezes < Limit
    /\ points' = points - Cost
    /\ freezes' = freezes + 1
    /\ UNCHANGED verdict

Next == Judge \/ Buy

Spec == Init /\ [][Next]_vars

=============================================================================
