--------------------------- MODULE AccountSafety ---------------------------
(***************************************************************************)
(* What it means for one account to be sound: the ledger explains the      *)
(* balance, the verdicts explain the ledger, and the freezes bought        *)
(* explain the frozen days.  Serial requests (Requests) and overlapping    *)
(* ones (Concurrent) are held to the same.                                 *)
(***************************************************************************)
EXTENDS Study, Plans, Shop, FiniteSetsExt

LastBalance(ledger) ==
    IF ledger = <<>> THEN 0 ELSE ledger[Len(ledger)].balance_after

LedgerReconciles(a) ==
    /\ a.total_points = LastBalance(a.ledger)
    /\ \A i \in DOMAIN a.ledger :
          LET before == IF i = 1 THEN 0 ELSE a.ledger[i - 1].balance_after
          IN  /\ a.ledger[i].balance_after = before + a.ledger[i].amount
              /\ a.ledger[i].balance_after >= 0
              /\ a.ledger[i].amount # 0

UniqueKeys(a) ==
    \A i, j \in DOMAIN a.ledger : a.ledger[i].key = a.ledger[j].key => i = j

Posted(a, key, amount) ==
    \E i \in DOMAIN a.ledger : a.ledger[i].key = key
                               /\ a.ledger[i].amount = amount

VerdictsPaidOnce(a) ==
    /\ UniqueKeys(a)
    /\ \A d \in Dates : LET day == a.days[d] IN
          /\ IF day.status = "completed"
             THEN day.points_awarded > 0
                  /\ Posted(a, DailyKey(d), day.points_awarded)
             ELSE ~HasTransaction(a, DailyKey(d))
          /\ IF day.status = "missed" /\ day.points_awarded # 0
             THEN day.points_awarded < 0
                  /\ Posted(a, PenaltyKey(d), day.points_awarded)
             ELSE ~HasTransaction(a, PenaltyKey(d))
          /\ day.status \notin {"completed", "missed"} =>
                day.points_awarded = 0

Purchases(a) ==
    {i \in DOMAIN a.ledger :
        a.ledger[i].key[1] \in {"purchase", "purchase_uuid"}}

FreezesAccounted(a) ==
    /\ a.quantity + a.freezes_consumed = Cardinality(Purchases(a))
    /\ a.freezes_consumed = Cardinality(a.usages)
    /\ a.usages = {d \in Dates : a.days[d].status = "frozen_item"}
    /\ a.quantity <= MaxOwned

ResolvedDays(a) == {d \in Dates : Resolved(a, d)}

Verdict(day) ==
    <<day.status, day.points_awarded, day.streak_after, day.day_kind,
      day.required_units>>

\* What a book that keeps only verdicts shows of a day.
Line(day) ==
    IF day.status \in TerminalStatuses
    THEN [status |-> day.status, points |-> day.points_awarded]
    ELSE [status |-> "open", points |-> 0]

=============================================================================
