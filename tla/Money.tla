------------------------------- MODULE Money --------------------------------
(***************************************************************************)
(* Amounts of money, in cents (src/src/impact_relay/domain/types.py, the   *)
(* money function), and the sums the ledger takes over its records.        *)
(***************************************************************************)
EXTENDS Integers, FiniteSets

Positive == Nat \ {0}

Lower(a, b) == IF a <= b THEN a ELSE b

\* One token <<record, i>> for each cent i of each record of S.
Cents(S) == UNION {{x} \X (1..x.amount) : x \in S}

\* The sum of the amounts of a finite set of records: the cents in it.
SumAmounts(S) == Cardinality(Cents(S))

\* money(charge * (designated / pool)) for designated / pool as a Decimal:
\* the nearest cent.  On an exact half the result depends on how the 28-digit
\* quotient was rounded and on the parity of the cent: either neighbour.
ProRata(designated, charge, pool) ==
    LET cents == (charge * designated) \div pool
        twice == 2 * ((charge * designated) % pool)
    IN  IF twice < pool THEN {cents}
        ELSE IF twice > pool THEN {cents + 1}
        ELSE {cents, cents + 1}

=============================================================================
