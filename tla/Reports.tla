------------------------------ MODULE Reports ------------------------------
(***************************************************************************)
(* What the API adds up: the scope 3 inventory over the retirements of an  *)
(* account, and the daily prices and the totals over the marketplace's     *)
(* trades. A moment belongs to the year (the day) it is divided into.      *)
(***************************************************************************)
EXTENDS Naturals, FiniteSets, FiniteSetsExt

CONSTANTS Accounts, Codes, Moments, YEAR, Tonnes, MaxBooked

\* Nothing is booked in the year 0, the value that stands for no year.
ASSUME ReportsAssumption ==
    /\ YEAR \in Nat \ {0} /\ MaxBooked \in Nat /\ Tonnes \subseteq Nat
    /\ Moments \subseteq Nat /\ IsFiniteSet(Moments) /\ \A t \in Moments : t >= YEAR

VARIABLE booked   \* the rows of the table that is added up, in small numbers

-----------------------------------------------------------------------------
year_of(t) == t \div YEAR

sum_of(set) == SumFunctionOnSet([r \in set |-> r.amount], set)

fetchRetirements_AnyLater(account, year) ==
    {r \in booked : r.by = account /\ (year # 0 => r.at >= year * YEAR)}

\* fetchRetirements: no year, or the year 0, takes them all.
fetchRetirements(account, year) ==
    {r \in booked : /\ r.by = account
                    /\ year # 0 => r.at >= year * YEAR /\ r.at < (year + 1) * YEAR}

\* accumulate: one entry per key, with its tonnes and its number of rows.
accumulate(set, Key(_)) ==
    [k \in {Key(r) : r \in set} |->
        [tonnes |-> sum_of({r \in set : Key(r) = k}),
         retirements |-> Cardinality({r \in set : Key(r) = k})]]

buildSummary(set) ==
    [totalTonnesRetired |-> sum_of(set),
     totalRetirements |-> Cardinality(set),
     totalCredits |-> Cardinality({r.credit : r \in set}),
     byMethodology |-> accumulate(set, LAMBDA r : r.code)]

getScope3Report(account, year) == buildSummary(fetchRetirements(account, year))

\* getPriceHistory: trades by day; the prices are left out, as they add up like
\* the volumes.
getPriceHistory == accumulate(booked, LAMBDA r : year_of(r.at))

getStats == [totalVolume |-> sum_of(booked)]

\* A retirement or a trade is written.
book(r) ==
    /\ Cardinality(booked) < MaxBooked
    /\ booked' = booked \cup {r}

ReportsInit == booked = {}

\* The credit of a row decides its methodology.
ReportsNext ==
    \E a \in Accounts, t \in Moments, n \in Tonnes, c \in Codes :
        book([n |-> Cardinality(booked), by |-> a, at |-> t, amount |-> n, credit |-> c, code |-> c])

ReportsSpec == ReportsInit /\ [][ReportsNext]_booked

-----------------------------------------------------------------------------
\* The years of an account's reports add up to the report without a year, each
\* breakdown to its total, and the days of the price history to the volume of
\* the marketplace (reporting.service.ts, getPriceHistory, getStats).
ReportsAddUp ==
    LET years == {year_of(t) : t \in Moments}
        total(map) == SumFunctionOnSet([k \in DOMAIN map |-> map[k].tonnes], DOMAIN map)
    IN /\ total(getPriceHistory) = getStats.totalVolume
       /\ \A a \in Accounts :
          LET all == getScope3Report(a, 0) IN
          /\ SumFunctionOnSet([y \in years |-> getScope3Report(a, y).totalTonnesRetired], years)
               = all.totalTonnesRetired
          /\ \A y \in years \cup {0} :
                LET report == getScope3Report(a, y) IN
                /\ total(report.byMethodology) = report.totalTonnesRetired
                /\ report.totalCredits <= report.totalRetirements

=============================================================================
