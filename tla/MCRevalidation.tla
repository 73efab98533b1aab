--------------------------- MODULE MCRevalidation ---------------------------
(***************************************************************************)
(* Instants and dates for Revalidation, around the places where calendars  *)
(* go wrong: the ends of months and years and the leap days.               *)
(***************************************************************************)
EXTENDS Revalidation

Date(year, mon, mday, hour) == [year |-> year, mon |-> mon, mday |-> mday, hour |-> hour]

Boundaries ==
    {hours(Date(year, 1, 28, 23)) + n : year \in {2000, 2001, 2004}, n \in {0, 1, 2, 25}}
    \cup {hours(Date(2003, 11, 31, 23)) + n : n \in {0, 1}}
    \cup {hours(Date(2005, 3, 30, 12)) + n : n \in {0, 5, 12}}

\* Dates that exist and dates that do not.
Dates == {Date(2011, 11, 31, 0), Date(2011, 3, 30, 23), Date(2011, 3, 31, 0),
          Date(2011, 1, 29, 5), Date(2012, 1, 29, 5), Date(2012, 1, 30, 5), Date(2011, 6, 31, 1),
          Date(2012, 1, 0, 5), Date(2400, 1, 29, 12), Date(2100, 1, 29, 12), Date(2400, 1, 29, 24),
          Date(1969, 11, 0, 9000), Date(1969, 11, 31, 24), Date(2012, 4, 0, 24)}

Early == {hours(Date(1999, 11, 31, 23)), hours(Date(2000, 0, 1, 2))}

EastCoast == -5      \* hours by which New York is ahead of GMT

=============================================================================
