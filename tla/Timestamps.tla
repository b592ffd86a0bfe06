----------------------------- MODULE Timestamps -----------------------------
(***************************************************************************)
(* The timestamps of the database (formatTime and now in                   *)
(* internal/database/database.go).  They are text in the RFC3339Nano       *)
(* layout, which strips the trailing zeros of the fraction, and the        *)
(* queries compare them as text.                                           *)
(*                                                                         *)
(* Time is counted in quarters of a second: a fraction has two binary      *)
(* digits here instead of nine decimal ones.  What comes before the        *)
(* fraction has a fixed width and is compared like the number of seconds.  *)
(***************************************************************************)
EXTENDS Naturals, Sequences

Second(t) == t \div 4

\* Characters by their order in ASCII: the point, the digits, the zone.
Point == 0
Digit(d) == d + 1
Zone == 9

Fraction(t) ==
  CASE t % 4 = 0 -> <<>>
    [] t % 4 = 1 -> <<Point, Digit(0), Digit(1)>>
    [] t % 4 = 2 -> <<Point, Digit(1)>>
    [] t % 4 = 3 -> <<Point, Digit(1), Digit(1)>>

\* What follows the seconds in the text of time t.
Tail4(t) == Fraction(t) \o <<Zone>>

\* The order of texts, none of which is a prefix of another: they differ
\* first where the greater one has the greater character.
TextGreater(s, t) ==
  \E i \in 1 .. Len(s) : /\ i <= Len(t)
                         /\ \A j \in 1 .. i - 1 : s[j] = t[j]
                         /\ s[i] > t[i]

\* expires_at > now(), in SQL.
Later(expires, now) ==
  \/ Second(expires) > Second(now)
  \/ Second(expires) = Second(now) /\ TextGreater(Tail4(expires), Tail4(now))
=============================================================================
