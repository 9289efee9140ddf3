------------------------------ MODULE Timestamps ------------------------------
(***************************************************************************)
(* Timestamps as the runtime makes them (utc_timestamp) and as its SQLite  *)
(* store compares them.  A timestamp is a pair of whole seconds and a      *)
(* fraction.  The store keeps it as RFC 3339 text with the trailing zeros  *)
(* of the fraction removed and compares the TEXT.  Within one second that  *)
(* is not the order of time: 'Z' is greater than '.' and than every digit, *)
(* so that "..00Z" comes after "..00.5Z", and "..00.5Z" after "..00.51Z".  *)
(***************************************************************************)
EXTENDS Naturals

CONSTANTS
  Fractions,        \* distinct fractions of a second, in the order of time
  FractionRank(_)   \* position of a fraction's text among the texts of one second

FractionRankIsNat == \A f \in 0 .. Fractions - 1 : FractionRank(f) \in Nat
ASSUME FractionsAssumption == Fractions \in Nat \ {0} /\ FractionRankIsNat

Time == [sec : Nat, frac : 0 .. Fractions - 1]

\* Chronological order.
Before(a, b) == a.sec < b.sec \/ (a.sec = b.sec /\ a.frac < b.frac)
NotAfter(a, b) == Before(a, b) \/ (a.sec = b.sec /\ a.frac = b.frac)

\* The order of the texts.
TextLE(a, b) ==
  a.sec < b.sec \/ (a.sec = b.sec /\ FractionRank(a.frac) <= FractionRank(b.frac))

===============================================================================
