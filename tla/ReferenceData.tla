---------------------------- MODULE ReferenceData ---------------------------
(***************************************************************************)
(* The reference tables and how the repositories look things up in them:   *)
(* tax rules and UVT values by validity, cities by a loose match of names. *)
(* The tables are seeded by the migration and changed by hand, never by    *)
(* the program, so they are constants here.                                *)
(***************************************************************************)
EXTENDS Integers, FiniteSets

CONSTANTS
  TaxRules,   \* rows of additional_taxes_rules
  UVTValues,  \* rows of uvt_values
  Cities,     \* rows of cities
  Matches,    \* Matches[name]: the cities whose names match it, see below
  NoCity,     \* the city_id of a national rule, and the city of an unknown name
  NoEnd       \* the effective_to of an open validity

ValidAt(row, at) == row.from =< at /\ (row.to = NoEnd \/ row.to >= at)

\* Bug: the oldest validity wins.
Oldest(found) ==
  {r \in found : \A q \in found :
     r.from < q.from \/ (r.from = q.from /\ r.id =< q.id)}

\* ORDER BY effective_from DESC, then First()'s primary key; at most one row.
Latest(found) ==
  {r \in found : \A q \in found :
     r.from > q.from \/ (r.from = q.from /\ r.id =< q.id)}

\* The rule in force at a moment for a tax and concept, national or of a city.
Applicable(rules, tax, concept, city, at) ==
  Latest({r \in rules : r.tax = tax /\ r.concept = concept /\ r.city = city
                          /\ ValidAt(r, at)})

FindApplicable(tax, concept, city, at) == Applicable(TaxRules, tax, concept, city, at)

FindUVTValue(at) == Latest({v \in UVTValues : ValidAt(v, at)})

\* Names match when one, normalized, contains the other.  The cities are read
\* in no order and the first that matches is taken: any one of them may be it.
FindCityByName(name) == IF Matches[name] = {} THEN {NoCity} ELSE Matches[name]

=============================================================================
