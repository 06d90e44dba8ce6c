------------------------------ MODULE MCOidcLogin ------------------------------
(* OidcLogin for TLC: step-ups that need level gold and allow 3 units, 2, and      *)
(* less than a second; one whose acr value may be empty, one whose ttl is too      *)
(* short, none; with and without allowedGroups.                                    *)
EXTENDS OidcLogin

CONSTANTS gold, noacr, dev, loa2

Up(acrs, age, ttl) == [acrValues |-> acrs, maxAge |-> age, ttl |-> ttl]

MCGroups == {dev, loa2}
MCReserved == {loa2}
MCAcr == {gold, noacr}
MCConfig ==
  {[allowed |-> {}, enrich |-> TRUE, stepUp |-> Up({gold}, 3, 2)],
   [allowed |-> {dev}, enrich |-> FALSE, stepUp |-> Up({gold}, 2, 2)],
   [allowed |-> {loa2}, enrich |-> FALSE, stepUp |-> Up({gold}, 3, 2)],
   [allowed |-> {}, enrich |-> FALSE, stepUp |-> Up({gold, noacr}, 3, 2)],
   [allowed |-> {}, enrich |-> FALSE, stepUp |-> Up({gold}, 1, 2)],
   [allowed |-> {}, enrich |-> FALSE, stepUp |-> Up({gold}, 3, 1)],
   [allowed |-> {dev}, enrich |-> TRUE, stepUp |-> None]}
================================================================================
