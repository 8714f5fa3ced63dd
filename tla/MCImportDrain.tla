--------------------------- MODULE MCImportDrain ----------------------------
(* Two lists over the same directory: three feeds named alike, one with a  *)
(* name the site keeps for itself, and an upload that repeats another's.   *)
EXTENDS ImportDrain, TLC
CONSTANTS u1, u2, u3, u4, typed, bad, gone, s1, s2, notes, days, blog
Titles == u1 :> <<notes>> @@ u2 :> <<notes>> @@ u3 :> <<notes>> @@ u4 :> <<blog>>
          @@ typed :> <<notes>> @@ bad :> <<days>> @@ gone :> <<days, 2>>
Routes == {<<blog>>}
Lists == s1 :> <<u1, u1, u2, gone>> @@ s2 :> <<bad, u4, u1>>
Plain == [u \in Urls |-> IF u = u3 THEN <<notes>> ELSE NoSlug]
SecondOnly == [u \in Urls |-> IF u = u3 THEN <<notes, 2>> ELSE NoSlug]
=============================================================================
