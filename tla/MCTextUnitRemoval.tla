------------------------- MODULE MCTextUnitRemoval -------------------------
(* Two names with two spellings, which unit 1 keeps apart: without it they  *)
(* are one entity, under the first spelling of f and the second of g.      *)
EXTENDS TextUnitRemoval, TLC

CONSTANTS f, g, h

MCUnits == 1 .. 4
MCIds == {<<f, 1>>, <<f, 2>>, <<g, 1>>, <<g, 2>>, <<h, 1>>}
MCNameKey == [i \in MCIds |-> i[1]]
MCMentions == 1 :> {f, g} @@ 2 :> {f, g} @@ 3 :> {f, g} @@ 4 :> {g, h}
MCRelates == 1 :> {<<f, g>>} @@ 2 :> {<<f, g>>} @@ 3 :> {<<f, g>>} @@ 4 :> {<<h, g>>}
SpelledIn(u) == IF u <= 2 THEN 1 ELSE 2
Spelled(us, k) == {SpelledIn(u) : u \in {w \in us : k \in MCMentions[w]}}
MCResolved == [us \in SUBSET MCUnits |->
    [s \in {x \in MCUnits \X {f, g, h} : x[2] \in MCMentions[x[1]]} |->
        IF s[2] = h THEN <<h, 1>>
        ELSE IF 1 \in us \/ Cardinality(Spelled(us, s[2])) < 2 THEN <<s[2], SpelledIn(s[1])>>
        ELSE IF s[2] = f THEN <<f, 1>> ELSE <<g, 2>>]]
=============================================================================
