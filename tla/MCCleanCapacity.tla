-------------------------- MODULE MCCleanCapacity --------------------------
(***************************************************************************)
(* A small instance of ScenarioInfo for TLC: three zones with plants, one  *)
(* of them without wind, a zone with load only, two targets.               *)
(***************************************************************************)
EXTENDS ScenarioInfo

At(zone, type, pmax, yield) ==
    [zone |-> zone, type |-> type, pmax |-> Whole(pmax), yield |-> yield]

MCPlant ==
    <<At(1, "solar", 4, Frac(1, 4)), At(1, "wind", 2, Frac(1, 2)), At(2, "wind", 4, Frac(1, 2)),
      At(2, "solar", 2, Frac(1, 4)), At(1, "hydro", 8, Frac(1, 2)), At(3, "solar", 2, Frac(1, 4)),
      At(1, "solar", 2, Frac(1, 4))>>

Base == [i \in DOMAIN MCPlant |-> MCPlant[i].pmax]

\* As the base grid, with more solar, less solar and no wind, a factor close to
\* one, and a new plant.
MCReferences ==
    {Base, [Base EXCEPT ![1] = Whole(12), ![3] = Whole(6)], [Base EXCEPT ![2] = Zero, ![7] = Zero],
     [Base EXCEPT ![5] = Times(@, Frac(2001, 2000)), ![1] = Whole(8)], Base \o <<Whole(2)>>}

MCDemand == [z \in 1 .. 4 |-> Whole(IF z = 4 THEN 1 ELSE 4)]

Areas == {[A |-> {1}, B |-> {2, 3, 4}], [A |-> {1, 2, 3}, B |-> {4, 5}],
          [A |-> {1, 2}, B |-> {3, 4}], [A |-> {1, 2}, B |-> {2, 3, 4}]}

MCCurtailed == {Zero, Frac(1, 3)}

Both(x) == [A |-> x, B |-> x]

Ask(method, area, region, fraction, allowed, solar, part, curtailment, next) ==
    [method |-> method, area |-> area, region |-> region, fraction |-> fraction,
     allowed |-> allowed, external |-> [A |-> One, B |-> Zero], solar |-> solar,
     part |-> part, curtailment |-> curtailment, next |-> next]

Fractions == {[A |-> Frac(1, 4), B |-> One], [A |-> One, B |-> Zero]}
Allowed == {Both({"solar", "wind"}), Both({"solar", "wind", "hydro", "geothermal"})}

MCQuestions ==
    {Ask("independent", a, a, f, w, s, None, None, None) :
        a \in Areas, f \in Fractions, w \in Allowed, s \in {Both(None), Both(Frac(1, 2))}}
    \cup
    {Ask("collaborative", a, a, f, w, Both(None), p, c, None) :
        a \in Areas, f \in Fractions, w \in Allowed, p \in {None, Frac(1, 2)},
        c \in {None, [r \in {"solar"} |-> Frac(1, 2)]}}
    \cup
    {Ask(m, [A |-> {1}, B |-> {2, 3, 4}], [A |-> {1, 2}, B |-> {2, 3, 4}], Both(Frac(1, 2)),
         Both({"solar", "wind"}), Both(None), None, c, n) :
        m \in {"independent", "collaborative"}, n \in {1, 3},
        c \in {None, [r \in New |-> Frac(1, 2)]}}
=============================================================================
