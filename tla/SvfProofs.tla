------------------------------ MODULE SvfProofs ------------------------------
(***************************************************************************)
(* What a file asks for is proved for every file, up to its first error if it  *)
(* has one: for every width of a block of a vector, every statement however    *)
(* long its vectors are, and every number of statements.                     *)
(*                                                                         *)
(* The invariant has three parts.                                            *)
(* - Controllers (Sound, TapInv).  The parser knows one state of    *)
(*   the controller, the chip has a set of them, all sixteen until the first   *)
(*   reset.  As soon as the parser knows one, the chip is in it and no other,  *)
(*   so the path of each STATE takes every chip where it says, and the state   *)
(*   that RUNTEST has kept is the one its last statement left there.           *)
(* - Registers (AllKept).  Each of the six registers holds, block by block,    *)
(*   the bits the statements so far give it: the last TDI, TDO, MASK and SMASK *)
(*   for the length that stands, and bits past that length are left open.      *)
(* - Shifts (MeantSo).  Each shift in the output is the header, the data and   *)
(*   the trailer that its statement means, bit by bit.                         *)
(* The parts are proved one on top of the other: the second needs the types    *)
(* that the first gives, the third what the second says of the blocks.         *)
(*                                                                         *)
(* Recursion on the statements so far (what is kept) and along a path (Visited)*)
(* is met without induction over data: a least place where the claim is false  *)
(* is refuted from the place before it, which is what LeastExists is for.      *)
(***************************************************************************)
EXTENDS SvfFile, SequenceTheorems, WellFoundedInduction, TLAPS

(* Induction over data is out of the provers' reach, but not a least element.  *)
Below == {p \in Nat \X Nat : p[1] < p[2]}

(* A set of numbers has a least one.                                         *)
LEMMA LeastExists ==
    ASSUME NEW S \in SUBSET Nat, S # {}
    PROVE  \E m \in S : \A y \in S : m <= y
<1>1. OpToRel(<,Nat) = Below
  BY DEF OpToRel, Below
<1>2. PICK x \in S : \A y \in S : ~(<<y, x>> \in Below)
  BY <1>1, NatLessThanWellFounded, WFMin
<1>3. ASSUME NEW y \in S PROVE x <= y
  <2>1. x \in Nat /\ y \in Nat
    OBVIOUS
  <2>2. y < x => <<y, x>> \in Below
    BY <2>1 DEF Below
  <2> QED
    BY <1>2, <2>1, <2>2
<1> QED
  BY <1>3

(* A set of numbers with a bound has a greatest one.                         *)
LEMMA GreatestExists ==
    ASSUME NEW S \in SUBSET Nat, S # {}, NEW b \in Nat, \A x \in S : x <= b
    PROVE  Max(S) \in S /\ \A y \in S : Max(S) >= y
<1> DEFINE T == {b - x : x \in S}
<1>1. T \in SUBSET Nat /\ T # {}
  <2>1. ASSUME NEW x \in S PROVE b - x \in Nat
    <3>1. x \in Nat /\ x <= b
      OBVIOUS
    <3> QED
      BY <3>1
  <2>2. PICK x \in S : TRUE
    OBVIOUS
  <2>3. b - x \in T
    OBVIOUS
  <2> QED
    BY <2>1, <2>3
<1>2. PICK n \in T : \A y \in T : n <= y
  <2> HIDE DEF T
  <2> QED
    BY <1>1, LeastExists
<1>3. PICK m \in S : n = b - m
  BY <1>2
<1>4. ASSUME NEW y \in S PROVE m >= y
  <2>1. b - m <= b - y
    BY <1>2, <1>3
  <2>2. m \in Nat /\ y \in Nat
    OBVIOUS
  <2> QED
    BY <2>1, <2>2
<1> QED
  BY <1>4 DEF Max
-----------------------------------------------------------------------------
(* A walk of the controller is the recursion that defines it.                *)
LEMMA VisitedIs ==
    ASSUME NEW t, NEW path, Len(path) \in Nat
    PROVE  /\ Visited(t, path)[0] = t
           /\ \A i \in 1..Len(path) :
                 Visited(t, path)[i] = NextState(Visited(t, path)[i - 1], path[i])
<1> DEFINE L == Len(path)
           Walk(f, n) == f = [i \in 0..n |-> IF i = 0 THEN t ELSE NextState(f[i - 1], path[i])]
           Fails == {n \in 0..L : \A f : ~Walk(f, n)}
<1> SUFFICES \E f : Walk(f, L)
  <2>1. PICK f : Walk(f, L)
    OBVIOUS
  <2>2. Visited(t, path) =
            CHOOSE g : g = [i \in 0..L |-> IF i = 0 THEN t ELSE NextState(g[i - 1], path[i])]
    BY DEF Visited
  <2>3. Walk(Visited(t, path), L)
    BY <2>1, <2>2
  <2> QED
    BY <2>3
<1>1. Fails \in SUBSET Nat
  OBVIOUS
<1>2. SUFFICES ASSUME Fails # {} PROVE FALSE
  <2>1. L \notin Fails
    BY <1>2
  <2> QED
    BY <2>1
<1> HIDE DEF Fails
<1>6. PICK m \in Fails : \A n \in Fails : m <= n
  BY <1>1, <1>2, LeastExists
<1> USE DEF Fails
<1>3. m # 0
  <2>1. Walk([i \in 0..0 |-> t], 0)
    OBVIOUS
  <2> QED
    BY <2>1
<1>4. PICK f : Walk(f, m - 1)
  BY <1>6, <1>3
<1> DEFINE g == [i \in 0..m |-> IF i = m THEN NextState(f[m - 1], path[m]) ELSE f[i]]
<1>5. Walk(g, m)
  <2>1. \A i \in 0..m : g[i] = IF i = 0 THEN t ELSE NextState(g[i - 1], path[i])
    BY <1>3, <1>4
  <2> QED
    BY <2>1
<1> QED
  BY <1>5, <1>6

(* One walk after another is the walk of the two ways joined.                *)
LEMMA VisitedJoined ==
    ASSUME NEW t, NEW p \in Seq({0, 1}), NEW q \in Seq({0, 1})
    PROVE  Visited(t, p \o q)[Len(p \o q)] = Visited(Visited(t, p)[Len(p)], q)[Len(q)]
<1> DEFINE u == Visited(t, p)[Len(p)]
           Differ == {i \in 0..Len(p) : Visited(t, p \o q)[i] # Visited(t, p)[i]}
           Apart == {i \in 0..Len(q) : Visited(t, p \o q)[Len(p) + i] # Visited(u, q)[i]}
<1>1. /\ Len(p) \in Nat /\ Len(q) \in Nat /\ Len(p \o q) = Len(p) + Len(q)
      /\ \A i \in 1..Len(p) : (p \o q)[i] = p[i]
      /\ \A i \in 1..Len(q) : (p \o q)[Len(p) + i] = q[i]
  OBVIOUS
<1>4. /\ Visited(t, p \o q)[0] = t
      /\ \A i \in 1..Len(p \o q) :
            Visited(t, p \o q)[i] = NextState(Visited(t, p \o q)[i - 1], (p \o q)[i])
  <2> DEFINE r == p \o q
  <2>1. Len(r) \in Nat
    BY <1>1
  <2> HIDE DEF r
  <2>2. /\ Visited(t, r)[0] = t
        /\ \A i \in 1..Len(r) : Visited(t, r)[i] = NextState(Visited(t, r)[i - 1], r[i])
    BY <2>1, VisitedIs
  <2> QED
    BY <2>2 DEF r
<1>5. /\ Visited(t, p)[0] = t
      /\ \A i \in 1..Len(p) : Visited(t, p)[i] = NextState(Visited(t, p)[i - 1], p[i])
  BY <1>1, VisitedIs
<1>6. /\ Visited(u, q)[0] = u
      /\ \A i \in 1..Len(q) : Visited(u, q)[i] = NextState(Visited(u, q)[i - 1], q[i])
  BY <1>1, VisitedIs
<1>2. Differ = {}
  <2>1. SUFFICES ASSUME Differ # {} PROVE FALSE
    OBVIOUS
  <2>2. Differ \in SUBSET Nat
    BY <1>1
  <2> HIDE DEF Differ
  <2>3. PICK m \in Differ : \A n \in Differ : m <= n
    BY <2>1, <2>2, LeastExists
  <2> USE DEF Differ
  <2>4. m # 0
    BY <1>4, <1>5
  <2>5. Visited(t, p \o q)[m - 1] = Visited(t, p)[m - 1]
    BY <2>3, <2>4, <1>1
  <2>6. m \in 1..Len(p) /\ m \in 1..Len(p \o q)
    BY <2>3, <2>4, <1>1
  <2> QED
    BY <2>3, <2>5, <2>6, <1>1, <1>4, <1>5
<1>3. Apart = {}
  <2>1. SUFFICES ASSUME Apart # {} PROVE FALSE
    OBVIOUS
  <2>2. Apart \in SUBSET Nat
    BY <1>1
  <2> HIDE DEF Apart
  <2>3. PICK m \in Apart : \A n \in Apart : m <= n
    BY <2>1, <2>2, LeastExists
  <2> USE DEF Apart
  <2>4. m # 0
    BY <1>1, <1>2, <1>6
  <2>5. Visited(t, p \o q)[Len(p) + m - 1] = Visited(u, q)[m - 1]
    BY <2>3, <2>4, <1>1
  <2>6. /\ Visited(t, p \o q)[Len(p) + m] = NextState(Visited(t, p \o q)[Len(p) + m - 1], q[m])
        /\ Visited(u, q)[m] = NextState(Visited(u, q)[m - 1], q[m])
    <3>1. m \in 1..Len(q) /\ Len(p) + m \in 1..Len(p \o q)
      BY <2>3, <2>4, <1>1
    <3>2. (p \o q)[Len(p) + m] = q[m]
      BY <3>1, <1>1
    <3>3. Visited(t, p \o q)[Len(p) + m] =
              NextState(Visited(t, p \o q)[Len(p) + m - 1], (p \o q)[Len(p) + m])
      BY <3>1, <1>4
    <3>4. Visited(u, q)[m] = NextState(Visited(u, q)[m - 1], q[m])
      BY <3>1, <1>6
    <3> QED
      BY <3>2, <3>3, <3>4
  <2> QED
    BY <2>3, <2>5, <2>6
<1> QED
  BY <1>1, <1>3
-----------------------------------------------------------------------------
Names == DOMAIN Edges

(* The names of the states, their edges and their places, one by one.         *)
LEMMA Table ==
    /\ Names = {"reset", "idle", "drpause", "irpause", "drselect", "drcapture", "drshift", "drexit1",
                 "drexit2", "drupdate", "irselect", "ircapture", "irshift", "irexit1", "irexit2", "irupdate"}
    /\ Edges["reset"][1] = "idle" /\ Edges["reset"][2] = "reset"
    /\ Edges["idle"][1] = "idle" /\ Edges["idle"][2] = "drselect"
    /\ Edges["drpause"][1] = "drpause" /\ Edges["drpause"][2] = "drexit2"
    /\ Edges["irpause"][1] = "irpause" /\ Edges["irpause"][2] = "irexit2"
    /\ Edges["drselect"][1] = "drcapture" /\ Edges["drselect"][2] = "irselect"
    /\ Edges["drcapture"][1] = "drshift" /\ Edges["drcapture"][2] = "drexit1"
    /\ Edges["drshift"][1] = "drshift" /\ Edges["drshift"][2] = "drexit1"
    /\ Edges["drexit1"][1] = "drpause" /\ Edges["drexit1"][2] = "drupdate"
    /\ Edges["drexit2"][1] = "drshift" /\ Edges["drexit2"][2] = "drupdate"
    /\ Edges["drupdate"][1] = "idle" /\ Edges["drupdate"][2] = "drselect"
    /\ Edges["irselect"][1] = "ircapture" /\ Edges["irselect"][2] = "reset"
    /\ Edges["ircapture"][1] = "irshift" /\ Edges["ircapture"][2] = "irexit1"
    /\ Edges["irshift"][1] = "irshift" /\ Edges["irshift"][2] = "irexit1"
    /\ Edges["irexit1"][1] = "irpause" /\ Edges["irexit1"][2] = "irupdate"
    /\ Edges["irexit2"][1] = "irshift" /\ Edges["irexit2"][2] = "irupdate"
    /\ Edges["irupdate"][1] = "idle" /\ Edges["irupdate"][2] = "drselect"
BY DEF Names, Edges

(* The places that belong to a column.                                       *)
LEMMA Columns == DOMAIN Column = {"capture", "shift", "exit1", "pause", "exit2"}
BY DEF Column

(* The others.                                                               *)
LEMMA NoColumns ==
    /\ "reset" \notin DOMAIN Column /\ "idle" \notin DOMAIN Column
    /\ "select" \notin DOMAIN Column /\ "update" \notin DOMAIN Column
BY Columns

(* The steps from the others.                                                *)
LEMMA OtherTurns ==
    ASSUME NEW t
    PROVE  /\ t[2] = "reset" => NextState(t, 0) = <<"", "idle">>
           /\ t[2] = "reset" => NextState(t, 1) = t
           /\ t[2] = "idle" => NextState(t, 0) = <<"", "idle">>
           /\ t[2] = "idle" => NextState(t, 1) = <<"dr", "select">>
           /\ t[2] = "update" => NextState(t, 0) = <<"", "idle">>
           /\ t[2] = "update" => NextState(t, 1) = <<"dr", "select">>
           /\ t[2] = "select" => NextState(t, 0) = <<t[1], "capture">>
           /\ t[2] = "select" /\ t[1] = "dr" => NextState(t, 1) = <<"ir", "select">>
           /\ t[2] = "select" /\ t[1] = "ir" => NextState(t, 1) = <<"", "reset">>
<1>1. t[2] = "reset" => NextState(t, 0) = <<"", "idle">>
  BY NoColumns DEF NextState
<1>2. t[2] = "reset" => NextState(t, 1) = t
  BY NoColumns DEF NextState
<1>3. t[2] = "idle" => NextState(t, 0) = <<"", "idle">>
  BY NoColumns DEF NextState
<1>4. t[2] = "idle" => NextState(t, 1) = <<"dr", "select">>
  BY NoColumns DEF NextState
<1>5. t[2] = "update" => NextState(t, 0) = <<"", "idle">>
  BY NoColumns DEF NextState
<1>6. t[2] = "update" => NextState(t, 1) = <<"dr", "select">>
  BY NoColumns DEF NextState
<1>7. t[2] = "select" => NextState(t, 0) = <<t[1], "capture">>
  BY NoColumns DEF NextState
<1>8. t[2] = "select" /\ t[1] = "dr" => NextState(t, 1) = <<"ir", "select">>
  BY NoColumns DEF NextState
<1>9. t[2] = "select" /\ t[1] = "ir" => NextState(t, 1) = <<"", "reset">>
  BY NoColumns DEF NextState
<1> QED
  BY <1>1, <1>2, <1>3, <1>4, <1>5, <1>6, <1>7, <1>8, <1>9

(* The table of the edges is the controller's.                               *)
LEMMA EdgesAreTurns ==
    ASSUME NEW s \in Names
    PROVE  /\ Edges[s][1] \in Names /\ Edges[s][2] \in Names
           /\ NextState(Place[s], 0) = Place[Edges[s][1]]
           /\ NextState(Place[s], 1) = Place[Edges[s][2]]
<1>1. CASE s = "reset"
  <2>1. /\ Place["reset"][1] = "" /\ Place["reset"][2] = "reset"
        /\ Place["idle"] = <<"", "idle">> /\ Place["reset"] = <<"", "reset">>
    BY DEF Place
  <2>2. NextState(Place["reset"], 0) = Place["idle"] /\ NextState(Place["reset"], 1) = Place["reset"]
    BY <2>1, OtherTurns
  <2> QED
    BY <1>1, <2>2, Table
<1>2. CASE s = "idle"
  <2>1. /\ Place["idle"][1] = "" /\ Place["idle"][2] = "idle"
        /\ Place["idle"] = <<"", "idle">> /\ Place["drselect"] = <<"dr", "select">>
    BY DEF Place
  <2>2. NextState(Place["idle"], 0) = Place["idle"] /\ NextState(Place["idle"], 1) = Place["drselect"]
    BY <2>1, OtherTurns
  <2> QED
    BY <1>2, <2>2, Table
<1>3. CASE s = "drpause"
  <2>1. NextState(Place["drpause"], 0) = Place["drpause"] /\ NextState(Place["drpause"], 1) = Place["drexit2"]
    BY Columns DEF NextState, Column, Place
  <2> QED
    BY <1>3, <2>1, Table
<1>4. CASE s = "irpause"
  <2>1. NextState(Place["irpause"], 0) = Place["irpause"] /\ NextState(Place["irpause"], 1) = Place["irexit2"]
    BY Columns DEF NextState, Column, Place
  <2> QED
    BY <1>4, <2>1, Table
<1>5. CASE s = "drselect"
  <2>1. /\ Place["drselect"][1] = "dr" /\ Place["drselect"][2] = "select"
        /\ Place["drcapture"] = <<"dr", "capture">> /\ Place["irselect"] = <<"ir", "select">>
    BY DEF Place
  <2>2. NextState(Place["drselect"], 0) = Place["drcapture"] /\ NextState(Place["drselect"], 1) = Place["irselect"]
    BY <2>1, OtherTurns
  <2> QED
    BY <1>5, <2>2, Table
<1>6. CASE s = "drcapture"
  <2>1. NextState(Place["drcapture"], 0) = Place["drshift"] /\ NextState(Place["drcapture"], 1) = Place["drexit1"]
    BY Columns DEF NextState, Column, Place
  <2> QED
    BY <1>6, <2>1, Table
<1>7. CASE s = "drshift"
  <2>1. NextState(Place["drshift"], 0) = Place["drshift"] /\ NextState(Place["drshift"], 1) = Place["drexit1"]
    BY Columns DEF NextState, Column, Place
  <2> QED
    BY <1>7, <2>1, Table
<1>8. CASE s = "drexit1"
  <2>1. NextState(Place["drexit1"], 0) = Place["drpause"] /\ NextState(Place["drexit1"], 1) = Place["drupdate"]
    BY Columns DEF NextState, Column, Place
  <2> QED
    BY <1>8, <2>1, Table
<1>9. CASE s = "drexit2"
  <2>1. NextState(Place["drexit2"], 0) = Place["drshift"] /\ NextState(Place["drexit2"], 1) = Place["drupdate"]
    BY Columns DEF NextState, Column, Place
  <2> QED
    BY <1>9, <2>1, Table
<1>10. CASE s = "drupdate"
  <2>1. /\ Place["drupdate"][1] = "dr" /\ Place["drupdate"][2] = "update"
        /\ Place["idle"] = <<"", "idle">> /\ Place["drselect"] = <<"dr", "select">>
    BY DEF Place
  <2>2. NextState(Place["drupdate"], 0) = Place["idle"] /\ NextState(Place["drupdate"], 1) = Place["drselect"]
    BY <2>1, OtherTurns
  <2> QED
    BY <1>10, <2>2, Table
<1>11. CASE s = "irselect"
  <2>1. /\ Place["irselect"][1] = "ir" /\ Place["irselect"][2] = "select"
        /\ Place["ircapture"] = <<"ir", "capture">> /\ Place["reset"] = <<"", "reset">>
    BY DEF Place
  <2>2. NextState(Place["irselect"], 0) = Place["ircapture"] /\ NextState(Place["irselect"], 1) = Place["reset"]
    BY <2>1, OtherTurns
  <2> QED
    BY <1>11, <2>2, Table
<1>12. CASE s = "ircapture"
  <2>1. NextState(Place["ircapture"], 0) = Place["irshift"] /\ NextState(Place["ircapture"], 1) = Place["irexit1"]
    BY Columns DEF NextState, Column, Place
  <2> QED
    BY <1>12, <2>1, Table
<1>13. CASE s = "irshift"
  <2>1. NextState(Place["irshift"], 0) = Place["irshift"] /\ NextState(Place["irshift"], 1) = Place["irexit1"]
    BY Columns DEF NextState, Column, Place
  <2> QED
    BY <1>13, <2>1, Table
<1>14. CASE s = "irexit1"
  <2>1. NextState(Place["irexit1"], 0) = Place["irpause"] /\ NextState(Place["irexit1"], 1) = Place["irupdate"]
    BY Columns DEF NextState, Column, Place
  <2> QED
    BY <1>14, <2>1, Table
<1>15. CASE s = "irexit2"
  <2>1. NextState(Place["irexit2"], 0) = Place["irshift"] /\ NextState(Place["irexit2"], 1) = Place["irupdate"]
    BY Columns DEF NextState, Column, Place
  <2> QED
    BY <1>15, <2>1, Table
<1>16. CASE s = "irupdate"
  <2>1. /\ Place["irupdate"][1] = "ir" /\ Place["irupdate"][2] = "update"
        /\ Place["idle"] = <<"", "idle">> /\ Place["drselect"] = <<"dr", "select">>
    BY DEF Place
  <2>2. NextState(Place["irupdate"], 0) = Place["idle"] /\ NextState(Place["irupdate"], 1) = Place["drselect"]
    BY <2>1, OtherTurns
  <2> QED
    BY <1>16, <2>2, Table
<1> QED
  BY <1>1, <1>2, <1>3, <1>4, <1>5, <1>6, <1>7, <1>8, <1>9,
     <1>10, <1>11, <1>12, <1>13, <1>14, <1>15, <1>16, Table

(* A walk along the edges passes through the states they lead to.             *)
LEMMA AlongEdges ==
    ASSUME NEW p \in Seq({0, 1}), NEW v \in Seq(Names), Len(v) = Len(p) + 1,
           \A i \in 1..Len(p) : v[i + 1] = Edges[v[i]][p[i] + 1]
    PROVE  Visited(Place[v[1]], p)[Len(p)] = Place[v[Len(v)]]
<1> DEFINE Off == {i \in 0..Len(p) : Visited(Place[v[1]], p)[i] # Place[v[i + 1]]}
<1>1. Len(p) \in Nat
  OBVIOUS
<1>2. /\ Visited(Place[v[1]], p)[0] = Place[v[1]]
      /\ \A i \in 1..Len(p) :
            Visited(Place[v[1]], p)[i] = NextState(Visited(Place[v[1]], p)[i - 1], p[i])
  BY <1>1, VisitedIs
<1>3. SUFFICES ASSUME Off # {} PROVE FALSE
  BY <1>1
<1>4. Off \in SUBSET Nat
  BY <1>1
<1> HIDE DEF Off
<1>5. PICK m \in Off : \A n \in Off : m <= n
  BY <1>3, <1>4, LeastExists
<1> USE DEF Off
<1>6. m \in 1..Len(p)
  BY <1>1, <1>2, <1>5
<1>7. Visited(Place[v[1]], p)[m - 1] = Place[v[m]]
  BY <1>1, <1>5, <1>6
<1>8. v[m] \in Names /\ p[m] \in {0, 1} /\ v[m + 1] = Edges[v[m]][p[m] + 1]
  BY <1>6
<1>9. NextState(Place[v[m]], p[m]) = Place[v[m + 1]]
  <2>1. CASE p[m] = 0
    BY <1>8, <2>1, EdgesAreTurns
  <2>2. CASE p[m] = 1
    BY <1>8, <2>2, EdgesAreTurns
  <2> QED
    BY <1>8, <2>1, <2>2
<1> QED
  BY <1>2, <1>5, <1>6, <1>7, <1>9

(* The ways between the stable states lead where they should.                *)
LEMMA DefaultWays ==
    ASSUME NEW a \in Stable, NEW b \in Stable
    PROVE  /\ DefaultPath[a][b] \in Seq({0, 1})
           /\ Visited(Place[a], DefaultPath[a][b])[Len(DefaultPath[a][b])] = Place[b]
<1>1. CASE a = "reset" /\ b = "reset"
  <2> DEFINE p == <<1>>
             v == <<"reset", "reset">>
  <2>1. p \in Seq({0, 1}) /\ v \in Seq(Names) /\ Len(p) = 1 /\ Len(v) = 2
    BY Table
  <2>2. \A i \in 1..Len(p) : v[i + 1] = Edges[v[i]][p[i] + 1]
    BY <2>1, Table
  <2>3. v[1] = "reset" /\ v[2] = "reset" /\ DefaultPath["reset"]["reset"] = p
    BY DEF DefaultPath
  <2> HIDE DEF p, v
  <2>4. Visited(Place[v[1]], p)[Len(p)] = Place[v[Len(v)]]
    <3>1. Len(v) = Len(p) + 1
      BY <2>1
    <3>2. p \in Seq({0, 1}) /\ v \in Seq(Names)
      BY <2>1
    <3> QED
      BY <3>1, <3>2, <2>2, AlongEdges, Zenon
  <2>5. Visited(Place["reset"], p)[Len(p)] = Place["reset"]
    BY <2>1, <2>3, <2>4
  <2> QED
    BY <1>1, <2>1, <2>3, <2>5
<1>2. CASE a = "reset" /\ b = "idle"
  <2> DEFINE p == <<0>>
             v == <<"reset", "idle">>
  <2>1. p \in Seq({0, 1}) /\ v \in Seq(Names) /\ Len(p) = 1 /\ Len(v) = 2
    BY Table
  <2>2. \A i \in 1..Len(p) : v[i + 1] = Edges[v[i]][p[i] + 1]
    BY <2>1, Table
  <2>3. v[1] = "reset" /\ v[2] = "idle" /\ DefaultPath["reset"]["idle"] = p
    BY DEF DefaultPath
  <2> HIDE DEF p, v
  <2>4. Visited(Place[v[1]], p)[Len(p)] = Place[v[Len(v)]]
    <3>1. Len(v) = Len(p) + 1
      BY <2>1
    <3>2. p \in Seq({0, 1}) /\ v \in Seq(Names)
      BY <2>1
    <3> QED
      BY <3>1, <3>2, <2>2, AlongEdges, Zenon
  <2>5. Visited(Place["reset"], p)[Len(p)] = Place["idle"]
    BY <2>1, <2>3, <2>4
  <2> QED
    BY <1>2, <2>1, <2>3, <2>5
<1>3. CASE a = "reset" /\ b = "drpause"
  <2> DEFINE p == <<0, 1, 0, 1, 0>>
             v == <<"reset", "idle", "drselect", "drcapture", "drexit1", "drpause">>
  <2>1. p \in Seq({0, 1}) /\ v \in Seq(Names) /\ Len(p) = 5 /\ Len(v) = 6
    BY Table
  <2>2. \A i \in 1..Len(p) : v[i + 1] = Edges[v[i]][p[i] + 1]
    BY <2>1, Table
  <2>3. v[1] = "reset" /\ v[6] = "drpause" /\ DefaultPath["reset"]["drpause"] = p
    BY DEF DefaultPath
  <2> HIDE DEF p, v
  <2>4. Visited(Place[v[1]], p)[Len(p)] = Place[v[Len(v)]]
    <3>1. Len(v) = Len(p) + 1
      BY <2>1
    <3>2. p \in Seq({0, 1}) /\ v \in Seq(Names)
      BY <2>1
    <3> QED
      BY <3>1, <3>2, <2>2, AlongEdges, Zenon
  <2>5. Visited(Place["reset"], p)[Len(p)] = Place["drpause"]
    BY <2>1, <2>3, <2>4
  <2> QED
    BY <1>3, <2>1, <2>3, <2>5
<1>4. CASE a = "reset" /\ b = "irpause"
  <2> DEFINE p == <<0, 1, 1, 0, 1, 0>>
             v == <<"reset", "idle", "drselect", "irselect", "ircapture", "irexit1", "irpause">>
  <2>1. p \in Seq({0, 1}) /\ v \in Seq(Names) /\ Len(p) = 6 /\ Len(v) = 7
    BY Table
  <2>2. \A i \in 1..Len(p) : v[i + 1] = Edges[v[i]][p[i] + 1]
    BY <2>1, Table
  <2>3. v[1] = "reset" /\ v[7] = "irpause" /\ DefaultPath["reset"]["irpause"] = p
    BY DEF DefaultPath
  <2> HIDE DEF p, v
  <2>4. Visited(Place[v[1]], p)[Len(p)] = Place[v[Len(v)]]
    <3>1. Len(v) = Len(p) + 1
      BY <2>1
    <3>2. p \in Seq({0, 1}) /\ v \in Seq(Names)
      BY <2>1
    <3> QED
      BY <3>1, <3>2, <2>2, AlongEdges, Zenon
  <2>5. Visited(Place["reset"], p)[Len(p)] = Place["irpause"]
    BY <2>1, <2>3, <2>4
  <2> QED
    BY <1>4, <2>1, <2>3, <2>5
<1>5. CASE a = "idle" /\ b = "reset"
  <2> DEFINE p == <<1, 1, 1>>
             v == <<"idle", "drselect", "irselect", "reset">>
  <2>1. p \in Seq({0, 1}) /\ v \in Seq(Names) /\ Len(p) = 3 /\ Len(v) = 4
    BY Table
  <2>2. \A i \in 1..Len(p) : v[i + 1] = Edges[v[i]][p[i] + 1]
    BY <2>1, Table
  <2>3. v[1] = "idle" /\ v[4] = "reset" /\ DefaultPath["idle"]["reset"] = p
    BY DEF DefaultPath
  <2> HIDE DEF p, v
  <2>4. Visited(Place[v[1]], p)[Len(p)] = Place[v[Len(v)]]
    <3>1. Len(v) = Len(p) + 1
      BY <2>1
    <3>2. p \in Seq({0, 1}) /\ v \in Seq(Names)
      BY <2>1
    <3> QED
      BY <3>1, <3>2, <2>2, AlongEdges, Zenon
  <2>5. Visited(Place["idle"], p)[Len(p)] = Place["reset"]
    BY <2>1, <2>3, <2>4
  <2> QED
    BY <1>5, <2>1, <2>3, <2>5
<1>6. CASE a = "idle" /\ b = "idle"
  <2> DEFINE p == <<0>>
             v == <<"idle", "idle">>
  <2>1. p \in Seq({0, 1}) /\ v \in Seq(Names) /\ Len(p) = 1 /\ Len(v) = 2
    BY Table
  <2>2. \A i \in 1..Len(p) : v[i + 1] = Edges[v[i]][p[i] + 1]
    BY <2>1, Table
  <2>3. v[1] = "idle" /\ v[2] = "idle" /\ DefaultPath["idle"]["idle"] = p
    BY DEF DefaultPath
  <2> HIDE DEF p, v
  <2>4. Visited(Place[v[1]], p)[Len(p)] = Place[v[Len(v)]]
    <3>1. Len(v) = Len(p) + 1
      BY <2>1
    <3>2. p \in Seq({0, 1}) /\ v \in Seq(Names)
      BY <2>1
    <3> QED
      BY <3>1, <3>2, <2>2, AlongEdges, Zenon
  <2>5. Visited(Place["idle"], p)[Len(p)] = Place["idle"]
    BY <2>1, <2>3, <2>4
  <2> QED
    BY <1>6, <2>1, <2>3, <2>5
<1>7. CASE a = "idle" /\ b = "drpause"
  <2> DEFINE p == <<1, 0, 1, 0>>
             v == <<"idle", "drselect", "drcapture", "drexit1", "drpause">>
  <2>1. p \in Seq({0, 1}) /\ v \in Seq(Names) /\ Len(p) = 4 /\ Len(v) = 5
    BY Table
  <2>2. \A i \in 1..Len(p) : v[i + 1] = Edges[v[i]][p[i] + 1]
    BY <2>1, Table
  <2>3. v[1] = "idle" /\ v[5] = "drpause" /\ DefaultPath["idle"]["drpause"] = p
    BY DEF DefaultPath
  <2> HIDE DEF p, v
  <2>4. Visited(Place[v[1]], p)[Len(p)] = Place[v[Len(v)]]
    <3>1. Len(v) = Len(p) + 1
      BY <2>1
    <3>2. p \in Seq({0, 1}) /\ v \in Seq(Names)
      BY <2>1
    <3> QED
      BY <3>1, <3>2, <2>2, AlongEdges, Zenon
  <2>5. Visited(Place["idle"], p)[Len(p)] = Place["drpause"]
    BY <2>1, <2>3, <2>4
  <2> QED
    BY <1>7, <2>1, <2>3, <2>5
<1>8. CASE a = "idle" /\ b = "irpause"
  <2> DEFINE p == <<1, 1, 0, 1, 0>>
             v == <<"idle", "drselect", "irselect", "ircapture", "irexit1", "irpause">>
  <2>1. p \in Seq({0, 1}) /\ v \in Seq(Names) /\ Len(p) = 5 /\ Len(v) = 6
    BY Table
  <2>2. \A i \in 1..Len(p) : v[i + 1] = Edges[v[i]][p[i] + 1]
    BY <2>1, Table
  <2>3. v[1] = "idle" /\ v[6] = "irpause" /\ DefaultPath["idle"]["irpause"] = p
    BY DEF DefaultPath
  <2> HIDE DEF p, v
  <2>4. Visited(Place[v[1]], p)[Len(p)] = Place[v[Len(v)]]
    <3>1. Len(v) = Len(p) + 1
      BY <2>1
    <3>2. p \in Seq({0, 1}) /\ v \in Seq(Names)
      BY <2>1
    <3> QED
      BY <3>1, <3>2, <2>2, AlongEdges, Zenon
  <2>5. Visited(Place["idle"], p)[Len(p)] = Place["irpause"]
    BY <2>1, <2>3, <2>4
  <2> QED
    BY <1>8, <2>1, <2>3, <2>5
<1>9. CASE a = "drpause" /\ b = "reset"
  <2> DEFINE p == <<1, 1, 1, 1, 1>>
             v == <<"drpause", "drexit2", "drupdate", "drselect", "irselect", "reset">>
  <2>1. p \in Seq({0, 1}) /\ v \in Seq(Names) /\ Len(p) = 5 /\ Len(v) = 6
    BY Table
  <2>2. \A i \in 1..Len(p) : v[i + 1] = Edges[v[i]][p[i] + 1]
    BY <2>1, Table
  <2>3. v[1] = "drpause" /\ v[6] = "reset" /\ DefaultPath["drpause"]["reset"] = p
    BY DEF DefaultPath
  <2> HIDE DEF p, v
  <2>4. Visited(Place[v[1]], p)[Len(p)] = Place[v[Len(v)]]
    <3>1. Len(v) = Len(p) + 1
      BY <2>1
    <3>2. p \in Seq({0, 1}) /\ v \in Seq(Names)
      BY <2>1
    <3> QED
      BY <3>1, <3>2, <2>2, AlongEdges, Zenon
  <2>5. Visited(Place["drpause"], p)[Len(p)] = Place["reset"]
    BY <2>1, <2>3, <2>4
  <2> QED
    BY <1>9, <2>1, <2>3, <2>5
<1>10. CASE a = "drpause" /\ b = "idle"
  <2> DEFINE p == <<1, 1, 0>>
             v == <<"drpause", "drexit2", "drupdate", "idle">>
  <2>1. p \in Seq({0, 1}) /\ v \in Seq(Names) /\ Len(p) = 3 /\ Len(v) = 4
    BY Table
  <2>2. \A i \in 1..Len(p) : v[i + 1] = Edges[v[i]][p[i] + 1]
    BY <2>1, Table
  <2>3. v[1] = "drpause" /\ v[4] = "idle" /\ DefaultPath["drpause"]["idle"] = p
    BY DEF DefaultPath
  <2> HIDE DEF p, v
  <2>4. Visited(Place[v[1]], p)[Len(p)] = Place[v[Len(v)]]
    <3>1. Len(v) = Len(p) + 1
      BY <2>1
    <3>2. p \in Seq({0, 1}) /\ v \in Seq(Names)
      BY <2>1
    <3> QED
      BY <3>1, <3>2, <2>2, AlongEdges, Zenon
  <2>5. Visited(Place["drpause"], p)[Len(p)] = Place["idle"]
    BY <2>1, <2>3, <2>4
  <2> QED
    BY <1>10, <2>1, <2>3, <2>5
<1>11. CASE a = "drpause" /\ b = "drpause"
  <2> DEFINE p == <<1, 1, 1, 0, 1, 0>>
             v == <<"drpause", "drexit2", "drupdate", "drselect", "drcapture", "drexit1", "drpause">>
  <2>1. p \in Seq({0, 1}) /\ v \in Seq(Names) /\ Len(p) = 6 /\ Len(v) = 7
    BY Table
  <2>2. \A i \in 1..Len(p) : v[i + 1] = Edges[v[i]][p[i] + 1]
    BY <2>1, Table
  <2>3. v[1] = "drpause" /\ v[7] = "drpause" /\ DefaultPath["drpause"]["drpause"] = p
    BY DEF DefaultPath
  <2> HIDE DEF p, v
  <2>4. Visited(Place[v[1]], p)[Len(p)] = Place[v[Len(v)]]
    <3>1. Len(v) = Len(p) + 1
      BY <2>1
    <3>2. p \in Seq({0, 1}) /\ v \in Seq(Names)
      BY <2>1
    <3> QED
      BY <3>1, <3>2, <2>2, AlongEdges, Zenon
  <2>5. Visited(Place["drpause"], p)[Len(p)] = Place["drpause"]
    BY <2>1, <2>3, <2>4
  <2> QED
    BY <1>11, <2>1, <2>3, <2>5
<1>12. CASE a = "drpause" /\ b = "irpause"
  <2> DEFINE p == <<1, 1, 1, 1, 0, 1, 0>>
             v == <<"drpause", "drexit2", "drupdate", "drselect", "irselect", "ircapture", "irexit1", "irpause">>
  <2>1. p \in Seq({0, 1}) /\ v \in Seq(Names) /\ Len(p) = 7 /\ Len(v) = 8
    BY Table
  <2>2. \A i \in 1..Len(p) : v[i + 1] = Edges[v[i]][p[i] + 1]
    BY <2>1, Table
  <2>3. v[1] = "drpause" /\ v[8] = "irpause" /\ DefaultPath["drpause"]["irpause"] = p
    BY DEF DefaultPath
  <2> HIDE DEF p, v
  <2>4. Visited(Place[v[1]], p)[Len(p)] = Place[v[Len(v)]]
    <3>1. Len(v) = Len(p) + 1
      BY <2>1
    <3>2. p \in Seq({0, 1}) /\ v \in Seq(Names)
      BY <2>1
    <3> QED
      BY <3>1, <3>2, <2>2, AlongEdges, Zenon
  <2>5. Visited(Place["drpause"], p)[Len(p)] = Place["irpause"]
    BY <2>1, <2>3, <2>4
  <2> QED
    BY <1>12, <2>1, <2>3, <2>5
<1>13. CASE a = "irpause" /\ b = "reset"
  <2> DEFINE p == <<1, 1, 1, 1, 1>>
             v == <<"irpause", "irexit2", "irupdate", "drselect", "irselect", "reset">>
  <2>1. p \in Seq({0, 1}) /\ v \in Seq(Names) /\ Len(p) = 5 /\ Len(v) = 6
    BY Table
  <2>2. \A i \in 1..Len(p) : v[i + 1] = Edges[v[i]][p[i] + 1]
    BY <2>1, Table
  <2>3. v[1] = "irpause" /\ v[6] = "reset" /\ DefaultPath["irpause"]["reset"] = p
    BY DEF DefaultPath
  <2> HIDE DEF p, v
  <2>4. Visited(Place[v[1]], p)[Len(p)] = Place[v[Len(v)]]
    <3>1. Len(v) = Len(p) + 1
      BY <2>1
    <3>2. p \in Seq({0, 1}) /\ v \in Seq(Names)
      BY <2>1
    <3> QED
      BY <3>1, <3>2, <2>2, AlongEdges, Zenon
  <2>5. Visited(Place["irpause"], p)[Len(p)] = Place["reset"]
    BY <2>1, <2>3, <2>4
  <2> QED
    BY <1>13, <2>1, <2>3, <2>5
<1>14. CASE a = "irpause" /\ b = "idle"
  <2> DEFINE p == <<1, 1, 0>>
             v == <<"irpause", "irexit2", "irupdate", "idle">>
  <2>1. p \in Seq({0, 1}) /\ v \in Seq(Names) /\ Len(p) = 3 /\ Len(v) = 4
    BY Table
  <2>2. \A i \in 1..Len(p) : v[i + 1] = Edges[v[i]][p[i] + 1]
    BY <2>1, Table
  <2>3. v[1] = "irpause" /\ v[4] = "idle" /\ DefaultPath["irpause"]["idle"] = p
    BY DEF DefaultPath
  <2> HIDE DEF p, v
  <2>4. Visited(Place[v[1]], p)[Len(p)] = Place[v[Len(v)]]
    <3>1. Len(v) = Len(p) + 1
      BY <2>1
    <3>2. p \in Seq({0, 1}) /\ v \in Seq(Names)
      BY <2>1
    <3> QED
      BY <3>1, <3>2, <2>2, AlongEdges, Zenon
  <2>5. Visited(Place["irpause"], p)[Len(p)] = Place["idle"]
    BY <2>1, <2>3, <2>4
  <2> QED
    BY <1>14, <2>1, <2>3, <2>5
<1>15. CASE a = "irpause" /\ b = "drpause"
  <2> DEFINE p == <<1, 1, 1, 0, 1, 0>>
             v == <<"irpause", "irexit2", "irupdate", "drselect", "drcapture", "drexit1", "drpause">>
  <2>1. p \in Seq({0, 1}) /\ v \in Seq(Names) /\ Len(p) = 6 /\ Len(v) = 7
    BY Table
  <2>2. \A i \in 1..Len(p) : v[i + 1] = Edges[v[i]][p[i] + 1]
    BY <2>1, Table
  <2>3. v[1] = "irpause" /\ v[7] = "drpause" /\ DefaultPath["irpause"]["drpause"] = p
    BY DEF DefaultPath
  <2> HIDE DEF p, v
  <2>4. Visited(Place[v[1]], p)[Len(p)] = Place[v[Len(v)]]
    <3>1. Len(v) = Len(p) + 1
      BY <2>1
    <3>2. p \in Seq({0, 1}) /\ v \in Seq(Names)
      BY <2>1
    <3> QED
      BY <3>1, <3>2, <2>2, AlongEdges, Zenon
  <2>5. Visited(Place["irpause"], p)[Len(p)] = Place["drpause"]
    BY <2>1, <2>3, <2>4
  <2> QED
    BY <1>15, <2>1, <2>3, <2>5
<1>16. CASE a = "irpause" /\ b = "irpause"
  <2> DEFINE p == <<1, 1, 1, 1, 0, 1, 0>>
             v == <<"irpause", "irexit2", "irupdate", "drselect", "irselect", "ircapture", "irexit1", "irpause">>
  <2>1. p \in Seq({0, 1}) /\ v \in Seq(Names) /\ Len(p) = 7 /\ Len(v) = 8
    BY Table
  <2>2. \A i \in 1..Len(p) : v[i + 1] = Edges[v[i]][p[i] + 1]
    BY <2>1, Table
  <2>3. v[1] = "irpause" /\ v[8] = "irpause" /\ DefaultPath["irpause"]["irpause"] = p
    BY DEF DefaultPath
  <2> HIDE DEF p, v
  <2>4. Visited(Place[v[1]], p)[Len(p)] = Place[v[Len(v)]]
    <3>1. Len(v) = Len(p) + 1
      BY <2>1
    <3>2. p \in Seq({0, 1}) /\ v \in Seq(Names)
      BY <2>1
    <3> QED
      BY <3>1, <3>2, <2>2, AlongEdges, Zenon
  <2>5. Visited(Place["irpause"], p)[Len(p)] = Place["irpause"]
    BY <2>1, <2>3, <2>4
  <2> QED
    BY <1>16, <2>1, <2>3, <2>5
<1> QED
  BY <1>1, <1>2, <1>3, <1>4, <1>5, <1>6, <1>7, <1>8, <1>9, <1>10, <1>11, <1>12, <1>13, <1>14, <1>15, <1>16 DEF Stable

(* Five ones lead to the reset state from any other.                         *)
LEMMA FiveOnes ==
    ASSUME NEW s \in Names
    PROVE  Visited(Place[s], <<1, 1, 1, 1, 1>>)[5] = Place["reset"]
<1> DEFINE a == Edges[s][2]
           b == Edges[a][2]
           c == Edges[b][2]
           d == Edges[c][2]
           e == Edges[d][2]
           p == <<1, 1, 1, 1, 1>>
           v == <<s, a, b, c, d, e>>
<1>1. a \in Names /\ b \in Names /\ c \in Names /\ d \in Names /\ e \in Names
  BY EdgesAreTurns
<1>2. e = "reset"
  <2>1. a \in {"reset", "drselect", "drexit2", "irexit2", "irselect", "drexit1", "drupdate",
               "irexit1", "irupdate"}
    BY Table
  <2> HIDE DEF a
  <2>2. b \in {"reset", "irselect", "drupdate", "irupdate", "drselect"}
    BY <2>1, Table
  <2> HIDE DEF b
  <2>3. c \in {"reset", "drselect", "irselect"}
    BY <2>2, Table
  <2> HIDE DEF c
  <2>4. d \in {"reset", "irselect"}
    BY <2>3, Table
  <2> HIDE DEF d
  <2> QED
    BY <2>4, Table
<1>7. a = Edges[s][2] /\ b = Edges[a][2] /\ c = Edges[b][2] /\ d = Edges[c][2] /\ e = Edges[d][2]
  OBVIOUS
<1> HIDE DEF a, b, c, d, e
<1>3. p \in Seq({0, 1}) /\ v \in Seq(Names) /\ Len(p) = 5 /\ Len(v) = 6
  BY <1>1
<1>5. v[1] = s /\ v[2] = a /\ v[3] = b /\ v[4] = c /\ v[5] = d /\ v[6] = e
  OBVIOUS
<1>8. \A i \in 1..5 : p[i] = 1
  OBVIOUS
<1> HIDE DEF v, p
<1>4. \A i \in 1..Len(p) : v[i + 1] = Edges[v[i]][p[i] + 1]
  <2>1. \A i \in 1..5 : v[i + 1] = Edges[v[i]][2]
    <3>1. /\ v[2] = Edges[v[1]][2] /\ v[3] = Edges[v[2]][2] /\ v[4] = Edges[v[3]][2]
          /\ v[5] = Edges[v[4]][2] /\ v[6] = Edges[v[5]][2]
      BY <1>5, <1>7
    <3>2. ASSUME NEW i \in 1..5 PROVE v[i + 1] = Edges[v[i]][2]
      <4>1. /\ i \in {1, 2, 3, 4, 5}
            /\ i = 1 => i + 1 = 2
            /\ i = 2 => i + 1 = 3
            /\ i = 3 => i + 1 = 4
            /\ i = 4 => i + 1 = 5
            /\ i = 5 => i + 1 = 6
        OBVIOUS
      <4> DEFINE j == i + 1
      <4> HIDE DEF j
      <4>2. v[j] = Edges[v[i]][2]
        BY <3>1, <4>1 DEF j
      <4> QED
        BY <4>2 DEF j
    <3> QED
      BY <3>2
  <2> QED
    BY <2>1, <1>3, <1>8
<1>6. Visited(Place[v[1]], p)[Len(p)] = Place[v[Len(v)]]
  <2>1. Len(v) = Len(p) + 1
    BY <1>3
  <2>2. p \in Seq({0, 1}) /\ v \in Seq(Names)
    BY <1>3
  <2> QED
    BY <2>1, <2>2, <1>4, AlongEdges, Zenon
<1> QED
  BY <1>2, <1>3, <1>5, <1>6 DEF p

(* The edges of a state are two.                                             *)
LEMMA EdgePairs ==
    ASSUME NEW s \in Names
    PROVE  ToSet(Edges[s]) = {Edges[s][1], Edges[s][2]}
<1>1. DOMAIN Edges[s] = 1..2
  BY DEF Edges, Names
<1> QED
  BY <1>1 DEF ToSet

(* A list of states that is a way leads to its last one.                     *)
LEMMA ExplicitWays ==
    ASSUME NEW S, NEW states \in Seq(S), states # <<>>,
           NEW from \in Names, IsPath(from, states)
    PROVE  /\ ExplicitPath(from, states) \in Seq({0, 1})
           /\ Visited(Place[from], ExplicitPath(from, states))[Len(ExplicitPath(from, states))]
              = Place[states[Len(states)]]
<1> DEFINE L == Len(states)
           p == ExplicitPath(from, states)
           v == [i \in 1..L + 1 |-> IF i = 1 THEN from ELSE states[i - 1]]
           Wrong == {i \in 1..L + 1 : v[i] \notin Names}
<1>1. L \in Nat \ {0} /\ DOMAIN states = 1..L
  OBVIOUS
<1>2. p = [i \in 1..L |-> IF states[i] = Edges[v[i]][2] THEN 1 ELSE 0]
  BY <1>1 DEF ExplicitPath
<1>3. \A i \in 1..L : states[i] \in ToSet(Edges[v[i]])
  <2>1. \A i \in 1..L : v[i] = IF i = 1 THEN from ELSE states[i - 1]
    BY <1>1
  <2> HIDE DEF v
  <2> QED
    BY <1>1, <2>1 DEF IsPath
<1>4. \A i \in 1..L : v[i + 1] = states[i]
  BY <1>1
<1>5. Wrong = {}
  <2>1. SUFFICES ASSUME Wrong # {} PROVE FALSE
    OBVIOUS
  <2>2. Wrong \in SUBSET Nat
    BY <1>1
  <2> HIDE DEF Wrong
  <2>3. PICK m \in Wrong : \A n \in Wrong : m <= n
    BY <2>1, <2>2, LeastExists
  <2> USE DEF Wrong
  <2>4. m # 1
    BY <1>1, <2>3
  <2>5. m - 1 \in 1..L /\ v[m - 1] \in Names
    BY <1>1, <2>3, <2>4
  <2>6. v[m] \in ToSet(Edges[v[m - 1]])
    BY <1>1, <1>3, <1>4, <2>5
  <2>7. v[m] \in Names
    <3> DEFINE u == v[m - 1]
    <3>1. u \in Names /\ v[m] \in ToSet(Edges[u])
      BY <2>5, <2>6
    <3> HIDE DEF u, v
    <3>2. v[m] \in {Edges[u][1], Edges[u][2]}
      BY <3>1, EdgePairs
    <3> QED
      BY <3>1, <3>2, EdgesAreTurns
  <2> QED
    BY <2>3, <2>7
<1>6. p \in Seq({0, 1}) /\ Len(p) = L
  BY <1>1, <1>2
<1>7. v \in Seq(Names) /\ Len(v) = L + 1
  <2>1. ASSUME NEW i \in 1..L + 1 PROVE v[i] \in Names
    BY <1>5
  <2>2. v = [i \in 1..L + 1 |-> v[i]]
    OBVIOUS
  <2> HIDE DEF v
  <2>3. v \in [1..L + 1 -> Names]
    BY <2>1, <2>2
  <2> QED
    BY <2>3, <1>1
<1>8. ASSUME NEW i \in 1..L PROVE v[i + 1] = Edges[v[i]][p[i] + 1]
  <2>1. v[i + 1] \in {Edges[v[i]][1], Edges[v[i]][2]}
    <3>1. v[i] \in Names
      BY <1>1, <1>7
    <3> QED
      BY <3>1, <1>3, <1>4, EdgePairs
  <2>2. p[i] = IF v[i + 1] = Edges[v[i]][2] THEN 1 ELSE 0
    BY <1>2, <1>4
  <2> QED
    BY <2>1, <2>2
<1>9. v[1] = from /\ v[L + 1] = states[L]
  BY <1>1
<1> HIDE DEF v, p
<1>10. Visited(Place[v[1]], p)[Len(p)] = Place[v[Len(v)]]
  <2>1. Len(v) = Len(p) + 1 /\ \A i \in 1..Len(p) : v[i + 1] = Edges[v[i]][p[i] + 1]
    BY <1>6, <1>7, <1>8
  <2> QED
    BY <2>1, <1>6, <1>7, AlongEdges, Zenon
<1> QED
  BY <1>6, <1>7, <1>9, <1>10 DEF p

(* All states have a name.                                                   *)
LEMMA AllNamed == \A t \in Controllers : \E s \in Names : t = Place[s]
<1>1. SUFFICES ASSUME NEW t \in Controllers PROVE \E s \in Names : t = Place[s]
  OBVIOUS
<1>2. CASE t \in {<<"", "reset">>, <<"", "idle">>}
  <2>1. Place["reset"] = <<"", "reset">> /\ Place["idle"] = <<"", "idle">>
    BY DEF Place
  <2> QED
    BY <1>2, <2>1, Table
<1>3. CASE t \in {"dr", "ir"} \X {"select", "capture", "shift", "exit1", "pause", "exit2", "update"}
  <2>1. CASE t[1] = "dr"
    <3>1. /\ Place["drpause"] = <<"dr", "pause">>
          /\ Place["drselect"] = <<"dr", "select">>
          /\ Place["drcapture"] = <<"dr", "capture">>
          /\ Place["drshift"] = <<"dr", "shift">>
          /\ Place["drexit1"] = <<"dr", "exit1">>
          /\ Place["drexit2"] = <<"dr", "exit2">>
          /\ Place["drupdate"] = <<"dr", "update">>
      BY DEF Place
    <3>2. \E p \in {"select", "capture", "shift", "exit1", "pause", "exit2", "update"} : t = <<"dr", p>>
      BY <1>3, <2>1
    <3> QED
      BY <3>1, <3>2, Table
  <2>2. CASE t[1] = "ir"
    <3>1. /\ Place["irpause"] = <<"ir", "pause">>
          /\ Place["irselect"] = <<"ir", "select">>
          /\ Place["ircapture"] = <<"ir", "capture">>
          /\ Place["irshift"] = <<"ir", "shift">>
          /\ Place["irexit1"] = <<"ir", "exit1">>
          /\ Place["irexit2"] = <<"ir", "exit2">>
          /\ Place["irupdate"] = <<"ir", "update">>
      BY DEF Place
    <3>2. \E p \in {"select", "capture", "shift", "exit1", "pause", "exit2", "update"} : t = <<"ir", p>>
      BY <1>3, <2>2
    <3> QED
      BY <3>1, <3>2, Table
  <2> QED
    BY <1>3, <2>1, <2>2
<1> QED
  BY <1>1, <1>2, <1>3 DEF Controllers
-----------------------------------------------------------------------------
(* Vectors of the bytes a length needs, and what is made of them.            *)
Bits == Seq(BOOLEAN)

Sized(v, length) == v \in Bits /\ Len(v) = RoundUp(length)

Xxrs ==
    {x \in [length : Nat, tdi : Bits, tdo : Bits, mask : Bits, smask : Bits] :
        /\ Sized(x.tdi, x.length) /\ Sized(x.tdo, x.length)
        /\ Sized(x.mask, x.length) /\ Sized(x.smask, x.length)}

(* The statements of a file, as the parser makes them.                       *)
Optional(v, length) == v = <<>> \/ Sized(v, length)

Given ==
    {x \in [k : {"xxr"}, reg : Registers, length : Nat,
            tdi : Bits, tdo : Bits, mask : Bits, smask : Bits] :
        /\ Optional(x.tdi, x.length) /\ Optional(x.tdo, x.length)
        /\ Optional(x.mask, x.length) /\ Optional(x.smask, x.length)}

Others   == [k : {"other"}]
Pauses   == [k : {"ENDDR", "ENDIR"}, state : Stable]
Routes   == {s \in [k : {"state"}, path : Seq(Names \cup {"unknown"})] :
                s.path # <<>> /\ s.path[Len(s.path)] \in Stable}
Runtests == [k : {"runtest"}, run : Stable \cup {"unknown"}, end : Stable \cup {"unknown"}]

Statements == Others \cup Pauses \cup Routes \cup Runtests \cup Given

(* What comes out, and where the controller may be then.                     *)
Paths   == [k : {"path"}, path : Seq({0, 1}), final : Stable]
Passes  == [k : {"shift"}, reg : Shifts,
            bits : [length : Nat, tdi : Bits, tdo : Bits, mask : Bits, smask : Bits]]
Emitted == [stmt : Others \cup Runtests \cup Paths \cup Passes, at : SUBSET Controllers]

Pause(reg) == IF reg = "sdr" THEN "drpause" ELSE "irpause"

Met(e) ==
    /\ e.stmt.k = "path" => Follow(e.at, e.stmt.path) = {Place[e.stmt.final]}
    /\ e.stmt.k = "shift" => e.at = {Place[Pause(e.stmt.reg)]}

(* The locals, what is out and the controller agree.                         *)
Lows == [tap : Stable \cup {"unknown"}, enddr : Stable, endir : Stable, run : Stable, end : Stable,
         xxr : [Registers -> Xxrs]]

Sound(s) ==
    /\ s \in [low : Lows, out : Seq(Emitted), chip : SUBSET Controllers]
    /\ s.chip = IF s.low.tap = "unknown" THEN Controllers ELSE {Place[s.low.tap]}
    /\ \A i \in 1..Len(s.out) : Met(s.out[i])

LastRun(o, state) ==
    \E i \in 1..Len(o) :
        /\ o[i].stmt.k = "runtest" /\ o[i].at = {Place[state]}
        /\ \A j \in i + 1..Len(o) : o[j].stmt.k # "runtest"

RuntestMet == at > 0 /\ doc[at].k = "runtest" => LastRun(out, RunState(at))

TapInv ==
    /\ doc \in Seq(Statements) /\ at \in 0..Len(doc)
    /\ status = "parsing" => at = 0
    /\ Sound(Mutable)
    /\ low.run = RunState(at)
    /\ RuntestMet
-----------------------------------------------------------------------------
(* A number is its quotient and its remainder put together again.               *)
LEMMA Division ==
    ASSUME NEW a \in Nat, NEW w \in Nat \ {0}
    PROVE  /\ a \div w \in Nat /\ a % w \in 0..w - 1
           /\ a = w * (a \div w) + (a % w)
<1>1. a \div w \in Nat
  OBVIOUS
<1>2. a % w \in 0..w - 1
  OBVIOUS
<1>3. a = w * (a \div w) + (a % w)
  OBVIOUS
<1> QED
  BY <1>1, <1>2, <1>3

(* Dividing what is put together from a quotient and a remainder gives both.     *)
LEMMA Quotient ==
    ASSUME NEW w \in Nat \ {0}, NEW k \in Nat, NEW r \in 0..w - 1
    PROVE  (w * k + r) \div w = k /\ (w * k + r) % w = r
<1> DEFINE a == w * k + r
           q == a \div w
           s == a % w
<1>1. a \in Nat /\ w * k \in Nat
  OBVIOUS
<1> HIDE DEF a
<1>2. q \in Nat /\ s \in 0..w - 1 /\ a = w * q + s
  BY <1>1, Division
<1> HIDE DEF q, s
<1>3. w * k + r = w * q + s
  BY <1>2 DEF a
<1>4. ASSUME NEW x \in Nat, NEW y \in Nat, x < y PROVE w * y >= w * x + w
  <2>1. y >= x + 1
    BY <1>4
  <2>2. w * y >= w * (x + 1)
    BY <2>1
  <2>3. w * (x + 1) = w * x + w
    OBVIOUS
  <2> QED
    BY <2>2, <2>3
<1>5. w * k \in Nat /\ w * q \in Nat
  BY <1>2
<1>6. ~(k < q)
  <2>1. SUFFICES ASSUME k < q PROVE FALSE
    OBVIOUS
  <2>2. w * q >= w * k + w
    BY <2>1, <1>2, <1>4
  <2> QED
    BY <2>2, <1>3, <1>5, <1>2
<1>7. ~(q < k)
  <2>1. SUFFICES ASSUME q < k PROVE FALSE
    OBVIOUS
  <2>2. w * k >= w * q + w
    BY <2>1, <1>2, <1>4
  <2> QED
    BY <2>2, <1>3, <1>5, <1>2
<1>8. q = k
  BY <1>2, <1>6, <1>7
<1>9. s = r
  BY <1>8, <1>3, <1>5, <1>2
<1> QED
  BY <1>8, <1>9 DEF q, s, a

(* A block has a bit at least.                                               *)
LEMMA WidthIsNat == Width \in Nat \ {0}
BY WidthAssumption

(* Rounding up to blocks: no less, a whole number of blocks stays, and is passed on. *)
LEMMA RoundedUp ==
    ASSUME NEW n \in Nat
    PROVE  /\ RoundUp(n) \in Nat /\ n <= RoundUp(n)
           /\ n % Width = 0 => RoundUp(n) = n
           /\ \A m \in Nat : m % Width = 0 => RoundUp(m + n) = m + RoundUp(n)
<1> DEFINE w == Width
           b == n + w - 1
           q == b \div w
           r == b % w
<1>1. w \in Nat \ {0}
  BY WidthIsNat
<1> HIDE DEF w
<1>2. b \in Nat
  BY <1>1
<1> HIDE DEF b
<1>3. q \in Nat /\ r \in 0..w - 1 /\ b = w * q + r
  BY <1>1, <1>2, Division
<1> HIDE DEF q, r
<1>4. RoundUp(n) = q * w
  BY DEF RoundUp, q, b, w
<1>5. q * w = w * q /\ w * q \in Nat
  BY <1>1, <1>3
<1>6. b = n + w - 1
  BY DEF b
<1>7. n <= w * q
  BY <1>1, <1>3, <1>5, <1>6
<1>8. ASSUME NEW m \in Nat, m % w = 0 PROVE RoundUp(m + n) = m + RoundUp(n)
  <2> DEFINE k == m \div w
  <2>1. k \in Nat /\ m = w * k
    BY <1>1, <1>8, Division
  <2> HIDE DEF k
  <2>2. w * (k + q) = w * k + w * q
    BY <1>1, <1>3, <2>1
  <2>3. (m + n) + w - 1 = w * (k + q) + r
    BY <1>1, <1>3, <1>5, <1>6, <2>1, <2>2
  <2>4. (w * (k + q) + r) \div w = k + q
    BY <1>1, <1>3, <2>1, Quotient
  <2>5. RoundUp(m + n) = (k + q) * w
    BY <2>3, <2>4 DEF RoundUp, w
  <2> QED
    BY <1>1, <1>3, <1>4, <1>5, <2>1, <2>2, <2>5
<1>9. n % w = 0 => RoundUp(n) = n
  <2> DEFINE k == n \div w
             e == w - 1
  <2>1. SUFFICES ASSUME n % w = 0 PROVE RoundUp(n) = n
    OBVIOUS
  <2>2. k \in Nat /\ n = w * k + (n % w)
    BY <1>1, Division
  <2>3. e \in 0..w - 1 /\ e = w - 1
    BY <1>1
  <2> HIDE DEF k, e
  <2>4. w * k \in Nat /\ w * k = k * w
    BY <1>1, <2>2
  <2>5. n = w * k
    BY <2>1, <2>2, <2>4
  <2>6. n + w - 1 = w * k + e
    BY <1>1, <2>3, <2>4, <2>5
  <2>7. (w * k + e) \div w = k
    BY <1>1, <2>2, <2>3, Quotient
  <2> QED
    BY <2>4, <2>5, <2>6, <2>7 DEF RoundUp, w
<1> QED
  BY <1>4, <1>5, <1>7, <1>8, <1>9 DEF w
-----------------------------------------------------------------------------
(* A vector that is read has the bytes of its length.                        *)
LEMMA ParsedVector ==
    ASSUME NEW digits, NEW length \in Nat
    PROVE  Sized(ParseVector(digits, length), length)
<1> DEFINE n == RoundUp(length)
           digit(i) == digits[Len(digits) - (i - 1) \div DigitWidth]
           bit(i) == /\ i <= Len(digits) * DigitWidth
                     /\ (digit(i) \div 2 ^ ((i - 1) % DigitWidth)) % 2 = 1
           v == [i \in 1..n |-> bit(i)]
<1>1. n \in Nat
  BY RoundedUp
<1>2. ParseVector(digits, length) = v
  BY DEF ParseVector
<1>3. \A i \in 1..n : bit(i) \in BOOLEAN
  OBVIOUS
<1> HIDE DEF bit, n
<1>4. v \in Bits /\ Len(v) = n
  BY <1>1, <1>3 DEF Bits
<1> QED
  BY <1>2, <1>4 DEF Sized, n

(* Nothing beyond the length.                                                *)
Clean(v, length) == \A i \in 1..Len(v) : v[i] => i <= length

(* Two vectors, the second right after the end of the first.                 *)
LEMMA JoinedBits ==
    ASSUME NEW m \in Nat, NEW n \in Nat, NEW lhs, NEW rhs, Sized(lhs, m), Sized(rhs, n)
    PROVE  LET v == JoinBitset(m, lhs, n, rhs)
           IN  /\ Sized(v, m + n)
               /\ Clean(lhs, m) /\ Clean(rhs, n) =>
                     /\ Clean(v, m + n)
                     /\ \A i \in 1..m : v[i] <=> lhs[i]
                     /\ \A i \in 1..n : v[m + i] <=> rhs[i]
<1> DEFINE v == JoinBitset(m, lhs, n, rhs)
           L == RoundUp(m)
           R == RoundUp(n)
           T == RoundUp(m + n)
<1>1. /\ lhs \in Bits /\ rhs \in Bits /\ Len(lhs) = L /\ Len(rhs) = R
      /\ L \in Nat /\ R \in Nat /\ T \in Nat /\ m <= L /\ n <= R /\ m + n <= T
      /\ m % Width = 0 => L = m /\ T = m + R
  <2>1. m + n \in Nat
    OBVIOUS
  <2>2. L \in Nat /\ R \in Nat /\ T \in Nat /\ m <= L /\ n <= R /\ m + n <= T
    BY <2>1, RoundedUp
  <2>3. m % Width = 0 => L = m
    BY RoundedUp
  <2>4. m % Width = 0 => T = m + R
    BY RoundedUp
  <2> QED
    BY <2>2, <2>3, <2>4 DEF Sized
<1>2. lhs \in [1..L -> BOOLEAN] /\ rhs \in [1..R -> BOOLEAN]
  BY <1>1 DEF Bits
<1>3. SUFFICES /\ v \in Bits /\ Len(v) = T
               /\ Clean(lhs, m) /\ Clean(rhs, n) =>
                     /\ Clean(v, m + n)
                     /\ \A i \in 1..m : v[i] <=> lhs[i]
                     /\ \A i \in 1..n : v[m + i] <=> rhs[i]
  BY DEF Sized
<1>4. CASE m % Width = 0
  <2>1. v = lhs \o rhs
    BY <1>4 DEF JoinBitset
  <2> HIDE DEF v, L, R, T
  <2>2. /\ v \in Bits /\ Len(v) = m + R
        /\ \A i \in 1..m : v[i] = lhs[i]
        /\ \A i \in 1..R : v[m + i] = rhs[i]
    <3>1. lhs \in Seq(BOOLEAN) /\ rhs \in Seq(BOOLEAN) /\ Len(lhs) = m /\ Len(rhs) = R
      BY <1>1, <1>4 DEF Bits
    <3>2. /\ lhs \o rhs \in Seq(BOOLEAN) /\ Len(lhs \o rhs) = Len(lhs) + Len(rhs)
          /\ \A i \in 1..Len(lhs) + Len(rhs) :
                (lhs \o rhs)[i] = IF i <= Len(lhs) THEN lhs[i] ELSE rhs[i - Len(lhs)]
      BY <3>1, ConcatProperties, Zenon
    <3>3. v \in Bits /\ Len(v) = m + R
      BY <2>1, <3>1, <3>2 DEF Bits
    <3>4. \A i \in 1..m + R : v[i] = IF i <= m THEN lhs[i] ELSE rhs[i - m]
      BY <2>1, <3>1, <3>2
    <3>5. ASSUME NEW i \in 1..m PROVE v[i] = lhs[i]
      <4>1. i \in 1..m + R /\ i <= m
        BY <1>1
      <4> QED
        BY <3>4, <4>1
    <3>6. ASSUME NEW i \in 1..R PROVE v[m + i] = rhs[i]
      <4>1. m + i \in 1..m + R /\ ~(m + i <= m) /\ (m + i) - m = i
        BY <1>1
      <4> QED
        BY <3>4, <4>1
    <3> QED
      BY <3>3, <3>5, <3>6
  <2>3. ASSUME Clean(rhs, n) PROVE Clean(v, m + n)
    <3>1. SUFFICES ASSUME NEW i \in 1..Len(v), v[i], ~(i <= m + n) PROVE FALSE
      BY DEF Clean
    <3> DEFINE j == i - m
    <3>2. j \in 1..R /\ m + j = i /\ ~(j <= n)
      BY <1>1, <2>2, <3>1
    <3> HIDE DEF j
    <3>3. rhs[j]
      BY <2>2, <3>1, <3>2
    <3> QED
      BY <1>1, <2>3, <3>2, <3>3 DEF Clean
  <2>4. (\A i \in 1..m : v[i] <=> lhs[i]) /\ (\A i \in 1..n : v[m + i] <=> rhs[i])
    <3>1. \A i \in 1..n : i \in 1..R
      BY <1>1
    <3> QED
      BY <2>2, <3>1
  <2> QED
    BY <1>1, <1>4, <2>2, <2>3, <2>4
<1>5. CASE m % Width # 0
  <2>1. v = [i \in 1..T |-> Bit(lhs, i) \/ Bit(rhs, i - m)]
    BY <1>5 DEF JoinBitset
  <2>2. ASSUME NEW i \in Int PROVE Bit(lhs, i) \in BOOLEAN /\ Bit(rhs, i - m) \in BOOLEAN
    BY <1>2 DEF Bit
  <2> DEFINE either(i) == Bit(lhs, i) \/ Bit(rhs, i - m)
  <2>5. \A i \in 1..T : either(i) \in BOOLEAN
    BY <2>2
  <2> HIDE DEF v, L, R, T, either
  <2>6. v = [i \in 1..T |-> either(i)]
    BY <2>1 DEF either
  <2>7. v \in Bits /\ Len(v) = T /\ \A i \in 1..T : v[i] = either(i)
    BY <1>1, <2>5, <2>6 DEF Bits
  <2>3. v \in Bits /\ Len(v) = T /\ \A i \in 1..T : v[i] <=> Bit(lhs, i) \/ Bit(rhs, i - m)
    BY <2>7 DEF either
  <2>4. ASSUME Clean(lhs, m), Clean(rhs, n)
        PROVE  /\ Clean(v, m + n)
               /\ \A i \in 1..m : v[i] <=> lhs[i]
               /\ \A i \in 1..n : v[m + i] <=> rhs[i]
    <3>1. ASSUME NEW i \in Int PROVE Bit(lhs, i) <=> i \in 1..m /\ lhs[i]
      BY <1>1, <1>2, <2>4 DEF Bit, Clean
    <3>2. ASSUME NEW i \in Int PROVE Bit(rhs, i) <=> i \in 1..n /\ rhs[i]
      BY <1>1, <1>2, <2>4 DEF Bit, Clean
    <3>3. \A i \in 1..T : v[i] <=> (i \in 1..m /\ lhs[i]) \/ (i - m \in 1..n /\ rhs[i - m])
      BY <1>1, <2>3, <3>1, <3>2
    <3>4. ASSUME NEW i \in 1..T, v[i] PROVE i <= m + n
      BY <3>3, <3>4, <1>1
    <3>5. ASSUME NEW i \in 1..m PROVE v[i] <=> lhs[i]
      <4>1. i \in 1..T /\ i - m \notin 1..n
        BY <1>1
      <4> QED
        BY <3>3, <4>1
    <3>6. ASSUME NEW i \in 1..n PROVE v[m + i] <=> rhs[i]
      <4>1. m + i \in 1..T /\ m + i \notin 1..m /\ (m + i) - m = i
        BY <1>1
      <4> QED
        BY <3>3, <4>1
    <3> QED
      BY <2>3, <3>4, <3>5, <3>6 DEF Clean
  <2> QED
    BY <2>3, <2>4
<1> QED
  BY <1>4, <1>5

(* A vector without the bits beyond its length.                              *)
Cut(v, length) == [i \in DOMAIN v |-> v[i] /\ i <= length]

(* What a cut and a filled vector hold.                                      *)
LEMMA CutsAndFills ==
    ASSUME NEW n \in Nat
    PROVE  /\ \A v : Sized(v, n) =>
                  /\ Sized(Cut(v, n), n)
                  /\ \A i \in 1..RoundUp(n) : Cut(v, n)[i] <=> i <= n /\ v[i]
           /\ \A b \in BOOLEAN :
                  /\ Sized(Fill(RoundUp(n), b), n)
                  /\ \A i \in 1..RoundUp(n) : Fill(RoundUp(n), b)[i] = b
<1> DEFINE L == RoundUp(n)
<1>1. L \in Nat
  BY RoundedUp
<1>2. ASSUME NEW v, Sized(v, n)
      PROVE  Sized(Cut(v, n), n) /\ \A i \in 1..L : Cut(v, n)[i] <=> i <= n /\ v[i]
  <2>1. v \in [1..L -> BOOLEAN] /\ DOMAIN v = 1..L
    BY <1>1, <1>2 DEF Sized, Bits
  <2> DEFINE both(i) == v[i] /\ i <= n
  <2>2. Cut(v, n) = [i \in 1..L |-> both(i)]
    BY <2>1 DEF Cut
  <2>3. \A i \in 1..L : both(i) \in BOOLEAN
    BY <2>1
  <2>4. \A i \in 1..L : both(i) <=> i <= n /\ v[i]
    BY <2>1
  <2> HIDE DEF both, L
  <2>5. Cut(v, n) \in Seq(BOOLEAN) /\ Len(Cut(v, n)) = L /\ \A i \in 1..L : Cut(v, n)[i] = both(i)
    BY <1>1, <2>2, <2>3
  <2> QED
    BY <2>4, <2>5 DEF Sized, Bits, L
<1>3. ASSUME NEW b \in BOOLEAN
      PROVE  Sized(Fill(L, b), n) /\ \A i \in 1..L : Fill(L, b)[i] = b
  <2> HIDE DEF L
  <2>1. Fill(L, b) \in Seq(BOOLEAN) /\ Len(Fill(L, b)) = L /\ \A i \in 1..L : Fill(L, b)[i] = b
    BY <1>1 DEF Fill
  <2> QED
    BY <2>1 DEF Sized, Bits, L
<1> QED
  BY <1>2, <1>3

(* A length of nothing needs no bytes.                                       *)
LEMMA NoBytes == RoundUp(0) = 0 /\ Sized(<<>>, 0)
<1>1. 0 % Width = 0
  BY WidthIsNat
<1>2. RoundUp(0) = 0
  BY <1>1, RoundedUp
<1> QED
  BY <1>2 DEF Sized, Bits

(* What is kept of a register after a statement of another length.            *)
LEMMA MergesOther ==
    ASSUME NEW dest \in Xxrs, NEW src \in Given, CanMerge(dest, src), dest.length # src.length
    PROVE  LET m == MergeXxr(dest, src)
               n == src.length
           IN  /\ m \in Xxrs /\ m.length = n
               /\ \A i \in 1..RoundUp(n) :
                     /\ m.tdi[i] <=> i <= n /\ src.tdi[i]
                     /\ m.smask[i] <=> i <= n /\ (src.smask # <<>> => src.smask[i])
                     /\ m.tdo[i] <=> i <= n /\ src.tdo # <<>> /\ src.tdo[i]
                     /\ m.mask[i] <=> i <= n /\ IF src.mask # <<>> THEN src.mask[i] ELSE src.tdo # <<>>
<1> DEFINE m == MergeXxr(dest, src)
           n == src.length
           zero == Fill(RoundUp(n), FALSE)
           one == Fill(RoundUp(n), TRUE)
           mask == Or(src.mask, IF src.tdo = <<>> THEN zero ELSE one)
<1>1. n \in Nat /\ Optional(src.tdi, n) /\ Optional(src.tdo, n) /\ Optional(src.mask, n)
      /\ Optional(src.smask, n)
  BY DEF Given
<1>2. m = [length |-> n, tdi |-> Cut(src.tdi, n), tdo |-> Cut(Or(src.tdo, zero), n),
           mask |-> Cut(mask, n), smask |-> Cut(Or(src.smask, one), n)]
  BY DEF MergeXxr, Cut
<1>3. /\ Sized(zero, n) /\ \A i \in 1..RoundUp(n) : ~zero[i]
      /\ Sized(one, n) /\ \A i \in 1..RoundUp(n) : one[i]
  BY <1>1, CutsAndFills
<1> HIDE DEF zero, one, m, n
<1>4. Sized(src.tdi, n)
  <2>1. CASE src.tdi # <<>>
    BY <1>1, <2>1 DEF Optional
  <2>2. CASE src.tdi = <<>>
    <3>1. n = 0
      BY <2>2 DEF CanMerge, n
    <3> QED
      BY <2>2, <3>1, NoBytes
  <2> QED
    BY <2>1, <2>2
<1>5. /\ Sized(Or(src.tdo, zero), n) /\ Sized(mask, n) /\ Sized(Or(src.smask, one), n)
      /\ \A i \in 1..RoundUp(n) :
            /\ Or(src.tdo, zero)[i] <=> src.tdo # <<>> /\ src.tdo[i]
            /\ mask[i] <=> IF src.mask # <<>> THEN src.mask[i] ELSE src.tdo # <<>>
            /\ Or(src.smask, one)[i] <=> (src.smask # <<>> => src.smask[i])
  <2>1. Sized(Or(src.tdo, zero), n)
        /\ \A i \in 1..RoundUp(n) : Or(src.tdo, zero)[i] <=> src.tdo # <<>> /\ src.tdo[i]
    <3>1. CASE src.tdo = <<>>
      BY <1>3, <3>1 DEF Or
    <3>2. CASE src.tdo # <<>>
      <4>1. Sized(src.tdo, n) /\ Or(src.tdo, zero) = src.tdo
        BY <1>1, <3>2 DEF Optional, Or
      <4>2. \A i \in 1..RoundUp(n) : src.tdo[i] \in BOOLEAN
        BY <4>1 DEF Sized, Bits
      <4> QED
        BY <3>2, <4>1, <4>2
    <3> QED
      BY <3>1, <3>2
  <2>2. Sized(Or(src.smask, one), n)
        /\ \A i \in 1..RoundUp(n) : Or(src.smask, one)[i] <=> (src.smask # <<>> => src.smask[i])
    <3>1. CASE src.smask = <<>>
      BY <1>3, <3>1 DEF Or
    <3>2. CASE src.smask # <<>>
      <4>1. Sized(src.smask, n) /\ Or(src.smask, one) = src.smask
        BY <1>1, <3>2 DEF Optional, Or
      <4>2. \A i \in 1..RoundUp(n) : src.smask[i] \in BOOLEAN
        BY <4>1 DEF Sized, Bits
      <4> QED
        BY <3>2, <4>1, <4>2
    <3> QED
      BY <3>1, <3>2
  <2>3. Sized(mask, n)
        /\ \A i \in 1..RoundUp(n) :
              mask[i] <=> IF src.mask # <<>> THEN src.mask[i] ELSE src.tdo # <<>>
    <3>1. CASE src.mask = <<>> /\ src.tdo = <<>>
      BY <1>3, <3>1 DEF Or
    <3>2. CASE src.mask = <<>> /\ src.tdo # <<>>
      BY <1>3, <3>2 DEF Or
    <3>3. CASE src.mask # <<>>
      <4>1. Sized(src.mask, n) /\ mask = src.mask
        BY <1>1, <3>3 DEF Optional, Or
      <4>2. \A i \in 1..RoundUp(n) : src.mask[i] \in BOOLEAN
        BY <4>1 DEF Sized, Bits
      <4> QED
        BY <3>3, <4>1, <4>2
    <3> QED
      BY <3>1, <3>2, <3>3
  <2> QED
    BY <2>1, <2>2, <2>3
<1> HIDE DEF mask
<1>6. \A v : Sized(v, n) =>
          Sized(Cut(v, n), n) /\ \A i \in 1..RoundUp(n) : Cut(v, n)[i] <=> i <= n /\ v[i]
  BY <1>1, CutsAndFills
<1>7. m \in Xxrs /\ m.length = n
  <2>1. /\ Sized(m.tdi, n) /\ Sized(m.tdo, n) /\ Sized(m.mask, n) /\ Sized(m.smask, n)
        /\ m.length = n
    BY <1>2, <1>4, <1>5, <1>6
  <2>2. m.tdi \in Bits /\ m.tdo \in Bits /\ m.mask \in Bits /\ m.smask \in Bits
    BY <2>1 DEF Sized
  <2>3. m \in [length : Nat, tdi : Bits, tdo : Bits, mask : Bits, smask : Bits]
    BY <1>1, <1>2, <2>2
  <2> QED
    BY <2>1, <2>3 DEF Xxrs
<1>8. ASSUME NEW i \in 1..RoundUp(n)
      PROVE  /\ m.tdi[i] <=> i <= n /\ src.tdi[i]
             /\ m.smask[i] <=> i <= n /\ (src.smask # <<>> => src.smask[i])
             /\ m.tdo[i] <=> i <= n /\ src.tdo # <<>> /\ src.tdo[i]
             /\ m.mask[i] <=> i <= n /\ IF src.mask # <<>> THEN src.mask[i] ELSE src.tdo # <<>>
  <2>1. /\ m.tdi[i] <=> i <= n /\ src.tdi[i]
        /\ m.smask[i] <=> i <= n /\ Or(src.smask, one)[i]
        /\ m.tdo[i] <=> i <= n /\ Or(src.tdo, zero)[i]
        /\ m.mask[i] <=> i <= n /\ mask[i]
    BY <1>2, <1>4, <1>5, <1>6
  <2> QED
    BY <2>1, <1>5
<1> QED
  BY <1>7, <1>8 DEF m, n

(* What is kept after one of the same length.                                *)
LEMMA MergesSame ==
    ASSUME NEW dest \in Xxrs, NEW src \in Given, dest.length = src.length
    PROVE  LET m == MergeXxr(dest, src)
               n == dest.length
           IN  /\ m \in Xxrs /\ m.length = n
               /\ m.tdi = Or(src.tdi, dest.tdi) /\ m.smask = Or(src.smask, dest.smask)
               /\ m.tdo = Or(src.tdo, Fill(RoundUp(n), FALSE)) /\ m.mask = Or(src.mask, dest.mask)
<1> DEFINE m == MergeXxr(dest, src)
           n == dest.length
           zero == Fill(RoundUp(n), FALSE)
<1>1. m = [length |-> n, tdi |-> Or(src.tdi, dest.tdi), tdo |-> Or(src.tdo, zero),
           mask |-> Or(src.mask, dest.mask), smask |-> Or(src.smask, dest.smask)]
  BY DEF MergeXxr
<1>2. /\ n \in Nat /\ Optional(src.tdi, n) /\ Optional(src.tdo, n) /\ Optional(src.mask, n)
      /\ Optional(src.smask, n)
  BY DEF Given
<1>3. Sized(dest.tdi, n) /\ Sized(dest.mask, n) /\ Sized(dest.smask, n) /\ Sized(zero, n)
  BY <1>2, CutsAndFills DEF Xxrs
<1> HIDE DEF zero, m, n
<1>4. /\ Sized(m.tdi, n) /\ Sized(m.tdo, n) /\ Sized(m.mask, n) /\ Sized(m.smask, n)
      /\ m.length = n
  BY <1>1, <1>2, <1>3 DEF Optional, Or
<1>5. m.tdi \in Bits /\ m.tdo \in Bits /\ m.mask \in Bits /\ m.smask \in Bits
  BY <1>4 DEF Sized
<1>6. m \in [length : Nat, tdi : Bits, tdo : Bits, mask : Bits, smask : Bits]
  BY <1>1, <1>2, <1>5
<1>7. m \in Xxrs
  BY <1>4, <1>6 DEF Xxrs
<1> QED
  BY <1>1, <1>7 DEF m, n, zero

(* Three vectors, each right after the end of the one before.                *)
Pieces(v, a, m, b, n, c, k) ==
    /\ \A i \in 1..m : v[i] <=> a[i]
    /\ \A i \in 1..n : v[m + i] <=> b[i]
    /\ \A i \in 1..k : v[m + n + i] <=> c[i]

(* One after the other, they are joined.                                     *)
LEMMA ThreeJoined ==
    ASSUME NEW m \in Nat, NEW n \in Nat, NEW k \in Nat, NEW a, NEW b, NEW c,
           Sized(a, m), Sized(b, n), Sized(c, k)
    PROVE  LET v == JoinBitset(m + n, JoinBitset(m, a, n, b), k, c)
           IN  /\ Sized(v, m + n + k)
               /\ Clean(a, m) /\ Clean(b, n) /\ Clean(c, k) => Pieces(v, a, m, b, n, c, k)
<1> DEFINE u == JoinBitset(m, a, n, b)
           v == JoinBitset(m + n, u, k, c)
<1>1. /\ Sized(u, m + n)
      /\ Clean(a, m) /\ Clean(b, n) =>
            /\ Clean(u, m + n)
            /\ \A i \in 1..m : u[i] <=> a[i]
            /\ \A i \in 1..n : u[m + i] <=> b[i]
  BY JoinedBits
<1> HIDE DEF u
<1>2. m + n \in Nat
  OBVIOUS
<1>3. /\ Sized(v, m + n + k)
      /\ Clean(u, m + n) /\ Clean(c, k) =>
            /\ \A i \in 1..m + n : v[i] <=> u[i]
            /\ \A i \in 1..k : v[m + n + i] <=> c[i]
  BY <1>1, <1>2, JoinedBits
<1> HIDE DEF v
<1>4. ASSUME Clean(a, m), Clean(b, n), Clean(c, k) PROVE Pieces(v, a, m, b, n, c, k)
  <2>1. \A i \in 1..m + n : v[i] <=> u[i]
    BY <1>1, <1>3, <1>4
  <2>2. ASSUME NEW i \in 1..m PROVE v[i] <=> a[i]
    <3>1. i \in 1..m + n
      OBVIOUS
    <3> QED
      BY <1>1, <1>4, <2>1, <3>1
  <2>3. ASSUME NEW i \in 1..n PROVE v[m + i] <=> b[i]
    <3>1. m + i \in 1..m + n
      OBVIOUS
    <3> QED
      BY <1>1, <1>4, <2>1, <3>1
  <2>4. \A i \in 1..k : v[m + n + i] <=> c[i]
    BY <1>1, <1>3, <1>4
  <2> QED
    BY <2>2, <2>3, <2>4 DEF Pieces
<1> QED
  BY <1>3, <1>4 DEF u, v

Fields == {"tdi", "tdo", "mask", "smask"}

Passed == [length : Nat, tdi : Bits, tdo : Bits, mask : Bits, smask : Bits]

(* What a shift is made of.                                                  *)
LEMMA Shifted ==
    ASSUME NEW h \in Xxrs, NEW b \in Xxrs, NEW t \in Xxrs
    PROVE  LET p == PrepareShift(h, b, t)
               res == JoinXxr(JoinXxr(h, b), t)
               whole(v, x, y, z) ==
                   /\ Sized(v, h.length + b.length + t.length)
                   /\ Clean(x, h.length) /\ Clean(y, b.length) /\ Clean(z, t.length) =>
                         Pieces(v, x, h.length, y, b.length, z, t.length)
           IN  /\ p \in Passed /\ p.length = h.length + b.length + t.length
               /\ whole(p.tdi, h.tdi, b.tdi, t.tdi) /\ whole(p.smask, h.smask, b.smask, t.smask)
               /\ whole(res.tdo, h.tdo, b.tdo, t.tdo) /\ whole(res.mask, h.mask, b.mask, t.mask)
               /\ \/ p.tdo = res.tdo /\ p.mask = res.mask
                  \/ p.tdo = <<>> /\ p.mask = <<>> /\ \A i \in 1..Len(res.mask) : ~res.mask[i]
<1> DEFINE p == PrepareShift(h, b, t)
           res == JoinXxr(JoinXxr(h, b), t)
           m == h.length
           n == b.length
           k == t.length
           whole(v, x, y, z) ==
               /\ Sized(v, m + n + k)
               /\ Clean(x, m) /\ Clean(y, n) /\ Clean(z, k) => Pieces(v, x, m, y, n, z, k)
           join(x, y, z) == JoinBitset(m + n, JoinBitset(m, x, n, y), k, z)
<1>1. /\ m \in Nat /\ n \in Nat /\ k \in Nat
      /\ Sized(h.tdi, m) /\ Sized(h.tdo, m) /\ Sized(h.mask, m) /\ Sized(h.smask, m)
      /\ Sized(b.tdi, n) /\ Sized(b.tdo, n) /\ Sized(b.mask, n) /\ Sized(b.smask, n)
      /\ Sized(t.tdi, k) /\ Sized(t.tdo, k) /\ Sized(t.mask, k) /\ Sized(t.smask, k)
  BY DEF Xxrs
<1>2. res = [length |-> m + n + k, tdi |-> join(h.tdi, b.tdi, t.tdi), tdo |-> join(h.tdo, b.tdo, t.tdo),
             mask |-> join(h.mask, b.mask, t.mask), smask |-> join(h.smask, b.smask, t.smask)]
  BY DEF JoinXxr
<1> HIDE DEF m, n, k
<1>3. /\ whole(join(h.tdi, b.tdi, t.tdi), h.tdi, b.tdi, t.tdi)
      /\ whole(join(h.tdo, b.tdo, t.tdo), h.tdo, b.tdo, t.tdo)
      /\ whole(join(h.mask, b.mask, t.mask), h.mask, b.mask, t.mask)
      /\ whole(join(h.smask, b.smask, t.smask), h.smask, b.smask, t.smask)
  BY <1>1, ThreeJoined
<1> HIDE DEF join
<1>4. /\ res.length = m + n + k
      /\ whole(res.tdi, h.tdi, b.tdi, t.tdi) /\ whole(res.tdo, h.tdo, b.tdo, t.tdo)
      /\ whole(res.mask, h.mask, b.mask, t.mask) /\ whole(res.smask, h.smask, b.smask, t.smask)
  BY <1>2, <1>3
<1>5. res \in Passed
  <2>1. res.tdi \in Bits /\ res.tdo \in Bits /\ res.mask \in Bits /\ res.smask \in Bits
    BY <1>4 DEF Sized
  <2>2. m + n + k \in Nat
    BY <1>1
  <2> HIDE DEF whole, res
  <2> QED
    BY <1>2, <2>1, <2>2 DEF Passed
<1> HIDE DEF whole, res
<1>6. p = IF TRUE \in ToSet(res.mask) THEN res ELSE [res EXCEPT !.tdo = <<>>, !.mask = <<>>]
  BY DEF PrepareShift, res
<1> HIDE DEF p
<1>7. CASE TRUE \in ToSet(res.mask)
  BY <1>4, <1>5, <1>6, <1>7 DEF p, res, m, n, k, whole
<1>8. CASE TRUE \notin ToSet(res.mask)
  <2>1. \A i \in 1..Len(res.mask) : ~res.mask[i]
    <3>1. res.mask \in Seq(BOOLEAN)
      BY <1>5 DEF Passed, Bits
    <3>2. \A i \in 1..Len(res.mask) : res.mask[i] \in BOOLEAN /\ res.mask[i] \in ToSet(res.mask)
      BY <3>1 DEF ToSet
    <3> QED
      BY <1>8, <3>2
  <2>2. p = [res EXCEPT !.tdo = <<>>, !.mask = <<>>]
    BY <1>6, <1>8
  <2>3. <<>> \in Bits
    BY DEF Bits
  <2>4. /\ p \in Passed /\ p.length = m + n + k /\ p.tdi = res.tdi /\ p.smask = res.smask
        /\ p.tdo = <<>> /\ p.mask = <<>>
    BY <1>4, <1>5, <2>2, <2>3 DEF Passed
  <2> QED
    BY <1>4, <2>1, <2>4 DEF p, res, m, n, k, whole
<1> QED
  BY <1>7, <1>8
-----------------------------------------------------------------------------
(* A name that is known is a state's.                                        *)
LEMMA KnownNames == \A w : TapState(w) \in Names \cup {"unknown"}
<1>1. \A x \in DOMAIN StateNames : StateNames[x] \in Names
  BY Table DEF StateNames
<1> QED
  BY <1>1 DEF TapState

(* A statement, or that there is none.                                       *)
Outcome(s) == s \in Statements \/ s = Refused \/ s = Hung

(* ENDDR and ENDIR make statements of theirs.                                *)
LEMMA ParsedEndxr ==
    ASSUME NEW w, IsWord(w, 1, {"ENDDR", "ENDIR"})
    PROVE  Outcome(ParseEndxr(w))
<1> DEFINE s == [k |-> w[1].word, state |-> TapState(w[2])]
<1>1. ParseEndxr(w) = IF Ends(w, 3) /\ Is(w, 2, "word") /\ TapState(w[2]) \in Stable
                      THEN s ELSE Refused
  BY DEF ParseEndxr, When
<1>2. TapState(w[2]) \in Stable => s \in Pauses
  BY DEF Pauses, IsWord
<1> HIDE DEF s
<1> QED
  BY <1>1, <1>2 DEF Outcome, Statements

(* STATE makes a list of names that ends with that of a stable state.        *)
LEMMA ParsedState ==
    ASSUME NEW w \in Seq(Tokens)
    PROVE  Outcome(ParseState(w))
<1> DEFINE p == [i \in 1..Len(w) - 2 |-> TapState(w[i + 1])]
           s == [k |-> "state", path |-> p]
<1>1. ParseState(w) \in {Refused, Hung} \/ (p # <<>> /\ Last(p) \in Stable /\ ParseState(w) = s)
  BY DEF ParseState, When
<1>2. ASSUME p # <<>>, Last(p) \in Stable PROVE s \in Routes
  <2>1. Len(w) \in Nat
    OBVIOUS
  <2>2. Len(w) - 2 \in Nat
    <3>1. SUFFICES ASSUME ~(Len(w) - 2 \in Nat) PROVE FALSE
      OBVIOUS
    <3> DEFINE D == 1..Len(w) - 2
    <3>2. D = 1..0
      BY <2>1, <3>1
    <3>4. p = [i \in D |-> TapState(w[i + 1])]
      OBVIOUS
    <3> HIDE DEF D, p
    <3>5. p = [i \in 1..0 |-> TapState(w[i + 1])]
      BY <3>2, <3>4
    <3>3. p = <<>>
      BY <3>5
    <3> QED
      BY <1>2, <3>3
  <2> DEFINE n == Len(w) - 2
  <2>3. \A i \in 1..n : TapState(w[i + 1]) \in Names \cup {"unknown"}
    BY KnownNames
  <2> HIDE DEF n
  <2>4. p = [i \in 1..n |-> TapState(w[i + 1])]
    BY DEF n
  <2> HIDE DEF p
  <2>5. p \in Seq(Names \cup {"unknown"})
    BY <2>2, <2>3, <2>4 DEF n
  <2>6. p[Len(p)] \in Stable
    BY <1>2 DEF Last
  <2> QED
    BY <1>2, <2>5, <2>6 DEF Routes
<1> HIDE DEF s, p
<1> QED
  BY <1>1, <1>2 DEF Outcome, Statements

(* HDR and its kin make statements with vectors of their length.             *)
LEMMA ParsedXxr ==
    ASSUME NEW w \in Seq(Tokens), NEW reg \in Registers
    PROVE  Outcome(ParseXxr(w, reg))
<1> DEFINE names == {2 * i + 1 : i \in 1..(Len(w) - 3) \div 2}
           given(n) == {i \in names : w[i].word = n}
           value(n) == IF given(n) = {} THEN <<>>
                       ELSE ParseVector(w[Max(given(n)) + 1].digits, w[2].number)
           s == [k |-> "xxr", reg |-> reg, length |-> w[2].number, tdi |-> value("TDI"),
                 tdo |-> value("TDO"), mask |-> value("MASK"), smask |-> value("SMASK")]
<1>1. ParseXxr(w, reg) = Refused \/ (Uint(w, 2) /\ ParseXxr(w, reg) = s)
  BY DEF ParseXxr, When
<1>2. ASSUME Uint(w, 2) PROVE s \in Given
  <2>1. w[2].number \in Nat
    <3>1. w[2] \in Tokens /\ w[2].k = "number"
      BY <1>2 DEF Uint, Is
    <3> QED
      BY <3>1 DEF Tokens
  <2> HIDE DEF given
  <2>2. ASSUME NEW n PROVE value(n) \in Bits /\ Optional(value(n), w[2].number)
    <3>1. CASE given(n) = {}
      BY <3>1 DEF Optional, Bits
    <3>2. CASE given(n) # {}
      BY <2>1, <3>2, ParsedVector DEF Optional, Sized
    <3> QED
      BY <3>1, <3>2
  <2> HIDE DEF value
  <2> QED
    BY <2>1, <2>2 DEF Given
<1> HIDE DEF s
<1> QED
  BY <1>1, <1>2 DEF Outcome, Statements

(* RUNTEST makes a statement with states that are stable, where they are given.*)
LEMMA ParsedRuntest ==
    ASSUME NEW w \in Seq(Tokens)
    PROVE  Outcome(ParseRuntest(w))
<1>1. ASSUME NEW first \in Nat, NEW run \in Stable \cup {"unknown"}
      PROVE  Outcome(ParseOptions(w, first, run))
  <2> DEFINE Begins ==
                 CHOOSE f : f = [i \in first..Len(w) + 1 |->
                     i = first \/ \E j \in first..i - 1 : f[j] /\ i - j = OptionLength(w, j)]
             stop == Max({i \in first..Len(w) + 1 : Begins[i]})
             ends == {i \in first..stop - 1 : Begins[i] /\ OptionLength(w, i) = 2}
             end == IF ends = {} THEN "unknown" ELSE TapState(w[Max(ends) + 1])
             s == [k |-> "runtest", run |-> run, end |-> end]
  <2>1. ParseOptions(w, first, run) =
            IF stop > Len(w) THEN Hung ELSE IF Is(w, stop, "semi") THEN s ELSE Refused
    BY DEF ParseOptions, When
  <2>2. ASSUME Is(w, stop, "semi") PROVE end \in Stable \cup {"unknown"}
    <3>1. CASE ends = {}
      BY <3>1
    <3>2. CASE ends # {}
      <4>1. stop \in Nat
        BY <2>2 DEF Is
      <4> HIDE DEF Begins, stop
      <4>6. \A i \in ends : i \in first..stop - 1 /\ OptionLength(w, i) = 2
        OBVIOUS
      <4> HIDE DEF ends
      <4>2. ends \in SUBSET Nat /\ \A i \in ends : i <= stop /\ OptionLength(w, i) = 2
        BY <4>1, <4>6
      <4>3. Max(ends) \in ends
        BY <3>2, <4>1, <4>2, GreatestExists
      <4>4. OptionLength(w, Max(ends)) = 2
        BY <4>2, <4>3
      <4>5. TapState(w[Max(ends) + 1]) \in Stable
        BY <4>4 DEF OptionLength
      <4> QED
        BY <3>2, <4>5
    <3> QED
      BY <3>1, <3>2
  <2> HIDE DEF end, stop
  <2>3. Is(w, stop, "semi") => s \in Runtests
    BY <2>2 DEF Runtests
  <2> HIDE DEF s
  <2> QED
    BY <2>1, <2>3 DEF Outcome, Statements
<1> DEFINE named == Is(w, 2, "word")
           run == IF named THEN TapState(w[2]) ELSE "unknown"
           i == IF named THEN 3 ELSE 2
           timed == IsWord(w, i + 1, {"TCK", "SCK"}) /\ Real(w, i + 2)
           first == IF timed THEN i + 4 ELSE i + 2
<1>2. ParseRuntest(w) = Refused \/ (run \in Stable \cup {"unknown"}
                                    /\ ParseRuntest(w) = ParseOptions(w, first, run))
  BY DEF ParseRuntest
<1>3. first \in Nat
  OBVIOUS
<1> HIDE DEF first, run
<1> QED
  BY <1>1, <1>2, <1>3 DEF Outcome

(* Every command makes a statement, or none.                                 *)
LEMMA ParsedCommand ==
    ASSUME NEW w \in Seq(Tokens)
    PROVE  Outcome(ParseCommand(w))
<1>1. [k |-> "other"] \in Statements
  BY DEF Statements, Others
<1>2. Outcome(ParseFrequency(w)) /\ Outcome(ParseTrst(w))
  BY <1>1 DEF ParseFrequency, ParseTrst, When, Outcome
<1>3. \A x \in DOMAIN XxrNames : XxrNames[x] \in Registers
  BY DEF XxrNames, Registers, Shifts
<1>4. IsWord(w, 1, DOMAIN XxrNames) => Outcome(ParseXxr(w, XxrNames[w[1].word]))
  <2>1. IsWord(w, 1, DOMAIN XxrNames) => w[1].word \in DOMAIN XxrNames
    BY DEF IsWord
  <2> QED
    BY <2>1, <1>3, ParsedXxr
<1>5. IsWord(w, 1, {"ENDDR", "ENDIR"}) => Outcome(ParseEndxr(w))
  BY ParsedEndxr
<1>6. Outcome(ParseState(w)) /\ Outcome(ParseRuntest(w)) /\ Outcome(Refused)
  BY ParsedState, ParsedRuntest DEF Outcome
<1> QED
  BY <1>2, <1>4, <1>5, <1>6 DEF ParseCommand
-----------------------------------------------------------------------------
(* From one state there is one way to go.                                    *)
LEMMA FollowOne == \A t, p : Follow({t}, p) = {Visited(t, p)[Len(p)]}
BY DEF Follow

(* After five ones it does not matter where the controller was.               *)
LEMMA FollowReset ==
    ASSUME NEW way \in Seq({0, 1})
    PROVE  Follow(Controllers, <<1, 1, 1, 1, 1>> \o way) = {Visited(Place["reset"], way)[Len(way)]}
<1> DEFINE five == <<1, 1, 1, 1, 1>>
<1>1. five \in Seq({0, 1}) /\ Len(five) = 5
  OBVIOUS
<1>2. ASSUME NEW t \in Controllers
      PROVE  Visited(t, five \o way)[Len(five \o way)] = Visited(Place["reset"], way)[Len(way)]
  <2>1. PICK s \in Names : t = Place[s]
    BY AllNamed
  <2>2. Visited(t, five)[Len(five)] = Place["reset"]
    <3>1. Visited(Place[s], five)[5] = Place["reset"]
      BY FiveOnes
    <3> QED
      BY <1>1, <2>1, <3>1
  <2> HIDE DEF five
  <2>3. Visited(t, five \o way)[Len(five \o way)] = Visited(Visited(t, five)[Len(five)], way)[Len(way)]
    BY <1>1, VisitedJoined
  <2> QED
    BY <2>2, <2>3
<1>3. <<"", "reset">> \in Controllers
  BY DEF Controllers
<1> HIDE DEF five
<1>4. Follow(Controllers, five \o way) = {Visited(Place["reset"], way)[Len(way)]}
  BY <1>2, <1>3 DEF Follow
<1> QED
  BY <1>4 DEF five

(* The stable states are among those with a name.                            *)
LEMMA StableNames == Stable \subseteq Names /\ "unknown" \notin Names
BY Table DEF Stable

(* What comes out, after something else or not.                              *)
Output == Others \cup Runtests \cup Paths \cup Passes

(* A statement comes out with the states the controller may be in.            *)
LEMMA EmitSound ==
    ASSUME NEW s, Sound(s), NEW stmt \in Output, Met([stmt |-> stmt, at |-> s.chip])
    PROVE  LET t == Emit(s, stmt)
           IN  /\ Sound(t) /\ t.low = s.low /\ t.chip = s.chip
               /\ t.out = Append(s.out, [stmt |-> stmt, at |-> s.chip])
<1> DEFINE t == Emit(s, stmt)
           e == [stmt |-> stmt, at |-> s.chip]
<1>1. /\ s \in [low : Lows, out : Seq(Emitted), chip : SUBSET Controllers]
      /\ s.chip = IF s.low.tap = "unknown" THEN Controllers ELSE {Place[s.low.tap]}
      /\ \A i \in 1..Len(s.out) : Met(s.out[i])
  BY DEF Sound
<1>2. e \in Emitted
  BY <1>1 DEF Emitted, Output
<1>3. t = [s EXCEPT !.out = Append(s.out, e)]
  BY DEF Emit
<1>4. Met(e)
  OBVIOUS
<1> HIDE DEF t, e
<1>5. s.out \in Seq(Emitted)
  BY <1>1
<1>6. /\ Append(s.out, e) \in Seq(Emitted) /\ Len(Append(s.out, e)) = Len(s.out) + 1
      /\ \A i \in 1..Len(s.out) : Append(s.out, e)[i] = s.out[i]
      /\ Append(s.out, e)[Len(s.out) + 1] = e /\ Len(s.out) \in Nat
  BY <1>2, <1>5, AppendProperties, LenProperties
<1>7. t.low = s.low /\ t.chip = s.chip /\ t.out = Append(s.out, e)
  BY <1>1, <1>3
<1>8. t \in [low : Lows, out : Seq(Emitted), chip : SUBSET Controllers]
  BY <1>1, <1>3, <1>6
<1>9. ASSUME NEW i \in 1..Len(t.out) PROVE Met(t.out[i])
  <2>1. CASE i \in 1..Len(s.out)
    BY <1>1, <1>6, <1>7, <2>1
  <2>2. CASE i = Len(s.out) + 1
    BY <1>4, <1>6, <1>7, <2>2
  <2> QED
    BY <1>6, <1>7, <2>1, <2>2
<1>10. Sound(t)
  BY <1>1, <1>7, <1>8, <1>9 DEF Sound
<1> QED
  BY <1>7, <1>10 DEF t, e

From(s) == IF s.low.tap = "unknown" THEN "reset" ELSE s.low.tap

Added(o, p, kinds) == \E e \in Emitted : p = Append(o, e) /\ e.stmt.k \in kinds

(* A way that leads to a state takes the controller there.                    *)
LEMMA PathSound ==
    ASSUME NEW s, Sound(s), NEW final \in Stable, NEW way, way[From(s)] \in Seq({0, 1}),
           Visited(Place[From(s)], way[From(s)])[Len(way[From(s)])] = Place[final]
    PROVE  LET t == MakeTmsPath(s, way, final)
           IN  /\ Sound(t) /\ t.low = [s.low EXCEPT !.tap = final] /\ t.chip = {Place[final]}
               /\ Added(s.out, t.out, {"path"})
<1> DEFINE path == IF s.low.tap = "unknown" THEN <<1, 1, 1, 1, 1>> \o way["reset"] ELSE way[s.low.tap]
           stmt == [k |-> "path", path |-> path, final |-> final]
           u == Emit(s, stmt)
           t == [u EXCEPT !.low.tap = final, !.chip = Follow(s.chip, path)]
<1>1. MakeTmsPath(s, way, final) = t
  BY DEF MakeTmsPath, EmitPath
<1>2. /\ s \in [low : Lows, out : Seq(Emitted), chip : SUBSET Controllers]
      /\ s.chip = IF s.low.tap = "unknown" THEN Controllers ELSE {Place[s.low.tap]}
  BY DEF Sound
<1>3. path \in Seq({0, 1}) /\ Follow(s.chip, path) = {Place[final]}
  <2>1. CASE s.low.tap = "unknown"
    <3>1. way["reset"] \in Seq({0, 1})
          /\ Visited(Place["reset"], way["reset"])[Len(way["reset"])] = Place[final]
      BY <2>1 DEF From
    <3>2. path = <<1, 1, 1, 1, 1>> \o way["reset"] /\ s.chip = Controllers
      BY <1>2, <2>1
    <3>3. <<1, 1, 1, 1, 1>> \in Seq({0, 1})
      OBVIOUS
    <3> DEFINE five == <<1, 1, 1, 1, 1>>
    <3>4. five \in Seq({0, 1}) /\ path = five \o way["reset"]
      BY <3>2, <3>3
    <3>6. \A w \in Seq({0, 1}) : five \o w \in Seq({0, 1})
      <4> HIDE DEF five
      <4> QED
        BY <3>4, ConcatProperties, Zenon
    <3>5. Follow(Controllers, five \o way["reset"]) = {Visited(Place["reset"], way["reset"])[Len(way["reset"])]}
      BY <3>1, FollowReset
    <3> HIDE DEF five, path
    <3> QED
      BY <3>1, <3>2, <3>4, <3>5, <3>6
  <2>2. CASE s.low.tap # "unknown"
    <3>1. way[s.low.tap] \in Seq({0, 1})
          /\ Visited(Place[s.low.tap], way[s.low.tap])[Len(way[s.low.tap])] = Place[final]
      BY <2>2 DEF From
    <3>2. path = way[s.low.tap] /\ s.chip = {Place[s.low.tap]}
      BY <1>2, <2>2
    <3> HIDE DEF path
    <3> QED
      BY <3>1, <3>2, FollowOne
  <2> QED
    BY <2>1, <2>2
<1> HIDE DEF path
<1>4. stmt \in Output
  BY <1>3 DEF Output, Paths
<1>5. stmt.k = "path" /\ stmt.path = path /\ stmt.final = final
  OBVIOUS
<1> HIDE DEF stmt
<1>6. Met([stmt |-> stmt, at |-> s.chip])
  BY <1>3, <1>5 DEF Met
<1>7. /\ Sound(u) /\ u.low = s.low /\ u.chip = s.chip
      /\ u.out = Append(s.out, [stmt |-> stmt, at |-> s.chip])
  BY <1>4, <1>6, EmitSound
<1> HIDE DEF u
<1>8. /\ u \in [low : Lows, out : Seq(Emitted), chip : SUBSET Controllers]
      /\ \A i \in 1..Len(u.out) : Met(u.out[i])
  BY <1>7 DEF Sound
<1>9. t = [low |-> [u.low EXCEPT !.tap = final], out |-> u.out, chip |-> Follow(s.chip, path)]
  <2>1. u = [low |-> u.low, out |-> u.out, chip |-> u.chip]
    BY <1>8
  <2>2. u.low \in Lows
    BY <1>8
  <2> DEFINE f == Follow(s.chip, path)
  <2>3. t = [[u EXCEPT !.low = [u.low EXCEPT !.tap = final]] EXCEPT !.chip = f]
    BY <1>8
  <2> HIDE DEF f, t
  <2> DEFINE l == [u.low EXCEPT !.tap = final]
  <2>4. t = [[u EXCEPT !.low = l] EXCEPT !.chip = f]
    BY <2>3
  <2> HIDE DEF l
  <2>5. t = [low |-> l, out |-> u.out, chip |-> f]
    BY <1>8, <2>4
  <2> QED
    BY <2>5 DEF l, f
<1> HIDE DEF t
<1>10. t.low = [s.low EXCEPT !.tap = final] /\ t.out = u.out /\ t.chip = {Place[final]}
  BY <1>3, <1>7, <1>9
<1>11. [s.low EXCEPT !.tap = final] \in Lows /\ [s.low EXCEPT !.tap = final].tap = final
  BY <1>2 DEF Lows
<1>12. {Place[final]} \in SUBSET Controllers
  <2>1. /\ <<"", "reset">> \in Controllers /\ <<"", "idle">> \in Controllers
        /\ <<"dr", "pause">> \in Controllers /\ <<"ir", "pause">> \in Controllers
    BY DEF Controllers
  <2>2. /\ Place["reset"] = <<"", "reset">> /\ Place["idle"] = <<"", "idle">>
        /\ Place["drpause"] = <<"dr", "pause">> /\ Place["irpause"] = <<"ir", "pause">>
    BY DEF Place
  <2> QED
    BY <2>1, <2>2 DEF Stable
<1>13. final # "unknown"
  BY DEF Stable
<1>14. Sound(t)
  <2>1. t \in [low : Lows, out : Seq(Emitted), chip : SUBSET Controllers]
    <3>1. t = [low |-> t.low, out |-> t.out, chip |-> t.chip]
      BY <1>9
    <3> QED
      BY <3>1, <1>8, <1>10, <1>11, <1>12
  <2>2. t.low.tap = final
    BY <1>10, <1>11
  <2> QED
    BY <2>1, <2>2, <1>8, <1>10, <1>13 DEF Sound
<1>15. [stmt |-> stmt, at |-> s.chip] \in Emitted
  BY <1>2, <1>4 DEF Emitted, Output
<1>16. Added(s.out, t.out, {"path"})
  BY <1>5, <1>7, <1>10, <1>15 DEF Added
<1> QED
  BY <1>1, <1>10, <1>14, <1>16

(* To a stable state by the default way, or not at all when it is there.      *)
LEMMA GoToSound ==
    ASSUME NEW s, Sound(s), NEW target \in Stable
    PROVE  LET t == GoTo(s, target)
           IN  /\ Sound(t) /\ t.low = [s.low EXCEPT !.tap = target] /\ t.chip = {Place[target]}
               /\ t.out = s.out \/ Added(s.out, t.out, {"path"})
<1>1. /\ s \in [low : Lows, out : Seq(Emitted), chip : SUBSET Controllers]
      /\ s.chip = IF s.low.tap = "unknown" THEN Controllers ELSE {Place[s.low.tap]}
  BY DEF Sound
<1>2. target # "unknown"
  BY DEF Stable
<1>3. CASE s.low.tap = target
  <2>1. GoTo(s, target) = s
    BY <1>3 DEF GoTo
  <2>2. s.low \in Lows
    BY <1>1
  <2>3. s.low = [s.low EXCEPT !.tap = target]
    BY <1>3, <2>2 DEF Lows
  <2> QED
    BY <1>1, <1>2, <1>3, <2>1, <2>3
<1>4. CASE s.low.tap # target
  <2> DEFINE way == DefaultWay(target)
             f == From(s)
  <2>1. GoTo(s, target) = MakeTmsPath(s, way, target)
    BY <1>4 DEF GoTo
  <2>2. f \in Stable
    BY <1>1 DEF Lows, From, Stable
  <2>3. way[f] = DefaultPath[f][target]
    BY <2>2 DEF DefaultWay
  <2> HIDE DEF way, f
  <2>4. way[f] \in Seq({0, 1}) /\ Visited(Place[f], way[f])[Len(way[f])] = Place[target]
    BY <2>2, <2>3, DefaultWays
  <2> QED
    BY <2>1, <2>4, PathSound DEF f
<1> QED
  BY <1>3, <1>4
-----------------------------------------------------------------------------
(* The state that was asked for last, of a document.                         *)
RunOf(d, i) ==
    LET runs == {j \in 1..i : d[j].k = "runtest" /\ d[j].run # "unknown"}
    IN  IF runs = {} THEN "idle" ELSE d[Max(runs)].run

(* A statement that asks for one is the last that does.                      *)
LEMMA RunsOn ==
    ASSUME NEW d, NEW i \in Nat
    PROVE  RunOf(d, i + 1) = IF d[i + 1].k = "runtest" /\ d[i + 1].run # "unknown"
                             THEN d[i + 1].run ELSE RunOf(d, i)
<1> DEFINE asks(j) == d[j].k = "runtest" /\ d[j].run # "unknown"
           R == {j \in 1..i : asks(j)}
           Q == {j \in 1..i + 1 : asks(j)}
<1>1. /\ RunOf(d, i + 1) = IF Q = {} THEN "idle" ELSE d[Max(Q)].run
      /\ RunOf(d, i) = IF R = {} THEN "idle" ELSE d[Max(R)].run
  BY DEF RunOf
<1> HIDE DEF asks
<1>2. CASE asks(i + 1)
  <2>1. Q \in SUBSET Nat /\ i + 1 \in Q /\ i + 1 \in Nat /\ \A x \in Q : x <= i + 1
    BY <1>2
  <2> HIDE DEF Q
  <2>2. Max(Q) \in Q /\ \A y \in Q : Max(Q) >= y
    BY <2>1, GreatestExists
  <2>3. Max(Q) = i + 1
    <3> DEFINE m == Max(Q)
    <3>1. m \in Nat /\ m <= i + 1 /\ m >= i + 1
      BY <2>1, <2>2
    <3> QED
      BY <3>1
  <2> QED
    BY <1>1, <1>2, <2>1, <2>3 DEF asks
<1>3. CASE ~asks(i + 1)
  <2>1. Q = R
    BY <1>3
  <2> QED
    BY <1>1, <1>3, <2>1 DEF asks
<1> QED
  BY <1>2, <1>3

(* Before the first statement it is the idle state.                          *)
LEMMA RunsFirst == \A d : RunOf(d, 0) = "idle"
BY DEF RunOf

(* What the parser keeps for RUNTEST is where the statements so far leave it.    *)
LEMMA RunStates == RunState(at) = RunOf(doc, at) /\ RunState(at)' = RunOf(doc', at')
BY DEF RunState, RunOf

(* The locals may change, but for where the controller is.                   *)
LEMMA RelowSound ==
    ASSUME NEW s, Sound(s), NEW l \in Lows, l.tap = s.low.tap
    PROVE  LET t == [s EXCEPT !.low = l]
           IN  Sound(t) /\ t.low = l /\ t.out = s.out /\ t.chip = s.chip
<1> DEFINE t == [s EXCEPT !.low = l]
<1>1. /\ s \in [low : Lows, out : Seq(Emitted), chip : SUBSET Controllers]
      /\ s.chip = IF s.low.tap = "unknown" THEN Controllers ELSE {Place[s.low.tap]}
      /\ \A i \in 1..Len(s.out) : Met(s.out[i])
  BY DEF Sound
<1>2. /\ t.low = l /\ t.out = s.out /\ t.chip = s.chip
      /\ t \in [low : Lows, out : Seq(Emitted), chip : SUBSET Controllers]
  BY <1>1
<1> HIDE DEF t
<1>3. Sound(t)
  BY <1>1, <1>2 DEF Sound
<1> QED
  BY <1>2, <1>3 DEF t

(* Which statement it is tells what is in it.                                *)
LEMMA Kinds ==
    ASSUME NEW s \in Statements
    PROVE  /\ s.k = "other" => s \in Others
           /\ s.k \in {"ENDDR", "ENDIR"} => s \in Pauses
           /\ s.k = "state" => s \in Routes
           /\ s.k = "runtest" => s \in Runtests
           /\ s.k = "xxr" => s \in Given
<1>1. s \in Others => s.k = "other"
  BY DEF Others
<1>2. s \in Pauses => s.k \in {"ENDDR", "ENDIR"}
  BY DEF Pauses
<1>3. s \in Routes => s.k = "state"
  BY DEF Routes
<1>4. s \in Runtests => s.k = "runtest"
  BY DEF Runtests
<1>5. s \in Given => s.k = "xxr"
  BY DEF Given
<1> QED
  BY <1>1, <1>2, <1>3, <1>4, <1>5 DEF Statements

(* What is taken is a statement.                                             *)
LEMMA Taken ==
    ASSUME TapInv, NEW k, Take(k)
    PROVE  /\ current \in Statements /\ current.k = k /\ status = "lowering" /\ doc' = doc
           /\ at \in Nat /\ at + 1 \in 1..Len(doc) /\ low \in Lows
<1>1. doc \in Seq(Statements) /\ at \in 0..Len(doc) /\ at < Len(doc)
  BY DEF TapInv, Take
<1>2. Len(doc) \in Nat
  BY <1>1
<1>3. at + 1 \in 1..Len(doc)
  BY <1>1, <1>2
<1>4. low \in Lows
  BY DEF TapInv, Sound, Mutable
<1> QED
  BY <1>1, <1>2, <1>3, <1>4 DEF Take, current

(* A statement that is lowered soundly leaves it all as it was.               *)
LEMMA Lowered ==
    ASSUME TapInv, NEW k, Take(k), NEW s, Becomes(s), Sound(s), s.low.run = RunOf(doc, at + 1),
           k = "runtest" => LastRun(s.out, RunOf(doc, at + 1))
    PROVE  TapInv'
<1>1. /\ current.k = k /\ status = "lowering" /\ doc' = doc
      /\ at \in Nat /\ at + 1 \in 1..Len(doc)
  BY Taken
<1>2. low' = s.low /\ out' = s.out /\ chip' = s.chip /\ at' = at + 1 /\ status' = status
  BY DEF Becomes
<1>3. Mutable' = s
  <2>1. s \in [low : Lows, out : Seq(Emitted), chip : SUBSET Controllers]
    BY DEF Sound
  <2>2. s = [low |-> s.low, out |-> s.out, chip |-> s.chip]
    BY <2>1
  <2> QED
    BY <1>2, <2>2 DEF Mutable
<1>4. Sound(Mutable)'
  BY <1>3 DEF Sound, Met
<1>5. (low.run = RunState(at))'
  BY <1>1, <1>2, RunStates
<1>6. RuntestMet'
  BY <1>1, <1>2, RunStates DEF RuntestMet, current
<1>7. (doc \in Seq(Statements) /\ at \in 0..Len(doc))'
  BY <1>1, <1>2 DEF TapInv
<1> QED
  BY <1>1, <1>2, <1>4, <1>5, <1>6, <1>7 DEF TapInv

(* A statement that is refused changes nothing.                              *)
LEMMA Thrown ==
    ASSUME TapInv, NEW k, Take(k), Throws
    PROVE  TapInv'
<1>1. doc' = doc /\ at' = at /\ low' = low /\ out' = out /\ chip' = chip /\ status' = "refused"
  BY DEF Take, Throws
<1>2. Mutable' = Mutable
  BY <1>1 DEF Mutable
<1>3. Sound(Mutable)'
  BY <1>2 DEF TapInv, Sound, Met
<1>4. (low.run = RunState(at))' /\ RuntestMet'
  BY <1>1, RunStates DEF TapInv, RuntestMet
<1> QED
  BY <1>1, <1>3, <1>4 DEF TapInv

(* Statements that ask for no state leave the last one.                      *)
LEMMA RunStays ==
    ASSUME TapInv, NEW k, Take(k), k # "runtest"
    PROVE  RunOf(doc, at + 1) = low.run
<1>1. current.k = k /\ at \in Nat
  BY Taken
<1>2. low.run = RunOf(doc, at)
  BY RunStates DEF TapInv
<1> QED
  BY <1>1, <1>2, RunsOn DEF current

(* Such a statement, when it is not a RUNTEST.                               *)
LEMMA LoweredPlain ==
    ASSUME TapInv, NEW k, Take(k), k # "runtest", NEW s, Becomes(s), Sound(s), s.low.run = low.run
    PROVE  TapInv'
BY RunStays, Lowered

(* LowerOther keeps it, and what is kept of the registers.                    *)
LEMMA OtherTap ==
    ASSUME TapInv, LowerOther
    PROVE  TapInv' /\ low'.xxr = low.xxr
<1> DEFINE s == Emit(Mutable, current)
<1>1. Take("other") /\ Becomes(s)
  BY DEF LowerOther
<1>2. current \in Others /\ low \in Lows
  BY <1>1, Taken, Kinds
<1>3. Met([stmt |-> current, at |-> chip])
  BY <1>2 DEF Met, Others
<1>4. Sound(Mutable) /\ Mutable.chip = chip /\ Mutable.low = low
  BY DEF TapInv, Mutable
<1>5. current \in Output
  BY <1>2 DEF Output
<1>6. Sound(s) /\ s.low = low
  BY <1>3, <1>4, <1>5, EmitSound
<1>7. s.low.run = RunOf(doc, at + 1)
  BY <1>1, <1>6, RunStays
<1> HIDE DEF s
<1> QED
  BY <1>1, <1>6, <1>7, Lowered DEF Becomes

(* So does LowerEnd.                                                         *)
LEMMA EndTap ==
    ASSUME TapInv, LowerEnd
    PROVE  TapInv' /\ low'.xxr = low.xxr
<1>1. Sound(Mutable) /\ Mutable.low = low /\ low \in Lows
  BY DEF TapInv, Mutable, Sound
<1>2. CASE Take("ENDDR") /\ Becomes([Mutable EXCEPT !.low.enddr = current.state])
  <2> DEFINE l == [low EXCEPT !.enddr = current.state]
             s == [Mutable EXCEPT !.low = l]
  <2>1. current \in Pauses
    BY <1>2, Taken, Kinds
  <2>2. l \in Lows /\ l.tap = low.tap /\ l.run = low.run /\ l.xxr = low.xxr
    BY <1>1, <2>1 DEF Lows, Pauses
  <2>3. Becomes(s)
    BY <1>1, <1>2 DEF Mutable
  <2> HIDE DEF l
  <2>4. Sound(s) /\ s.low = l
    BY <1>1, <2>2, RelowSound
  <2> HIDE DEF s
  <2>5. s.low.run = RunOf(doc, at + 1)
    BY <1>2, <2>2, <2>4, RunStays
  <2> QED
    BY <1>2, <2>2, <2>3, <2>4, <2>5, Lowered DEF Becomes
<1>3. CASE Take("ENDIR") /\ Becomes([Mutable EXCEPT !.low.endir = current.state])
  <2> DEFINE l == [low EXCEPT !.endir = current.state]
             s == [Mutable EXCEPT !.low = l]
  <2>1. current \in Pauses
    BY <1>3, Taken, Kinds
  <2>2. l \in Lows /\ l.tap = low.tap /\ l.run = low.run /\ l.xxr = low.xxr
    BY <1>1, <2>1 DEF Lows, Pauses
  <2>3. Becomes(s)
    BY <1>1, <1>3 DEF Mutable
  <2> HIDE DEF l
  <2>4. Sound(s) /\ s.low = l
    BY <1>1, <2>2, RelowSound
  <2> HIDE DEF s
  <2>5. s.low.run = RunOf(doc, at + 1)
    BY <1>3, <2>2, <2>4, RunStays
  <2> QED
    BY <1>3, <2>2, <2>3, <2>4, <2>5, Lowered DEF Becomes
<1> QED
  BY <1>2, <1>3 DEF LowerEnd
(* The last shift that comes out.                                            *)
LastShift(o) == o[Max({i \in DOMAIN o : o[i].stmt.k = "shift"})]

(* What comes out after it does not change it.                               *)
LEMMA ShiftStays ==
    ASSUME NEW o \in Seq(Emitted), NEW e \in Emitted
    PROVE  /\ e.stmt.k = "shift" => LastShift(Append(o, e)) = e
           /\ e.stmt.k # "shift" /\ (\E i \in DOMAIN o : o[i].stmt.k = "shift") =>
                 LastShift(Append(o, e)) = LastShift(o)
<1> DEFINE p == Append(o, e)
           S == {i \in DOMAIN o : o[i].stmt.k = "shift"}
           T == {i \in DOMAIN p : p[i].stmt.k = "shift"}
           n == Len(o)
<1>1. /\ n \in Nat /\ DOMAIN o = 1..n /\ DOMAIN p = 1..n + 1 /\ p[n + 1] = e
      /\ \A i \in 1..n : p[i] = o[i]
  BY AppendProperties, LenProperties
<1>2. LastShift(p) = p[Max(T)] /\ LastShift(o) = o[Max(S)]
  BY DEF LastShift
<1> HIDE DEF n, p
<1>3. ASSUME e.stmt.k = "shift" PROVE LastShift(p) = e
  <2>1. T \in SUBSET Nat /\ n + 1 \in T /\ n + 1 \in Nat /\ \A x \in T : x <= n + 1
    BY <1>1, <1>3
  <2> HIDE DEF T
  <2>2. Max(T) \in T /\ \A y \in T : Max(T) >= y
    BY <2>1, GreatestExists
  <2> DEFINE m == Max(T)
  <2>3. m \in Nat /\ m <= n + 1 /\ m >= n + 1
    BY <2>1, <2>2
  <2>4. m = n + 1
    BY <1>1, <2>3
  <2> QED
    BY <1>1, <1>2, <2>4
<1>4. ASSUME e.stmt.k # "shift", \E i \in DOMAIN o : o[i].stmt.k = "shift"
      PROVE  LastShift(p) = LastShift(o)
  <2>1. T = S
    BY <1>1, <1>4
  <2>2. S \in SUBSET Nat /\ S # {} /\ \A x \in S : x <= n
    BY <1>1, <1>4
  <2> HIDE DEF S, T
  <2>3. Max(S) \in S
    BY <1>1, <2>2, GreatestExists
  <2>4. Max(S) \in 1..n
    BY <1>1, <2>3 DEF S
  <2> QED
    BY <1>1, <1>2, <2>1, <2>4
<1> QED
  BY <1>3, <1>4 DEF p

(* A shift takes the controller through the pause to the state at its end.    *)
LEMMA ShiftSound ==
    ASSUME NEW s, Sound(s), NEW head \in Registers, NEW body \in Shifts, NEW tail \in Registers,
           NEW end \in Stable
    PROVE  LET t == ShiftThrough(s, head, body, tail, Pause(body), end)
               xxr == s.low.xxr
           IN  /\ Sound(t) /\ t.low = [s.low EXCEPT !.tap = end]
               /\ LastShift(t.out).stmt.bits = PrepareShift(xxr[head], xxr[body], xxr[tail])
<1> DEFINE xxr == s.low.xxr
           b == PrepareShift(xxr[head], xxr[body], xxr[tail])
           shift == [k |-> "shift", reg |-> body, bits |-> b]
           u == GoTo(s, Pause(body))
           v == Emit(u, shift)
           t == GoTo(v, end)
           e == [stmt |-> shift, at |-> u.chip]
<1>1. ShiftThrough(s, head, body, tail, Pause(body), end) = t
  BY DEF ShiftThrough
<1>2. Pause(body) \in Stable
  BY DEF Pause, Stable
<1>3. s.low \in Lows
  BY DEF Sound
<1>4. xxr[head] \in Xxrs /\ xxr[body] \in Xxrs /\ xxr[tail] \in Xxrs
  BY <1>3 DEF Lows, Registers
<1>5. b \in Passed
  BY <1>4, Shifted
<1> HIDE DEF b
<1>6. shift \in Passes /\ shift.k = "shift" /\ shift.reg = body /\ shift.bits = b
  BY <1>5 DEF Passes, Passed
<1> HIDE DEF shift
<1>7. Sound(u) /\ u.low = [s.low EXCEPT !.tap = Pause(body)] /\ u.chip = {Place[Pause(body)]}
  BY <1>2, GoToSound
<1> HIDE DEF u
<1>8. Met(e)
  BY <1>6, <1>7 DEF Met
<1>9. Sound(v) /\ v.low = u.low /\ v.out = Append(u.out, e)
  BY <1>6, <1>7, <1>8, EmitSound DEF Output
<1> HIDE DEF v
<1>10. /\ Sound(t) /\ t.low = [v.low EXCEPT !.tap = end]
       /\ t.out = v.out \/ Added(v.out, t.out, {"path"})
  BY <1>9, GoToSound
<1> HIDE DEF t
<1>11. t.low = [s.low EXCEPT !.tap = end]
  <2> DEFINE l == s.low
             p == Pause(body)
  <2>1. t.low = [[l EXCEPT !.tap = p] EXCEPT !.tap = end] /\ l \in Lows
    BY <1>3, <1>7, <1>9, <1>10
  <2> HIDE DEF l, p
  <2>2. [[l EXCEPT !.tap = p] EXCEPT !.tap = end] = [l EXCEPT !.tap = end]
    BY <2>1 DEF Lows
  <2> QED
    BY <2>1, <2>2 DEF l
<1>12. u.out \in Seq(Emitted) /\ v.out \in Seq(Emitted) /\ u.chip \in SUBSET Controllers
  BY <1>7, <1>9 DEF Sound
<1>13. e \in Emitted /\ e.stmt = shift
  BY <1>6, <1>12 DEF Emitted
<1> HIDE DEF e
<1>14. LastShift(v.out) = e
  BY <1>6, <1>9, <1>12, <1>13, ShiftStays
<1>15. \E i \in DOMAIN v.out : v.out[i].stmt.k = "shift"
  <2>1. v.out[Len(u.out) + 1] = e /\ Len(u.out) + 1 \in DOMAIN v.out
    BY <1>9, <1>12, <1>13, AppendProperties
  <2> QED
    BY <2>1, <1>6, <1>13
<1>16. LastShift(t.out) = e
  <2>1. CASE t.out = v.out
    BY <1>14, <2>1
  <2>2. CASE Added(v.out, t.out, {"path"})
    <3>1. PICK a \in Emitted : t.out = Append(v.out, a) /\ a.stmt.k = "path"
      BY <2>2 DEF Added
    <3> QED
      BY <3>1, <1>12, <1>14, <1>15, ShiftStays
  <2> QED
    BY <1>10, <2>1, <2>2
<1> QED
  BY <1>1, <1>6, <1>10, <1>11, <1>13, <1>16 DEF b

(* Of the two kinds of shift, which registers are shifted and where to.       *)
Header(reg)  == IF reg = "sdr" THEN "hdr" ELSE "hir"
Trailer(reg) == IF reg = "sdr" THEN "tdr" ELSE "tir"
Ending(reg)  == IF reg = "sdr" THEN low.enddr ELSE low.endir

(* What is kept of a register is merged with a statement of it.               *)
LEMMA MergedSound ==
    ASSUME TapInv, Take("xxr"), CanMerge(low.xxr[current.reg], current)
    PROVE  LET l == [low EXCEPT !.xxr = [low.xxr EXCEPT ![current.reg] =
                                            MergeXxr(low.xxr[current.reg], current)]]
           IN  l \in Lows /\ Sound(Merged) /\ Merged.low = l
<1> DEFINE m == MergeXxr(low.xxr[current.reg], current)
           x == [low.xxr EXCEPT ![current.reg] = m]
           l == [low EXCEPT !.xxr = x]
<1>1. current \in Given /\ low \in Lows
  BY Taken, Kinds
<1>2. low.xxr \in [Registers -> Xxrs] /\ current.reg \in Registers
  BY <1>1 DEF Lows, Given
<1>3. m \in Xxrs
  BY <1>1, <1>2, MergesOther, MergesSame
<1>4. Merged = [Mutable EXCEPT !.low = l]
  BY DEF Merged, Mutable
<1> HIDE DEF m
<1>5. x \in [Registers -> Xxrs]
  BY <1>2, <1>3
<1> HIDE DEF x
<1>6. l \in Lows /\ l.tap = low.tap
  BY <1>1, <1>5 DEF Lows
<1> HIDE DEF l
<1>7. Sound(Mutable) /\ Mutable.low = low
  BY DEF TapInv, Mutable
<1>8. Sound(Merged) /\ Merged.low = l
  BY <1>4, <1>6, <1>7, RelowSound
<1> QED
  BY <1>6, <1>8 DEF l, x, m

(* What a statement of a register becomes.                                   *)
LEMMA XxrTaken ==
    ASSUME LowerXxr
    PROVE  /\ Take("xxr")
           /\ \/ Throws
              \/ /\ CanMerge(low.xxr[current.reg], current)
                 /\ \/ current.reg \notin Shifts /\ Becomes(Merged)
                    \/ /\ current.reg \in Shifts
                       /\ Becomes(ShiftThrough(Merged, Header(current.reg), current.reg,
                                    Trailer(current.reg), Pause(current.reg), Ending(current.reg)))
BY DEF LowerXxr, Shifts, Header, Trailer, Pause, Ending
(* LowerXxr keeps it.                                                        *)
LEMMA XxrTap ==
    ASSUME TapInv, LowerXxr
    PROVE  TapInv'
<1>1. Take("xxr")
  BY XxrTaken
<1>2. RunOf(doc, at + 1) = low.run /\ current \in Given /\ low \in Lows
  BY <1>1, RunStays, Taken, Kinds
<1>3. CASE Throws
  BY <1>1, <1>3, Thrown
<1>4. CASE CanMerge(low.xxr[current.reg], current)
  <2>1. Sound(Merged) /\ Merged.low.run = low.run
    BY <1>1, <1>2, <1>4, MergedSound DEF Lows
  <2>2. CASE Becomes(Merged)
    BY <1>1, <1>2, <2>1, <2>2, Lowered
  <2>3. CASE /\ current.reg \in Shifts
             /\ Becomes(ShiftThrough(Merged, Header(current.reg), current.reg,
                          Trailer(current.reg), Pause(current.reg), Ending(current.reg)))
    <3> DEFINE s == ShiftThrough(Merged, Header(current.reg), current.reg,
                      Trailer(current.reg), Pause(current.reg), Ending(current.reg))
    <3>1. /\ Header(current.reg) \in Registers /\ Trailer(current.reg) \in Registers
          /\ Ending(current.reg) \in Stable
      BY <1>2 DEF Header, Trailer, Registers, Ending, Lows
    <3>2. Sound(s) /\ s.low = [Merged.low EXCEPT !.tap = Ending(current.reg)]
      BY <2>1, <2>3, <3>1, ShiftSound
    <3>5. Becomes(s)
      BY <2>3
    <3>3. Merged.low \in Lows
      BY <2>1 DEF Sound
    <3> HIDE DEF s
    <3>4. s.low.run = low.run
      BY <2>1, <3>2, <3>3 DEF Lows
    <3> QED
      BY <1>1, <2>3, <3>2, <3>4, <3>5, LoweredPlain
  <2> QED
    BY <1>4, <2>2, <2>3, XxrTaken, <1>3
<1> QED
  BY <1>3, <1>4, XxrTaken

(* So does LowerState.                                                       *)
LEMMA StateTap ==
    ASSUME TapInv, LowerState
    PROVE  TapInv' /\ low'.xxr = low.xxr
<1> DEFINE path == current.path
           from == IF low.tap = "unknown" THEN "reset" ELSE low.tap
<1>1. /\ Take("state")
      /\ IF Len(path) = 1
         THEN Becomes(MakeTmsPath(Mutable, DefaultWay(path[1]), path[1]))
         ELSE IF IsPath(from, path)
         THEN Becomes(MakeTmsPath(Mutable, ExplicitWay(path), Last(path)))
         ELSE Throws
  BY DEF LowerState
<1>2. RunOf(doc, at + 1) = low.run /\ current \in Routes /\ low \in Lows
  BY <1>1, RunStays, Taken, Kinds
<1>3. Sound(Mutable) /\ Mutable.low = low /\ from = From(Mutable)
  BY DEF TapInv, Mutable, From
<1>4. from \in Stable /\ from \in Names
  <2>1. from \in Stable
    BY <1>2 DEF Lows, Stable
  <2> QED
    BY <2>1, StableNames
<1>5. path \in Seq(Names \cup {"unknown"}) /\ path # <<>> /\ Last(path) = path[Len(path)]
      /\ Last(path) \in Stable
  BY <1>2 DEF Routes, Last
<1> HIDE DEF path, from
<1>6. ASSUME NEW way, NEW final \in Stable, way[from] \in Seq({0, 1}),
             Visited(Place[from], way[from])[Len(way[from])] = Place[final],
             Becomes(MakeTmsPath(Mutable, way, final))
      PROVE  TapInv' /\ low'.xxr = low.xxr
  <2> DEFINE s == MakeTmsPath(Mutable, way, final)
  <2>1. Sound(s) /\ s.low = [low EXCEPT !.tap = final]
    BY <1>3, <1>6, PathSound
  <2>2. s.low.run = low.run /\ s.low.xxr = low.xxr
    BY <1>2, <2>1 DEF Lows
  <2>3. Becomes(s)
    BY <1>6
  <2> HIDE DEF s
  <2> QED
    BY <1>1, <2>1, <2>2, <2>3, LoweredPlain DEF Becomes
<1>7. CASE Len(path) = 1
  <2>1. path[1] \in Stable
    BY <1>5, <1>7
  <2> DEFINE way == DefaultWay(path[1])
  <2>2. way[from] = DefaultPath[from][path[1]]
    BY <1>4 DEF DefaultWay
  <2>3. Becomes(MakeTmsPath(Mutable, way, path[1]))
    BY <1>1, <1>7
  <2> HIDE DEF way
  <2>4. way[from] \in Seq({0, 1}) /\ Visited(Place[from], way[from])[Len(way[from])] = Place[path[1]]
    BY <1>4, <2>1, <2>2, DefaultWays
  <2> QED
    BY <1>6, <2>1, <2>3, <2>4
<1>8. CASE Len(path) # 1 /\ IsPath(from, path)
  <2> DEFINE way == ExplicitWay(path)
  <2>1. way[from] = ExplicitPath(from, path)
    BY <1>4 DEF ExplicitWay, Names
  <2>2. Becomes(MakeTmsPath(Mutable, way, Last(path)))
    BY <1>1, <1>8
  <2> HIDE DEF way
  <2>3. /\ way[from] \in Seq({0, 1})
        /\ Visited(Place[from], way[from])[Len(way[from])] = Place[Last(path)]
    <3>1. /\ ExplicitPath(from, path) \in Seq({0, 1})
          /\ Visited(Place[from], ExplicitPath(from, path))[Len(ExplicitPath(from, path))]
             = Place[path[Len(path)]]
      BY <1>4, <1>5, <1>8, ExplicitWays
    <3> QED
      BY <1>5, <2>1, <3>1
  <2> QED
    BY <1>5, <1>6, <2>2, <2>3
<1>9. CASE Len(path) # 1 /\ ~IsPath(from, path)
  BY <1>1, <1>9, Thrown DEF Throws
<1> QED
  BY <1>7, <1>8, <1>9

(* So does LowerRuntest.                                                     *)
LEMMA RuntestTap ==
    ASSUME TapInv, LowerRuntest
    PROVE  TapInv' /\ low'.xxr = low.xxr
<1> DEFINE run == Known(current.run, low.run)
           end == Known(current.end, low.end)
           l == [low EXCEPT !.run = run, !.end = end]
           s == [Mutable EXCEPT !.low = l]
           u == GoTo(s, run)
           v == Emit(u, current)
           t == GoTo(v, end)
           e == [stmt |-> current, at |-> u.chip]
<1>1. Take("runtest")
  BY DEF LowerRuntest
<1>2. Becomes(t)
  <2>1. [Mutable EXCEPT !.low.run = run, !.low.end = end] = s
    <3> HIDE DEF run, end
    <3> QED
      BY DEF Mutable
  <2> QED
    BY <2>1 DEF LowerRuntest
<1>3. current \in Runtests /\ low \in Lows /\ current = doc[at + 1] /\ current.k = "runtest"
  BY <1>1, Taken, Kinds DEF current
<1>4. run \in Stable /\ end \in Stable
  BY <1>3 DEF Known, Runtests, Lows
<1>5. run = RunOf(doc, at + 1)
  <2>1. at \in Nat /\ low.run = RunOf(doc, at)
    BY <1>1, Taken, RunStates DEF TapInv
  <2> QED
    BY <1>3, <2>1, RunsOn DEF Known
<1>6. Sound(Mutable) /\ Mutable.low = low
  BY DEF TapInv, Mutable
<1> HIDE DEF run, end
<1>7. l \in Lows /\ l.tap = low.tap /\ l.run = run /\ l.xxr = low.xxr
  BY <1>3, <1>4 DEF Lows
<1> HIDE DEF l
<1>8. Sound(s) /\ s.low = l
  BY <1>6, <1>7, RelowSound
<1> HIDE DEF s
<1>9. Sound(u) /\ u.low = [l EXCEPT !.tap = run] /\ u.chip = {Place[run]}
  BY <1>4, <1>8, GoToSound
<1> HIDE DEF u
<1>10. Met(e)
  BY <1>3 DEF Met
<1>11. Sound(v) /\ v.low = u.low /\ v.out = Append(u.out, e)
  BY <1>3, <1>9, <1>10, EmitSound DEF Output
<1> HIDE DEF v
<1>12. /\ Sound(t) /\ t.low = [v.low EXCEPT !.tap = end]
       /\ t.out = v.out \/ Added(v.out, t.out, {"path"})
  BY <1>4, <1>11, GoToSound
<1>13. t.low.run = run /\ t.low.xxr = low.xxr
  BY <1>7, <1>9, <1>11, <1>12 DEF Lows
<1>19. low' = t.low
  BY <1>2 DEF Becomes
<1> HIDE DEF t
<1>14. u.out \in Seq(Emitted) /\ v.out \in Seq(Emitted) /\ u.chip \in SUBSET Controllers
  BY <1>9, <1>11 DEF Sound
<1>15. e \in Emitted /\ e.stmt = current /\ e.at = {Place[run]}
  BY <1>3, <1>9, <1>14 DEF Emitted
<1> HIDE DEF e
<1>16. v.out[Len(v.out)] = e /\ Len(v.out) \in Nat \ {0}
  BY <1>11, <1>14, <1>15, AppendProperties, LenProperties
<1>17. LastRun(t.out, run)
  <2>1. v.out[Len(v.out)].stmt.k = "runtest" /\ v.out[Len(v.out)].at = {Place[run]}
    BY <1>3, <1>15, <1>16
  <2>2. CASE t.out = v.out
    <3>1. \A j \in Len(v.out) + 1..Len(v.out) : FALSE
      BY <1>16
    <3> QED
      BY <1>16, <2>1, <2>2, <3>1 DEF LastRun
  <2>3. CASE Added(v.out, t.out, {"path"})
    <3>1. PICK a \in Emitted : t.out = Append(v.out, a) /\ a.stmt.k = "path"
      BY <2>3 DEF Added
    <3>2. /\ Len(t.out) = Len(v.out) + 1 /\ t.out[Len(v.out) + 1] = a
          /\ t.out[Len(v.out)] = v.out[Len(v.out)]
      BY <1>14, <1>16, <3>1, AppendProperties
    <3>3. \A j \in Len(v.out) + 1..Len(t.out) : t.out[j].stmt.k # "runtest"
      BY <1>16, <3>1, <3>2
    <3> QED
      BY <1>16, <2>1, <3>2, <3>3 DEF LastRun
  <2> QED
    BY <1>12, <2>2, <2>3
<1> QED
  BY <1>1, <1>2, <1>5, <1>12, <1>13, <1>17, <1>19, Lowered
-----------------------------------------------------------------------------
(* A command adds statements to the file.                                    *)
LEMMA ParseTypes ==
    ASSUME TapInv, NEW c \in Commands, Parse(c)
    PROVE  doc' \in Seq(Statements)
<1>1. c.tokens \in Seq(Tokens) /\ c.comments \in Nat /\ doc \in Seq(Statements)
  BY CommandsAssumption DEF TapInv
<1> DEFINE stmt == ParseCommand(c.tokens)
           other == [i \in 1..c.comments |-> [k |-> "other"]]
<1>2. Outcome(stmt)
  BY <1>1, ParsedCommand
<1>3. other \in Seq(Statements)
  <2>1. [k |-> "other"] \in Statements
    BY DEF Statements, Others
  <2> QED
    BY <1>1, <2>1
<1>4. doc' = doc \/ (stmt.k \notin {"refused", "hung"} /\ doc' = Append(doc \o other, stmt))
  BY DEF Parse
<1> HIDE DEF stmt, other
<1>5. CASE stmt.k \notin {"refused", "hung"} /\ doc' = Append(doc \o other, stmt)
  <2>1. stmt \in Statements
    BY <1>2, <1>5 DEF Outcome, Refused, Hung
  <2> DEFINE before == doc \o other
  <2>2. before \in Seq(Statements)
    BY <1>1, <1>3, ConcatProperties, Zenon
  <2>3. doc' = Append(before, stmt)
    BY <1>5
  <2> HIDE DEF before
  <2> QED
    BY <2>1, <2>2, <2>3, AppendProperties
<1> QED
  BY <1>1, <1>4, <1>5

(* At first nothing is lowered.                                              *)
LEMMA FirstTap == Init => TapInv
<1> SUFFICES ASSUME Init PROVE TapInv
  OBVIOUS
<1>1. NoXxr \in Xxrs
  BY NoBytes DEF NoXxr, Xxrs, Sized, Bits
<1>2. low \in Lows /\ low.tap = "unknown" /\ low.run = "idle"
  BY <1>1 DEF Init, Lows, Stable
<1>3. out = <<>> /\ chip = Controllers /\ doc = <<>> /\ at = 0
  BY DEF Init
<1>4. Sound(Mutable)
  BY <1>2, <1>3 DEF Sound, Mutable
<1> QED
  BY <1>2, <1>3, <1>4, RunStates, RunsFirst DEF TapInv, RuntestMet

(* Each step keeps the locals, what is out and the controller in agreement.   *)
LEMMA NextTap == TapInv /\ [Next]_vars => TapInv'
<1> SUFFICES ASSUME TapInv, [Next]_vars PROVE TapInv'
  OBVIOUS
<1>1. ASSUME doc' \in Seq(Statements), at' = at, status = "parsing",
             low' = low, out' = out, chip' = chip
      PROVE  TapInv'
  <2>1. at' = 0 /\ at = 0 /\ low.run = RunOf(doc, 0)
    BY <1>1, RunStates DEF TapInv
  <2>2. Mutable' = Mutable
    BY <1>1 DEF Mutable
  <2>3. Sound(Mutable)'
    BY <2>2 DEF TapInv, Sound, Met
  <2>4. (low.run = RunState(at))'
    BY <1>1, <2>1, RunStates, RunsFirst
  <2>5. (at \in 0..Len(doc))'
    BY <1>1, <2>1
  <2>6. RuntestMet'
    BY <2>1 DEF RuntestMet
  <2> QED
    BY <1>1, <2>1, <2>3, <2>4, <2>5, <2>6 DEF TapInv
<1>2. CASE \E c \in Commands : Parse(c)
  <2>1. PICK c \in Commands : Parse(c)
    BY <1>2
  <2>2. doc' \in Seq(Statements)
    BY <2>1, ParseTypes
  <2> QED
    BY <1>1, <2>1, <2>2 DEF Parse
<1>3. CASE EndOfFile
  BY <1>1, <1>3 DEF EndOfFile, TapInv
<1>4. CASE LowerOther \/ LowerEnd \/ LowerXxr \/ LowerState \/ LowerRuntest
  BY <1>4, OtherTap, EndTap, XxrTap, StateTap, RuntestTap
<1>5. CASE UNCHANGED vars
  <2>1. /\ doc' = doc /\ at' = at /\ status' = status
        /\ low' = low /\ out' = out /\ chip' = chip
    BY <1>5 DEF vars
  <2>2. Mutable' = Mutable
    BY <2>1 DEF Mutable
  <2>3. Sound(Mutable)'
    BY <2>2 DEF TapInv, Sound, Met
  <2>4. (low.run = RunState(at))' /\ RuntestMet'
    BY <2>1, RunStates DEF TapInv, RuntestMet
  <2> QED
    BY <2>1, <2>3, <2>4 DEF TapInv
<1> QED
  BY <1>2, <1>3, <1>4, <1>5 DEF Next

(* The controller is where the lowering takes it to be, whatever the file.    *)
THEOREM TapFollowed == Spec => []TapAgrees
<1>1. TapInv => TapAgrees
  <2> SUFFICES ASSUME TapInv PROVE TapAgrees
    OBVIOUS
  <2>1. low.tap = "unknown" \/ chip = {Place[low.tap]}
    BY DEF TapInv, Sound, Mutable
  <2>2. /\ out \in Seq(Emitted) /\ DOMAIN out = 1..Len(out)
        /\ \A i \in 1..Len(out) : Met(out[i])
    BY LenProperties DEF TapInv, Sound, Mutable
  <2>3. \A i \in DOMAIN out :
            LET stmt == out[i].stmt
            IN  /\ stmt.k = "path" => Follow(out[i].at, stmt.path) = {Place[stmt.final]}
                /\ stmt.k = "shift" =>
                      out[i].at = {Place[IF stmt.reg = "sdr" THEN "drpause" ELSE "irpause"]}
    BY <2>2 DEF Met, Pause
  <2>4. at > 0 /\ doc[at].k = "runtest" =>
            \E i \in DOMAIN out :
                /\ out[i].stmt.k = "runtest" /\ out[i].at = {Place[RunState(at)]}
                /\ \A j \in i + 1..Len(out) : out[j].stmt.k # "runtest"
    BY <2>2 DEF TapInv, RuntestMet, LastRun
  <2> QED
    BY <2>1, <2>3, <2>4 DEF TapAgrees
<1> QED
  BY <1>1, FirstTap, NextTap, PTL DEF Spec
-----------------------------------------------------------------------------
(* The statements of a register, among the first n of a document, since its    *)
(* length is what it is, and what they give.                                 *)
AllOf(d, n, reg) == {i \in 1..n : d[i].k = "xxr" /\ d[i].reg = reg}

SeriesOf(d, n, reg) ==
    {i \in AllOf(d, n, reg) :
        \A j \in AllOf(d, n, reg) : j >= i => d[j].length = d[Max(AllOf(d, n, reg))].length}

HavingOf(d, n, reg, f) == {i \in SeriesOf(d, n, reg) : d[i][f] # <<>>}

LengthOf(d, n, reg) ==
    IF SeriesOf(d, n, reg) = {} THEN 0 ELSE d[Max(SeriesOf(d, n, reg))].length

OverlongOf(d, n, reg) ==
    \E i \in SeriesOf(d, n, reg), f \in Fields :
        /\ \E j \in SeriesOf(d, n, reg) : j < i
        /\ \E b \in d[i].length + 1..Len(d[i][f]) : d[i][f][b]

MixedOf(d, n, reg) ==
    /\ HavingOf(d, n, reg, "tdo") # SeriesOf(d, n, reg)
    /\ HavingOf(d, n, reg, "tdo") \cup HavingOf(d, n, reg, "mask") # {}

(* What is known of a register after n statements.                           *)
LEMMA SeriesIn ==
    ASSUME NEW d \in Seq(Statements), NEW n \in 0..Len(d), NEW reg
    PROVE  LET A == AllOf(d, n, reg)
               S == SeriesOf(d, n, reg)
           IN  /\ S \subseteq A /\ (S = {} <=> A = {})
               /\ A # {} => /\ Max(A) \in A /\ \A j \in A : j <= Max(A)
                            /\ LengthOf(d, n, reg) = d[Max(A)].length
               /\ \A i \in A : i \in 1..n /\ d[i] \in Given /\ d[i].reg = reg
               /\ \A i \in S : d[i].length = LengthOf(d, n, reg)
<1> DEFINE A == AllOf(d, n, reg)
           S == SeriesOf(d, n, reg)
<1>1. Len(d) \in Nat /\ n \in Nat /\ A \in SUBSET Nat /\ \A i \in A : i <= n
  BY DEF AllOf
<1>2. ASSUME NEW i \in A PROVE i \in 1..n /\ d[i] \in Given /\ d[i].reg = reg
  <2>1. i \in 1..n /\ d[i].k = "xxr" /\ d[i].reg = reg
    BY DEF AllOf
  <2>2. d[i] \in Statements
    BY <1>1, <2>1
  <2> QED
    BY <2>1, <2>2, Kinds
<1>3. S = {i \in A : \A j \in A : j >= i => d[j].length = d[Max(A)].length}
  BY DEF SeriesOf
<1>4. LengthOf(d, n, reg) = IF S = {} THEN 0 ELSE d[Max(S)].length
  BY DEF LengthOf
<1> HIDE DEF A, S
<1>5. ASSUME A # {}
      PROVE  Max(A) \in A /\ (\A j \in A : j <= Max(A)) /\ Max(A) \in S
  <2>1. Max(A) \in A /\ \A j \in A : Max(A) >= j
    BY <1>1, <1>5, GreatestExists
  <2> DEFINE a == Max(A)
  <2>4. a \in Nat /\ \A j \in A : j \in Nat /\ a >= j
    BY <1>1, <2>1
  <2> HIDE DEF a
  <2>5. \A j \in A : j >= a => j = a
    BY <2>4
  <2>2. \A j \in A : j >= Max(A) => j = Max(A)
    BY <2>5 DEF a
  <2>3. Max(A) \in S
    BY <1>3, <2>1, <2>2
  <2> QED
    BY <1>1, <2>1, <2>3
<1>6. ASSUME A # {} PROVE Max(S) = Max(A)
  <2>1. S \in SUBSET Nat /\ S # {} /\ \A x \in S : x <= n
    BY <1>1, <1>3, <1>5, <1>6
  <2>2. Max(S) \in S /\ \A y \in S : Max(S) >= y
    BY <1>1, <2>1, GreatestExists
  <2> DEFINE a == Max(A)
             s == Max(S)
  <2>3. a \in Nat /\ s \in Nat /\ s <= a /\ a <= s
    BY <1>1, <1>3, <1>5, <1>6, <2>1, <2>2
  <2> HIDE DEF a, s
  <2>4. a = s
    BY <2>3
  <2> QED
    BY <2>4 DEF a, s
<1>7. S \subseteq A
  BY <1>3
<1>8. S = {} <=> A = {}
  BY <1>5, <1>7
<1>9. A # {} => LengthOf(d, n, reg) = d[Max(A)].length
  BY <1>4, <1>6, <1>8
<1>10. ASSUME NEW i \in S PROVE d[i].length = LengthOf(d, n, reg)
  <2>1. i \in A /\ A # {}
    BY <1>7
  <2>2. i <= Max(A) /\ i \in Nat /\ Max(A) \in A /\ Max(A) \in Nat
    BY <1>1, <1>5, <2>1
  <2>3. d[i].length = d[Max(A)].length
    BY <1>3, <2>1, <2>2
  <2> QED
    BY <1>9, <2>1, <2>3
<1> QED
  BY <1>2, <1>5, <1>7, <1>8, <1>9, <1>10 DEF A, S

(* A statement of another kind or register changes nothing of it; one that     *)
(* does not change the length is added; another is the only one.              *)
LEMMA SeriesOn ==
    ASSUME NEW d \in Seq(Statements), NEW n \in Nat, n + 1 \in 1..Len(d), NEW reg
    PROVE  LET S == SeriesOf(d, n, reg)
               T == SeriesOf(d, n + 1, reg)
               ofReg == d[n + 1].k = "xxr" /\ d[n + 1].reg = reg
           IN  /\ ~ofReg => T = S
               /\ ofReg => LengthOf(d, n + 1, reg) = d[n + 1].length
               /\ ofReg /\ LengthOf(d, n, reg) = d[n + 1].length => T = S \cup {n + 1}
               /\ ofReg /\ LengthOf(d, n, reg) # d[n + 1].length => T = {n + 1}
<1> DEFINE A == AllOf(d, n, reg)
           B == AllOf(d, n + 1, reg)
           S == SeriesOf(d, n, reg)
           T == SeriesOf(d, n + 1, reg)
           ofReg == d[n + 1].k = "xxr" /\ d[n + 1].reg = reg
           L == d[n + 1].length
<1>1. n \in 0..Len(d) /\ n + 1 \in 0..Len(d)
  OBVIOUS
<1>2. /\ S = {i \in A : \A j \in A : j >= i => d[j].length = d[Max(A)].length}
      /\ T = {i \in B : \A j \in B : j >= i => d[j].length = d[Max(B)].length}
  BY DEF SeriesOf
<1>3. B = IF ofReg THEN A \cup {n + 1} ELSE A
  BY DEF AllOf
<1>4. A \subseteq 1..n
  BY DEF AllOf
<1>5. /\ S = {} <=> A = {}
      /\ A # {} => /\ Max(A) \in A /\ \A j \in A : j <= Max(A)
                   /\ LengthOf(d, n, reg) = d[Max(A)].length
      /\ B # {} => /\ Max(B) \in B /\ \A j \in B : j <= Max(B)
                   /\ LengthOf(d, n + 1, reg) = d[Max(B)].length
  BY <1>1, SeriesIn
<1>6. A = {} => LengthOf(d, n, reg) = 0
  BY <1>5 DEF LengthOf
<1> HIDE DEF A, B, S, T, ofReg
<1>7. ASSUME ~ofReg PROVE T = S
  BY <1>2, <1>3, <1>7
<1>8. ASSUME ofReg PROVE Max(B) = n + 1 /\ LengthOf(d, n + 1, reg) = L
  <2> DEFINE b == Max(B)
  <2>1. n + 1 \in B /\ B \subseteq 1..n + 1
    BY <1>3, <1>4, <1>8
  <2>2. b \in B /\ \A j \in B : j <= b
    BY <1>5, <2>1
  <2> HIDE DEF b
  <2>5. b \in 1..n + 1 /\ n + 1 <= b
    BY <2>1, <2>2
  <2>3. b \in Nat /\ b <= n + 1 /\ n + 1 <= b
    BY <2>5
  <2>4. b = n + 1
    BY <2>3
  <2> QED
    BY <1>5, <2>1, <2>4 DEF b
<1>9. ASSUME ofReg, LengthOf(d, n, reg) = L PROVE T = S \cup {n + 1}
  <2>1. B = A \cup {n + 1} /\ d[Max(B)].length = L
    BY <1>3, <1>8, <1>9
  <2>2. A # {} => d[Max(A)].length = L
    BY <1>5, <1>9
  <2>3. ASSUME NEW i \in A
        PROVE  i \in T <=> i \in S
    <3>1. i \in T <=> \A j \in B : j >= i => d[j].length = L
      BY <1>2, <2>1
    <3>2. i \in S <=> \A j \in A : j >= i => d[j].length = L
      BY <1>2, <2>2
    <3> QED
      BY <2>1, <3>1, <3>2
  <2>4. n + 1 \in T
    <3>1. \A j \in B : j >= n + 1 => j = n + 1
      BY <1>4, <2>1
    <3> QED
      BY <1>2, <2>1, <3>1
  <2>5. S \subseteq A /\ T \subseteq B
    BY <1>2
  <2> QED
    BY <2>1, <2>3, <2>4, <2>5
<1>10. ASSUME ofReg, LengthOf(d, n, reg) # L PROVE T = {n + 1}
  <2>1. B = A \cup {n + 1} /\ d[Max(B)].length = L
    BY <1>3, <1>8, <1>10
  <2>2. ASSUME NEW i \in A PROVE i \notin T
    <3>1. Max(A) \in A /\ i <= Max(A) /\ d[Max(A)].length # L
      BY <1>5, <1>10
    <3>2. Max(A) \in B /\ Max(A) >= i
      BY <1>4, <2>1, <3>1
    <3> QED
      BY <1>2, <2>1, <3>1, <3>2
  <2>3. n + 1 \in T
    <3>1. \A j \in B : j >= n + 1 => j = n + 1
      BY <1>4, <2>1
    <3> QED
      BY <1>2, <2>1, <3>1
  <2>4. T \subseteq B
    BY <1>2
  <2> QED
    BY <2>1, <2>2, <2>3, <2>4
<1> QED
  BY <1>7, <1>8, <1>9, <1>10 DEF S, T, ofReg
(* The bit that is meant, that of the last vector that was given, or one.     *)
Holds(d, n, reg, f, i) ==
    HavingOf(d, n, reg, f) = {} \/ d[Max(HavingOf(d, n, reg, f))][f][i]

Keeps(v, length, d, n, reg, f) == \A i \in 1..RoundUp(length) : v[i] <=> i <= length /\ Holds(d, n, reg, f, i)

Nothing(v, length) == \A i \in 1..RoundUp(length) : ~v[i]

(* What the lowering keeps of the statements of a register.                  *)
RegisterKept(d, n, reg, x) ==
    /\ x.length = LengthOf(d, n, reg)
    /\ ~OverlongOf(d, n, reg) =>
          /\ Keeps(x.tdi, x.length, d, n, reg, "tdi")
          /\ Keeps(x.smask, x.length, d, n, reg, "smask")
          /\ ~MixedOf(d, n, reg) =>
                IF HavingOf(d, n, reg, "tdo") = {}
                THEN Nothing(x.mask, x.length) /\ Nothing(x.tdo, x.length)
                ELSE /\ Keeps(x.mask, x.length, d, n, reg, "mask")
                     /\ Keeps(x.tdo, x.length, d, n, reg, "tdo")

(* A vector that a statement gives is the last one; when it gives none, the    *)
(* one before stays.                                                         *)
LEMMA HavingOn ==
    ASSUME NEW d \in Seq(Statements), NEW n \in Nat, n + 1 \in 1..Len(d), NEW reg, NEW f \in Fields,
           d[n + 1].k = "xxr", d[n + 1].reg = reg
    PROVE  LET given == d[n + 1][f]
               H == HavingOf(d, n, reg, f)
               G == HavingOf(d, n + 1, reg, f)
               same == LengthOf(d, n, reg) = d[n + 1].length
           IN  /\ given # <<>> => n + 1 \in G /\ \A i : Holds(d, n + 1, reg, f, i) <=> given[i]
               /\ given = <<>> /\ same => G = H /\ \A i : Holds(d, n + 1, reg, f, i) <=> Holds(d, n, reg, f, i)
               /\ H \subseteq 1..n
<1> DEFINE given == d[n + 1][f]
           H == HavingOf(d, n, reg, f)
           G == HavingOf(d, n + 1, reg, f)
           S == SeriesOf(d, n, reg)
           T == SeriesOf(d, n + 1, reg)
           same == LengthOf(d, n, reg) = d[n + 1].length
<1>1. (same => T = S \cup {n + 1}) /\ (~same => T = {n + 1})
  BY SeriesOn
<1>2. H = {i \in S : d[i][f] # <<>>} /\ G = {i \in T : d[i][f] # <<>>}
  BY DEF HavingOf
<1>3. S \subseteq 1..n
  <2>1. n \in 0..Len(d)
    OBVIOUS
  <2> HIDE DEF S
  <2> QED
    BY <2>1, SeriesIn DEF AllOf, S
<1>4. \A i : (Holds(d, n, reg, f, i) <=> H = {} \/ d[Max(H)][f][i])
             /\ (Holds(d, n + 1, reg, f, i) <=> G = {} \/ d[Max(G)][f][i])
  BY DEF Holds
<1>9. T = S \cup {n + 1} \/ T = {n + 1}
  BY <1>1
<1> HIDE DEF H, G, S, T, same
<1>5. ASSUME given # <<>>
      PROVE  n + 1 \in G /\ \A i : Holds(d, n + 1, reg, f, i) <=> given[i]
  <2>6. n + 1 \in T /\ T \subseteq 1..n + 1
    <3>1. n + 1 \in T
      BY <1>9, Zenon
    <3>2. S \cup {n + 1} \subseteq 1..n + 1
      BY <1>3
    <3>3. {n + 1} \subseteq 1..n + 1
      OBVIOUS
    <3> QED
      BY <1>9, <3>1, <3>2, <3>3, Zenon
  <2>7. n + 1 \in G
    BY <1>2, <1>5, <2>6, Zenon
  <2>1. n + 1 \in G /\ G \subseteq 1..n + 1
    BY <1>2, <2>6, <2>7
  <2>2. G \in SUBSET Nat /\ n + 1 \in Nat /\ \A x \in G : x <= n + 1
    BY <2>1
  <2>3. Max(G) \in G /\ \A y \in G : Max(G) >= y
    BY <2>1, <2>2, GreatestExists
  <2> DEFINE b == Max(G)
  <2> HIDE DEF b
  <2>4. b \in 1..n + 1 /\ n + 1 <= b
    BY <2>1, <2>3 DEF b
  <2>5. b = n + 1
    BY <2>4
  <2> QED
    BY <1>4, <2>1, <2>5 DEF b
<1>6. ASSUME given = <<>>, same
      PROVE  G = H /\ \A i : Holds(d, n + 1, reg, f, i) <=> Holds(d, n, reg, f, i)
  <2>1. G = H
    BY <1>1, <1>2, <1>6
  <2> QED
    BY <1>4, <2>1
<1>8. H \subseteq 1..n
  BY <1>2, <1>3
<1> QED
  BY <1>5, <1>6, <1>8 DEF H, G, same

(* It does not stay when the length changes.                                 *)
LEMMA HavingNone ==
    ASSUME NEW d \in Seq(Statements), NEW n \in Nat, n + 1 \in 1..Len(d), NEW reg, NEW f \in Fields,
           d[n + 1].k = "xxr", d[n + 1].reg = reg, LengthOf(d, n, reg) # d[n + 1].length,
           d[n + 1][f] = <<>>
    PROVE  HavingOf(d, n + 1, reg, f) = {} /\ \A i : Holds(d, n + 1, reg, f, i)
<1> DEFINE T == SeriesOf(d, n + 1, reg)
<1>1. T = {n + 1}
  BY SeriesOn
<1>2. HavingOf(d, n + 1, reg, f) = {i \in T : d[i][f] # <<>>}
  BY DEF HavingOf
<1> HIDE DEF T
<1>3. HavingOf(d, n + 1, reg, f) = {}
  BY <1>1, <1>2
<1> QED
  BY <1>3 DEF Holds

(* While the length stays, a statement that follows another may not have bits  *)
(* beyond it.                                                                *)
LEMMA OverlongOn ==
    ASSUME NEW d \in Seq(Statements), NEW n \in Nat, n + 1 \in 1..Len(d), NEW reg,
           d[n + 1].k = "xxr", d[n + 1].reg = reg, LengthOf(d, n, reg) = d[n + 1].length,
           ~OverlongOf(d, n + 1, reg)
    PROVE  /\ ~OverlongOf(d, n, reg)
           /\ SeriesOf(d, n, reg) # {} =>
                 \A f \in Fields : \A b \in d[n + 1].length + 1..Len(d[n + 1][f]) : ~d[n + 1][f][b]
<1> DEFINE S == SeriesOf(d, n, reg)
           T == SeriesOf(d, n + 1, reg)
           beyond(i, f) == \E b \in d[i].length + 1..Len(d[i][f]) : d[i][f][b]
<1>1. T = S \cup {n + 1}
  BY SeriesOn
<1>2. S \subseteq 1..n
  <2>1. n \in 0..Len(d)
    OBVIOUS
  <2> HIDE DEF S
  <2> QED
    BY <2>1, SeriesIn DEF AllOf, S
<1>3. /\ OverlongOf(d, n, reg) <=> \E i \in S, f \in Fields : (\E j \in S : j < i) /\ beyond(i, f)
      /\ OverlongOf(d, n + 1, reg) <=> \E i \in T, f \in Fields : (\E j \in T : j < i) /\ beyond(i, f)
  BY DEF OverlongOf
<1> HIDE DEF S, T, beyond
<1>4. ~OverlongOf(d, n, reg)
  BY <1>1, <1>3
<1>5. ASSUME S # {}, NEW f \in Fields PROVE ~beyond(n + 1, f)
  <2>1. PICK j \in S : TRUE
    BY <1>5
  <2>2. j < n + 1 /\ j \in T /\ n + 1 \in T
    BY <1>1, <1>2, <2>1
  <2> QED
    BY <1>3, <2>2
<1> QED
  BY <1>4, <1>5 DEF S, beyond

(* After a statement of another length, what is kept is what it gives.        *)
LEMMA KeptOther ==
    ASSUME NEW d \in Seq(Statements), NEW n \in Nat, n + 1 \in 1..Len(d), NEW reg,
           d[n + 1].k = "xxr", d[n + 1].reg = reg,
           NEW x \in Xxrs, CanMerge(x, d[n + 1]), RegisterKept(d, n, reg, x),
           x.length # d[n + 1].length
    PROVE  RegisterKept(d, n + 1, reg, MergeXxr(x, d[n + 1]))
<1> DEFINE src == d[n + 1]
           m == MergeXxr(x, src)
           L == src.length
           R == RoundUp(L)
           H(f) == HavingOf(d, n + 1, reg, f)
           T == SeriesOf(d, n + 1, reg)
<1>1. src \in Given /\ L \in Nat
  <2>1. src \in Statements
    OBVIOUS
  <2>2. src \in Given
    BY <2>1, Kinds
  <2> QED
    BY <2>2 DEF Given
<1>2. LengthOf(d, n, reg) # L
  BY DEF RegisterKept
<1>3. m.length = L /\ LengthOf(d, n + 1, reg) = L /\ T = {n + 1}
  BY <1>1, <1>2, MergesOther, SeriesOn
<1>4. \A i \in 1..R :
        /\ m.tdi[i] <=> i <= L /\ src.tdi[i]
        /\ m.smask[i] <=> i <= L /\ (src.smask # <<>> => src.smask[i])
        /\ m.tdo[i] <=> i <= L /\ src.tdo # <<>> /\ src.tdo[i]
        /\ m.mask[i] <=> i <= L /\ IF src.mask # <<>> THEN src.mask[i] ELSE src.tdo # <<>>
  BY <1>1, MergesOther
<1>5. \A f \in Fields :
        /\ src[f] # <<>> => n + 1 \in H(f) /\ \A i : Holds(d, n + 1, reg, f, i) <=> src[f][i]
        /\ src[f] = <<>> => H(f) = {} /\ \A i : Holds(d, n + 1, reg, f, i)
  <2> SUFFICES ASSUME NEW f \in Fields
               PROVE  /\ src[f] # <<>> => n + 1 \in H(f) /\ \A i : Holds(d, n + 1, reg, f, i) <=> src[f][i]
                      /\ src[f] = <<>> => H(f) = {} /\ \A i : Holds(d, n + 1, reg, f, i)
    OBVIOUS
  <2>5. LengthOf(d, n, reg) # d[n + 1].length
    BY <1>2
  <2>1. ASSUME src[f] # <<>> PROVE n + 1 \in HavingOf(d, n + 1, reg, f)
    BY <2>1, HavingOn
  <2>2. ASSUME src[f] # <<>>, NEW i PROVE Holds(d, n + 1, reg, f, i) <=> src[f][i]
    BY <2>2, HavingOn
  <2>3. ASSUME src[f] = <<>> PROVE HavingOf(d, n + 1, reg, f) = {}
    BY <2>3, <2>5, HavingNone
  <2>4. ASSUME src[f] = <<>>, NEW i PROVE Holds(d, n + 1, reg, f, i)
    BY <2>4, <2>5, HavingNone
  <2> QED
    BY <2>1, <2>2, <2>3, <2>4
<1>6. src.tdi # <<>> \/ R = 0
  <2>1. src.length = 0 \/ src.tdi # <<>>
    BY DEF CanMerge
  <2> QED
    BY <2>1, NoBytes
<1>7. ~MixedOf(d, n + 1, reg) <=> H("tdo") = T \/ (H("tdo") = {} /\ H("mask") = {})
  BY DEF MixedOf
<1> HIDE DEF m, R, H, T
<1>8. Keeps(m.tdi, L, d, n + 1, reg, "tdi")
  <2>1. ASSUME src.tdi # <<>> PROVE \A i : Holds(d, n + 1, reg, "tdi", i) <=> src.tdi[i]
    BY <1>5, <2>1 DEF Fields
  <2>2. ASSUME NEW i \in 1..R PROVE m.tdi[i] <=> i <= L /\ Holds(d, n + 1, reg, "tdi", i)
    <3>1. src.tdi # <<>>
      BY <1>6, <2>2
    <3> QED
      BY <1>4, <2>1, <2>2, <3>1
  <2> QED
    BY <2>2 DEF Keeps, R
<1>9. Keeps(m.smask, L, d, n + 1, reg, "smask")
  <2>1. \A i : Holds(d, n + 1, reg, "smask", i) <=> (src.smask # <<>> => src.smask[i])
    BY <1>5 DEF Fields
  <2> QED
    BY <1>4, <2>1 DEF Keeps, R
<1>10. ASSUME ~MixedOf(d, n + 1, reg), H("tdo") = {}
       PROVE  Nothing(m.mask, L) /\ Nothing(m.tdo, L)
  <2>1. H("mask") = {}
    BY <1>3, <1>7, <1>10
  <2>2. src.tdo = <<>> /\ src.mask = <<>>
    BY <1>5, <1>10, <2>1 DEF Fields
  <2> QED
    BY <1>4, <2>2 DEF Nothing, R
<1>11. ASSUME ~MixedOf(d, n + 1, reg), H("tdo") # {}
       PROVE  Keeps(m.mask, L, d, n + 1, reg, "mask") /\ Keeps(m.tdo, L, d, n + 1, reg, "tdo")
  <2>1. src.tdo # <<>>
    BY <1>5, <1>11 DEF Fields
  <2>2. \A i : Holds(d, n + 1, reg, "tdo", i) <=> src.tdo[i]
    BY <1>5, <2>1 DEF Fields
  <2>3. \A i : Holds(d, n + 1, reg, "mask", i) <=> (src.mask # <<>> => src.mask[i])
    BY <1>5 DEF Fields
  <2> QED
    BY <1>4, <2>1, <2>2, <2>3 DEF Keeps, R
<1> QED
  BY <1>3, <1>8, <1>9, <1>10, <1>11 DEF RegisterKept, m, H

(* After a statement of the same length, it is what was kept, but for what it  *)
(* gives.                                                                    *)
LEMMA KeptSame ==
    ASSUME NEW d \in Seq(Statements), NEW n \in Nat, n + 1 \in 1..Len(d), NEW reg,
           d[n + 1].k = "xxr", d[n + 1].reg = reg,
           NEW x \in Xxrs, RegisterKept(d, n, reg, x), x.length = d[n + 1].length
    PROVE  RegisterKept(d, n + 1, reg, MergeXxr(x, d[n + 1]))
<1> DEFINE src == d[n + 1]
           m == MergeXxr(x, src)
           L == src.length
           R == RoundUp(L)
           G(f) == HavingOf(d, n + 1, reg, f)
           H(f) == HavingOf(d, n, reg, f)
           S == SeriesOf(d, n, reg)
           T == SeriesOf(d, n + 1, reg)
<1>1. src \in Given /\ L \in Nat
  <2>1. src \in Statements
    OBVIOUS
  <2>2. src \in Given
    BY <2>1, Kinds
  <2> QED
    BY <2>2 DEF Given
<1>2. LengthOf(d, n, reg) = L
  BY DEF RegisterKept
<1>3. m.length = L /\ LengthOf(d, n + 1, reg) = L /\ T = S \cup {n + 1}
  <2>1. m.length = L
    BY <1>1, MergesSame
  <2>2. LengthOf(d, n + 1, reg) = L
    BY SeriesOn
  <2>3. T = S \cup {n + 1}
    BY <1>2, SeriesOn
  <2> QED
    BY <2>1, <2>2, <2>3
<1>4. /\ m.tdi = Or(src.tdi, x.tdi) /\ m.smask = Or(src.smask, x.smask)
      /\ m.tdo = Or(src.tdo, Fill(R, FALSE)) /\ m.mask = Or(src.mask, x.mask)
  BY <1>1, MergesSame
<1>5. ASSUME NEW f \in Fields, src[f] # <<>>
      PROVE  n + 1 \in G(f) /\ \A i : Holds(d, n + 1, reg, f, i) <=> src[f][i]
  BY <1>5, HavingOn
<1>6. ASSUME NEW f \in Fields, src[f] = <<>>
      PROVE  G(f) = H(f) /\ \A i : Holds(d, n + 1, reg, f, i) <=> Holds(d, n, reg, f, i)
  BY <1>2, <1>6, HavingOn
<1>7. R \in Nat /\ (S = {} => R = 0)
  BY <1>1, <1>2, NoBytes, RoundedUp DEF LengthOf
<1>8. ASSUME NEW f \in Fields PROVE src[f] = <<>> \/ Len(src[f]) = R
  BY <1>1 DEF Given, Fields, Optional, Sized
<1>9. ~OverlongOf(d, n + 1, reg) =>
          /\ ~OverlongOf(d, n, reg)
          /\ S # {} => \A f \in Fields : \A b \in L + 1..Len(src[f]) : ~src[f][b]
  BY <1>2, OverlongOn
<1>10. /\ ~MixedOf(d, n + 1, reg) <=> G("tdo") = T \/ (G("tdo") = {} /\ G("mask") = {})
       /\ ~MixedOf(d, n, reg) <=> H("tdo") = S \/ (H("tdo") = {} /\ H("mask") = {})
  BY DEF MixedOf
<1>11. H("tdo") \subseteq 1..n /\ S \subseteq 1..n
  <2>1. n \in 0..Len(d)
    OBVIOUS
  <2>2. S \subseteq 1..n
    <3> HIDE DEF S
    <3> QED
      BY <2>1, SeriesIn DEF AllOf, S
  <2> QED
    BY <2>2 DEF HavingOf
<1> HIDE DEF m, R, G, H, S, T
<1> SUFFICES ASSUME ~OverlongOf(d, n + 1, reg)
             PROVE  /\ Keeps(m.tdi, L, d, n + 1, reg, "tdi")
                    /\ Keeps(m.smask, L, d, n + 1, reg, "smask")
                    /\ ~MixedOf(d, n + 1, reg) =>
                          IF G("tdo") = {} THEN Nothing(m.mask, L) /\ Nothing(m.tdo, L)
                          ELSE /\ Keeps(m.mask, L, d, n + 1, reg, "mask")
                               /\ Keeps(m.tdo, L, d, n + 1, reg, "tdo")
  BY <1>3 DEF RegisterKept, G, m
<1>12. /\ Keeps(x.tdi, L, d, n, reg, "tdi") /\ Keeps(x.smask, L, d, n, reg, "smask")
       /\ ~MixedOf(d, n, reg) =>
             IF H("tdo") = {} THEN Nothing(x.mask, L) /\ Nothing(x.tdo, L)
             ELSE Keeps(x.mask, L, d, n, reg, "mask") /\ Keeps(x.tdo, L, d, n, reg, "tdo")
  BY <1>9 DEF RegisterKept, H
<1>13. ASSUME NEW f \in Fields, NEW i \in 1..R, src[f] # <<>>
       PROVE  src[f][i] <=> i <= L /\ Holds(d, n + 1, reg, f, i)
  <2>1. Holds(d, n + 1, reg, f, i) <=> src[f][i]
    BY <1>5, <1>13
  <2>2. S # {} /\ i \in Nat
    BY <1>7
  <2>3. \A b \in L + 1..Len(src[f]) : ~src[f][b]
    BY <1>9, <2>2
  <2>4. Len(src[f]) = R
    BY <1>8, <1>13
  <2>5. ~(i <= L) => ~src[f][i]
    <3>1. ~(i <= L) => i \in L + 1..R
      BY <1>1, <1>7
    <3> QED
      BY <2>3, <2>4, <3>1
  <2> QED
    BY <2>1, <2>5
<1>14. ASSUME NEW f \in Fields, NEW old, src[f] # <<>> \/ R = 0 \/ Keeps(old, L, d, n, reg, f)
       PROVE  Keeps(Or(src[f], old), L, d, n + 1, reg, f)
  <2> SUFFICES ASSUME NEW i \in 1..R
               PROVE  Or(src[f], old)[i] <=> i <= L /\ Holds(d, n + 1, reg, f, i)
    BY DEF Keeps, R
  <2>1. CASE src[f] # <<>>
    BY <1>13, <2>1 DEF Or
  <2>2. CASE src[f] = <<>>
    <3>1. old[i] <=> i <= L /\ Holds(d, n, reg, f, i)
      BY <1>14, <2>2 DEF Keeps, R
    <3>2. Holds(d, n + 1, reg, f, i) <=> Holds(d, n, reg, f, i)
      BY <1>6, <2>2
    <3>3. Or(src[f], old)[i] = old[i]
      BY <2>2 DEF Or
    <3> QED
      BY <3>1, <3>2, <3>3
  <2> QED
    BY <2>1, <2>2
<1>15. Keeps(m.tdi, L, d, n + 1, reg, "tdi") /\ Keeps(m.smask, L, d, n + 1, reg, "smask")
  <2>1. Keeps(Or(src["tdi"], x.tdi), L, d, n + 1, reg, "tdi")
    BY <1>12, <1>14 DEF Fields
  <2>2. Keeps(Or(src["smask"], x.smask), L, d, n + 1, reg, "smask")
    BY <1>12, <1>14 DEF Fields
  <2> QED
    BY <1>4, <2>1, <2>2
<1>16. ASSUME ~MixedOf(d, n + 1, reg), G("tdo") = {}
       PROVE  Nothing(m.mask, L) /\ Nothing(m.tdo, L)
  <2>1. G("mask") = {}
    BY <1>3, <1>10, <1>16
  <2>2. src["tdo"] = <<>> /\ src["mask"] = <<>>
    BY <1>5, <1>16, <2>1 DEF Fields
  <2>3. H("tdo") = {} /\ H("mask") = {}
    BY <1>6, <1>16, <2>1, <2>2 DEF Fields
  <2>4. Nothing(x.mask, L)
    BY <1>10, <1>12, <2>3
  <2>5. m.mask = x.mask /\ m.tdo = Fill(R, FALSE)
    BY <1>4, <2>2 DEF Or
  <2> QED
    BY <2>4, <2>5 DEF Nothing, Fill, R
<1>17. ASSUME ~MixedOf(d, n + 1, reg), G("tdo") # {}
       PROVE  Keeps(m.mask, L, d, n + 1, reg, "mask") /\ Keeps(m.tdo, L, d, n + 1, reg, "tdo")
  <2>1. G("tdo") = S \cup {n + 1}
    BY <1>3, <1>10, <1>17
  <2>2. src["tdo"] # <<>>
    <3>1. n + 1 \notin H("tdo")
      BY <1>11
    <3> QED
      BY <1>6, <2>1, <3>1 DEF Fields
  <2>3. Keeps(Or(src["tdo"], Fill(R, FALSE)), L, d, n + 1, reg, "tdo")
    BY <1>14, <2>2 DEF Fields
  <2>4. H("tdo") = S
    <3>1. G("tdo") = {i \in T : d[i]["tdo"] # <<>>} /\ H("tdo") = {i \in S : d[i]["tdo"] # <<>>}
      BY DEF G, H, HavingOf, S, T
    <3> QED
      BY <1>3, <2>1, <3>1
  <2>5. S = {} \/ Keeps(x.mask, L, d, n, reg, "mask")
    BY <1>10, <1>12, <2>4
  <2>6. Keeps(Or(src["mask"], x.mask), L, d, n + 1, reg, "mask")
    BY <1>7, <1>14, <2>5 DEF Fields
  <2> QED
    BY <1>4, <2>3, <2>6
<1> QED
  BY <1>15, <1>16, <1>17

(* A statement of another kind or register leaves what is kept.               *)
LEMMA KeptElse ==
    ASSUME NEW d \in Seq(Statements), NEW n \in Nat, n + 1 \in 1..Len(d), NEW reg, NEW x,
           RegisterKept(d, n, reg, x), ~(d[n + 1].k = "xxr" /\ d[n + 1].reg = reg)
    PROVE  RegisterKept(d, n + 1, reg, x)
<1>1. SeriesOf(d, n + 1, reg) = SeriesOf(d, n, reg)
  BY SeriesOn
<1>2. LengthOf(d, n + 1, reg) = LengthOf(d, n, reg)
  BY <1>1 DEF LengthOf
<1>3. \A f : HavingOf(d, n + 1, reg, f) = HavingOf(d, n, reg, f)
  BY <1>1 DEF HavingOf
<1>4. OverlongOf(d, n + 1, reg) <=> OverlongOf(d, n, reg)
  BY <1>1 DEF OverlongOf
<1>5. MixedOf(d, n + 1, reg) <=> MixedOf(d, n, reg)
  BY <1>1, <1>3 DEF MixedOf
<1>6. \A f, i : Holds(d, n + 1, reg, f, i) <=> Holds(d, n, reg, f, i)
  BY <1>3 DEF Holds
<1>7. \A v, f : Keeps(v, x.length, d, n + 1, reg, f) <=> Keeps(v, x.length, d, n, reg, f)
  BY <1>6 DEF Keeps
<1> QED
  BY <1>2, <1>3, <1>4, <1>5, <1>7 DEF RegisterKept

(* Before the first statement there is nothing to keep.                      *)
LEMMA KeptFirst ==
    ASSUME NEW d, NEW reg, NEW x
    PROVE  RegisterKept(d, 0, reg, x) <=> x.length = 0
<1>1. SeriesOf(d, 0, reg) = {}
  BY DEF SeriesOf, AllOf
<1>2. LengthOf(d, 0, reg) = 0
  BY <1>1 DEF LengthOf
<1>3. RoundUp(0) = 0
  BY NoBytes
<1>4. ASSUME x.length = 0 PROVE RegisterKept(d, 0, reg, x)
  <2>1. \A v, f : Keeps(v, x.length, d, 0, reg, f)
    BY <1>3, <1>4 DEF Keeps
  <2>2. \A v : Nothing(v, x.length)
    BY <1>3, <1>4 DEF Nothing
  <2> QED
    BY <1>2, <1>4, <2>1, <2>2 DEF RegisterKept
<1> QED
  BY <1>2, <1>4 DEF RegisterKept

(* The bits that are meant to go out, and those that are meant to come back.  *)
MeantOf(d, n, reg, f) ==
    IF HavingOf(d, n, reg, f) = {} THEN Fill(LengthOf(d, n, reg), TRUE)
    ELSE SubSeq(d[Max(HavingOf(d, n, reg, f))][f], 1, LengthOf(d, n, reg))

ComparedOf(d, n, reg) ==
    IF HavingOf(d, n, reg, "tdo") = {} THEN Fill(LengthOf(d, n, reg), <<>>)
    ELSE Compared(LengthOf(d, n, reg), MeantOf(d, n, reg, "tdo"), MeantOf(d, n, reg, "mask"))

(* They are as many as the length says.                                      *)
LEMMA MeantIs ==
    ASSUME NEW d \in Seq(Statements), NEW n \in 0..Len(d), NEW reg, NEW f \in Fields
    PROVE  /\ LengthOf(d, n, reg) \in Nat
           /\ MeantOf(d, n, reg, f) \in Bits /\ Len(MeantOf(d, n, reg, f)) = LengthOf(d, n, reg)
           /\ \A i \in 1..LengthOf(d, n, reg) : MeantOf(d, n, reg, f)[i] <=> Holds(d, n, reg, f, i)
<1> DEFINE L == LengthOf(d, n, reg)
           S == SeriesOf(d, n, reg)
           H == HavingOf(d, n, reg, f)
           u == d[Max(H)][f]
           m == MeantOf(d, n, reg, f)
<1>1. \A i \in S : i \in 1..n /\ d[i] \in Given /\ d[i].length = L
  BY SeriesIn
<1>2. S = {} => L = 0
  BY DEF LengthOf
<1>3. H \subseteq S
  BY DEF HavingOf
<1>4. m = IF H = {} THEN Fill(L, TRUE) ELSE SubSeq(u, 1, L)
  BY DEF MeantOf
<1>5. \A i : Holds(d, n, reg, f, i) <=> H = {} \/ u[i]
  BY DEF Holds
<1> HIDE DEF L, S, H, m
<1>6. L \in Nat
  <2>1. CASE S = {}
    BY <1>2, <2>1
  <2>2. CASE S # {}
    <3>1. PICK i \in S : TRUE
      BY <2>2
    <3>2. d[i] \in Given /\ d[i].length = L
      BY <1>1, <3>1
    <3> QED
      BY <3>2 DEF Given
  <2> QED
    BY <2>1, <2>2
<1>7. CASE H = {}
  <2>1. m = [i \in 1..L |-> TRUE]
    BY <1>4, <1>7 DEF Fill
  <2>2. m \in Bits /\ Len(m) = L /\ \A i \in 1..L : m[i]
    BY <1>6, <2>1 DEF Bits
  <2> QED
    BY <1>5, <1>6, <1>7, <2>2 DEF L, m
<1>8. CASE H # {}
  <2>1. Max(H) \in S /\ Max(H) \in H
    <3>1. H \in SUBSET Nat /\ n \in Nat /\ \A i \in H : i <= n
      <4>1. n \in Nat
        OBVIOUS
      <4>2. \A i \in H : i \in Nat /\ i <= n
        BY <1>1, <1>3, <4>1
      <4> QED
        BY <4>1, <4>2
    <3> QED
      BY <1>3, <1>8, <3>1, GreatestExists
  <2>2. d[Max(H)] \in Given /\ d[Max(H)].length = L
    BY <1>1, <2>1
  <2>3. u = <<>> \/ Sized(u, L)
    BY <2>2 DEF Given, Fields, Optional
  <2>4. u # <<>>
    BY <2>1 DEF H, HavingOf
  <2> HIDE DEF u
  <2>5. u \in Bits /\ Len(u) = RoundUp(L)
    BY <2>3, <2>4 DEF Sized
  <2>6. RoundUp(L) \in Nat /\ L <= RoundUp(L)
    BY <1>6, RoundedUp
  <2>7. m = SubSeq(u, 1, L)
    BY <1>4, <1>8
  <2>8. m \in Bits /\ Len(m) = L /\ \A i \in 1..L : m[i] = u[i]
    BY <1>6, <2>5, <2>6, <2>7, SubSeqProperties DEF Bits
  <2> QED
    BY <1>5, <1>6, <1>8, <2>8 DEF L, m
<1> QED
  BY <1>7, <1>8

(* Three sequences, one after the other.                                     *)
Consecutive(z, u, v, w) ==
    /\ Len(z) = Len(u) + Len(v) + Len(w)
    /\ \A i \in 1..Len(u) : z[i] = u[i]
    /\ \A i \in 1..Len(v) : z[Len(u) + i] = v[i]
    /\ \A i \in 1..Len(w) : z[Len(u) + Len(v) + i] = w[i]

(* Which are those put together.                                             *)
LEMMA OneAfterTheOther ==
    ASSUME NEW E, NEW u \in Seq(E), NEW v \in Seq(E), NEW w \in Seq(E), NEW z \in Seq(E),
           Consecutive(z, u, v, w)
    PROVE  z = u \o v \o w
<1> USE DEF Consecutive
<1> DEFINE a == u \o v
           c == a \o w
<1>1. /\ a \in Seq(E) /\ Len(a) = Len(u) + Len(v)
      /\ \A i \in 1..Len(u) + Len(v) : a[i] = IF i <= Len(u) THEN u[i] ELSE v[i - Len(u)]
  BY ConcatProperties
<1> HIDE DEF a
<1>2. /\ c \in Seq(E) /\ Len(c) = Len(a) + Len(w)
      /\ \A i \in 1..Len(a) + Len(w) : c[i] = IF i <= Len(a) THEN a[i] ELSE w[i - Len(a)]
  BY <1>1, ConcatProperties
<1> HIDE DEF c
<1>3. Len(u) \in Nat /\ Len(v) \in Nat /\ Len(w) \in Nat
  BY LenProperties
<1>4. ASSUME NEW i \in 1..Len(z) PROVE z[i] = c[i]
  <2>1. CASE i <= Len(u)
    <3>1. i \in 1..Len(u) /\ i \in 1..Len(u) + Len(v) /\ i <= Len(a) /\ i \in 1..Len(a) + Len(w)
      BY <1>1, <1>3, <2>1
    <3> QED
      BY <1>1, <1>2, <2>1, <3>1
  <2>2. CASE i > Len(u) /\ i <= Len(u) + Len(v)
    <3> DEFINE j == i - Len(u)
    <3>1. j \in 1..Len(v) /\ i = Len(u) + j /\ i \in 1..Len(u) + Len(v) /\ i <= Len(a)
          /\ i \in 1..Len(a) + Len(w) /\ ~(i <= Len(u))
      BY <1>1, <1>3, <2>2
    <3> QED
      BY <1>1, <1>2, <3>1
  <2>3. CASE i > Len(u) + Len(v)
    <3> DEFINE j == i - (Len(u) + Len(v))
    <3>1. j \in 1..Len(w) /\ i = Len(u) + Len(v) + j /\ ~(i <= Len(a)) /\ i \in 1..Len(a) + Len(w)
          /\ j = i - Len(a)
      BY <1>1, <1>3, <2>3
    <3> QED
      BY <1>2, <3>1
  <2> QED
    BY <1>3, <2>1, <2>2, <2>3
<1>5. z = c
  BY <1>1, <1>2, <1>4, SeqEqual
<1> QED
  BY <1>5 DEF a, c

(* The first bits of a vector, and three sequences as one.                   *)
First(p, n) == SubSeq(p, 1, n)
Whole(u, v, w) == u \o v \o w

(* Pieces of what is kept are what is meant.                                 *)
LEMMA PiecesMeant ==
    ASSUME NEW u \in Bits, NEW v \in Bits, NEW w \in Bits, NEW T, T = Len(u) + Len(v) + Len(w),
           NEW p, Sized(p, T), Pieces(p, u, Len(u), v, Len(v), w, Len(w))
    PROVE  First(p, T) = Whole(u, v, w)
<1> DEFINE m == Len(u)
           n == Len(v)
           k == Len(w)
<1>15. m \in Nat /\ n \in Nat /\ k \in Nat
  BY LenProperties DEF Bits
<1> DEFINE z == SubSeq(p, 1, T)
<1>1. T \in Nat /\ p \in Bits /\ Len(p) = RoundUp(T) /\ T <= Len(p) /\ Len(p) \in Nat
  BY <1>15, RoundedUp DEF Sized
<1>2. \A i \in 1..Len(p) : p[i] \in BOOLEAN
  BY <1>1 DEF Bits
<1>3. z \in Bits /\ Len(z) = T /\ \A i \in 1..T : z[i] = p[i]
  BY <1>1, <1>2, SubSeqProperties DEF Bits
<1>4. /\ \A i \in 1..m : p[i] <=> u[i]
      /\ \A i \in 1..n : p[m + i] <=> v[i]
      /\ \A i \in 1..k : p[m + n + i] <=> w[i]
  BY DEF Pieces
<1>5. /\ \A i \in 1..m : u[i] \in BOOLEAN /\ i \in 1..T
      /\ \A i \in 1..n : v[i] \in BOOLEAN /\ m + i \in 1..T
      /\ \A i \in 1..k : w[i] \in BOOLEAN /\ m + n + i \in 1..T
  BY <1>15 DEF Bits
<1>6. \A i \in 1..T : z[i] \in BOOLEAN
  BY <1>3 DEF Bits
<1> HIDE DEF z
<1>7. \A i \in 1..m : z[i] = u[i]
  <2> SUFFICES ASSUME NEW i \in 1..m PROVE z[i] = u[i]
    OBVIOUS
  <2>1. i \in 1..T /\ z[i] = p[i] /\ (p[i] <=> u[i])
    BY <1>3, <1>4, <1>5
  <2> QED
    BY <1>5, <1>6, <2>1
<1>8. \A i \in 1..n : z[m + i] = v[i]
  <2> SUFFICES ASSUME NEW i \in 1..n PROVE z[m + i] = v[i]
    OBVIOUS
  <2>1. m + i \in 1..T /\ z[m + i] = p[m + i] /\ (p[m + i] <=> v[i])
    BY <1>3, <1>4, <1>5
  <2> QED
    BY <1>5, <1>6, <2>1
<1>9. \A i \in 1..k : z[m + n + i] = w[i]
  <2> SUFFICES ASSUME NEW i \in 1..k PROVE z[m + n + i] = w[i]
    OBVIOUS
  <2>1. m + n + i \in 1..T /\ z[m + n + i] = p[m + n + i] /\ (p[m + n + i] <=> w[i])
    BY <1>3, <1>4, <1>5
  <2> QED
    BY <1>5, <1>6, <2>1
<1>10. Len(z) = Len(u) + Len(v) + Len(w)
  BY <1>3
<1>11. /\ \A i \in 1..Len(u) : z[i] = u[i]
       /\ \A i \in 1..Len(v) : z[Len(u) + i] = v[i]
       /\ \A i \in 1..Len(w) : z[Len(u) + Len(v) + i] = w[i]
  BY <1>7, <1>8, <1>9
<1>12. /\ z \in Seq(BOOLEAN) /\ u \in Seq(BOOLEAN) /\ v \in Seq(BOOLEAN) /\ w \in Seq(BOOLEAN)
  BY <1>3 DEF Bits
<1>13. Consecutive(z, u, v, w)
  BY <1>10, <1>11 DEF Consecutive
<1>14. z = u \o v \o w
  BY <1>12, <1>13, OneAfterTheOther
<1> QED
  BY <1>14 DEF z, First, Whole

(* A bit that is compared, or none.                                          *)
Bitten == {<<>>, <<TRUE>>, <<FALSE>>}

(* What is kept of a register is clean, and what it compares is what is meant. *)
LEMMA KeptMeans ==
    ASSUME NEW d \in Seq(Statements), NEW n \in 0..Len(d), NEW reg, NEW x \in Xxrs,
           RegisterKept(d, n, reg, x), ~OverlongOf(d, n, reg)
    PROVE  LET L == LengthOf(d, n, reg)
           IN  /\ L \in Nat /\ x.length = L
               /\ Clean(x.tdi, L) /\ Clean(x.smask, L)
               /\ \A i \in 1..L : x.tdi[i] <=> MeantOf(d, n, reg, "tdi")[i]
               /\ \A i \in 1..L : x.smask[i] <=> MeantOf(d, n, reg, "smask")[i]
               /\ ~MixedOf(d, n, reg) =>
                     /\ Clean(x.tdo, L) /\ Clean(x.mask, L)
                     /\ ComparedOf(d, n, reg) \in Seq(Bitten) /\ Len(ComparedOf(d, n, reg)) = L
                     /\ \A i \in 1..L : ComparedOf(d, n, reg)[i] =
                                           IF x.mask[i] THEN <<x.tdo[i]>> ELSE <<>>
<1> DEFINE L == LengthOf(d, n, reg)
           R == RoundUp(L)
           H == HavingOf(d, n, reg, "tdo")
           tdo == MeantOf(d, n, reg, "tdo")
           mask == MeantOf(d, n, reg, "mask")
<1>1. /\ L \in Nat /\ x.length = L
      /\ Keeps(x.tdi, L, d, n, reg, "tdi") /\ Keeps(x.smask, L, d, n, reg, "smask")
      /\ ~MixedOf(d, n, reg) =>
            IF H = {} THEN Nothing(x.mask, L) /\ Nothing(x.tdo, L)
            ELSE Keeps(x.mask, L, d, n, reg, "mask") /\ Keeps(x.tdo, L, d, n, reg, "tdo")
  BY MeantIs DEF RegisterKept, Fields
<1>2. R \in Nat /\ L <= R
  BY <1>1, RoundedUp
<1>3. Len(x.tdi) = R /\ Len(x.tdo) = R /\ Len(x.mask) = R /\ Len(x.smask) = R
  BY <1>1 DEF Xxrs, Sized
<1>4. \A i \in 1..R : x.tdo[i] \in BOOLEAN /\ x.mask[i] \in BOOLEAN
  <2>1. x.tdo \in Bits /\ x.mask \in Bits
    BY DEF Xxrs, Sized
  <2> QED
    BY <1>3, <2>1 DEF Bits
<1>5. \A f \in Fields : /\ MeantOf(d, n, reg, f) \in Bits /\ Len(MeantOf(d, n, reg, f)) = L
                        /\ \A i \in 1..L : MeantOf(d, n, reg, f)[i] <=> Holds(d, n, reg, f, i)
  BY MeantIs
<1>6. /\ tdo \in Bits /\ Len(tdo) = L /\ \A i \in 1..L : tdo[i] <=> Holds(d, n, reg, "tdo", i)
      /\ mask \in Bits /\ Len(mask) = L /\ \A i \in 1..L : mask[i] <=> Holds(d, n, reg, "mask", i)
  BY <1>5 DEF Fields
<1>7. /\ \A i \in 1..L : MeantOf(d, n, reg, "tdi")[i] <=> Holds(d, n, reg, "tdi", i)
      /\ \A i \in 1..L : MeantOf(d, n, reg, "smask")[i] <=> Holds(d, n, reg, "smask", i)
  BY <1>5 DEF Fields
<1>8. ComparedOf(d, n, reg) = IF H = {} THEN Fill(L, <<>>) ELSE Compared(L, tdo, mask)
  BY DEF ComparedOf
<1> HIDE DEF L, R, H, tdo, mask
<1>9. ASSUME NEW v, NEW f, Len(v) = R, Keeps(v, L, d, n, reg, f)
      PROVE  Clean(v, L) /\ \A i \in 1..L : v[i] <=> Holds(d, n, reg, f, i)
  <2>1. \A i \in 1..R : v[i] <=> i <= L /\ Holds(d, n, reg, f, i)
    BY <1>9 DEF Keeps, R
  <2>2. \A i \in 1..L : i \in 1..R /\ i <= L
    BY <1>1, <1>2
  <2> QED
    BY <1>9, <2>1, <2>2 DEF Clean
<1>10. /\ Clean(x.tdi, L) /\ \A i \in 1..L : x.tdi[i] <=> MeantOf(d, n, reg, "tdi")[i]
       /\ Clean(x.smask, L) /\ \A i \in 1..L : x.smask[i] <=> MeantOf(d, n, reg, "smask")[i]
  BY <1>1, <1>3, <1>7, <1>9
<1>11. ASSUME ~MixedOf(d, n, reg), H = {}
       PROVE  /\ Clean(x.tdo, L) /\ Clean(x.mask, L)
              /\ ComparedOf(d, n, reg) \in Seq(Bitten) /\ Len(ComparedOf(d, n, reg)) = L
              /\ \A i \in 1..L : ComparedOf(d, n, reg)[i] = IF x.mask[i] THEN <<x.tdo[i]>> ELSE <<>>
  <2>1. \A i \in 1..R : ~x.mask[i] /\ ~x.tdo[i]
    BY <1>1, <1>11 DEF Nothing, R
  <2>2. Clean(x.tdo, L) /\ Clean(x.mask, L)
    BY <1>3, <2>1 DEF Clean
  <2>3. ComparedOf(d, n, reg) = [i \in 1..L |-> <<>>]
    BY <1>8, <1>11 DEF Fill
  <2>4. \A i \in 1..L : i \in 1..R
    BY <1>1, <1>2
  <2> DEFINE e == <<>>
  <2>5. e \in Bitten
    BY DEF Bitten
  <2> HIDE DEF e
  <2>6. [i \in 1..L |-> e] \in Seq(Bitten) /\ Len([i \in 1..L |-> e]) = L
        /\ \A j \in 1..L : [i \in 1..L |-> e][j] = e
    BY <1>1, <2>5
  <2> QED
    BY <2>1, <2>2, <2>3, <2>4, <2>6 DEF e
<1>12. ASSUME ~MixedOf(d, n, reg), H # {}
       PROVE  /\ Clean(x.tdo, L) /\ Clean(x.mask, L)
              /\ ComparedOf(d, n, reg) \in Seq(Bitten) /\ Len(ComparedOf(d, n, reg)) = L
              /\ \A i \in 1..L : ComparedOf(d, n, reg)[i] = IF x.mask[i] THEN <<x.tdo[i]>> ELSE <<>>
  <2>1. /\ Clean(x.tdo, L) /\ \A i \in 1..L : x.tdo[i] <=> Holds(d, n, reg, "tdo", i)
        /\ Clean(x.mask, L) /\ \A i \in 1..L : x.mask[i] <=> Holds(d, n, reg, "mask", i)
    BY <1>1, <1>3, <1>9, <1>12
  <2> DEFINE g(i) == IF x.mask[i] THEN <<x.tdo[i]>> ELSE <<>>
  <2>2. ASSUME NEW i \in 1..L
        PROVE  g(i) \in Bitten /\ (IF Bit(mask, i) THEN <<tdo[i]>> ELSE <<>>) = g(i)
    <3>1. i \in 1..R
      BY <1>1, <1>2
    <3>2. tdo[i] \in BOOLEAN /\ i \in DOMAIN mask
      BY <1>6 DEF Bits
    <3>3. (x.tdo[i] <=> tdo[i]) /\ (x.mask[i] <=> mask[i])
      BY <1>6, <2>1
    <3>4. x.tdo[i] = tdo[i]
      BY <1>4, <3>1, <3>2, <3>3
    <3>5. Bit(mask, i) <=> x.mask[i]
      BY <3>2, <3>3 DEF Bit
    <3>6. tdo[i] = TRUE \/ tdo[i] = FALSE
      BY <3>2
    <3>7. <<tdo[i]>> \in Bitten
      BY <3>6 DEF Bitten
    <3>8. <<>> \in Bitten
      BY DEF Bitten
    <3> QED
      BY <3>4, <3>5, <3>7, <3>8
  <2>3. ComparedOf(d, n, reg) = [i \in 1..L |-> IF Bit(mask, i) THEN <<tdo[i]>> ELSE <<>>]
    BY <1>8, <1>12 DEF Compared
  <2> HIDE DEF g
  <2>4. ComparedOf(d, n, reg) = [i \in 1..L |-> g(i)]
    BY <2>2, <2>3
  <2>5. [i \in 1..L |-> g(i)] \in Seq(Bitten) /\ Len([i \in 1..L |-> g(i)]) = L
    BY <1>1, <2>2
  <2>6. \A j \in 1..L : [i \in 1..L |-> g(i)][j] = g(j)
    OBVIOUS
  <2> QED
    BY <2>1, <2>4, <2>5, <2>6 DEF g
<1> QED
  BY <1>1, <1>10, <1>11, <1>12 DEF L

(* What a shift of three registers is meant to be.                           *)
Meaning(p, d, n, h, b, t) ==
    LET meant(f) == MeantOf(d, n, h, f) \o MeantOf(d, n, b, f) \o MeantOf(d, n, t, f)
    IN  /\ p.length = LengthOf(d, n, h) + LengthOf(d, n, b) + LengthOf(d, n, t)
        /\ SubSeq(p.tdi, 1, p.length) = meant("tdi")
        /\ SubSeq(p.smask, 1, p.length) = meant("smask")
        /\ ~MixedOf(d, n, h) /\ ~MixedOf(d, n, b) /\ ~MixedOf(d, n, t) =>
              Compared(p.length, p.tdo, p.mask) =
                  ComparedOf(d, n, h) \o ComparedOf(d, n, b) \o ComparedOf(d, n, t)

(* That for all the registers.                                               *)
AllKept(d, n, xxr) == \A reg \in Registers : RegisterKept(d, n, reg, xxr[reg])

(* A shift of what is kept is what is meant, and compares what is meant.      *)
LEMMA ShiftMeant ==
    ASSUME NEW d \in Seq(Statements), NEW n \in 0..Len(d), NEW xxr \in [Registers -> Xxrs],
           NEW h \in Registers, NEW b \in Registers, NEW t \in Registers,
           AllKept(d, n, xxr),
           ~OverlongOf(d, n, h), ~OverlongOf(d, n, b), ~OverlongOf(d, n, t)
    PROVE  Meaning(PrepareShift(xxr[h], xxr[b], xxr[t]), d, n, h, b, t)
<1> DEFINE p == PrepareShift(xxr[h], xxr[b], xxr[t])
           res == JoinXxr(JoinXxr(xxr[h], xxr[b]), xxr[t])
           m == LengthOf(d, n, h)
           k == LengthOf(d, n, b)
           l == LengthOf(d, n, t)
           T == m + k + l
           x == xxr[h]
           y == xxr[b]
           z == xxr[t]
           whole(v, e, f, g) ==
               /\ Sized(v, T)
               /\ Clean(e, m) /\ Clean(f, k) /\ Clean(g, l) => Pieces(v, e, m, f, k, g, l)
<1>1. x \in Xxrs /\ y \in Xxrs /\ z \in Xxrs
  OBVIOUS
<1>2. RegisterKept(d, n, h, x) /\ RegisterKept(d, n, b, y) /\ RegisterKept(d, n, t, z)
  BY DEF AllKept
<1> HIDE DEF x, y, z
<1>3. /\ m \in Nat /\ x.length = m /\ Clean(x.tdi, m) /\ Clean(x.smask, m)
      /\ \A i \in 1..m : x.tdi[i] <=> MeantOf(d, n, h, "tdi")[i]
      /\ \A i \in 1..m : x.smask[i] <=> MeantOf(d, n, h, "smask")[i]
      /\ ~MixedOf(d, n, h) =>
            /\ Clean(x.tdo, m) /\ Clean(x.mask, m)
            /\ ComparedOf(d, n, h) \in Seq(Bitten) /\ Len(ComparedOf(d, n, h)) = m
            /\ \A i \in 1..m : ComparedOf(d, n, h)[i] = IF x.mask[i] THEN <<x.tdo[i]>> ELSE <<>>
  BY <1>1, <1>2, KeptMeans
<1>4. /\ k \in Nat /\ y.length = k /\ Clean(y.tdi, k) /\ Clean(y.smask, k)
      /\ \A i \in 1..k : y.tdi[i] <=> MeantOf(d, n, b, "tdi")[i]
      /\ \A i \in 1..k : y.smask[i] <=> MeantOf(d, n, b, "smask")[i]
      /\ ~MixedOf(d, n, b) =>
            /\ Clean(y.tdo, k) /\ Clean(y.mask, k)
            /\ ComparedOf(d, n, b) \in Seq(Bitten) /\ Len(ComparedOf(d, n, b)) = k
            /\ \A i \in 1..k : ComparedOf(d, n, b)[i] = IF y.mask[i] THEN <<y.tdo[i]>> ELSE <<>>
  BY <1>1, <1>2, KeptMeans
<1>5. /\ l \in Nat /\ z.length = l /\ Clean(z.tdi, l) /\ Clean(z.smask, l)
      /\ \A i \in 1..l : z.tdi[i] <=> MeantOf(d, n, t, "tdi")[i]
      /\ \A i \in 1..l : z.smask[i] <=> MeantOf(d, n, t, "smask")[i]
      /\ ~MixedOf(d, n, t) =>
            /\ Clean(z.tdo, l) /\ Clean(z.mask, l)
            /\ ComparedOf(d, n, t) \in Seq(Bitten) /\ Len(ComparedOf(d, n, t)) = l
            /\ \A i \in 1..l : ComparedOf(d, n, t)[i] = IF z.mask[i] THEN <<z.tdo[i]>> ELSE <<>>
  BY <1>1, <1>2, KeptMeans
<1>6. /\ p.length = T
      /\ whole(p.tdi, x.tdi, y.tdi, z.tdi) /\ whole(p.smask, x.smask, y.smask, z.smask)
      /\ whole(res.tdo, x.tdo, y.tdo, z.tdo) /\ whole(res.mask, x.mask, y.mask, z.mask)
      /\ \/ p.tdo = res.tdo /\ p.mask = res.mask
         \/ p.tdo = <<>> /\ p.mask = <<>> /\ \A i \in 1..Len(res.mask) : ~res.mask[i]
  <2>1. p = PrepareShift(x, y, z) /\ res = JoinXxr(JoinXxr(x, y), z)
    BY DEF x, y, z
  <2> HIDE DEF p, res, m, k, l
  <2> DEFINE total == x.length + y.length + z.length
             entire(v, e, f, g) ==
                 /\ Sized(v, total)
                 /\ Clean(e, x.length) /\ Clean(f, y.length) /\ Clean(g, z.length) =>
                       Pieces(v, e, x.length, f, y.length, g, z.length)
  <2>2. /\ p.length = total
        /\ entire(p.tdi, x.tdi, y.tdi, z.tdi) /\ entire(p.smask, x.smask, y.smask, z.smask)
        /\ entire(res.tdo, x.tdo, y.tdo, z.tdo) /\ entire(res.mask, x.mask, y.mask, z.mask)
        /\ \/ p.tdo = res.tdo /\ p.mask = res.mask
           \/ p.tdo = <<>> /\ p.mask = <<>> /\ \A i \in 1..Len(res.mask) : ~res.mask[i]
    BY <1>1, <2>1, Shifted
  <2>3. x.length = m /\ y.length = k /\ z.length = l
    BY <1>3, <1>4, <1>5
  <2> QED
    BY <2>2, <2>3
<1>7. \A f \in Fields : /\ MeantOf(d, n, h, f) \in Bits /\ Len(MeantOf(d, n, h, f)) = m
                        /\ MeantOf(d, n, b, f) \in Bits /\ Len(MeantOf(d, n, b, f)) = k
                        /\ MeantOf(d, n, t, f) \in Bits /\ Len(MeantOf(d, n, t, f)) = l
  BY MeantIs
<1> HIDE DEF p, res, m, k, l
<1>8. SubSeq(p.tdi, 1, T) = MeantOf(d, n, h, "tdi") \o MeantOf(d, n, b, "tdi") \o MeantOf(d, n, t, "tdi")
  <2> DEFINE u == MeantOf(d, n, h, "tdi")
             v == MeantOf(d, n, b, "tdi")
             w == MeantOf(d, n, t, "tdi")
  <2>1. /\ u \in Bits /\ Len(u) = m /\ v \in Bits /\ Len(v) = k /\ w \in Bits /\ Len(w) = l
    BY <1>7 DEF Fields
  <2>2. /\ \A i \in 1..m : x.tdi[i] <=> u[i]
        /\ \A i \in 1..k : y.tdi[i] <=> v[i]
        /\ \A i \in 1..l : z.tdi[i] <=> w[i]
    BY <1>3, <1>4, <1>5
  <2>3. Sized(p.tdi, T) /\ Pieces(p.tdi, x.tdi, m, y.tdi, k, z.tdi, l)
    BY <1>3, <1>4, <1>5, <1>6
  <2> HIDE DEF u, v, w
  <2>4. Pieces(p.tdi, u, Len(u), v, Len(v), w, Len(w))
    BY <2>1, <2>2, <2>3 DEF Pieces
  <2>5. T = Len(u) + Len(v) + Len(w)
    BY <2>1
  <2> HIDE DEF T
  <2>6. First(p.tdi, T) = Whole(u, v, w)
    <3> DEFINE q == p.tdi
    <3>1. Sized(q, T) /\ Pieces(q, u, Len(u), v, Len(v), w, Len(w))
      BY <2>3, <2>4
    <3>2. u \in Bits /\ v \in Bits /\ w \in Bits
      BY <2>1
    <3> HIDE DEF q
    <3>3. First(q, T) = Whole(u, v, w)
      BY <2>5, <3>1, <3>2, PiecesMeant
    <3> QED
      BY <3>3 DEF q
  <2> QED
    BY <2>6 DEF u, v, w, T, First, Whole
<1>9. SubSeq(p.smask, 1, T) =
          MeantOf(d, n, h, "smask") \o MeantOf(d, n, b, "smask") \o MeantOf(d, n, t, "smask")
  <2> DEFINE u == MeantOf(d, n, h, "smask")
             v == MeantOf(d, n, b, "smask")
             w == MeantOf(d, n, t, "smask")
  <2>1. /\ u \in Bits /\ Len(u) = m /\ v \in Bits /\ Len(v) = k /\ w \in Bits /\ Len(w) = l
    BY <1>7 DEF Fields
  <2>2. /\ \A i \in 1..m : x.smask[i] <=> u[i]
        /\ \A i \in 1..k : y.smask[i] <=> v[i]
        /\ \A i \in 1..l : z.smask[i] <=> w[i]
    BY <1>3, <1>4, <1>5
  <2>3. Sized(p.smask, T) /\ Pieces(p.smask, x.smask, m, y.smask, k, z.smask, l)
    BY <1>3, <1>4, <1>5, <1>6
  <2> HIDE DEF u, v, w
  <2>4. Pieces(p.smask, u, Len(u), v, Len(v), w, Len(w))
    BY <2>1, <2>2, <2>3 DEF Pieces
  <2>5. T = Len(u) + Len(v) + Len(w)
    BY <2>1
  <2> HIDE DEF T
  <2>6. First(p.smask, T) = Whole(u, v, w)
    <3> DEFINE q == p.smask
    <3>1. Sized(q, T) /\ Pieces(q, u, Len(u), v, Len(v), w, Len(w))
      BY <2>3, <2>4
    <3>2. u \in Bits /\ v \in Bits /\ w \in Bits
      BY <2>1
    <3> HIDE DEF q
    <3>3. First(q, T) = Whole(u, v, w)
      BY <2>5, <3>1, <3>2, PiecesMeant
    <3> QED
      BY <3>3 DEF q
  <2> QED
    BY <2>6 DEF u, v, w, T, First, Whole
<1>10. ASSUME ~MixedOf(d, n, h), ~MixedOf(d, n, b), ~MixedOf(d, n, t)
       PROVE  Compared(T, p.tdo, p.mask) =
                  ComparedOf(d, n, h) \o ComparedOf(d, n, b) \o ComparedOf(d, n, t)
  <2> DEFINE g(i) == IF res.mask[i] THEN <<res.tdo[i]>> ELSE <<>>
             c == Compared(T, p.tdo, p.mask)
             u == ComparedOf(d, n, h)
             v == ComparedOf(d, n, b)
             w == ComparedOf(d, n, t)
             pieces(q, e, f, o) ==
                 /\ \A i \in 1..m : q[i] <=> e[i]
                 /\ \A i \in 1..k : q[m + i] <=> f[i]
                 /\ \A i \in 1..l : q[m + k + i] <=> o[i]
  <2>1. /\ u \in Seq(Bitten) /\ Len(u) = m
        /\ \A i \in 1..m : u[i] = IF x.mask[i] THEN <<x.tdo[i]>> ELSE <<>>
        /\ v \in Seq(Bitten) /\ Len(v) = k
        /\ \A i \in 1..k : v[i] = IF y.mask[i] THEN <<y.tdo[i]>> ELSE <<>>
        /\ w \in Seq(Bitten) /\ Len(w) = l
        /\ \A i \in 1..l : w[i] = IF z.mask[i] THEN <<z.tdo[i]>> ELSE <<>>
    BY <1>3, <1>4, <1>5, <1>10
  <2>2. pieces(res.tdo, x.tdo, y.tdo, z.tdo) /\ pieces(res.mask, x.mask, y.mask, z.mask)
    BY <1>3, <1>4, <1>5, <1>6, <1>10 DEF Pieces
  <2>3. Sized(res.tdo, T) /\ Sized(res.mask, T) /\ T \in Nat
    BY <1>3, <1>4, <1>5, <1>6
  <2> HIDE DEF whole, T
  <2>4. /\ RoundUp(T) \in Nat /\ T <= RoundUp(T) /\ DOMAIN res.mask = 1..RoundUp(T)
        /\ \A i \in 1..RoundUp(T) : res.tdo[i] \in BOOLEAN /\ res.mask[i] \in BOOLEAN
        /\ Len(res.mask) = RoundUp(T)
    <3> DEFINE tdo == res.tdo
               mask == res.mask
    <3>1. RoundUp(T) \in Nat /\ T <= RoundUp(T)
      BY <2>3, RoundedUp
    <3>2. /\ tdo \in Seq(BOOLEAN) /\ Len(tdo) = RoundUp(T)
          /\ mask \in Seq(BOOLEAN) /\ Len(mask) = RoundUp(T)
      BY <2>3 DEF Sized, Bits
    <3> HIDE DEF tdo, mask
    <3>3. /\ DOMAIN mask = 1..RoundUp(T)
          /\ \A i \in 1..RoundUp(T) : tdo[i] \in BOOLEAN /\ mask[i] \in BOOLEAN
      BY <3>1, <3>2
    <3> QED
      BY <3>1, <3>2, <3>3 DEF tdo, mask
  <2>5. ASSUME NEW i \in 1..T PROVE (IF Bit(p.mask, i) THEN <<p.tdo[i]>> ELSE <<>>) = g(i)
    <3>1. i \in 1..RoundUp(T)
      BY <2>3, <2>4
    <3>2. CASE p.tdo = res.tdo /\ p.mask = res.mask
      BY <2>4, <3>1, <3>2 DEF Bit
    <3>3. CASE p.mask = <<>> /\ \A j \in 1..Len(res.mask) : ~res.mask[j]
      <4>1. ~res.mask[i]
        BY <2>4, <3>1, <3>3
      <4>2. ~Bit(p.mask, i)
        BY <3>3 DEF Bit
      <4> QED
        BY <4>1, <4>2
    <3> QED
      BY <1>6, <3>2, <3>3
  <2>6. \A i \in 1..T : g(i) \in Bitten
    <3> SUFFICES ASSUME NEW i \in 1..T PROVE g(i) \in Bitten
      OBVIOUS
    <3>1. i \in 1..RoundUp(T)
      BY <2>3, <2>4
    <3>2. res.tdo[i] = TRUE \/ res.tdo[i] = FALSE
      BY <2>4, <3>1
    <3> QED
      BY <3>2 DEF Bitten
  <2>7. c = [i \in 1..T |-> IF Bit(p.mask, i) THEN <<p.tdo[i]>> ELSE <<>>]
    BY DEF Compared
  <2> HIDE DEF g, c
  <2>8. c = [i \in 1..T |-> g(i)]
    BY <2>5, <2>7
  <2>9. [i \in 1..T |-> g(i)] \in Seq(Bitten) /\ Len([i \in 1..T |-> g(i)]) = T
    BY <2>3, <2>6
  <2>10. \A j \in 1..T : [i \in 1..T |-> g(i)][j] = g(j)
    OBVIOUS
  <2>11. c \in Seq(Bitten) /\ Len(c) = T /\ \A i \in 1..T : c[i] = g(i)
    BY <2>8, <2>9, <2>10
  <2>12. /\ Len(u) = m /\ Len(v) = k /\ Len(w) = l /\ T = m + k + l
         /\ m \in Nat /\ k \in Nat /\ l \in Nat
    BY <1>3, <1>4, <1>5, <2>1 DEF T
  <2>13. /\ \A i \in 1..RoundUp(x.length) : x.tdo[i] \in BOOLEAN
         /\ \A i \in 1..RoundUp(y.length) : y.tdo[i] \in BOOLEAN
         /\ \A i \in 1..RoundUp(z.length) : z.tdo[i] \in BOOLEAN
    <3>1. /\ x.tdo \in Bits /\ Len(x.tdo) = RoundUp(x.length)
          /\ y.tdo \in Bits /\ Len(y.tdo) = RoundUp(y.length)
          /\ z.tdo \in Bits /\ Len(z.tdo) = RoundUp(z.length)
      BY <1>1 DEF Xxrs, Sized
    <3>2. ASSUME NEW q \in Bits PROVE \A i \in 1..Len(q) : q[i] \in BOOLEAN
      BY DEF Bits
    <3> QED
      BY <3>1, <3>2
  <2>14. /\ RoundUp(m) \in Nat /\ m <= RoundUp(m) /\ RoundUp(k) \in Nat /\ k <= RoundUp(k)
         /\ RoundUp(l) \in Nat /\ l <= RoundUp(l)
    BY <2>12, RoundedUp
  <2>15. /\ \A i \in 1..m : x.tdo[i] \in BOOLEAN
         /\ \A i \in 1..k : y.tdo[i] \in BOOLEAN
         /\ \A i \in 1..l : z.tdo[i] \in BOOLEAN
    BY <1>3, <1>4, <1>5, <2>13, <2>14
  <2> HIDE DEF u, v, w
  <2>16. \A j \in 1..T : c[j] = IF res.mask[j] THEN <<res.tdo[j]>> ELSE <<>>
    BY <2>11 DEF g
  <2>22. \A j \in 1..T : res.tdo[j] \in BOOLEAN
    <3>1. \A j \in 1..T : j \in 1..RoundUp(T)
      BY <2>3, <2>4
    <3> QED
      BY <2>4, <3>1
  <2>17. ASSUME NEW i \in 1..Len(u) PROVE c[i] = u[i]
    <3>1. i \in 1..T /\ i \in 1..m
      BY <2>12
    <3>9. /\ res.mask[i] <=> x.mask[i]
          /\ res.tdo[i] <=> x.tdo[i]
          /\ x.tdo[i] \in BOOLEAN
          /\ u[i] = IF x.mask[i] THEN <<x.tdo[i]>> ELSE <<>>
      BY <2>1, <2>2, <2>15, <3>1
    <3> QED
      <4>1. res.tdo[i] = x.tdo[i]
        BY <3>1, <3>9, <2>22
      <4> QED
        BY <3>1, <3>9, <4>1, <2>16
  <2>18. ASSUME NEW i \in 1..Len(v) PROVE c[Len(u) + i] = v[i]
    <3>1. m + i \in 1..T /\ i \in 1..k
      BY <2>12
    <3>9. /\ res.mask[m + i] <=> y.mask[i]
          /\ res.tdo[m + i] <=> y.tdo[i]
          /\ y.tdo[i] \in BOOLEAN
          /\ v[i] = IF y.mask[i] THEN <<y.tdo[i]>> ELSE <<>>
      BY <2>1, <2>2, <2>15, <3>1
    <3>2. c[m + i] = v[i]
      <4>1. res.tdo[m + i] = y.tdo[i]
        BY <3>1, <3>9, <2>22
      <4> QED
        BY <3>1, <3>9, <4>1, <2>16
    <3> QED
      BY <2>12, <3>2
  <2>19. ASSUME NEW i \in 1..Len(w) PROVE c[Len(u) + Len(v) + i] = w[i]
    <3>1. m + k + i \in 1..T /\ i \in 1..l
      BY <2>12
    <3>9. /\ res.mask[m + k + i] <=> z.mask[i]
          /\ res.tdo[m + k + i] <=> z.tdo[i]
          /\ z.tdo[i] \in BOOLEAN
          /\ w[i] = IF z.mask[i] THEN <<z.tdo[i]>> ELSE <<>>
      BY <2>1, <2>2, <2>15, <3>1
    <3>2. c[m + k + i] = w[i]
      <4>1. res.tdo[m + k + i] = z.tdo[i]
        BY <3>1, <3>9, <2>22
      <4> QED
        BY <3>1, <3>9, <4>1, <2>16
    <3> QED
      BY <2>12, <3>2
  <2>20. Len(c) = Len(u) + Len(v) + Len(w)
    BY <2>11, <2>12
  <2>23. Consecutive(c, u, v, w)
    BY <2>17, <2>18, <2>19, <2>20 DEF Consecutive
  <2>21. c = u \o v \o w
    BY <2>1, <2>11, <2>23, OneAfterTheOther
  <2> QED
    BY <2>21 DEF c, u, v, w
<1> QED
  BY <1>6, <1>8, <1>9, <1>10 DEF p, m, k, l, Meaning
-----------------------------------------------------------------------------
(* What the last shift that came out is meant to be.                         *)
MeantSo(d, n, o) ==
    n > 0 /\ d[n].k = "xxr" /\ d[n].reg \in Shifts =>
        LET h == Header(d[n].reg)
            b == d[n].reg
            t == Trailer(d[n].reg)
        IN  ~OverlongOf(d, n, h) /\ ~OverlongOf(d, n, b) /\ ~OverlongOf(d, n, t) =>
                Meaning(LastShift(o).stmt.bits, d, n, h, b, t)

(* What is kept of each register is what its statements mean, and the last     *)
(* shift is made of it.                                                      *)
SvfInv ==
    /\ TapInv
    /\ AllKept(doc, at, low.xxr)
    /\ MeantSo(doc, at, out)

(* A statement of a register changes what is kept of it, and nothing else; a   *)
(* shift is made of what is kept then.                                       *)
LEMMA XxrMerged ==
    ASSUME TapInv, LowerXxr, ~Throws
    PROVE  /\ CanMerge(low.xxr[current.reg], current)
           /\ low'.xxr = [low.xxr EXCEPT ![current.reg] = MergeXxr(low.xxr[current.reg], current)]
           /\ current.reg \in Shifts =>
                 LastShift(out').stmt.bits = PrepareShift(low'.xxr[Header(current.reg)],
                                                low'.xxr[current.reg], low'.xxr[Trailer(current.reg)])
<1> DEFINE x == [low.xxr EXCEPT ![current.reg] = MergeXxr(low.xxr[current.reg], current)]
           l == [low EXCEPT !.xxr = x]
           s == ShiftThrough(Merged, Header(current.reg), current.reg, Trailer(current.reg),
                             Pause(current.reg), Ending(current.reg))
<1>1. /\ Take("xxr") /\ CanMerge(low.xxr[current.reg], current)
      /\ \/ current.reg \notin Shifts /\ Becomes(Merged)
         \/ current.reg \in Shifts /\ Becomes(s)
  BY XxrTaken
<1>2. low \in Lows /\ current \in Given
  BY <1>1, Taken, Kinds
<1>3. l \in Lows /\ Sound(Merged) /\ Merged.low = l
  BY <1>1, MergedSound
<1>4. l.xxr = x
  <2> HIDE DEF x
  <2> QED
    BY <1>2 DEF Lows
<1> HIDE DEF x, l
<1>5. CASE current.reg \notin Shifts /\ Becomes(Merged)
  BY <1>1, <1>3, <1>4, <1>5 DEF Becomes, x
<1>6. CASE current.reg \in Shifts /\ Becomes(s)
  <2>1. /\ Header(current.reg) \in Registers /\ Trailer(current.reg) \in Registers
        /\ Ending(current.reg) \in Stable
    BY <1>2 DEF Header, Trailer, Registers, Ending, Lows
  <2>2. /\ s.low = [Merged.low EXCEPT !.tap = Ending(current.reg)]
        /\ LastShift(s.out).stmt.bits = PrepareShift(Merged.low.xxr[Header(current.reg)],
              Merged.low.xxr[current.reg], Merged.low.xxr[Trailer(current.reg)])
    BY <1>3, <1>6, <2>1, ShiftSound
  <2>3. low' = s.low /\ out' = s.out
    BY <1>6 DEF Becomes
  <2> HIDE DEF s
  <2>4. low'.xxr = x
    BY <1>3, <1>4, <2>2, <2>3 DEF Lows
  <2>5. Merged.low.xxr = x
    BY <1>3, <1>4
  <2> QED
    BY <1>1, <2>2, <2>3, <2>4, <2>5 DEF x
<1> QED
  BY <1>1, <1>5, <1>6

(* A statement of a register keeps it all.                                   *)
LEMMA XxrSvf ==
    ASSUME SvfInv, LowerXxr
    PROVE  SvfInv'
<1>1. TapInv /\ TapInv' /\ Take("xxr")
  BY XxrTap, XxrTaken DEF SvfInv
<1>2. \A reg \in Registers : RegisterKept(doc, at, reg, low.xxr[reg])
  BY DEF SvfInv, AllKept
<1>3. CASE Throws
  <2>1. doc' = doc /\ at' = at /\ low' = low /\ out' = out
    BY <1>1, <1>3 DEF Take, Throws
  <2>2. AllKept(doc', at', low'.xxr)
    BY <2>1 DEF SvfInv
  <2>3. MeantSo(doc', at', out')
    BY <2>1 DEF SvfInv
  <2> QED
    BY <1>1, <2>2, <2>3 DEF SvfInv
<1>4. CASE ~Throws
  <2> DEFINE x == low'.xxr
             r == current.reg
             m == MergeXxr(low.xxr[r], current)
  <2>1. /\ current \in Given /\ doc' = doc /\ at \in Nat /\ at + 1 \in 1..Len(doc)
        /\ low \in Lows /\ current = doc[at + 1] /\ current.k = "xxr"
    BY <1>1, Taken, Kinds DEF current
  <2>2. at' = at + 1
    BY <1>4, XxrTaken DEF Becomes
  <2>3. /\ CanMerge(low.xxr[r], current) /\ x = [low.xxr EXCEPT ![r] = m]
        /\ r \in Shifts => LastShift(out').stmt.bits = PrepareShift(x[Header(r)], x[r], x[Trailer(r)])
    BY <1>1, <1>4, XxrMerged
  <2>4. doc \in Seq(Statements) /\ low.xxr \in [Registers -> Xxrs] /\ r \in Registers
    BY <1>1, <2>1 DEF TapInv, Lows, Given
  <2>5. low.xxr[r] \in Xxrs /\ RegisterKept(doc, at, r, low.xxr[r])
    BY <1>2, <2>4
  <2>6. RegisterKept(doc, at + 1, r, m)
    BY <2>1, <2>3, <2>4, <2>5, KeptOther, KeptSame
  <2>7. x \in [Registers -> Xxrs]
    BY <1>1 DEF TapInv, Sound, Mutable, Lows
  <2> HIDE DEF x, r, m
  <2>8. ASSUME NEW reg \in Registers PROVE RegisterKept(doc, at + 1, reg, x[reg])
    <3>1. CASE reg = r
      BY <2>3, <2>4, <2>6, <3>1
    <3>2. CASE reg # r
      <4>1. x[reg] = low.xxr[reg]
        BY <2>3, <2>4, <3>2
      <4>2. doc[at + 1].reg # reg
        BY <2>1, <3>2 DEF r
      <4> QED
        BY <1>2, <2>1, <2>4, <4>1, <4>2, KeptElse
    <3> QED
      BY <3>1, <3>2
  <2>12. AllKept(doc, at + 1, x)
    BY <2>8 DEF AllKept
  <2>9. MeantSo(doc, at + 1, out')
    <3>1. CASE r \in Shifts
      <4> DEFINE h == Header(r)
                 t == Trailer(r)
                 p == PrepareShift(x[h], x[r], x[t])
      <4>1. h \in Registers /\ t \in Registers
        BY DEF Header, Trailer, Registers
      <4>2. LastShift(out').stmt.bits = p /\ doc[at + 1].reg = r
        BY <2>1, <2>3, <3>1 DEF r
      <4>3. at + 1 \in 0..Len(doc)
        BY <2>1
      <4> HIDE DEF h, t
      <4>4. ASSUME ~OverlongOf(doc, at + 1, h), ~OverlongOf(doc, at + 1, r), ~OverlongOf(doc, at + 1, t)
            PROVE  Meaning(p, doc, at + 1, h, r, t)
        BY <2>4, <2>7, <2>12, <4>1, <4>3, <4>4, ShiftMeant
      <4> HIDE DEF p
      <4> QED
        BY <4>2, <4>4 DEF MeantSo, h, t
    <3>2. CASE r \notin Shifts
      BY <2>1, <3>2 DEF MeantSo, r
    <3> QED
      BY <3>1, <3>2
  <2>10. AllKept(doc', at', low'.xxr)
    BY <2>1, <2>2, <2>12 DEF x
  <2>11. MeantSo(doc', at', out')
    BY <2>1, <2>2, <2>9
  <2> QED
    BY <1>1, <2>10, <2>11 DEF SvfInv
<1> QED
  BY <1>3, <1>4

(* Each step does.                                                           *)
LEMMA NextSvf == SvfInv /\ [Next]_vars => SvfInv'
<1> SUFFICES ASSUME SvfInv, [Next]_vars PROVE SvfInv'
  OBVIOUS
<1>1. TapInv /\ TapInv' /\ AllKept(doc, at, low.xxr) /\ MeantSo(doc, at, out)
  BY NextTap DEF SvfInv
<1>2. ASSUME status = "parsing", at' = at, low' = low, out' = out
      PROVE  SvfInv'
  <2>1. at = 0 /\ at' = 0
    BY <1>1, <1>2 DEF TapInv
  <2>2. \A reg \in Registers : low.xxr[reg].length = 0
    BY <1>1, <2>1, KeptFirst DEF AllKept
  <2>3. AllKept(doc', at', low'.xxr)
    BY <1>2, <2>1, <2>2, KeptFirst DEF AllKept
  <2>4. MeantSo(doc', at', out')
    BY <2>1 DEF MeantSo
  <2> QED
    BY <1>1, <2>3, <2>4 DEF SvfInv
<1>3. ASSUME NEW k, Take(k), k # "xxr", low'.xxr = low.xxr, at' = at + 1
      PROVE  SvfInv'
  <2>1. /\ current.k = k /\ doc' = doc /\ at \in Nat /\ at + 1 \in 1..Len(doc)
        /\ doc[at + 1] = current /\ doc \in Seq(Statements)
    BY <1>1, <1>3, Taken DEF current, TapInv
  <2>2. ASSUME NEW reg \in Registers PROVE RegisterKept(doc, at + 1, reg, low.xxr[reg])
    <3>1. RegisterKept(doc, at, reg, low.xxr[reg])
      BY <1>1 DEF AllKept
    <3>2. ~(doc[at + 1].k = "xxr" /\ doc[at + 1].reg = reg)
      BY <1>3, <2>1
    <3> QED
      BY <2>1, <3>1, <3>2, KeptElse
  <2>3. AllKept(doc', at', low'.xxr)
    BY <1>3, <2>1, <2>2 DEF AllKept
  <2>4. MeantSo(doc', at', out')
    BY <1>3, <2>1 DEF MeantSo
  <2> QED
    BY <1>1, <2>3, <2>4 DEF SvfInv
<1>4. CASE \E c \in Commands : Parse(c)
  BY <1>2, <1>4 DEF Parse
<1>5. CASE EndOfFile
  BY <1>2, <1>5 DEF EndOfFile
<1>6. CASE LowerOther
  BY <1>1, <1>3, <1>6, OtherTap DEF LowerOther, Becomes
<1>7. CASE LowerEnd
  BY <1>1, <1>3, <1>7, EndTap DEF LowerEnd, Becomes
<1>8. CASE LowerXxr
  BY <1>8, XxrSvf
<1>9. CASE LowerState
  <2>1. Take("state") /\ (at' = at + 1 \/ Throws)
    BY <1>9 DEF LowerState, Becomes
  <2>2. low'.xxr = low.xxr
    BY <1>1, <1>9, StateTap
  <2>3. CASE Throws
    <3>1. doc' = doc /\ at' = at /\ low' = low /\ out' = out
      BY <2>1, <2>3 DEF Take, Throws
    <3> QED
      BY <1>1, <3>1 DEF SvfInv
  <2> QED
    BY <1>3, <2>1, <2>2, <2>3
<1>10. CASE LowerRuntest
  BY <1>1, <1>3, <1>10, RuntestTap DEF LowerRuntest, Becomes
<1>11. CASE UNCHANGED vars
  <2>1. doc' = doc /\ at' = at /\ low' = low /\ out' = out
    BY <1>11 DEF vars
  <2> QED
    BY <1>1, <2>1 DEF SvfInv
<1> QED
  BY <1>4, <1>5, <1>6, <1>7, <1>8, <1>9, <1>10, <1>11 DEF Next

(* At first nothing is kept.                                                 *)
LEMMA FirstSvf == Init => SvfInv
<1> SUFFICES ASSUME Init PROVE SvfInv
  OBVIOUS
<1>1. at = 0 /\ \A reg \in Registers : low.xxr[reg].length = 0
  BY DEF Init, NoXxr
<1>2. AllKept(doc, at, low.xxr)
  BY <1>1, KeptFirst DEF AllKept
<1>3. MeantSo(doc, at, out)
  BY <1>1 DEF MeantSo
<1> QED
  BY <1>2, <1>3, FirstTap DEF SvfInv

(* What is said of the statements in the file is what is said of a document.  *)
LEMMA Readings ==
    ASSUME NEW reg
    PROVE  /\ Length(reg) = LengthOf(doc, at, reg)
           /\ \A f : Meant(reg, f) = MeantOf(doc, at, reg, f)
           /\ MeantToCompare(reg) = ComparedOf(doc, at, reg)
           /\ Overlong(reg) <=> OverlongOf(doc, at, reg)
           /\ Mixed(reg) <=> MixedOf(doc, at, reg)
<1>1. Series(reg) = SeriesOf(doc, at, reg)
  BY DEF Series, SeriesOf, AllOf
<1>2. \A f : Having(reg, f) = HavingOf(doc, at, reg, f)
  BY <1>1 DEF Having, HavingOf
<1>3. Length(reg) = LengthOf(doc, at, reg)
  BY <1>1 DEF Length, LengthOf
<1>4. \A f : Meant(reg, f) = MeantOf(doc, at, reg, f)
  <2> SUFFICES ASSUME NEW f PROVE Meant(reg, f) = MeantOf(doc, at, reg, f)
    OBVIOUS
  <2>1. Having(reg, f) = HavingOf(doc, at, reg, f)
    BY <1>2
  <2> QED
    BY <1>3, <2>1 DEF Meant, MeantOf
<1>5. MeantToCompare(reg) = ComparedOf(doc, at, reg)
  BY <1>2, <1>3, <1>4 DEF MeantToCompare, ComparedOf
<1>6. Overlong(reg) <=> OverlongOf(doc, at, reg)
  BY <1>1 DEF Overlong, OverlongOf, Fields
<1>7. Mixed(reg) <=> MixedOf(doc, at, reg)
  BY <1>1, <1>2 DEF Mixed, MixedOf
<1> QED
  BY <1>3, <1>4, <1>5, <1>6, <1>7

(* What is shifted and compared is what the statements mean, whatever the file.*)
THEOREM ShiftsMeant == Spec => []ShiftsAreMeant
<1>1. SvfInv => ShiftsAreMeant
  <2> SUFFICES ASSUME SvfInv, at > 0, doc[at].k = "xxr", doc[at].reg \in Shifts
               PROVE  LET three == IF doc[at].reg = "sdr" THEN <<"hdr", "sdr", "tdr">>
                                   ELSE <<"hir", "sir", "tir">>
                          bits == LastShift(out).stmt.bits
                          used(v) == SubSeq(v, 1, bits.length)
                          meant(f) == Joined(three, [r \in Registers |-> Meant(r, f)])
                      IN  (\A i \in 1..3 : ~Overlong(three[i])) =>
                              /\ bits.length = Length(three[1]) + Length(three[2]) + Length(three[3])
                              /\ used(bits.tdi) = meant("tdi") /\ used(bits.smask) = meant("smask")
                              /\ (\A i \in 1..3 : ~Mixed(three[i])) =>
                                    Compared(bits.length, bits.tdo, bits.mask) =
                                        Joined(three, [r \in Registers |-> MeantToCompare(r)])
    BY DEF ShiftsAreMeant, LastShift
  <2> DEFINE h == Header(doc[at].reg)
             b == doc[at].reg
             t == Trailer(doc[at].reg)
             bits == LastShift(out).stmt.bits
             three == IF doc[at].reg = "sdr" THEN <<"hdr", "sdr", "tdr">> ELSE <<"hir", "sir", "tir">>
  <2>1. three[1] = h /\ three[2] = b /\ three[3] = t
    BY DEF Header, Trailer, Shifts
  <2>2. h \in Registers /\ b \in Registers /\ t \in Registers
    BY DEF Header, Trailer, Shifts, Registers
  <2>3. ~OverlongOf(doc, at, h) /\ ~OverlongOf(doc, at, b) /\ ~OverlongOf(doc, at, t) =>
            Meaning(bits, doc, at, h, b, t)
    BY DEF SvfInv, MeantSo
  <2> HIDE DEF h, b, t, bits, three
  <2>5. \A f : Joined(three, [r \in Registers |-> Meant(r, f)]) =
                    MeantOf(doc, at, h, f) \o MeantOf(doc, at, b, f) \o MeantOf(doc, at, t, f)
    <3> SUFFICES ASSUME NEW f
                 PROVE  Joined(three, [r \in Registers |-> Meant(r, f)]) =
                            MeantOf(doc, at, h, f) \o MeantOf(doc, at, b, f) \o MeantOf(doc, at, t, f)
      OBVIOUS
    <3> DEFINE g == [r \in Registers |-> Meant(r, f)]
    <3>1. g[h] = MeantOf(doc, at, h, f) /\ g[b] = MeantOf(doc, at, b, f) /\ g[t] = MeantOf(doc, at, t, f)
      BY <2>2, Readings
    <3> HIDE DEF g
    <3>2. Joined(three, g) = g[h] \o g[b] \o g[t]
      BY <2>1 DEF Joined
    <3> QED
      BY <3>1, <3>2 DEF g
  <2>6. Joined(three, [r \in Registers |-> MeantToCompare(r)]) =
            ComparedOf(doc, at, h) \o ComparedOf(doc, at, b) \o ComparedOf(doc, at, t)
    <3> DEFINE g == [r \in Registers |-> MeantToCompare(r)]
    <3>1. g[h] = ComparedOf(doc, at, h) /\ g[b] = ComparedOf(doc, at, b) /\ g[t] = ComparedOf(doc, at, t)
      BY <2>2, Readings
    <3> HIDE DEF g
    <3>2. Joined(three, g) = g[h] \o g[b] \o g[t]
      BY <2>1 DEF Joined
    <3> QED
      BY <3>1, <3>2 DEF g
  <2>7. ASSUME \A i \in 1..3 : ~Overlong(three[i])
        PROVE  Meaning(bits, doc, at, h, b, t)
    <3>1. ~Overlong(h) /\ ~Overlong(b) /\ ~Overlong(t)
      BY <2>1, <2>7
    <3> QED
      BY <2>3, <3>1, Readings
  <2>8. (\A i \in 1..3 : ~Mixed(three[i])) =>
            ~MixedOf(doc, at, h) /\ ~MixedOf(doc, at, b) /\ ~MixedOf(doc, at, t)
    BY <2>1, Readings
  <2>9. Length(three[1]) = LengthOf(doc, at, h) /\ Length(three[2]) = LengthOf(doc, at, b)
        /\ Length(three[3]) = LengthOf(doc, at, t)
    BY <2>1, Readings
  <2> QED
    BY <2>5, <2>6, <2>7, <2>8, <2>9 DEF Meaning, bits, three
<1> QED
  BY <1>1, FirstSvf, NextSvf, PTL DEF Spec
=============================================================================
