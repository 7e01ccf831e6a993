------------------------------- MODULE MCEngine -------------------------------
(***************************************************************************)
(* Two dimensions, d with a hierarchy and e; relations that support and    *)
(* oppose from d to e, one back from e to d, and two hierarchies on d.     *)
(***************************************************************************)
EXTENDS EngineProperties

MCMembers == {"a", "b", "c", "x", "y", "n"}
MCScales == {"s"}
MCRelations == {"up", "over", "pro", "con", "back"}
MCContractions == {"there", "round"}
MCOrder == <<"d", "e">>
MCFiles == {"f", "g", "gone", "out"}
MCOutside == {"out"}
MCContents == [f \in MCFiles |-> CASE f = "gone" -> None [] f = "g" -> "old" [] OTHER -> "new"]
MCUnits == 6
MCLimits == {None, 0, 1, 2}

Lvl(token, value, range) == [token |-> token, value |-> value, range |-> range]
Three == <<Lvl("no", 0, {0}), Lvl("lo", 1, {1}), Lvl("hi", 2, {2, 3})>>
Four == <<Lvl("hi", 3, {3}), Lvl("lo", 1, {1}), Lvl("no", 0, {0}), Lvl("mid", 3, {2})>>

Source(file, hash) == [system |-> TRUE, file |-> file, hash |-> hash]
Spec4(id, weight, token, source) ==
  [id |-> id, weight |-> weight, token |-> token, source |-> source]
A == Spec4("a", 2, None, Source("f", "old"))
B == Spec4("b", None, "lo", Source("gone", "old"))
C == Spec4("c", None, None, None)
X == Spec4("x", None, None, Source("g", "old"))
Y == Spec4("y", 3, None, Source("out", "old"))
N == Spec4("n", None, "hi", Source("f", "old"))

Roster(specs) ==
  [m \in {specs[i].id : i \in DOMAIN specs} |->
     MemberFrom(specs[CHOOSE i \in DOMAIN specs : specs[i].id = m])]

O(token, proposed) ==
  [token |-> token, proposed |-> proposed, provenance |-> None, sourced |-> FALSE,
   measured |-> None, evidence |-> 0]
Measured == [O("hi", FALSE) EXCEPT !.provenance = "observed", !.sourced = TRUE, !.measured = 3]

Rel(from, to, type, cells) ==
  [from |-> from, to |-> to, type |-> type, scale |-> "s", policy |-> "every_from",
   status |-> "active", successor |-> None, cells |-> cells]
Ctr(chain, combination) == [chain |-> chain, combination |-> combination, bySource |-> TRUE]

\* An empty document, and one in use: b is part of a and c of b, through two
\* hierarchies; two paths lead from a to c.
InUse ==
  [dimensions |-> [d |-> [weightScale |-> "s", members |-> Roster(<<A, B, C>>)],
                   e |-> [weightScale |-> None, members |-> Roster(<<X, Y>>)]],
   scales |-> [s |-> Three],
   relations |->
     [up |-> Rel("d", "d", "contains", (<<"a", "b">> :> <<O("hi", FALSE)>>)),
      over |-> Rel("d", "d", "contains", (<<"b", "c">> :> <<O("lo", FALSE)>>)),
      pro |-> Rel("d", "e", "supports",
                  (<<"c", "x">> :> <<O("lo", FALSE), O("hi", TRUE)>>)
                    @@ (<<"a", "x">> :> <<O("lo", FALSE)>>)
                    @@ (<<"a", "y">> :> <<O("lo", FALSE)>>)
                    @@ (<<"b", "x">> :> <<O("hi", TRUE)>>)),
      con |-> Rel("d", "e", "opposes", (<<"b", "y">> :> <<O("no", FALSE)>>)),
      back |-> Rel("e", "d", "constrains",
                   (<<"x", "c">> :> <<O("hi", FALSE)>>)
                     @@ (<<"y", "c">> :> <<O("lo", FALSE), O("hi", FALSE)>>))],
   contractions |-> [there |-> Ctr(<<"pro", "back">>, "product"),
                     round |-> Ctr(<<"pro", "back", "con">>, "min")]]

\* A model file that names a member in two dimensions: the loader takes it.
TwiceNamed ==
  [InUse EXCEPT !.dimensions.e.members = Roster(<<X, Y, C>>),
                !.relations.up.cells = (<<"a", "c">> :> <<O("lo", FALSE)>>),
                !.relations.over = Rel("e", "e", "contains", << >>)]

MCImported == {TwiceNamed}

MCDocuments == {NoDocument, InUse}

MCDimensionSpecs == {[id |-> "d", weightScale |-> None], [id |-> "e", weightScale |-> "s"]}
MCScaleSpecs == {[id |-> "s", levels |-> Four]}
MCRelationSpecs ==
  {[id |-> "pro", from |-> "d", to |-> "e", type |-> "opposes", scale |-> "s",
    policy |-> "both"]}
MCContractionSpecs ==
  {[id |-> "round", chain |-> <<"back", "pro">>, combination |-> "product",
    bySource |-> None]}
MCMemberSpecs == {N}
MCRosters == {<<A, C>>, <<X, Y>>, <<X, [X EXCEPT !.source = None], Y>>}
MCObservations == {O("lo", TRUE), Measured}
\* A cell that ends on it.
MCTwiceCells == {<<"con", "b", "c">>}

MCCells ==
  {<<"pro", "b", "x">>, <<"con", "a", "x">>, <<"up", "c", "a">>}
MCRetirements == {<<"b", "a">>, <<"x", None>>, <<"con", "pro">>}
=============================================================================
