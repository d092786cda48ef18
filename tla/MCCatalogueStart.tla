-------------------------- MODULE MCCatalogueStart --------------------------
(* A small server and five map files for CatalogueStart.                  *)
EXTENDS CatalogueStart

RootFolder == [numeric |-> TRUE, ns |-> 0, id |-> "85"]
Folder == [numeric |-> FALSE, ns |-> 1, id |-> "dir"]
Scalar == [numeric |-> FALSE, ns |-> 1, id |-> "x"]
Twin == [numeric |-> FALSE, ns |-> 2, id |-> "x"]
List == [numeric |-> TRUE, ns |-> 1, id |-> "7"]
Vacant == [numeric |-> FALSE, ns |-> 1, id |-> "y"]
Struct == [numeric |-> FALSE, ns |-> 1, id |-> "z"]

MCObjects == {RootFolder, Folder}
MCVariables == {Scalar, Twin, List, Vacant, Struct}
MCRoot == RootFolder

MCRefs == [o \in MCObjects |->
             IF o = RootFolder THEN <<Folder, Vacant>>
             ELSE <<Struct, List, Scalar, Twin>>]

MCAttr == [v \in MCVariables |->
             [type |-> IF v = Struct THEN 22 ELSE 6,
              scalar |-> v \in {Scalar, Twin},
              length |-> CASE v = Vacant -> 0 [] v = List -> 3 [] OTHER -> 1,
              writable |-> v = Scalar]]

MCMapFiles ==
  {[use |-> TRUE, xml |-> TRUE, blank |-> FALSE,
    lines |-> <<Request(List, <<"a">>, 2), Request(Twin, <<"a">>, NoRange)>>],
   [use |-> TRUE, xml |-> TRUE, blank |-> FALSE,
    lines |-> <<Request(Scalar, NoName, NoRange),
                Request(Scalar, NoName, NoRange), Request(List, <<"a">>, 2)>>],
   [use |-> TRUE, xml |-> FALSE, blank |-> FALSE,
    lines |-> <<Request(Folder, NoName, NoRange), Request(Struct, NoName, NoRange),
                Request(List, NoName, NoRange)>>],
   [use |-> TRUE, xml |-> TRUE, blank |-> FALSE,
    lines |-> <<Request(List, <<"b">>, TwoDimensional),
                Request(Vacant, NoName, NoRange)>>],
   [use |-> TRUE, xml |-> TRUE, blank |-> TRUE,
    lines |-> <<Request(Scalar, NoName, NoRange)>>]}
=============================================================================
