------------------------- MODULE MCSchemaVerification -------------------------
(***************************************************************************)
(* Three files that may import each other and themselves: two of them up   *)
(* to twice, the third once; the command is given the first two.           *)
(***************************************************************************)
EXTENDS SchemaVerification

CONSTANTS a, b, c

MCFiles == {a, b, c}

Located == [target : MCFiles, agrees : BOOLEAN]
Missing == [stage |-> NoFile, dependencies |-> <<>>]
Unlisted == [stage |-> 6, dependencies |-> <<>>]
Passing(dependencies) == [stage |-> AllSix, dependencies |-> dependencies]

Upto1 == {Passing(<<>>)} \cup {Passing(<<d>>) : d \in Located}
Upto2 == Upto1 \cup {Passing(<<d, e>>) : d, e \in Located}
Unlocated == Passing(<<[target |-> Nowhere, agrees |-> FALSE]>>)

MCContentsOf ==
  [f \in MCFiles |->
     {Unlisted} \cup CASE f = a -> Upto2 \cup {Missing}
                       [] f = b -> Upto2
                       [] f = c -> Upto1 \cup {Missing, Unlocated}]

MCArguments == <<a, b>>
=============================================================================
