----------------------------- MODULE MCBatchScripts -----------------------------
EXTENDS BatchScripts, TLC
CONSTANTS a, b, ship, shop

Scene(first, second, untag, stalling, stuck, mortal, starved) ==
  [kind |-> a :> first @@ b :> second, untag |-> untag, stalling |-> stalling,
   stuck |-> stuck, mortal |-> mortal, starved |-> starved, losses |-> 1]
TwoTeardowns        == Scene("teardown", "teardown", {1}, {b}, {}, {}, {})
GenerateAndTeardown == Scene("generate", "teardown", {1}, {}, {}, {}, {})
TwoPopulates        == Scene("populate", "populate", {}, {}, {}, {b}, {})
PopulateAndTeardown == Scene("populate", "teardown", {}, {}, {}, {a}, {a})
StuckListings       == Scene("populate", "teardown", {1}, {a, b}, {a, b}, {}, {})
ScenesPlayed        == {TwoTeardowns, GenerateAndTeardown, TwoPopulates, PopulateAndTeardown, StuckListings}

Widths == a :> 2 @@ b :> 1

\* The runs of populate plan the first product differently.
Plans == [w \in Scripts \X Items |->
            IF w = <<a, 1>> THEN <<ship, shop>> ELSE IF w = <<b, 1>> THEN <<ship>> ELSE <<shop>>]
=============================================================================
