-------------------------- MODULE MCSwiggyEnrichers --------------------------
EXTENDS SwiggyEnrichersProperties, TLC
CONSTANTS e1, e2

Neighbour(menu, cost, coupons, times) ==
  [open |-> TRUE, sponsored |-> FALSE, dishes |-> menu, cost_for_two |-> cost,
   veg |-> coupons = 0, coupons |-> coupons, offers |-> coupons > 0, open_times |-> times]
Item(name, category, price) == [name |-> name, category |-> category, price |-> price]

MCDinnerTimes == 1 .. 6
MCArea ==
  [ad   |-> [Neighbour(<<Item("margherita", "pizza", 90)>>, 200, 2, {1}) EXCEPT !.sponsored = TRUE],
   shut |-> [Neighbour(<<Item("margherita", "pizza", 95)>>, 200, 0, {}) EXCEPT !.open = FALSE],
   roma |-> Neighbour(<<Item("margherita", "pizza", 240), Item("penne", "pasta", 180),
                        Item("cola", "beverage", 0)>>, 500, 2, {1, 2, 3, 4, 5, 6}),
   pisa |-> Neighbour(<<Item("margherita", "pizza", 261), Item("diavola", "pizza", 300)>>, 600, 0, {5, 6}),
   bari |-> Neighbour(<<Item("penne", "pasta", 203)>>, 450, 1, {1, 2, 3, 4, 5, 6}),
   como |-> Neighbour(<<Item("penne", "pasta", 210)>>, 700, 0, {}),
   lodi |-> Neighbour(<<Item("brownie", "dessert", 120)>>, 300, 0, {3})]
MCPages ==
  [italian |-> << <<"ad", "roma", "pisa", "shut">>, <<"roma", "bari", "bari", "lodi">> >>,
   biryani |-> << <<"como", "lodi", "pisa">>, <<>> >>]

Ours == <<Item("margherita", "pizza", 290), Item("penne", "pasta", 150),
          Item("brownie", "dessert", 140), Item("lasagna", "pasta", 320)>>
Ask(kind, org, cuisine, ours, shortages) ==
  [kind |-> kind, org |-> org, cuisine |-> cuisine, ours |-> ours, shortages |-> shortages]
MCContexts ==
  {Ask("competitor", 1, "italian", Ours, <<>>), Ask("competitor", 1, "biryani", <<>>, <<>>),
   Ask("competitor", 2, "biryani", Ours, <<>>),
   Ask("occupancy", 1, "italian", <<>>, <<>>), Ask("occupancy", 1, "biryani", <<>>, <<>>),
   Ask("procurement", 1, "italian", <<>>, <<"flour", "basil", "cream">>),
   Ask("procurement", 1, "italian", <<>>, <<"basil">>)}
Symmetry == Permutations({e1, e2})
=============================================================================
