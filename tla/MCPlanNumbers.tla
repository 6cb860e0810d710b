---------------------------- MODULE MCPlanNumbers ----------------------------
EXTENDS PlanNumbersProperties

Neighbour(card, cost, offers, times) ==
  [open |-> TRUE, sponsored |-> FALSE, dishes |-> card, cost_for_two |-> cost,
   veg |-> offers, coupons |-> 0, offers |-> offers, open_times |-> times]
Dishes(name, category, price) == [name |-> name, category |-> category, price |-> price]
MCDinnerTimes == 1 .. 6
MCArea ==
  [roma |-> Neighbour(<<Dishes("margherita", "pizza", 240), Dishes("penne", "pasta", 180),
                        Dishes("cola", "beverage", 0)>>, 500, TRUE, {1, 2, 3, 4, 5, 6}),
   pisa |-> Neighbour(<<Dishes("margherita", "pizza", 261), Dishes("diavola", "pizza", 300)>>, 600, FALSE, {5, 6}),
   bari |-> Neighbour(<<Dishes("penne", "pasta", 203), Dishes("brownie", "dessert", 120)>>, 450, TRUE, {1, 2, 3, 4, 5, 6}),
   como |-> Neighbour(<<Dishes("penne", "pasta", 210), Dishes("fries", "side", 60), Dishes("dip", "side", 20),
                        Dishes("tea", "beverage", 10), Dishes("bun", "bread", 15),
                        Dishes("coffee", "beverage", 80)>>, 700, TRUE, {})]
MCMenus ==
  {<<Dishes("margherita", "pizza", 290), Dishes("penne", "pasta", 150),
     Dishes("brownie", "dessert", 140), Dishes("lasagna", "pasta", 320)>>,
   <<Dishes("penne", "pasta", 240), Dishes("fries", "side", 90), Dishes("dip", "side", 30),
     Dishes("tea", "beverage", 14), Dishes("bun", "bread", 22), Dishes("coffee", "beverage", 100),
     Dishes("margherita", "pizza", 200)>>,
   <<Dishes("margherita", "pizza", 290), Dishes("margherita", "pizza", 190)>>,
   <<>>}

Booking(hour, count, waits) == [hour |-> hour, guests |-> count, waits |-> waits]
House(capacity, slots, bookings) == [capacity |-> capacity, slots |-> slots, bookings |-> bookings]
MCHouses ==
  {House(70, 4, {Booking(13, 30, FALSE), Booking(19, 60, FALSE)}),
   House(70, 2, {Booking(22, 64, FALSE), Booking(23, 5, TRUE)}),
   House(55, 2, {Booking(15, 40, TRUE), Booking(18, 50, TRUE)}),
   House(60, 5, {Booking(12, 70, FALSE), Booking(20, 75, TRUE)}),
   House(10000, 5, {Booking(14, 9004, FALSE), Booking(21, 9005, FALSE)})}

Stock(name, token, stock, threshold, spoils) ==
  [name |-> name, token |-> token, stock |-> stock, threshold |-> threshold, spoils |-> spoils]
MCShelves ==
  {<<Stock("chicken", "chicken", 880, 800, TRUE), Stock("olive oil", "other", 1266, 400, FALSE)>>,
   <<Stock("garlic", "garlic", 60, 150, TRUE), Stock("garlic paste", "garlic", 500, 900, FALSE),
     Stock("sauce", "sauce", 300, 800, FALSE)>>,
   <<Stock("garlic", "garlic", 120, 150, TRUE), Stock("garlic paste", "garlic", 990, 100, FALSE),
     Stock("garlic", "garlic", 900, 950, TRUE)>>,
   <<Stock("pizza dough", "pizza", 1150, 1000, TRUE), Stock("cola", "cola", 4000, 4000, FALSE)>>}

MCWithin == {<<"garlic", "garlic paste">>}
MCDemands ==
  {[history |-> <<40, 40, 42, 40>>, yhat |-> Missing, weather |-> <<70, 30>>],
   [history |-> <<40, 40, 42, 40>>, yhat |-> 310, weather |-> Missing],
   [history |-> <<0, 0, 0, 0>>, yhat |-> 55, weather |-> <<0, 36>>]}
Text(waste, mention, elsewhere, staff, complexity) ==
  [waste |-> waste, mention |-> mention, elsewhere |-> elsewhere, staff |-> staff, complexity |-> complexity]
MCTexts ==
  {Text({}, 0, {}, 0, 1), Text({}, 80, {65}, 30, 7),
   Text({[item |-> 0, names |-> "chicken", qty |-> 900, quotes |-> {}]}, 40, {}, 4, 3)}
MCPacks == {<<>>, [garlic |-> 500]}
MCWindows == {<<22, 2>>, <<19, 24>>, <<11, 15>>}
=============================================================================
