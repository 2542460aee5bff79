---------------------------- MODULE MCReincarnation ----------------------------
(* Four markets, three of them for training before ties: entries that tie, that  *)
(* follow within the clock's drift and that lie apart; bets that fall due well  *)
(* before, with and well after the next decision, resolved early or late.       *)
EXTENDS Reincarnation

Timing(e, due, resolved) == [entry |-> e, expected |-> due, resolution |-> resolved]

MCTimings ==
  {Timing(1, 26, 23), Timing(1, 61, 62), Timing(2, 40, 41),
   Timing(40, 65, 62), Timing(80, 85, 84)}

MCDesigns ==
  {[name |-> "passes", learning |-> TRUE, gods |-> FALSE],
   [name |-> "groundhog", learning |-> TRUE, gods |-> TRUE],
   [name |-> "groundhog", learning |-> FALSE, gods |-> FALSE]}

================================================================================
