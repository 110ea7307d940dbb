------------------------- MODULE MCTelegramNotifier -------------------------
(* Instances of TelegramNotifier for TLC; its events and times are numbers. *)
EXTENDS TelegramNotifier, TLC
=============================================================================
