---------------------------- MODULE XDeliveryMC ----------------------------
(* Small instances of XDelivery: which posts address the bot.               *)
EXTENDS XDelivery, TLC

\* Every post but the second, which is a quote or the bot's own reply.
AllButTheSecond == Posts \ {2}

=============================================================================
