--------------------------- MODULE MCDiscordOutbox ---------------------------
(* Small instances of DiscordOutbox.                                       *)
EXTENDS DiscordOutbox

CONSTANTS w1, w2

MCWorkers == {w1, w2}
=============================================================================
