---------------------- MODULE MCDiscordInteractionJobs ----------------------
(* Small instances of DiscordInteractionJobs.                               *)
EXTENDS DiscordInteractionJobs

CONSTANTS i1, i2, i3, r1, r2, c1

(* The second request repeats the first, carries another command under its  *)
(* interaction, or is another button, acknowledged already.                 *)
MCCarry(interaction, first, other, second) ==
    [r \in Requests |-> IF r = r1 THEN [interaction |-> interaction, intent |-> first]
                        ELSE [interaction |-> other, intent |-> second]]
MCDeliveries ==
    {MCCarry(i1, "accept", i1, "accept"), MCCarry(i1, "accept", i1, "reject"),
     MCCarry(i1, "admin_cancel", i2, "accept"), MCCarry(i3, "no_show", i2, "accept")}

\* Two of these: a fault, a move of the fence, the end of the period.
MCBound == Faults + control.epoch + (IF closed THEN 1 ELSE 0) <= 2
=============================================================================
