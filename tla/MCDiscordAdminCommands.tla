----------------------- MODULE MCDiscordAdminCommands -----------------------
(* Small instances of DiscordAdminCommands.                                 *)
EXTENDS DiscordAdminCommands

CONSTANTS j1, j2, r1, r2, r3, c1

Typed(source, id, intent) ==
    [kind |-> "command", source |-> source, id |-> id, intent |-> intent, reason |-> None]
Form(source, id, intent, reason) ==
    [kind |-> "reason_submit", source |-> source, id |-> id, intent |-> intent, reason |-> reason]
MCScript(a, b, c) == [r \in AdminRequests |-> IF r = r1 THEN a ELSE IF r = r2 THEN b ELSE c]

Unused == Form(j2, r3, "cancel", "first")   \* no draft was ever answered with it

(* Two forms for one draft; a form delivered twice; a form beside a command *)
(* that is left to cron; a command delivered twice.                         *)
MCScripts ==
    {MCScript(Typed(j1, r1, "bulk_cancel"), Form(j1, r2, "bulk_cancel", "first"),
              Form(j1, r3, "bulk_cancel", "second")),
     MCScript(Typed(j1, r1, "restrict"), Form(j1, r2, "restrict", "first"),
              Form(j1, r2, "restrict", "first")),
     MCScript(Typed(j1, r1, "cancel"), Form(j1, r2, "cancel", "first"), Typed(j2, r3, "create")),
     MCScript(Typed(j1, r1, "create"), Typed(j1, r1, "create"), Unused)}
=============================================================================
