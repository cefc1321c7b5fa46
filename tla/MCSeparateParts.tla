--------------------------- MODULE MCSeparateParts ---------------------------
(* The parts of the web client, the administrator's and the student's, and   *)
(* those of its deployment - the activation of the contract, the disable     *)
(* sweep, the online indexes, the recorder of evidence -, and the register   *)
(* of seats, in one run.  A behaviour is one of one part, its focus; the     *)
(* others stay as they began, so that the states add up and do not multiply, *)
(* and every property is the one of its own module.                          *)
EXTENDS AdminDesk, AdminLinks, AdminLists, BulkCancellation, ContractActivation,
        DisableSweep, EvidenceRecorder, OnlineIndexes, RequestLimits, SeatRegister,
        SettingsSheet, StudentPage, StudentPanels

CONSTANTS l1, l2,   \* students on the desk
          f1,       \* a filter
          o2,       \* the administrator who looks on
          r2        \* the recorder that joins for the second todo

VARIABLE focus
parts == {"activation", "bulk", "csrf", "desk", "evidence", "indexes", "links", "lists",
          "page", "panels", "rates", "register", "sheets", "sweep"}

MCPlaces == 1 .. 4
MCDeps == [t \in Todos |-> {t - 1} \ {0}]
MCCommits == [t \in Todos |-> 1]
MCRuns == <<1, 2>>
MCRules == 1 .. 2
MCLimit == <<2, 1>>
MCWindow == <<3, 4>>
MCChecksum == [r \in Runners |-> 1]

\* Out of focus, a part is in one of the states it may begin in.
MCInit ==
    /\ focus \in parts
    /\ BulkInit /\ CsrfInit /\ EvidenceInit /\ LinksInit /\ PageInit /\ PanelsInit /\ RatesInit /\ SheetInit
    /\ ActivationInit /\ Init
    /\ IndexInit /\ (focus # "indexes" => \A i \in Indexes : indexState[i] = "absent")
    /\ SweepInit /\ (focus # "sweep" => message.sync = "SYNCED")
    /\ DeskInit /\ restricted[l1] /\ ~restricted[l2]
    /\ ListInit /\ \A p \in Places : table[p].filter \in {FilterAll} \cup
                      (IF focus = "lists" THEN {f1} ELSE {})
    /\ focus = "lists" => table[1].filter = f1

-----------------------------------------------------------------------------
administrators == <<bulkVars, deskVars, linkVars, listVars, sheetVars>>
students == <<csrfVars, pageVars, panelVars, rateVars>>
tools == <<activationVars, evidenceVars, indexVars, vars, sweepVars>>

MCNext ==
    \/ focus = "bulk" /\ UNCHANGED <<focus, students, tools,
           deskVars, linkVars, listVars, sheetVars>> /\ BulkNext
    \/ focus = "desk" /\ UNCHANGED <<focus, students, tools,
           bulkVars, linkVars, listVars, sheetVars>> /\ DeskNext
    \/ focus = "links" /\ UNCHANGED <<focus, students, tools,
           bulkVars, deskVars, listVars, sheetVars>> /\ LinksNext
    \/ focus = "lists" /\ UNCHANGED <<focus, students, tools,
           bulkVars, deskVars, linkVars, sheetVars>> /\ ListNext
    \/ focus = "sheets" /\ UNCHANGED <<focus, students, tools,
           bulkVars, deskVars, linkVars, listVars>> /\ SheetNext
    \/ focus = "csrf" /\ UNCHANGED <<focus, administrators, tools,
           pageVars, panelVars, rateVars>> /\ CsrfNext
    \/ focus = "page" /\ UNCHANGED <<focus, administrators, tools,
           csrfVars, panelVars, rateVars>> /\ PageNext
    \/ focus = "panels" /\ UNCHANGED <<focus, administrators, tools,
           csrfVars, pageVars, rateVars>> /\ PanelsNext
    \/ focus = "rates" /\ UNCHANGED <<focus, administrators, tools,
           csrfVars, pageVars, panelVars>> /\ RatesNext
    \/ focus = "activation" /\ UNCHANGED <<focus, administrators, students,
           evidenceVars, indexVars, vars, sweepVars>> /\ ActivationNext
    \/ focus = "evidence" /\ UNCHANGED <<focus, administrators, students,
           activationVars, indexVars, vars, sweepVars>> /\ EvidenceNext
    \/ focus = "indexes" /\ UNCHANGED <<focus, administrators, students,
           activationVars, evidenceVars, vars, sweepVars>> /\ IndexNext
    \/ focus = "register" /\ UNCHANGED <<focus, administrators, students,
           activationVars, evidenceVars, indexVars, sweepVars>> /\ Next
    \/ focus = "sweep" /\ UNCHANGED <<focus, administrators, students,
           activationVars, evidenceVars, indexVars, vars>> /\ SweepNext

MCSpec == MCInit /\ [][MCNext]_<<focus, administrators, students, tools>>

\* One administrator looks at the settings and edits nothing, and what the
\* other saves twice was edited; the second student is drafted for after the
\* first, two orders are under way only before the first is carried out, and one
\* while another section is shown; what goes wrong comes instead of a request; a
\* fourth event matters while the token is awaited.
ClientBound ==
    /\ \A p \in Parts : sheets[o2][p].reading = "asked" /\ ~sheets[o2][p].edited
    /\ sheetCount.saves + sheetCount.dates + sheetCount.faults <= 2
    /\ sheetCount.saves < 2 \/ sheetCount.edits = 1
    /\ drafts[l1].reason # NoOne \/ drafts[l2].reason = NoOne
    /\ Cardinality(orders) + version[l1] + version[l2] <= 2 /\ sentOrders + version[l2] <= 2
    /\ desk.section # "students" => Cardinality(orders) + version[l1] + version[l2] <= 1
    /\ Len(asked) + troubles.faults + troubles.others <= 3
    /\ events <= 3 \/ act.pc \in {"token", "sent"}

\* A call of the activation fails instead of a switch or a write, the second
\* switch comes after it, and how a writer of the new contract began makes no
\* difference.  Recorders race on the second todo, which is worked on once the
\* first is frozen, and merged once it is frozen itself; what strays from the
\* declared paths is not run.
DeploymentBound ==
    /\ activationFaults + workers.epoch <= 2 /\ (workers.epoch = 2 => marker)
    /\ activationFaults = 0 \/ \A w \in Writers : writer[w].phase = "idle"
    /\ \A w \in Writers : writer[w].contract = "v2" => writer[w].serializable \/ writer[w].phase = "idle"
    /\ recorder[r2] # Free => recorder[r2].todo = 2
    /\ \A r, q \in Recorders :
          recorder[r] # Free /\ recorder[q] # Free => recorder[r].todo = recorder[q].todo
    /\ manifest[1] = NoFile => narrative[2] = 0 /\ ~MadeCommit(<<2, 1>>) /\ logs[2][1] = 0
    /\ manifest[2] = NoFile => mainHead # MergeOf(<<2, 1>>)
    /\ \A c \in WorkCommits :
          MadeCommit(c) /\ history[c].paths = "stray" => commandRecords[c[1]] = <<>>

MCBound == ClientBound /\ DeploymentBound
=============================================================================
