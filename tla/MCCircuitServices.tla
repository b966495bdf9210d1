--------------------------- MODULE MCCircuitServices ---------------------------
(***************************************************************************)
(* The CircuitNET components for model checking, small instances of them    *)
(* side by side.  They share no state, so a behaviour is about one of them, *)
(* or about one instance of it, and the others stay as they begin: every    *)
(* behaviour of every component is one of this specification.  The          *)
(* constants of CircuitControl are the ones the configuration gives.        *)
(***************************************************************************)
EXTENDS CircuitControl
CONSTANTS
    Parts,  \* the components whose behaviours are explored
    a, b, p1, p2, n1, n2, f1, r1, r2, r3

VARIABLES
    part,  \* the component a behaviour is about
    count, active, poll, conn, held, last, stopping, stamp, polls, linkFaults, holds,
    db, tape, offers, receipts, lineOf, lost, review, restores,
    lib, source, fileOf, pub, dossier, due, fileSess, fileEdits, fileFaults,
    controlChild, controlParent, controlAvail, controlSess, controlBackup, controlEdits,
    controlFaults,
    chain, keys, upstream, peer, map, catalogSess, catalogBackup, published,
    transitions, catalogFaults

links == <<count, active, poll, conn, held, last, stopping, stamp, polls, linkFaults,
           holds>>
line == <<db, tape, offers, receipts, lineOf, lost, review, restores>>
files == <<lib, source, fileOf, pub, dossier, due, fileSess, fileEdits, fileFaults>>
controls == <<controlChild, controlParent, controlAvail, controlSess, controlBackup,
              controlEdits, controlFaults>>
catalogs == <<chain, keys, upstream, peer, map, catalogSess, catalogBackup, published,
              transitions, catalogFaults>>
all == <<part, links, line, files, vars, controls, catalogs>>

Crossing == INSTANCE CircuitLink WITH
    Boards <- {a, b}, Initiators <- {<<a, b>>, <<b, a>>}, Capacity <- 2, Tries <- 1,
    MaxPolls <- 1, MaxFaults <- 1, MaxHolds <- 0, MayStop <- {}, faults <- linkFaults
Policy == INSTANCE CircuitLink WITH
    Boards <- {a, b}, Initiators <- {<<a, b>>}, Capacity <- 2, Tries <- 2,
    MaxPolls <- 1, MaxFaults <- 1, MaxHolds <- 1, MayStop <- {}, faults <- linkFaults
Line == INSTANCE CircuitRestore WITH
    Length <- 2, Posts <- {p1, p2}, Names <- {n1, n2}, NoPost <- None, MaxAttempts <- 1,
    MaxRestores <- 1, of <- lineOf
Receipts == INSTANCE CircuitFiles WITH
    Length <- 2, Files <- {f1}, MaxIds <- 1, Native <- {<<1, f1>>}, Refused <- {},
    Verdicts <- {"published", "pending"}, MaxAttempts <- 2, Limit <- 1, MaxEdits <- 1,
    MaxFaults <- 2, None <- None, of <- fileOf, sess <- fileSess, edits <- fileEdits,
    faults <- fileFaults
Transit == INSTANCE CircuitFiles WITH
    Length <- 3, Files <- {f1}, MaxIds <- 2, Native <- {<<1, f1>>, <<3, f1>>},
    Refused <- {}, Verdicts <- {"published"}, MaxAttempts <- 1, Limit <- 2,
    MaxEdits <- 0, MaxFaults <- 1, None <- None, of <- fileOf, sess <- fileSess,
    edits <- fileEdits, faults <- fileFaults
Forgotten == INSTANCE CircuitControl WITH
    Requests <- {r3}, Operations <- {"subscribe", "unsubscribe"}, Limit <- 1,
    Policies <- {"auto-approve", "deny"}, Snapshots <- {"parent"}, MaxEdits <- 2,
    MaxFaults <- 1, None <- None, child <- controlChild, parent <- controlParent,
    avail <- controlAvail, sess <- controlSess, backup <- controlBackup,
    edits <- controlEdits, faults <- controlFaults
Keys == INSTANCE CircuitCatalog WITH
    Depth <- 2, Lifecycles <- {"active", "retired"}, Replaceable <- {1},
    Snapshots <- {}, Limit <- 1, MaxRevs <- 2, MaxKeys <- 2, MaxFaults <- 0,
    None <- None, sess <- catalogSess, backup <- catalogBackup, faults <- catalogFaults
Rewound == INSTANCE CircuitCatalog WITH
    Depth <- 2, Lifecycles <- {"active"}, Replaceable <- {1}, Snapshots <- {1, 2},
    Limit <- 2, MaxRevs <- 2, MaxKeys <- 1, MaxFaults <- 1, None <- None,
    sess <- catalogSess, backup <- catalogBackup, faults <- catalogFaults

\* what the theorems about the components assume of their constants
ASSUME AssumptionsHold ==
    /\ ControlAssumption
    /\ Crossing!LinkAssumption /\ Policy!LinkAssumption
    /\ Receipts!FilesAssumption /\ Transit!FilesAssumption
    /\ Keys!CatalogAssumption /\ Rewound!CatalogAssumption
    /\ Line!LineAssumption /\ Forgotten!ControlAssumption

AllInit ==
    /\ part \in Parts
    /\ part # "changing policy" => Crossing!Init
    /\ part = "changing policy" => Policy!Init
    /\ Line!Init
    /\ part # "files in transit" => Receipts!Init
    /\ part = "files in transit" => Transit!Init
    /\ Init
    /\ Forgotten!Init
    /\ part # "restored catalog" => Keys!Init
    /\ part = "restored catalog" => Rewound!Init

\* A step of one component leaves the others alone.
OnlyLinks == UNCHANGED <<part, line, files, vars, controls, catalogs>>
OnlyLine == UNCHANGED <<part, links, files, vars, controls, catalogs>>
OnlyFiles == UNCHANGED <<part, links, line, vars, controls, catalogs>>
OnlyRequests == UNCHANGED <<part, links, line, files, controls, catalogs>>
OnlyControls == UNCHANGED <<part, links, line, files, vars, catalogs>>
OnlyCatalogs == UNCHANGED <<part, links, line, files, vars, controls>>
AllNext ==
    \/ part = "crossing polls" /\ Crossing!Next /\ OnlyLinks
    \/ part = "changing policy" /\ Policy!Next /\ OnlyLinks
    \/ part = "restored board" /\ Line!Next /\ OnlyLine
    \/ part = "file receipts" /\ Receipts!Next /\ OnlyFiles
    \/ part = "files in transit" /\ Transit!Next /\ OnlyFiles
    \/ part = "repeated requests" /\ Next /\ OnlyRequests
    \/ part = "restored parent" /\ Forgotten!Next /\ OnlyControls
    \/ part = "key changes" /\ Keys!Next /\ OnlyCatalogs
    \/ part = "restored catalog" /\ Rewound!Next /\ OnlyCatalogs
AllSpec == AllInit /\ [][AllNext]_all

-----------------------------------------------------------------------------
\* A board has at most one session with a neighbor, whichever end opened it and
\* however polls cross; a success that is recorded is a whole exchange, and a
\* session that fails does not take it back (Permit, exchange, record_health).
OneWholeSession ==
    /\ [](part = "crossing polls" => Crossing!TypeOK /\ Crossing!OneSession)
    /\ [](part = "changing policy" => Policy!TypeOK /\ Policy!OneSession /\ Policy!SuccessIsWhole)
    /\ [][part = "crossing polls" => Crossing!SuccessIsKept]_all

\* A restored board sends nothing an operator has not looked at, and what a sender
\* believes accepted is lost only in the receiver's own restore
\* (hold_restored_circuitnet, circuitnet_import_inner).  A post may be imported twice,
\* against what docs/technical/circuitnet.md:250 says (NoDuplicateImport, which fails),
\* but only where a restore of its origin forgot its first identity (circuitnet_scan).
\* A restored parent applies to what it was restored to each request once, and no
\* answer of it replaces one the child has (circuitnet_receive_control,
\* circuitnet_control_result).
RestoreIsAccountedFor ==
    /\ [](part = "restored board" =>
            /\ Line!TypeOK /\ Line!RestoredIsReviewed
            /\ Line!OnlyRestoreLoses /\ Line!SecondNameNeedsRestore)
    /\ [](part = "restored parent" => Forgotten!TypeOK /\ Forgotten!AppliedOnce)
    /\ [][part = "restored parent" => Forgotten!TerminalStays]_all

\* Sender and importer agree on every receipt, a file enters circulation once and
\* only where it was admitted, and passes no board that did not file it
\* (circuitnet_file_record, circuitnet_files_prepare).
FilesPassEveryHand ==
    /\ part = "file receipts" => Receipts!TypeOK /\ Receipts!ReceiptsAgree
    /\ part = "files in transit" => Transit!TypeOK /\ Transit!OriginIsLocal /\ Transit!EachHandHasFiledIt

\* A board has one history, which verifies under its keys and is never rewound short
\* of a rebuild; a parent does not believe its child further than it is; nothing is
\* routed in a retired conference (Signed::follows, circuitnet_catalog_receive,
\* circuitnet_catalog_peer, circuitnet_catalog_check_restore).
CatalogIsOneHistory ==
    /\ [](part = "key changes" =>
            Keys!TypeOK /\ Keys!WholeHistory /\ Keys!HistoryVerifies /\ Keys!RoutingIsAdmitted)
    /\ [](part = "restored catalog" => Rewound!WholeHistory /\ Rewound!PeerNotAhead)
    /\ [][part = "restored catalog" => Rewound!HistoryStays]_all
=============================================================================
