---------------------------- MODULE MCDataImport ----------------------------
(* The instance of DataImport for TLC: a spreadsheet of three rows in chunks of two, or a   *)
(* cleaned CSV file of two rows.  Beside it, the panel of the browser with its chats and     *)
(* turns.  They share no state; a behaviour is about one of them.                           *)
EXTENDS DataImport

CONSTANTS Turns, Loads

VARIABLES part, turns, panel, load, ops, left

pvars == <<turns, panel, load, ops, left>>

P == INSTANCE Panel

Files == [r \in Requests |-> IF r = "r1" THEN <<"a", "b", "a">> ELSE <<"_a", "">>]

Formats == [r \in Requests |-> IF r = "r1" THEN "spreadsheet" ELSE "csv"]

Rules ==
    [r \in Requests |->
        IF r = "r2" THEN {Rule("trim", "none", "none"), Rule("replace_exact", "b", "a"),
                          Rule("set_if_empty", "none", "b")}
        ELSE {}]

Chunks == [r \in Requests |-> IF r = "r1" THEN 2 ELSE 1]

Load(t, n, c, f) == [turns |-> t, navs |-> n, controls |-> c, faults |-> f]

MCLoads == {Load(2, 4, 0, 1), Load(1, 3, 2, 1), Load(2, 3, 1, 0)}

MCInit ==
    /\ part \in {"import", "panel"}
    /\ Init /\ P!Init
    /\ part # "panel" => left = Load(2, 3, 1, 0)
    /\ part # "import" => open = {"r1"}

MCNext ==
    \/ part = "import" /\ Next /\ UNCHANGED <<part, pvars>>
    \/ part = "panel" /\ P!Next /\ UNCHANGED <<part, vars>>

MCSpec == MCInit /\ [][MCNext]_<<part, vars, pvars>>

ShownBelongs == P!ShownBelongs
=============================================================================
