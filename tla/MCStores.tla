------------------------------ MODULE MCStores ------------------------------
\* What the capabilities of a turn work on, each on its own: workspaces of addon sources,
\* company knowledge with its attachments and evidence, and the records of Odoo.  They share
\* no state, so a behaviour is about one of them, chosen at the start.
EXTENDS Stores

CONSTANTS MaxId, PageSize, MaxGroups, Scenes

VARIABLES store, table, world, call, page, room

rvars == <<table, world, call, page, room>>

R == INSTANCE Records

Load(r, u, c, d) == [requests |-> r, uploads |-> u, changes |-> c, decisions |-> d]

MCLoads == {Load(4, 0, 0, 1), Load(2, 1, 1, 1), Load(2, 0, 1, 2), Load(2, 2, 1, 0)}

Scene(ops, c, others, m, families) ==
    [ops |-> ops, calls |-> c, others |-> others, moves |-> m, families |-> families]

Selecting == Scene({"select"}, 1, {"edit", "delete", "acl"}, 2, FALSE)

MCScenes ==
    {Selecting,
     Scene({"bulk_delete", "batch_delete"}, 1, {"delete", "user"}, 1, TRUE),
     Scene({"patch", "batch_patch", "archive", "unarchive", "confirm", "delete"}, 1,
           {"edit", "delete", "acl"}, 2, FALSE),
     Scene({"create", "batch_create", "graph", "patch"}, 2, {"delete", "acl"}, 1, FALSE)}

MCInit ==
    /\ store \in {"workspace", "knowledge", "records"}
    /\ Init /\ K!Init /\ R!Init
    /\ store # "knowledge" => left = Load(2, 0, 1, 2)
    /\ store # "records" => room = Selecting /\ \A i \in 1 .. MaxId : world.rule[i] = "plain"

MCNext ==
    \/ store = "workspace" /\ Next /\ UNCHANGED <<store, kvars, rvars>>
    \/ store = "knowledge" /\ K!Next /\ UNCHANGED <<store, vars, rvars>>
    \/ store = "records" /\ R!Next /\ UNCHANGED <<store, vars, kvars>>

MCSpec == MCInit /\ [][MCNext]_<<store, vars, kvars, rvars>>

ExecutedAsShown == R!ExecutedAsShown

PagesComplete == R!PagesComplete
=============================================================================
