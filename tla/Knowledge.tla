----------------------------- MODULE Knowledge -----------------------------
(***************************************************************************)
(* Company knowledge and the evidence a turn reads: knowledge sources are  *)
(* uploaded, indexed by a cron job, activated and disabled; files attached *)
(* to a chat message are bound to its turn, expire, and may be ingested as *)
(* sources; before every decision of the turn the evidence engine searches *)
(* its providers, registers the references in a ledger and fetches the     *)
(* best ones.  Every request is one REPEATABLE READ transaction, and two   *)
(* that write one row are serialized, so a request is one action.  The     *)
(* worker reads the database as it was at its last commit, log files and   *)
(* installed sources as they are.  A fingerprint is modelled by the text.  *)
(***************************************************************************)
EXTENDS Naturals, FiniteSets, FiniteSetsExt, Functions

CONSTANTS Sources,       \* numbers, in the order of their ids
          Attachments,   \* tokens
          Keys,          \* client request ids, and the turns they made
          Loads,         \* how often each of these may happen: requests on
                         \* sources, uploads, other changes of files and time,
                         \* decisions of the turn
          FetchLimit,    \* max_fetches of collect
          MaxRefs,       \* LEDGER_MAX_REFS
          MaxExcerpts    \* LEDGER_MAX_EXCERPTS

VARIABLES kb,      \* odoo.ai.knowledge.source and its chunks
          atts,    \* odoo.ai.knowledge.attachment
          turns,   \* the attachments that the message of each turn names
          file,    \* what a log excerpt's bytes hold
          snap,    \* the worker's snapshot of kb and atts
          ev,      \* the collection for a decision, and the ledger
          left     \* what is left of the load
vars == <<kb, atts, turns, file, snap, ev, left>>

\* A source: rows is the text of its chunks (0 without), off what its owner last
\* asked for with Disable or Activate.
NoSource == [state |-> "none", enabled |-> TRUE, content |-> 0, indexed |-> 0, version |-> 0,
             count |-> 0, rows |-> 0, off |-> FALSE]

NoAttachment == [there |-> FALSE, seen |-> FALSE, expired |-> FALSE, turn |-> "none",
                 sources |-> {}]

NoCollection == [pc |-> "idle", refs |-> {}, todo |-> {}, items |-> {}]

Init ==
    /\ kb = [s \in Sources |-> NoSource]
    /\ atts = [a \in Attachments |-> NoAttachment]
    /\ turns = [k \in Keys |-> [made |-> FALSE, names |-> {}]]
    /\ file = 1
    /\ snap = [kb |-> kb, atts |-> atts]
    /\ ev = [col |-> NoCollection, refs |-> <<>>, texts |-> <<>>]
    /\ left \in Loads

---------------------------------------------------------------------------
(* Sources. *)

Exists(s) == kb[s].state # "none"

\* The contents that no text can be extracted from.
Unreadable == {3}

\* Someone asks for something; a document that comes along is new.
Request ==
    /\ left.requests > 0
    /\ left' = [left EXCEPT !.requests = @ - 1]

NewDocument == 1 + left.requests

\* create: the next id.
CreateSource(s) ==
    /\ \A t \in Sources : t < s => Exists(t)
    /\ ~Exists(s) /\ Request
    /\ kb' = [kb EXCEPT ![s] = [NoSource EXCEPT !.state = "uploaded", !.content = NewDocument]]
    /\ UNCHANGED <<atts, turns, file, snap, ev>>

\* write with another document: the old chunks stay.
WriteSource(s) ==
    /\ Exists(s) /\ Request
    /\ kb' = [kb EXCEPT ![s].state = "uploaded", ![s].content = NewDocument]
    /\ UNCHANGED <<atts, turns, file, snap, ev>>

QueueProcessing(s) ==
    /\ Exists(s) /\ Request
    /\ kb' = [kb EXCEPT ![s].state = "uploaded"]
    /\ UNCHANGED <<atts, turns, file, snap, ev>>

\* _process_one of a row: the document is refused before its chunks are touched,
\* or something fails after they were deleted, or the new version replaces them.
Processed(r, fails) ==
    IF r.content \in Unreadable THEN [r EXCEPT !.state = "error"]
    ELSE IF fails THEN [r EXCEPT !.state = "error", !.rows = 0]
    ELSE [r EXCEPT !.state = IF r.enabled THEN "active" ELSE "indexed",
                   !.indexed = r.content, !.version = @ + 1, !.count = 1, !.rows = r.content]

ProcessNow(s) ==
    /\ Exists(s) /\ Request
    /\ \E fails \in BOOLEAN : kb' = [kb EXCEPT ![s] = Processed(@, fails)]
    /\ UNCHANGED <<atts, turns, file, snap, ev>>

\* _cron_process_pending: the first two that wait, then the expired attachments.
CronProcess ==
    /\ LET pending == {s \in Sources : kb[s].state = "uploaded"}
           batch == {s \in pending : Cardinality({t \in pending : t < s}) < 2} IN
       \E bad \in SUBSET batch :
          kb' = [s \in Sources |-> IF s \in batch THEN Processed(kb[s], s \in bad) ELSE kb[s]]
    /\ atts' = [a \in Attachments |->
                   IF atts[a].there /\ atts[a].expired THEN [atts[a] EXCEPT !.there = FALSE]
                   ELSE atts[a]]
    /\ UNCHANGED <<turns, file, snap, ev, left>>

\* action_activate does not look at the state, nor at the document's fingerprint.
Activate(s) ==
    /\ Exists(s) /\ Request
    /\ kb' = [kb EXCEPT ![s] =
                 IF @.indexed # 0 /\ @.count # 0
                 THEN [@ EXCEPT !.enabled = TRUE, !.state = "active", !.off = FALSE] ELSE @]
    /\ UNCHANGED <<atts, turns, file, snap, ev>>

\* As if Disable only took the source out of the active state.
DisableByState(s) ==
    /\ Exists(s) /\ Request
    /\ kb' = [kb EXCEPT ![s].state = IF kb[s].indexed # 0 THEN "indexed" ELSE @, ![s].off = TRUE]
    /\ UNCHANGED <<atts, turns, file, snap, ev>>

Disable(s) ==
    /\ Exists(s) /\ Request
    /\ kb' = [kb EXCEPT ![s].enabled = FALSE, ![s].off = TRUE,
                        ![s].state = IF kb[s].indexed # 0 THEN "indexed" ELSE @]
    /\ UNCHANGED <<atts, turns, file, snap, ev>>

---------------------------------------------------------------------------
(* Attachments. *)

\* create_upload: a new token, good for a day.
UploadAttachment(a) ==
    /\ ~atts[a].seen /\ left.uploads > 0
    /\ left' = [left EXCEPT !.uploads = @ - 1]
    /\ atts' = [atts EXCEPT ![a].there = TRUE, ![a].seen = TRUE]
    /\ UNCHANGED <<kb, turns, file, snap, ev>>

\* Time passes for a file.
Passes == left.changes > 0 /\ left' = [left EXCEPT !.changes = @ - 1]

Expire(a) ==
    /\ atts[a].there /\ ~atts[a].expired /\ Passes
    /\ atts' = [atts EXCEPT ![a].expired = TRUE]
    /\ UNCHANGED <<kb, turns, file, snap, ev>>

\* The attachments of the markers in a message that are bound already.
BoundIn(as) == {a \in as : atts[a].turn # "none"}

\* enqueue_for_current_user with markers: unless all of them belong to the turn of
\* this very request, nothing may be bound yet; the queue itself answers a known
\* request id with the turn it made.
Enqueue(k, as) ==
    /\ \A a \in as : atts[a].there /\ ~atts[a].expired
    /\ IF BoundIn(as) # {}
       THEN /\ BoundIn(as) = as /\ \A a \in as : atts[a].turn = k
            /\ UNCHANGED <<atts, turns>>
       ELSE /\ turns' = [turns EXCEPT ![k] = [made |-> TRUE, names |-> IF as = {} THEN @.names ELSE as]]
            /\ atts' = [a \in Attachments |->
                           IF a \in as THEN [atts[a] EXCEPT !.turn = k] ELSE atts[a]]
    /\ UNCHANGED <<kb, file, snap, ev, left>>

\* As if ingest_attachment did not look for the source it made before.
IngestAgain(k, a) ==
    /\ atts[a].there /\ atts[a].turn = k
    /\ \E s \in Sources :
          /\ ~Exists(s) /\ \A t \in Sources : t < s => Exists(t)
          /\ Request
          /\ kb' = [kb EXCEPT ![s] = [NoSource EXCEPT !.state = "uploaded",
                                                      !.content = NewDocument]]
          /\ atts' = [atts EXCEPT ![a].sources = @ \union {s}]
    /\ UNCHANGED <<turns, file, snap, ev>>

\* ingest_attachment, of an attachment of this turn.
Ingest(k, a) ==
    /\ atts[a].there /\ atts[a].turn = k /\ atts[a].sources = {}
    /\ \E s \in Sources :
          /\ ~Exists(s) /\ \A t \in Sources : t < s => Exists(t)
          /\ Request
          /\ kb' = [kb EXCEPT ![s] = [NoSource EXCEPT !.state = "uploaded",
                                                      !.content = NewDocument]]
          /\ atts' = [atts EXCEPT ![a].sources = {s}]
    /\ UNCHANGED <<turns, file, snap, ev>>

---------------------------------------------------------------------------
(* Evidence. *)

\* The worker commits; its next statement sees the database of this moment.
Commit ==
    /\ ev.col.pc = "idle"
    /\ snap' = [kb |-> kb, atts |-> atts]
    /\ UNCHANGED <<kb, atts, turns, file, ev, left>>

\* The log grows over, or is rotated under, the bytes of an excerpt.
FileChanges ==
    /\ Passes
    /\ file' = file + 1
    /\ UNCHANGED <<kb, atts, turns, snap, ev>>

\* lexical_search: enabled, active, and with chunks.
Searchable(s) == snap.kb[s].enabled /\ snap.kb[s].state = "active" /\ snap.kb[s].rows # 0

\* What the providers offer: the id of a chunk has its version, the ids of an
\* attachment and of a log excerpt have none.
KnowledgeRefs ==
    {[id |-> <<"knowledge", s, snap.kb[s].version>>, fp |-> snap.kb[s].rows] :
        s \in {t \in Sources : Searchable(t)}}

AttachmentRefs(k) ==
    {[id |-> <<"attachment", a, 0>>, fp |-> 0] :
        a \in {b \in Attachments : snap.atts[b].there /\ snap.atts[b].turn = k}}

LogRefs == {[id |-> <<"log", 0, 0>>, fp |-> file]}

\* The routing policy: nothing, company knowledge alone, or every provider; each
\* of them ranks, and the bounds of the request cut, so any part may be found.
Found(k) == UNION {SUBSET KnowledgeRefs, SUBSET (KnowledgeRefs \union AttachmentRefs(k) \union LogRefs)}

\* The fetch of each provider.
KnowledgeItem(r) ==
    LET s == snap.kb[r.id[2]] IN
    IF ~s.enabled THEN [id |-> r.id, fp |-> r.fp, fresh |-> "revoked", text |-> 0]
    ELSE IF s.state # "active" \/ s.version # r.id[3] \/ s.rows # r.fp
    THEN [id |-> r.id, fp |-> r.fp, fresh |-> "stale", text |-> 0]
    ELSE [id |-> r.id, fp |-> s.rows, fresh |-> "current", text |-> s.rows]

AttachmentItem(r) == [id |-> r.id, fp |-> r.fp, fresh |-> "current", text |-> r.fp]

LogItem(r) ==
    [id |-> r.id, fp |-> file, text |-> file, fresh |-> IF file = r.fp THEN "current" ELSE "stale"]

\* catalog.fetch looks at the fingerprints once more.
Fetched(r) ==
    LET i == CASE r.id[1] = "knowledge" -> KnowledgeItem(r)
               [] r.id[1] = "attachment" -> AttachmentItem(r)
               [] r.id[1] = "log" -> LogItem(r) IN
    IF i.fp # r.fp /\ i.fresh = "current" THEN [i EXCEPT !.fresh = "stale"] ELSE i

\* EvidenceLedger.register of one id.
Known(f, id, v) == [i \in DOMAIN f \union {id} |-> IF i = id THEN v ELSE f[i]]

\* catalog.search, and register of every reference it found.  More references than
\* the ledger holds fail the decision.
Search(k) ==
    /\ ev.col.pc = "idle" /\ turns[k].made /\ left.decisions > 0
    /\ left' = [left EXCEPT !.decisions = @ - 1]
    /\ \E refs \in Found(k) :
       \E todo \in SUBSET refs :
          /\ Cardinality(todo) = IF Cardinality(refs) < FetchLimit THEN Cardinality(refs)
                                 ELSE FetchLimit
          /\ LET ids == {r.id : r \in refs} IN
             IF Cardinality(DOMAIN ev.refs \union ids) > MaxRefs
             THEN ev' = [ev EXCEPT !.col = [NoCollection EXCEPT !.pc = "failed"]]
             ELSE ev' = [ev EXCEPT !.col = [pc |-> "fetch", refs |-> refs, todo |-> todo,
                                            items |-> {}],
                                   !.refs = [i \in DOMAIN @ \union ids |->
                                                IF i \in ids
                                                THEN (CHOOSE r \in refs : r.id = i).fp
                                                ELSE @[i]]]
    /\ UNCHANGED <<kb, atts, turns, file, snap>>

\* One fetch and its registration; a provider that fails, or a ledger without room
\* for another excerpt, leaves the item out.
Fetch ==
    /\ ev.col.pc = "fetch"
    /\ \E r \in ev.col.todo :
       LET i == Fetched(r)
           room == i.id \in DOMAIN ev.texts \/ Cardinality(DOMAIN ev.texts) < MaxExcerpts
           rest == [ev EXCEPT !.col.todo = @ \ {r}] IN
       \/ /\ room
          /\ ev' = [rest EXCEPT !.col.items = @ \union {i},
                                !.refs = Known(@, i.id, i.fp), !.texts = Known(@, i.id, i.text)]
       \/ ev' = rest
    /\ UNCHANGED <<kb, atts, turns, file, snap, left>>

\* The decision is taken with the items; a failed collection ends the turn.
Decide ==
    /\ ev.col.pc = "fetch" /\ ev.col.todo = {}
    /\ ev' = [ev EXCEPT !.col = NoCollection]
    /\ UNCHANGED <<kb, atts, turns, file, snap, left>>

Next ==
    \/ \E s \in Sources : \/ CreateSource(s) \/ WriteSource(s) \/ QueueProcessing(s)
                          \/ ProcessNow(s) \/ Activate(s) \/ Disable(s)
    \/ CronProcess
    \/ \E a \in Attachments : UploadAttachment(a) \/ Expire(a)
    \/ \E k \in Keys, as \in SUBSET Attachments : Enqueue(k, as)
    \/ \E k \in Keys, a \in Attachments : Ingest(k, a)
    \/ Commit \/ FileChanges
    \/ \E k \in Keys : Search(k)
    \/ Fetch \/ Decide

Spec == Init /\ [][Next]_vars

---------------------------------------------------------------------------
(* Properties. *)

\* What a decision is given as current is the text its reference names, and none of
\* it comes from a source that its owner had disabled when the worker last committed,
\* over re-indexing, activation and replaced documents.
EvidenceHolds ==
    \A i \in ev.col.items : i.fresh = "current" =>
        /\ \E r \in ev.col.refs : r.id = i.id /\ r.fp = i.text
        /\ i.id[1] = "knowledge" => ~snap.kb[i.id[2]].off

\* A file that was attached belongs to one turn for good and becomes one source at
\* most, over browser retries, repeated plans and expiry.
AttachmentUsedOnce ==
    [][ \A a \in Attachments :
            /\ atts[a].turn # "none" => atts'[a].turn = atts[a].turn
            /\ atts[a].sources # {} => atts'[a].sources = atts[a].sources ]_vars
============================================================================
