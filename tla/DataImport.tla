----------------------------- MODULE DataImport -----------------------------
(***************************************************************************)
(* Durable import sessions: a request stages its mapped rows once, cron    *)
(* workers import one chunk per transaction, a rejected chunk stops the    *)
(* session until an approved repair corrects its rows, and terminal        *)
(* sessions are removed later.                                             *)
(*                                                                         *)
(* A worker's transaction holds the row lock of the session it claimed and *)
(* works on a copy; its commit publishes business rows, receipt and cursor *)
(* together and a crash loses them together.  A repair reads the session,  *)
(* and its commit succeeds only if no other transaction wrote the row in   *)
(* between (repeatable read).                                              *)
(***************************************************************************)
EXTENDS Naturals, Sequences, FiniteSets

CONSTANTS Requests,  \* import requests, one per (turn, request fingerprint)
          Workers,   \* cron workers
          Plans,     \* approved repair steps
          FileRows,  \* FileRows[r]: the mapped rows of the attached file
          FormatOf,  \* FormatOf[r]: "csv" or "spreadsheet"
          RulesOf,   \* RulesOf[r]: the cleanup rules, {} for a plain import
          ChunkOf,   \* ChunkOf[r]: chunk_size
          Workloads, \* the sets of imports that turns may ask for together
          MaxChunks, \* _MAX_CHUNKS_PER_SESSION
          MaxCrashes \* bound on worker deaths

\* Cells as far as cleanup tells them apart: "_a" is "a" with outer blanks.
Cells == {"a", "b", "_a", ""}

Rule(operation, match, value) == [operation |-> operation, match |-> match, value |-> value]

\* The cleanup rules that can be written; an operation without match or value has "none".
RuleSet == {Rule(operation, match, value) :
              operation \in {"trim", "replace_exact", "set_if_empty"},
              match \in Cells \union {"none"}, value \in Cells \union {"none"}}

ASSUME RequestAssumption ==
    \A r \in Requests : /\ ChunkOf[r] \in Nat \ {0}
                        /\ FileRows[r] \in Seq(Cells)
                        /\ FormatOf[r] \in {"csv", "spreadsheet"}
                        /\ RulesOf[r] \subseteq RuleSet
ASSUME NoneAssumption == "none" \notin Requests
ASSUME BoundAssumption == MaxChunks \in Nat /\ MaxCrashes \in Nat
ASSUME WorkloadAssumption == Workloads \subseteq SUBSET Requests

VARIABLES session,  \* session[r]: the committed row
          receipts, \* receipts[r]: the committed chunk receipts
          imported, \* imported[r]: the business records committed for r, in order
          order,    \* requests in the order their rows were created
          rights,   \* rights[r]: the owner still may import the mapped fields
          open,     \* requests whose turn still runs
          worker,   \* worker[w]: the transaction of a worker
          plan,     \* plan[p]: a repair from its preview to its commit
          crashes   \* worker deaths so far

vars == <<session, receipts, imported, order, rights, open, worker, plan, crashes>>
db == <<session, receipts, imported, order>>

-----------------------------------------------------------------------------
(* Cleanup of mapped cells *)

Trim(c) == IF c = "_a" THEN "a" ELSE c

\* _normalize_cleanup_rules: at most one rule per operation, one replacement per match.
RulesValid(rules) ==
    \A x, y \in rules : x.operation = y.operation /\ x.match = y.match => x = y

\* _apply_cleanup_rules on one cell: trim, then the replacement, then the fill-in.
CleanCell(rules, c) ==
    LET trimmed == IF \E x \in rules : x.operation = "trim" THEN Trim(c) ELSE c
        replace == {x \in rules : x.operation = "replace_exact" /\ x.match = trimmed}
        replaced == IF replace = {} THEN trimmed ELSE (CHOOSE x \in replace : TRUE).value
        fill == {x \in rules : x.operation = "set_if_empty"}
    IN IF replaced = "" /\ fill # {} THEN (CHOOSE x \in fill : TRUE).value ELSE replaced

CleanRows(r) == [i \in DOMAIN FileRows[r] |-> CleanCell(RulesOf[r], FileRows[r][i])]

\* The rows of which staged and mapped values differ.
ChangedRows(r, rows) == {i \in DOMAIN rows : rows[i] # FileRows[r][i]}

-----------------------------------------------------------------------------
(* Rows *)

CeilDiv(n, d) == (n + d - 1) \div d

Absent == [state |-> "absent", next |-> 0, imported |-> 0, failed |-> 0, corrected |-> 0,
           chunks |-> 0, planned |-> 0, revision |-> 0, staged |-> << >>, changed |-> {},
           error |-> "none"]

\* The values create_csv_session and create_clean_csv_session insert.
NewSession(r, rows) ==
    [Absent EXCEPT !.state = "queued",
                   !.staged = rows,
                   !.planned = CeilDiv(Len(rows), ChunkOf[r]),
                   !.changed = ChangedRows(r, rows)]

Terminal == {"completed", "partial", "failed"}
Total(row) == Len(row.staged)

Receipt(row, sequence, n, state) ==
    [sequence |-> sequence, start |-> row.next + 1, end |-> row.next + n, state |-> state]

Input(receipt) == receipt.end - receipt.start + 1

Min2(a, b) == IF a < b THEN a ELSE b

\* The rows of the next chunk: prepared_rows[next_row : next_row + chunk_size].
ChunkInput(r, row) == Min2(ChunkOf[r], Total(row) - row.next)

-----------------------------------------------------------------------------
NoTransaction == [pc |-> "idle", request |-> "none", row |-> Absent,
                  receipts |-> << >>, rows |-> << >>]
NoPlan == [pc |-> "none", request |-> "none", fixes |-> << >>, print |-> << >>, row |-> Absent]

Init ==
    /\ session = [r \in Requests |-> Absent]
    /\ receipts = [r \in Requests |-> << >>]
    /\ imported = [r \in Requests |-> << >>]
    /\ order = << >>
    /\ rights = [r \in Requests |-> TRUE]
    /\ open \in Workloads
    /\ worker = [w \in Workers |-> NoTransaction]
    /\ plan = [p \in Plans |-> NoPlan]
    /\ crashes = 0

-----------------------------------------------------------------------------
(* Starting an import *)

\* _bound_tabular_attachment: an unexpired attachment of the current turn.
BoundAttachment(r) == r \in open

\* _normalized_mapping against the fields the owner may import now.
MappingHolds(r) == rights[r]

\* _effective_user_env: the owner is active and in the company.
EffectiveUser(r) == rights[r]

\* _prepare_csv_request: the owner's rights, a non-empty file and the chunk limit.
Prepared(r) ==
    /\ BoundAttachment(r)
    /\ MappingHolds(r)
    /\ Len(FileRows[r]) > 0
    /\ CeilDiv(Len(FileRows[r]), ChunkOf[r]) <= MaxChunks

Create(r, rows) ==
    /\ session' = [session EXCEPT ![r] = NewSession(r, rows)]
    /\ order' = Append(order, r)
    /\ UNCHANGED <<receipts, imported, rights, open, worker, plan, crashes>>

\* create_csv_session; a session with this fingerprint is returned unchanged.
CreateSession(r) ==
    /\ RulesOf[r] = {}
    /\ Prepared(r)
    /\ session[r].state = "absent"
    /\ Create(r, FileRows[r])

\* _prepare_cleanup_request: rules that change something and empty no row.
CleanupPrepared(r) ==
    /\ Prepared(r)
    /\ RulesValid(RulesOf[r])
    /\ ChangedRows(r, CleanRows(r)) # {}
    /\ \A i \in DOMAIN CleanRows(r) : CleanRows(r)[i] # ""

\* create_clean_csv_session; the attachment is bound again as CSV only.
CreateCleanSession(r) ==
    /\ RulesOf[r] # {}
    /\ CleanupPrepared(r)
    /\ FormatOf[r] = "csv"
    /\ session[r].state = "absent"
    /\ Create(r, CleanRows(r))

\* The turn that holds the attachment ends; sessions stay.
EndTurn(r) ==
    /\ r \in open
    /\ open' = open \ {r}
    /\ UNCHANGED <<db, rights, worker, plan, crashes>>

\* An administrator changes the owner's access or the model's fields.
RevokeRights(r) ==
    /\ rights[r]
    /\ rights' = [rights EXCEPT ![r] = FALSE]
    /\ UNCHANGED <<db, open, worker, plan, crashes>>

-----------------------------------------------------------------------------
(* The cron worker *)

Locked == {worker[w].request : w \in Workers} \ {"none"}

\* As if the claim did not skip rows another worker has locked.
ClaimableLocked(r) == session[r].state = "queued"

\* SELECT ... WHERE state = 'queued' FOR UPDATE SKIP LOCKED
Claimable(r) == session[r].state = "queued" /\ r \notin Locked

\* _claim_next_session: ORDER BY id LIMIT 1.
Claim(w) ==
    /\ worker[w].pc = "idle"
    /\ \E i \in DOMAIN order :
        /\ Claimable(order[i])
        /\ \A j \in 1..(i - 1) : ~Claimable(order[j])
        /\ worker' = [worker EXCEPT ![w] = [NoTransaction EXCEPT
                !.pc = "claimed", !.request = order[i], !.row = session[order[i]]]]
    /\ UNCHANGED <<db, rights, open, plan, crashes>>

Processed(w, row, newReceipts, rows) ==
    /\ worker' = [worker EXCEPT ![w] = [@ EXCEPT
            !.pc = "processed", !.row = row, !.receipts = newReceipts, !.rows = rows]]
    /\ UNCHANGED <<db, rights, open, plan, crashes>>

\* The checks of _process_one_chunk before the native import.
MayProcess(r, row) ==
    /\ row.state = "queued"
    /\ EffectiveUser(r)
    /\ MappingHolds(r)
    /\ row.chunks + 1 <= row.planned
    /\ ChunkInput(r, row) > 0

\* The repair extension: changed rows that this chunk committed.
CorrectedIn(row, n) == Cardinality({i \in row.changed : row.next < i /\ i <= row.next + n})

\* The session's values after an imported chunk.
AfterImport(r, row) ==
    LET n == ChunkInput(r, row) IN
    [row EXCEPT !.state = IF row.next + n >= Total(row) THEN "completed" ELSE "queued",
                !.next = row.next + n, !.imported = @ + n, !.chunks = @ + 1,
                !.corrected = @ + CorrectedIn(row, n), !.error = "none"]

\* _process_one_chunk when the native import returns one id per row.
ImportChunk(w) ==
    LET t == worker[w] n == ChunkInput(t.request, t.row) IN
    /\ t.pc = "claimed"
    /\ MayProcess(t.request, t.row)
    /\ Processed(w, AfterImport(t.request, t.row),
                 <<Receipt(t.row, t.row.chunks + 1, n, "completed")>>,
                 SubSeq(t.row.staged, t.row.next + 1, t.row.next + n))

\* The session's values after a rejected chunk.
AfterRejection(r, row) ==
    [row EXCEPT !.state = IF row.imported > 0 THEN "partial" ELSE "failed",
                !.failed = @ + ChunkInput(r, row), !.chunks = @ + 1, !.error = "chunk_rejected"]

\* Odoo reports errors: the savepoint is rolled back and _record_rejected_chunk runs.
RejectChunk(w) ==
    LET t == worker[w] n == ChunkInput(t.request, t.row) IN
    /\ t.pc = "claimed"
    /\ MayProcess(t.request, t.row)
    /\ Processed(w, AfterRejection(t.request, t.row),
                 <<Receipt(t.row, t.row.chunks + 1, n, "rejected")>>, << >>)

\* Any other exception, the failed checks included: the session is closed as failed.
FailChunk(w) ==
    LET t == worker[w] IN
    /\ t.pc = "claimed"
    /\ Processed(w, [t.row EXCEPT !.state = "failed", !.error = "processing_failed"], << >>, << >>)

\* The cron's transaction commits: rows, receipt and cursor at once.
CommitChunk(w) ==
    LET t == worker[w] IN
    /\ t.pc = "processed"
    /\ session' = [session EXCEPT ![t.request] = t.row]
    /\ receipts' = [receipts EXCEPT ![t.request] = @ \o t.receipts]
    /\ imported' = [imported EXCEPT ![t.request] = @ \o t.rows]
    /\ worker' = [worker EXCEPT ![w] = NoTransaction]
    /\ UNCHANGED <<order, rights, open, plan, crashes>>

\* The worker dies before its commit.
CrashWorker(w) ==
    /\ worker[w].pc # "idle"
    /\ crashes < MaxCrashes
    /\ crashes' = crashes + 1
    /\ worker' = [worker EXCEPT ![w] = NoTransaction]
    /\ UNCHANGED <<db, rights, open, plan>>

-----------------------------------------------------------------------------
(* Repair *)

\* _active_rejected_chunk: the last receipt is the rejection the cursor stands at.
HasActiveRejection(row, chunks) ==
    /\ row.state \in {"partial", "failed"}
    /\ \E i \in DOMAIN chunks :
        /\ chunks[i].state = "rejected"
        /\ \A j \in DOMAIN chunks : chunks[j].state = "rejected" => j <= i
        /\ chunks[i].sequence = row.chunks
        /\ chunks[i].start = row.next + 1

LastReceipt(chunks) == chunks[Len(chunks)]

\* _normalize_repair_corrections: rows of the rejected window, each changed.
Corrections(row, chunks) ==
    LET window == LastReceipt(chunks).start .. LastReceipt(chunks).end IN
    {f \in UNION {[D -> Cells] : D \in (SUBSET window) \ {{}}} :
        \A i \in DOMAIN f : f[i] # row.staged[i]}

Fixed(row, fixes) ==
    [i \in DOMAIN row.staged |-> IF i \in DOMAIN fixes THEN fixes[i] ELSE row.staged[i]]

\* The chunks after a repair: those used, and those the remaining rows need.
ReplannedChunks(r, row) == row.chunks + CeilDiv(Total(row) - row.next, ChunkOf[r])

\* As if a session that failed for another reason could be repaired.
MayRepairAnyFailure(r, row, chunks) ==
    /\ MappingHolds(r)
    /\ HasActiveRejection(row, chunks)
    /\ row.next < Total(row)
    /\ ReplannedChunks(r, row) <= MaxChunks

\* _prepare_repair_request's refusals.
MayRepair(r, row, chunks) ==
    /\ MappingHolds(r)
    /\ HasActiveRejection(row, chunks)
    /\ row.failed >= Input(LastReceipt(chunks))
    /\ row.next < Total(row)
    /\ ReplannedChunks(r, row) <= MaxChunks

\* repair_fingerprint: revision, rejected receipt, rows before and corrections.
RepairPrint(row, chunks, fixes) ==
    <<row.revision + 1, LastReceipt(chunks).sequence, row.staged, fixes>>

\* The preview an approval is bound to.
PreviewRepair(p, r) ==
    /\ plan[p].pc = "none"
    /\ session[r].state # "absent"
    /\ MayRepair(r, session[r], receipts[r])
    /\ \E fixes \in Corrections(session[r], receipts[r]) :
        plan' = [plan EXCEPT ![p] = [NoPlan EXCEPT !.pc = "approved", !.request = r,
                    !.fixes = fixes, !.print = RepairPrint(session[r], receipts[r], fixes)]]
    /\ UNCHANGED <<db, rights, open, worker, crashes>>

\* The values resume_with_corrections writes.
AfterRepair(r, row, chunks, fixes) ==
    [row EXCEPT !.staged = Fixed(row, fixes),
                !.changed = @ \union DOMAIN fixes,
                !.failed = @ - Input(LastReceipt(chunks)),
                !.planned = ReplannedChunks(r, row),
                !.revision = @ + 1,
                !.state = "queued",
                !.error = "none"]

\* As if the plan were executed whatever became of the session since the preview.
PreviewStillHoldsAlways(r, row, chunks, p) == MayRepair(r, row, chunks)

\* The executor previews again and compares the fingerprints.
PreviewStillHolds(r, row, chunks, p) ==
    /\ MayRepair(r, row, chunks)
    /\ RepairPrint(row, chunks, plan[p].fixes) = plan[p].print

\* resume_csv in the turn's transaction: reads the session as it is now.
BeginRepair(p) ==
    LET r == plan[p].request IN
    /\ plan[p].pc = "approved"
    /\ plan' = [plan EXCEPT ![p] =
          IF session[r].state # "absent" /\ PreviewStillHolds(r, session[r], receipts[r], p)
          THEN [@ EXCEPT !.pc = "writing", !.row = session[r]]
          ELSE [@ EXCEPT !.pc = "refused"]]
    /\ UNCHANGED <<db, rights, open, worker, crashes>>

\* The turn's transaction commits, or fails because the row changed since it was read.
CommitRepair(p) ==
    LET r == plan[p].request IN
    /\ plan[p].pc = "writing"
    /\ r \notin Locked
    /\ IF session[r] = plan[p].row
       THEN /\ session' = [session EXCEPT ![r] =
                    AfterRepair(r, plan[p].row, receipts[r], plan[p].fixes)]
            /\ plan' = [plan EXCEPT ![p] = [@ EXCEPT !.pc = "done", !.row = Absent]]
       ELSE /\ plan' = [plan EXCEPT ![p] = [@ EXCEPT !.pc = "refused", !.row = Absent]]
            /\ UNCHANGED session
    /\ UNCHANGED <<receipts, imported, order, rights, open, worker, crashes>>

\* _cron_cleanup_terminal: the retention outlasts the turn; receipts go with the row.
CleanupTerminal(r) ==
    /\ session[r].state \in Terminal
    /\ r \notin open
    /\ r \notin Locked
    /\ session' = [session EXCEPT ![r] = Absent]
    /\ receipts' = [receipts EXCEPT ![r] = << >>]
    /\ UNCHANGED <<imported, order, rights, open, worker, plan, crashes>>

-----------------------------------------------------------------------------
WorkerStep(w) ==
    Claim(w) \/ ImportChunk(w) \/ RejectChunk(w) \/ FailChunk(w) \/ CommitChunk(w)

Next ==
    \/ \E r \in Requests :
        \/ CreateSession(r) \/ CreateCleanSession(r) \/ EndTurn(r) \/ RevokeRights(r)
        \/ CleanupTerminal(r)
    \/ \E w \in Workers : WorkerStep(w) \/ CrashWorker(w)
    \/ \E p \in Plans : BeginRepair(p) \/ CommitRepair(p) \/ \E r \in Requests : PreviewRepair(p, r)

Spec == Init /\ [][Next]_vars

-----------------------------------------------------------------------------
(* Properties *)

Live(r) == session[r].state # "absent"

\* The records committed for a session are its staged rows up to the cursor,
\* each once and with the value that is staged now: no crash, second worker,
\* rejection or repair replays, skips or rewrites a committed row.
ImportedExactlyOnce ==
    \A r \in Requests : Live(r) => imported[r] = SubSeq(session[r].staged, 1, session[r].next)

\* Receipt i is the completed one that covers row x.
Covers(chunks, i, x) ==
    chunks[i].state = "completed" /\ chunks[i].start <= x /\ x <= chunks[i].end

\* The completed receipts cover the first n rows, each row once, and nothing else.
Tiled(chunks, n) ==
    /\ \A i \in DOMAIN chunks : chunks[i].state = "completed" =>
        1 <= chunks[i].start /\ chunks[i].start <= chunks[i].end /\ chunks[i].end <= n
    /\ \A x \in 1..n : \E i \in DOMAIN chunks :
        Covers(chunks, i, x) /\ \A j \in DOMAIN chunks : Covers(chunks, j, x) => j = i

\* The chunk numbers left are exactly those the rows need, so the worker never
\* stops with data_import_chunk_sequence_invalid.
PlanSuffices(r) ==
    LET rows == Total(session[r]) - session[r].next IN
    (session[r].planned - session[r].chunks) * ChunkOf[r] \in rows .. rows + ChunkOf[r] - 1

\* The counters a status call reports agree with the receipts: sequences have no
\* gap, completed receipts cover every imported row once, and failed rows are those of
\* the rejection that has not been repaired; a queued session has chunk numbers
\* for its remaining rows, and corrected_rows counts the committed corrections.
CountersMatchReceipts ==
    \A r \in Requests : Live(r) =>
        LET row == session[r] chunks == receipts[r] IN
        /\ row.chunks = Len(chunks)
        /\ \A i \in DOMAIN chunks : chunks[i].sequence = i
        /\ Tiled(chunks, row.imported)
        /\ row.next = row.imported
        /\ row.failed \in 0..(Total(row) - row.imported)
        /\ row.failed > 0 => /\ HasActiveRejection(row, chunks)
                             /\ row.failed = Input(LastReceipt(chunks))
        /\ row.state = "completed" => row.imported = Total(row)
        /\ row.state = "queued" => PlanSuffices(r)
        /\ row.corrected = Cardinality({i \in row.changed : i <= row.next})

\* A staged row changes only in a repair, which raises the revision by one and
\* touches only the rejected window its approval saw.
RepairTouchesRejectedWindow ==
    [][\A r \in Requests :
        Live(r) /\ session'[r].state # "absent" /\ session'[r].staged # session[r].staged =>
            /\ session'[r].revision = session[r].revision + 1
            /\ LastReceipt(receipts[r]).state = "rejected"
            /\ session[r].failed > 0
            /\ \E p \in Plans :
                /\ plan[p].pc = "writing"
                /\ plan[p].print[3] = session[r].staged
                /\ \A i \in DOMAIN session[r].staged :
                     session'[r].staged[i] # session[r].staged[i] =>
                        /\ i \in DOMAIN plan[p].fixes
                        /\ i \in LastReceipt(receipts[r]).start .. LastReceipt(receipts[r]).end]_vars

=============================================================================
