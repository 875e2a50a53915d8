------------------------------- MODULE Records -------------------------------
(***************************************************************************)
(* The capabilities that select, write and delete Odoo records: the query  *)
(* that pages through record ids, and the single, batch, bulk and graph    *)
(* mutations with their preview, the check of its fingerprint, the         *)
(* handler, the verification and the host-only reversion.                  *)
(*                                                                         *)
(* One table stands for the models.  A record has a text, a moment and a   *)
(* link to a parent record, whose deletion cascades, is refused or clears  *)
(* the link.  Overrides of the installed modules may reject a write or a   *)
(* deletion, or return without doing it.  Other users write, delete and    *)
(* link records between any two calls; inside one call the database's      *)
(* snapshot keeps them out.                                                *)
(***************************************************************************)
EXTENDS Naturals, FiniteSets, SequencesExt

CONSTANTS
    MaxId,      \* ids the table can hand out
    PageSize,   \* _MAX_BULK_RECORDS
    MaxGroups,  \* _MAX_FAILURE_GROUPS
    Scenes      \* what one behaviour is about: the operations and the moves of others

VARIABLES
    table,  \* the records
    world,  \* access rights, linked users, overrides and the id sequence
    call,   \* the capability call under way
    page,   \* the selection being paged through
    room    \* what is left of the scene

rvars == <<table, world, call, page, room>>

RecIds == 1 .. MaxId

SmallerOf(m, n) == IF m < n THEN m ELSE n

Fields == {"name", "due", "parent"}

NoRecord == [live |-> FALSE, active |-> FALSE, state |-> "draft",
             vals |-> [f \in Fields |-> 0]]

NewRecord == [NoRecord EXCEPT !.live = TRUE, !.active = TRUE]

NoCall == [phase |-> "idle", op |-> "none", ids |-> <<>>, rows |-> <<>>,
           shown |-> <<>>, done |-> <<>>]

NoPage == [schema |-> {}, ids |-> <<>>, next |-> 0, open |-> FALSE, quiet |-> TRUE]

-----------------------------------------------------------------------------
(* Values: what a call sends, what is written, what is stored and what is  *)
(* read back.  0 is the empty value, which the ORM writes and reads as     *)
(* False.  A moment is sent as ISO text, written as a database text in UTC *)
(* and read back as ISO text again.                                        *)

Null == <<"null", 0, 0>>

Empty == <<"raw", 0, 0>>

Text(v) == <<"text", v, 0>>

Iso(v) == <<"iso", v, 0>>

Link(i) == <<"id", i, 0>>

Ref(step, index) == <<"ref", step, index>>

\* What _value makes of an argument.
Checked(f, a) ==
    IF a[1] = "null" THEN Empty
    ELSE <<IF f = "due" THEN "db" ELSE "raw", a[2], 0>>

\* What the row reads as: _normalize of the ORM's value.
Read(f, v) == IF f = "due" /\ v # 0 THEN Iso(v) ELSE <<"raw", v, 0>>

\* The written value in the form it is read back in.
VerificationValue(w) == IF w[1] = "db" THEN Iso(w[2]) ELSE w

ReadValues(r, fields) == [f \in fields |-> Read(f, r.vals[f])]

CheckedRow(row) == [f \in DOMAIN row |-> Checked(f, row[f])]

CheckedRows(rows) == [k \in DOMAIN rows |-> CheckedRow(rows[k].vals)]

Stored(r, checked) ==
    [r EXCEPT !.vals = [f \in Fields |-> IF f \in DOMAIN checked THEN checked[f][2] ELSE r.vals[f]]]

-----------------------------------------------------------------------------
(* Access and validation under the effective user.                         *)

Readable == "read" \in world.acl

Writable == IF Readable THEN {f \in Fields : f # "due" \/ "due" \in world.acl} ELSE {}

\* A link must point at a record that exists; any other value has its field's kind.
ValueValid(t, f, a) ==
    \/ a[1] = "null"
    \/ f = "name" /\ a[1] = "text"
    \/ f = "due" /\ a[1] = "iso"
    \/ f = "parent" /\ a[1] = "id" /\ a[2] \in RecIds /\ t[a[2]].live

RowValid(t, row) == DOMAIN row \subseteq Writable /\ \A f \in DOMAIN row : ValueValid(t, f, row[f])

Target(t, i, access) == t[i].live /\ Readable /\ access \in world.acl

\* The host never deletes the partner of an active user or of a company.
Protected(t, ids) == {i \in ids : t[i].live /\ i \in world.users}

Eligible(t, ids) == SelectSeq(ids, LAMBDA i : i \notin Protected(t, ToSet(ids)))

Deletes == {"bulk_delete", "batch_delete"}

Creates == {"create", "batch_create"}

(* What each preview requires, which its handler checks again, and what it *)
(* shows of the records: the value that its fingerprint is taken of.       *)

PatchPrepared(t, c) ==
    /\ RowValid(t, c.rows[1].vals)
    /\ \A i \in ToSet(c.ids) : Target(t, i, "write")

PatchShown(t, c) == [k \in DOMAIN c.ids |-> ReadValues(t[c.ids[k]], DOMAIN c.rows[1].vals)]

CreatePrepared(t, c) ==
    "create" \in world.acl /\ \A k \in DOMAIN c.rows : RowValid(t, c.rows[k].vals)

RowsShown(c) == CheckedRows(c.rows)

\* A reference of a row of a graph is to a row of an earlier step.
ReferenceValid(rows, k, f, a) ==
    /\ f = "parent" /\ a[2] < rows[k].step
    /\ a[3] <= Cardinality({j \in DOMAIN rows : rows[j].step = a[2]})

GraphPrepared(t, c) ==
    /\ "create" \in world.acl
    /\ \A k \in DOMAIN c.rows : \A f \in DOMAIN c.rows[k].vals :
        LET a == c.rows[k].vals[f]
        IN  f \in Writable /\ IF a[1] = "ref" THEN ReferenceValid(c.rows, k, f, a)
                              ELSE ValueValid(t, f, a)

GraphShown(c) ==
    [k \in DOMAIN c.rows |-> [f \in DOMAIN c.rows[k].vals |->
        LET a == c.rows[k].vals[f] IN IF a[1] = "ref" THEN a ELSE Checked(f, a)]]

ActiveShown(t, c) == <<t[c.ids[1]].active>>

NameShown(t, c) == <<t[c.ids[1]].vals["name"]>>

OrderPrepared(t, c) == Target(t, c.ids[1], "write") /\ t[c.ids[1]].state = "draft"

OrderShown(t, c) == <<t[c.ids[1]].state, t[c.ids[1]].vals["name"]>>

BulkPrepared(t, c) == (\A i \in ToSet(c.ids) : t[i].live) /\ "unlink" \in world.acl

SelectionShown(t, c) == Eligible(t, c.ids)

Prepared(t, c) ==
    /\ Readable
    /\ CASE c.op \in {"patch", "batch_patch"} -> PatchPrepared(t, c)
         [] c.op \in Creates -> CreatePrepared(t, c)
         [] c.op = "graph" -> GraphPrepared(t, c)
         [] c.op \in {"archive", "unarchive"} -> Target(t, c.ids[1], "write")
         [] c.op = "delete" -> Target(t, c.ids[1], "unlink")
         [] c.op = "confirm" -> OrderPrepared(t, c)
         [] c.op \in Deletes -> BulkPrepared(t, c)

Fingerprint(t, c) ==
    CASE c.op \in {"patch", "batch_patch"} -> PatchShown(t, c)
      [] c.op \in Creates -> RowsShown(c)
      [] c.op = "graph" -> GraphShown(c)
      [] c.op \in {"archive", "unarchive"} -> ActiveShown(t, c)
      [] c.op = "delete" -> NameShown(t, c)
      [] c.op = "confirm" -> OrderShown(t, c)
      [] c.op \in Deletes -> SelectionShown(t, c)

-----------------------------------------------------------------------------
(* What Odoo and the database do with a write or a deletion.               *)

\* The records that go with the ones of a set: their descendants, when links cascade.
Doomed(t, S) ==
    LET up[n \in 0 .. MaxId] ==
            IF n = 0 THEN S
            ELSE LET s == up[n - 1]
                 IN  s \union {i \in RecIds : t[i].live /\ t[i].vals["parent"] \in s}
    IN  IF world.ondelete = "cascade" THEN up[MaxId] ELSE S

\* One unlink of a set of records: the reason it is rejected for, or "none".
Rejection(t, S) ==
    LET gone == Doomed(t, {i \in S : world.rule[i] # "ignore"})
    IN  IF \E i \in S : world.rule[i] = "reject" THEN "business_rule_rejected"
        ELSE IF \/ gone \intersect world.users # {}
                \/ /\ world.ondelete = "restrict"
                   /\ \E i \in RecIds \ gone : t[i].live /\ t[i].vals["parent"] \in gone
             THEN "record_is_referenced"
        ELSE "none"

Unlinked(t, S) ==
    LET gone == Doomed(t, {i \in S : world.rule[i] # "ignore"})
    IN  [i \in RecIds |->
            IF i \in gone THEN NoRecord
            ELSE IF t[i].live /\ t[i].vals["parent"] \in gone
                 THEN [t[i] EXCEPT !.vals["parent"] = 0]
            ELSE t[i]]

Rejects(S) == \E i \in S : world.rule[i] = "reject"

\* A write to records that no override rejects; an override may ignore it.
Written(t, new) ==
    [i \in RecIds |-> IF i \in DOMAIN new /\ world.rule[i] # "ignore" THEN new[i] ELSE t[i]]

-----------------------------------------------------------------------------
(* The handlers: a table and a result, or a rejection.                     *)

Rejected(t) == [ok |-> FALSE, table |-> t, result |-> <<>>]

Handled(t, result) == [ok |-> TRUE, table |-> t, result |-> result]

WriteRecords(t, c, new) ==
    IF Rejects(ToSet(c.ids)) THEN Rejected(t) ELSE Handled(Written(t, new), c.ids)

PatchRecords(t, c) ==
    WriteRecords(t, c, [i \in ToSet(c.ids) |-> Stored(t[i], CheckedRow(c.rows[1].vals))])

ArchiveRecord(t, c) ==
    WriteRecords(t, c, [i \in ToSet(c.ids) |-> [t[i] EXCEPT !.active = FALSE]])

UnarchiveRecord(t, c) ==
    WriteRecords(t, c, [i \in ToSet(c.ids) |-> [t[i] EXCEPT !.active = TRUE]])

ConfirmOrder(t, c) ==
    WriteRecords(t, c, [i \in ToSet(c.ids) |-> [t[i] EXCEPT !.state = "sale"]])

\* The id that a row of a step got, as the earlier creations of this call gave them.
IdOfRow(c, step, index) ==
    world.next - 1 + Cardinality({j \in DOMAIN c.rows : c.rows[j].step < step}) + index

\* A row with its references replaced by the ids of the records they stand for.
ResolvedRow(c, k) ==
    [f \in DOMAIN c.rows[k].vals |->
        LET a == c.rows[k].vals[f]
        IN  IF a[1] = "ref" THEN Link(IdOfRow(c, a[2], a[3])) ELSE a]

\* The ids that the sequence gives to the rows of a creation.
NewIds(rows) == [k \in DOMAIN rows |-> world.next + k - 1]

Created(t, rows) ==
    [i \in RecIds |->
        IF i \notin ToSet(NewIds(rows)) THEN t[i]
        ELSE IF world.rule[i] = "ignore" THEN NewRecord
        ELSE Stored(NewRecord, CheckedRow(rows[i - world.next + 1]))]

CreateRecords(t, c) ==
    LET rows == [k \in DOMAIN c.rows |-> c.rows[k].vals]
    IN  IF Rejects(ToSet(NewIds(rows))) THEN Rejected(t)
        ELSE Handled(Created(t, rows), NewIds(rows))

CreateGraph(t, c) ==
    LET rows == [k \in DOMAIN c.rows |-> ResolvedRow(c, k)]
    IN  IF Rejects(ToSet(NewIds(rows))) THEN Rejected(t)
        ELSE Handled(Created(t, rows), NewIds(rows))

DeleteRecord(t, c) ==
    IF Rejection(t, {c.ids[1]}) # "none" THEN Rejected(t)
    ELSE Handled(Unlinked(t, {c.ids[1]}), c.ids)

Outcome(i, state, code) == [id |-> i, state |-> state, code |-> code]

\* One row of the fallback, inside a savepoint of its own: an unlink that is rejected or
\* leaves the record is undone and reported.
DeleteRow(acc, i) ==
    LET t == acc.table
        why == IF Rejection(t, {i}) # "none" THEN Rejection(t, {i})
               ELSE IF Unlinked(t, {i})[i].live THEN "operation_not_applied"
               ELSE "none"
        told(state, code) == Append(acc.out, Outcome(i, state, code))
    IN  IF ~t[i].live THEN [acc EXCEPT !.out = told("applied", "none")]
        ELSE IF why = "none" THEN [table |-> Unlinked(t, {i}), out |-> told("applied", "none")]
        ELSE [acc EXCEPT !.out = told("failed", why)]

\* As if the outcomes of the rows were reported as each row saw them.
NormalizedAsSeen(t, out) == out

\* Rows that a later row took along are applied, rows that are back are failed.
Normalized(t, out) ==
    [k \in DOMAIN out |->
        LET i == out[k].id
        IN  IF ~t[i].live THEN Outcome(i, "applied", "none")
            ELSE IF out[k].state = "failed" THEN out[k]
            ELSE Outcome(i, "failed", "operation_not_applied")]

DeleteWithRowFallback(t, ids) ==
    LET all == Unlinked(t, ToSet(ids))
        whole == Rejection(t, ToSet(ids)) = "none" /\ \A i \in ToSet(ids) : ~all[i].live
        \* An unlink that left records behind was not rejected: what it deleted stays deleted.
        start == IF Rejection(t, ToSet(ids)) = "none" THEN all ELSE t
        rows == FoldLeft(DeleteRow, [table |-> start, out |-> <<>>], ids)
    IN  IF ids = <<>> \/ whole
        THEN [table |-> all, out |-> [k \in DOMAIN ids |-> Outcome(ids[k], "applied", "none")]]
        ELSE [table |-> rows.table, out |-> Normalized(rows.table, rows.out)]

OutcomeWord(applied, retained) ==
    IF retained = 0 THEN "completed" ELSE IF applied = 0 THEN "blocked" ELSE "partial"

IdsOf(out, state) == {o.id : o \in {p \in ToSet(out) : p.state = state}}

\* The groups of retained records in the order of their first record, cut at the limit.
RetainedGroups(out) ==
    LET kept == SelectSeq(out, LAMBDA o : o.state # "applied")
        key(o) == <<o.state, o.code>>
        firsts == SelectSeq([k \in DOMAIN kept |-> k],
                            LAMBDA k : \A j \in 1 .. k - 1 : key(kept[j]) # key(kept[k]))
        group(k) == [state |-> kept[k].state,
                     ids |-> {o.id : o \in {p \in ToSet(kept) : key(p) = key(kept[k])}}]
    IN  [n \in 1 .. SmallerOf(Len(firsts), MaxGroups) |-> group(firsts[n])]

\* What bulk_delete reports of its rows.
DeleteReport(c, eligible, out) ==
    LET failed == IdsOf(out, "failed")
        excluded == IdsOf(out, "excluded")
        groups == RetainedGroups(out)
        detailed == UNION {g.ids : g \in ToSet(groups)}
        count == Len(out) - Cardinality(failed) - Cardinality(excluded)
    IN  [outcome |-> OutcomeWord(count, Cardinality(failed \union excluded)),
         count |-> count, failed |-> failed, excluded |-> excluded, groups |-> groups,
         omitted |-> Cardinality(failed) + Cardinality(excluded) - Cardinality(detailed),
         requested |-> Len(out), eligible |-> eligible,
         applied |-> SelectSeq(c.ids, LAMBDA i : i \notin failed \union excluded)]

BulkDelete(t, c) ==
    LET eligible == Eligible(t, c.ids)
        run == DeleteWithRowFallback(t, eligible)
        of(i) == IF i \in ToSet(eligible)
                 THEN CHOOSE o \in ToSet(run.out) : o.id = i
                 ELSE Outcome(i, "excluded", "protected")
    IN  Handled(run.table, DeleteReport(c, eligible, [k \in DOMAIN c.ids |-> of(c.ids[k])]))

Handle(t, c) ==
    CASE c.op \in {"patch", "batch_patch"} -> PatchRecords(t, c)
      [] c.op = "archive" -> ArchiveRecord(t, c)
      [] c.op = "unarchive" -> UnarchiveRecord(t, c)
      [] c.op = "confirm" -> ConfirmOrder(t, c)
      [] c.op = "delete" -> DeleteRecord(t, c)
      [] c.op \in Creates -> CreateRecords(t, c)
      [] c.op = "graph" -> CreateGraph(t, c)
      [] c.op \in Deletes -> BulkDelete(t, c)

-----------------------------------------------------------------------------
(* Verification.                                                           *)

ReadsAs(t, i, row) ==
    /\ t[i].live
    /\ ReadValues(t[i], DOMAIN row) = [f \in DOMAIN row |-> VerificationValue(Checked(f, row[f]))]

\* The report of a deletion is consistent with itself and with what still exists.
DeleteVerified(t, c, d) ==
    LET ids == ToSet(c.ids)
        remaining == {i \in ids : t[i].live}
        protected == Protected(t, remaining)
        detailed == FoldLeft(LAMBDA n, g : n + Cardinality(g.ids), 0, d.groups)
    IN  /\ d.requested = Len(c.ids)
        /\ d.excluded = protected
        /\ d.eligible = SelectSeq(c.ids, LAMBDA i : i \notin protected)
        /\ d.failed \intersect d.excluded = {}
        /\ Len(d.groups) <= MaxGroups
        /\ \A g \in ToSet(d.groups) :
              g.ids \subseteq (IF g.state = "failed" THEN d.failed ELSE d.excluded)
        /\ detailed = Cardinality(UNION {g.ids : g \in ToSet(d.groups)})
        /\ d.omitted = Cardinality(d.failed) + Cardinality(d.excluded) - detailed
        /\ d.count = Cardinality(ids \ (d.failed \union d.excluded))
        /\ d.outcome = OutcomeWord(d.count, Cardinality(d.failed \union d.excluded))
        /\ remaining = d.failed \union d.excluded
        /\ d.applied = SelectSeq(c.ids, LAMBDA i : i \notin remaining)

PatchVerified(t, c, d) == \A i \in ToSet(d) : ReadsAs(t, i, c.rows[1].vals)

RowsVerified(t, c, d) ==
    Len(d) = Len(c.rows) /\ \A k \in DOMAIN d : ReadsAs(t, d[k], c.rows[k].vals)

GraphVerified(t, c, d) ==
    Len(d) = Len(c.rows) /\ \A k \in DOMAIN d : ReadsAs(t, d[k], ResolvedRow(c, k))

ActiveVerified(t, c, d) == t[d[1]].active = (c.op = "unarchive")

OrderVerified(t, d) == t[d[1]].state = "sale"

GoneVerified(t, d) == ~t[d[1]].live

Verified(t, c, d) ==
    CASE c.op \in {"patch", "batch_patch"} -> PatchVerified(t, c, d)
      [] c.op \in Creates -> RowsVerified(t, c, d)
      [] c.op = "graph" -> GraphVerified(t, c, d)
      [] c.op \in {"archive", "unarchive"} -> ActiveVerified(t, c, d)
      [] c.op = "confirm" -> OrderVerified(t, d)
      [] c.op = "delete" -> GoneVerified(t, d)
      [] c.op \in Deletes -> DeleteVerified(t, c, d)

-----------------------------------------------------------------------------
(* Calls.                                                                  *)

Row(step, vals) == [step |-> step, vals |-> vals]

One(f, a) == [g \in {f} |-> a]

Patches(i) == {One("name", Text(1)), One("due", Iso(1)), One("due", Null), One("due", Text(1))}
              \union {One("parent", Link(j)) : j \in RecIds \ {i}}

Call(op, ids, rows) == [NoCall EXCEPT !.phase = "shown", !.op = op, !.ids = ids, !.rows = rows]

\* The calls that a decision may plan.
CallsOf(op) ==
    CASE op = "patch" -> {Call(op, <<i>>, <<Row(1, p)>>) : i \in 1 .. 2, p \in Patches(1)}
      [] op = "batch_patch" -> {Call(op, <<1, 2>>, <<Row(1, p)>>) : p \in Patches(1)}
      [] op = "create" -> {Call(op, <<>>, <<Row(1, p)>>) : p \in Patches(MaxId)}
      [] op = "batch_create" -> {Call(op, <<>>, <<Row(1, p), Row(1, One("name", Text(1)))>>) :
                                    p \in Patches(MaxId)}
      [] op = "graph" -> {Call(op, <<>>, <<Row(1, One("name", Text(1))), Row(2, One("parent", a))>>) :
                            a \in {Ref(1, 1), Ref(1, 2), Ref(2, 1), Link(1)}}
      [] op \in Deletes -> {Call(op, ids, <<>>) :
                              ids \in {s \in UNION {[1 .. n -> 1 .. 3] : n \in 2 .. 3} : IsInjective(s)}}
      [] OTHER -> {Call(op, <<i>>, <<>>) : i \in 1 .. 2}

\* Whether the table stood still since the selection under way began.
Noticed == page' = [page EXCEPT !.quiet = page.quiet /\ table' = table]

\* The preview, whose fingerprint the plan keeps.
Preview ==
    /\ call.phase = "idle" /\ room.calls > 0
    /\ \E op \in room.ops \ {"select"} : \E c \in CallsOf(op) :
        /\ world.next + Len(c.rows) <= MaxId + 1 \/ op \notin Creates \union {"graph"}
        /\ call' = IF Prepared(table, c) THEN [c EXCEPT !.shown = Fingerprint(table, c)]
                   ELSE [c EXCEPT !.phase = "refused"]
    /\ room' = [room EXCEPT !.calls = @ - 1]
    /\ UNCHANGED <<table, world, page>>

\* A deletion of exactly the records that a finished selection returned.
PreviewSelection ==
    /\ call.phase = "idle" /\ room.calls > 0 /\ "select" \in room.ops
    /\ ~page.open /\ page.ids # <<>> /\ IsInjective(page.ids)
    /\ LET c == Call("bulk_delete", page.ids, <<>>)
       IN  call' = IF Prepared(table, c) THEN [c EXCEPT !.shown = Fingerprint(table, c)]
                   ELSE [c EXCEPT !.phase = "refused"]
    /\ room' = [room EXCEPT !.calls = @ - 1]
    /\ UNCHANGED <<table, world, page>>

\* The plan shows the step again before it runs it.
StillAsShown(t, c) == Fingerprint(t, c) = c.shown

\* The step in its savepoint: preview again, handler, verification; any failure undoes it.
Execute ==
    /\ call.phase = "shown"
    /\ LET h == Handle(table, call)
           end(phase) == call' = [call EXCEPT !.phase = phase] /\ UNCHANGED <<table, world>>
       IN  IF ~Prepared(table, call) THEN end("refused")
           ELSE IF ~StillAsShown(table, call) THEN end("changed")
           ELSE IF ~h.ok THEN end("rejected")
           ELSE IF ~Verified(h.table, call, h.result) THEN end("unverified")
           ELSE /\ call' = [call EXCEPT !.phase = "done", !.done = h.result]
                /\ table' = h.table
                /\ world' = IF call.op \in Creates \union {"graph"}
                            THEN [world EXCEPT !.next = @ + Len(call.rows)] ELSE world
    /\ Noticed
    /\ UNCHANGED room

\* The values a reversion writes: what the preview read, through the validator again.
Restored(c) ==
    [f \in DOMAIN c.rows[1].vals |->
        LET b == c.shown[1][f] IN Checked(f, IF b = Empty THEN Null ELSE b)]

\* The link that a patch replaced must still be a record to be put back.
RestoreValid(t, c) ==
    /\ RowValid(t, c.rows[1].vals)
    /\ \A f \in DOMAIN c.rows[1].vals :
        f = "parent" /\ Restored(c)[f] # Empty => t[Restored(c)[f][2]].live

\* The inverse of a patch compares what is read with what was written, both before and after.
RevertPatch(t, c) ==
    LET row == c.rows[1].vals
        read(u) == ReadValues(u[c.ids[1]], DOMAIN row)
        h == WriteRecords(t, c, [i \in ToSet(c.ids) |-> Stored(t[i], Restored(c))])
    IN  IF /\ RestoreValid(t, c)
           /\ read(t) = CheckedRow(row)
           /\ h.ok /\ read(h.table) = Restored(c)
        THEN h ELSE Rejected(t)

RevertActive(t, c, now) ==
    LET h == WriteRecords(t, c, [i \in ToSet(c.ids) |-> [t[i] EXCEPT !.active = c.shown[1]]])
    IN  IF /\ t[c.ids[1]].active = now
           /\ h.ok /\ h.table[c.ids[1]].active = c.shown[1]
        THEN h ELSE Rejected(t)

RevertArchive(t, c) == RevertActive(t, c, FALSE)

RevertUnarchive(t, c) == RevertActive(t, c, TRUE)

\* A finished patch, archive or unarchive is taken back by its host-only inverse.
Revert ==
    /\ call.phase = "done" /\ call.op \in {"patch", "archive", "unarchive"}
    /\ LET inverse == CASE call.op = "patch" -> RevertPatch(table, call)
                        [] call.op = "archive" -> RevertArchive(table, call)
                        [] call.op = "unarchive" -> RevertUnarchive(table, call)
           h == IF Target(table, call.ids[1], "write") THEN inverse ELSE Rejected(table)
       IN  /\ table' = h.table
           /\ call' = [call EXCEPT !.phase = IF h.ok THEN "reverted" ELSE "kept"]
    /\ Noticed
    /\ UNCHANGED <<world, room>>

\* The turn goes on to its next call.
NextCall ==
    /\ call.phase \notin {"idle", "shown"} /\ room.calls > 0
    /\ call' = NoCall
    /\ UNCHANGED <<table, world, page, room>>

-----------------------------------------------------------------------------
(* Selection.                                                              *)

Schema == IF Readable THEN {"id", "name", "parent"} \union (world.acl \intersect {"due"}) ELSE {}

\* The records a selection matches: archived ones are left out by the ORM's search.
Matching(t) == {i \in RecIds : t[i].live /\ t[i].active}

\* As if equal names came in any order, here backwards on every page but the first.
InUnstableOrder(t, offset) ==
    SetToSortSeq(Matching(t), LAMBDA i, j :
        \/ t[i].vals["name"] < t[j].vals["name"]
        \/ t[i].vals["name"] = t[j].vals["name"] /\ (IF offset = 0 THEN i < j ELSE j < i))

\* Ordered by name, and by id among equal names.
InOrder(t, offset) ==
    SetToSortSeq(Matching(t), LAMBDA i, j :
        \/ t[i].vals["name"] < t[j].vals["name"]
        \/ t[i].vals["name"] = t[j].vals["name"] /\ i < j)

\* A selection starts from the schema as the user sees it now.
InspectSchema ==
    /\ "select" \in room.ops /\ ~page.open /\ page.ids = <<>> /\ Readable
    /\ page' = [NoPage EXCEPT !.schema = Schema, !.open = TRUE]
    /\ UNCHANGED <<table, world, call, room>>

\* A page of a query: a record more than the limit tells whether another page follows.
PageOf(t, offset) ==
    LET all == InOrder(t, offset)
    IN  [ids |-> SubSeq(all, offset + 1, SmallerOf(offset + PageSize, Len(all))),
         truncated |-> Len(all) > offset + PageSize]

QueryPage ==
    /\ page.open
    /\ LET found == PageOf(table, page.next)
       IN  page' = IF ~Readable \/ Schema # page.schema THEN NoPage
                   ELSE [page EXCEPT !.ids = @ \o found.ids,
                                     !.open = found.truncated,
                                     !.next = @ + Len(found.ids)]
    /\ UNCHANGED <<table, world, call, room>>

-----------------------------------------------------------------------------
(* Other users and the administrator.                                      *)

Move(kind) ==
    /\ kind \in room.others /\ room.moves > 0
    /\ room' = [room EXCEPT !.moves = @ - 1]
    /\ UNCHANGED call

ForeignEdit ==
    /\ Move("edit")
    /\ \E i \in RecIds : \E r \in {[table[i] EXCEPT !.vals["name"] = 1 - @],
                                   [table[i] EXCEPT !.vals["due"] = 2 - @],
                                   [table[i] EXCEPT !.active = ~@]} :
        table[i].live /\ table' = [table EXCEPT ![i] = r]
    /\ Noticed
    /\ UNCHANGED world

ForeignDelete ==
    /\ Move("delete")
    /\ \E i \in RecIds :
        /\ table[i].live /\ Rejection(table, {i}) = "none"
        /\ table' = Unlinked(table, {i})
    /\ Noticed
    /\ UNCHANGED world

ForeignUser ==
    /\ Move("user")
    /\ \E i \in RecIds \ world.users :
        table[i].live /\ world' = [world EXCEPT !.users = @ \union {i}]
    /\ UNCHANGED table
    /\ Noticed

Revoke ==
    /\ Move("acl")
    /\ \E a \in world.acl : world' = [world EXCEPT !.acl = @ \ {a}]
    /\ UNCHANGED table
    /\ Noticed

-----------------------------------------------------------------------------

\* The parents of the first three records.
Families == {[i \in 1 .. 3 |-> 0], [i \in 1 .. 3 |-> IF i = 1 THEN 2 ELSE 0],
             [i \in 1 .. 3 |-> i - 1], [i \in 1 .. 3 |-> IF i = 3 THEN 0 ELSE 3]}

Rules == {[i \in RecIds |-> IF i = k THEN r ELSE "plain"] :
            k \in RecIds, r \in {"plain", "reject", "ignore"}}

Init ==
    /\ room \in Scenes
    /\ \E family \in IF room.families THEN Families ELSE {[i \in 1 .. 3 |-> 0]} :
        table = [i \in RecIds |-> IF i > 3 THEN NoRecord
                                  ELSE [NewRecord EXCEPT !.vals["parent"] = family[i]]]
    /\ \E rule \in Rules, on \in {"cascade", "restrict", "set null"},
          users \in {{}, {2}} :
        /\ room.families \/ (on = "set null" /\ users = {})
        /\ world = [acl |-> {"read", "write", "create", "unlink", "due"}, users |-> users,
                    ondelete |-> on, rule |-> rule, next |-> 4]
    /\ call = NoCall
    /\ page = NoPage

Next ==
    \/ Preview \/ PreviewSelection \/ Execute \/ Revert \/ NextCall
    \/ InspectSchema \/ QueryPage
    \/ ForeignEdit \/ ForeignDelete \/ ForeignUser \/ Revoke

Spec == Init /\ [][Next]_rvars

-----------------------------------------------------------------------------
(* Properties.                                                             *)

\* A call changes only what its preview showed and reports what it did: a patched record had
\* the values shown; a deleted one was eligible when shown or went with its parent, and nobody's
\* partner goes; whatever cascades, overrides and references did to the rows of a deletion, the
\* failed and the excluded are exactly the requested records that exist, and the host's own
\* verification never undoes it; a reversion puts back what was shown over values nobody changed.
ExecutedAsShown ==
    [][LET ids == ToSet(call.ids)
           changed == {i \in RecIds : table'[i] # table[i]}
           gone == {i \in changed : table[i].live /\ ~table'[i].live}
       IN  /\ call.op \in Deletes => call'.phase # "unverified"
           /\ call.phase = "shown" /\ call'.phase = "done" =>
                /\ call.op \in {"patch", "batch_patch"} =>
                      /\ changed \subseteq ids
                      /\ \A k \in DOMAIN call.ids : \A f \in DOMAIN call.rows[1].vals :
                            call.shown[k][f][2] = table[call.ids[k]].vals[f]
                /\ call.op \in Deletes =>
                      /\ gone \intersect ids \subseteq ToSet(call.shown)
                      /\ gone \subseteq ids \/ world.ondelete = "cascade"
                      /\ gone \intersect world.users = {}
                      /\ {i \in ids : table'[i].live} = call'.done.failed \union call'.done.excluded
                /\ call.op \in Creates \union {"graph"} => \A i \in changed : ~table[i].live
           /\ call.phase = "done" /\ call'.phase = "reverted" =>
                /\ changed \subseteq ids
                /\ call.op = "patch" => \A f \in DOMAIN call.rows[1].vals :
                      /\ table[call.ids[1]].vals[f] = call.rows[1].vals[f][2]
                      /\ table'[call.ids[1]].vals[f] = call.shown[1][f][2]]_rvars

\* Pages that were read while nobody changed the table are together the whole selection,
\* without a record twice and without one left out.
PagesComplete ==
    page.quiet /\ ~page.open /\ page.schema # {} =>
        Len(page.ids) = Cardinality(Matching(table)) /\ ToSet(page.ids) = Matching(table)
=============================================================================
