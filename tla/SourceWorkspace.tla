-------------------------- MODULE SourceWorkspace --------------------------
(***************************************************************************)
(* Private staging workspaces for source code: SourceWorkspaceStore copies *)
(* an installed addon file by file into a directory of its own,            *)
(* SourcePatchStore derives a patched workspace from it, and the           *)
(* capabilities of technical_source_workspace preview, execute and verify  *)
(* both for one turn.  The installed addon may be deployed over at any     *)
(* moment, also between the reads of two files; a worker may die between   *)
(* any two steps; a workspace may be changed or removed behind its back.   *)
(* A workspace is bound to its turn, so one turn is the whole audience.    *)
(* A fingerprint is modelled by what it fingerprints.                      *)
(***************************************************************************)
EXTENDS Naturals, FiniteSets, Functions

CONSTANTS Files,       \* logical paths, read in their order (numbers)
          Secrets,     \* the ones _is_secret_name refuses
          Ids,         \* workspace ids, 1..n, a fresh one for every workspace
          MaxFiles,    \* MAX_FILES
          MaxDeploys,  \* deployments the model allows
          MaxFaults    \* write errors, deaths, changes and removals allowed

VARIABLES source,  \* the installed addon: a function from some Files to versions
          past,    \* every state the installed addon has had
          ws,      \* the directories of the store, by id
          job,     \* what the worker is doing
          used     \* deployments, faults and workspace ids so far
vars == <<source, past, ws, job, used>>

Empty == [f \in {} |-> 0]

\* A directory is absent, pending (.pending-<hex>) or final; whole when its
\* metadata is written; snap is the source it was taken from, want what its
\* writer means to put into it, receipt the patch receipt beside it.
NoReceipt == [parent |-> 0, before |-> Empty, after |-> Empty]

NoDir == [dir |-> "absent", files |-> Empty, meta |-> FALSE, snap |-> Empty, want |-> Empty,
          touched |-> FALSE, receipt |-> NoReceipt]

NoJob == [pc |-> "idle", op |-> "none", ws |-> 0, parent |-> 0, rest |-> {}, got |-> Empty,
          then |-> "idle", change |-> Empty, before |-> Empty, after |-> Empty, result |-> "none"]

Init ==
    /\ source = [f \in Files |-> 0] /\ past = {source}
    /\ ws = [i \in Ids |-> NoDir]
    /\ job = NoJob
    /\ used = [deploys |-> 0, faults |-> 0, ids |-> 0]

---------------------------------------------------------------------------
(* The world around the worker. *)

\* A deployment replaces some files of the addon by a version never seen before.
Deploy ==
    /\ used.deploys < MaxDeploys
    /\ \E fs \in SUBSET DOMAIN source \ {{}} :
          source' = [f \in DOMAIN source |-> IF f \in fs THEN used.deploys + 1 ELSE source[f]]
    /\ past' = past \union {source'}
    /\ used' = [used EXCEPT !.deploys = @ + 1]
    /\ UNCHANGED <<ws, job>>

Fault == used.faults < MaxFaults /\ used' = [used EXCEPT !.faults = @ + 1]

\* A file of a published workspace is changed by something else than the store.
Tamper ==
    /\ Fault
    /\ \E i \in Ids : /\ ws[i].dir = "final"
                      /\ \E f \in DOMAIN ws[i].files :
                            ws' = [ws EXCEPT ![i].files[f] = 99, ![i].touched = TRUE]
    /\ UNCHANGED <<source, past, job>>

\* SourceWorkspaceStore.delete, of a workspace that inspect accepts.
Delete ==
    /\ Fault
    /\ \E i \in Ids : ws[i].dir = "final" /\ ws[i].meta /\ ws' = [ws EXCEPT ![i] = NoDir]
    /\ UNCHANGED <<source, past, job>>

\* The worker dies between two steps; the next attempt starts from the disk.
Dies ==
    /\ job.pc # "idle" /\ Fault
    /\ job' = NoJob
    /\ UNCHANGED <<source, past, ws>>

---------------------------------------------------------------------------
(* Reading. *)

Fails == [NoJob EXCEPT !.result = "failed"]

\* _collect_files of the installed addon: the files in order, one at a time.
Collect(j, then) ==
    [j EXCEPT !.pc = "collect", !.got = Empty, !.then = then,
              !.rest = DOMAIN source \ Secrets]

ReadFile ==
    /\ job.pc = "collect"
    /\ \E f \in job.rest :
          /\ \A g \in job.rest : f <= g
          /\ job' = [job EXCEPT !.rest = @ \ {f},
                                !.got = [g \in DOMAIN job.got \union {f} |->
                                            IF g = f THEN source[f] ELSE job.got[g]]]
    /\ UNCHANGED <<source, past, ws, used>>

Collected ==
    /\ job.pc = "collect" /\ job.rest = {}
    /\ job' = IF job.got = Empty \/ Cardinality(DOMAIN job.got) > MaxFiles
              THEN Fails ELSE [job EXCEPT !.pc = job.then]
    /\ UNCHANGED <<source, past, ws, used>>

\* inspect: a published directory with its metadata, and no secret in it.
Inspectable(i) ==
    i \in Ids /\ ws[i].dir = "final" /\ ws[i].meta /\ DOMAIN ws[i].files \intersect Secrets = {}

\* source_stale of the receipt: the addon as just collected against the snapshot.
Stale(i) == job.got # ws[i].snap

---------------------------------------------------------------------------
(* Preparing and patching: from the preview to the directory. *)

\* The capability is planned: prepare from the addon, or a patch of a workspace
\* of this turn.  A change creates (from nothing), modifies or deletes (to 0) a file.
Plan ==
    /\ job.pc = "idle"
    /\ \/ job' = Collect([NoJob EXCEPT !.op = "prepare"], "preview")
       \/ \E p \in Ids, f \in Files, v \in {0, 50} :
             /\ Inspectable(p)
             /\ job' = Collect([NoJob EXCEPT !.op = "patch", !.parent = p,
                                             !.change = [g \in {f} |-> v]], "preview")
    /\ UNCHANGED <<source, past, ws, used>>

\* The payload after the typed edits of _normalize_changes.
Patched(files, change) ==
    [f \in {g \in DOMAIN files \union DOMAIN change : g \notin DOMAIN change \/ change[g] # 0} |->
        IF f \in DOMAIN change THEN change[f] ELSE files[f]]

\* What preview refuses: a stale source, a path that is not patchable, a delete
\* of nothing, no effect, an empty or too large result.
PatchRefused ==
    LET after == Patched(ws[job.parent].files, job.change) IN
    \/ Stale(job.parent)
    \/ DOMAIN job.change \intersect Secrets # {}
    \/ \E f \in DOMAIN job.change : job.change[f] = 0 /\ f \notin DOMAIN ws[job.parent].files
    \/ after = ws[job.parent].files
    \/ after = Empty \/ Cardinality(DOMAIN after) > MaxFiles

\* What the preview of this moment fingerprints.
Preview ==
    IF job.op = "prepare" THEN [ok |-> TRUE, before |-> job.got, after |-> job.got]
    ELSE IF ~Inspectable(job.parent) THEN [ok |-> FALSE, before |-> Empty, after |-> Empty]
    ELSE [ok |-> ~PatchRefused, before |-> ws[job.parent].files,
          after |-> Patched(ws[job.parent].files, job.change)]

\* The preview is shown and approved: its fingerprint is the precondition.
Approve ==
    /\ job.pc = "preview"
    /\ job' = IF Preview.ok
              THEN Collect([job EXCEPT !.before = Preview.before, !.after = Preview.after],
                           "precondition")
              ELSE Fails
    /\ UNCHANGED <<source, past, ws, used>>

\* The executor previews again and compares the fingerprints.
PreconditionHolds ==
    Preview.ok /\ Preview.before = job.before /\ Preview.after = job.after

Execute ==
    /\ job.pc = "precondition"
    /\ job' = IF PreconditionHolds THEN Collect(job, "payload") ELSE Fails
    /\ UNCHANGED <<source, past, ws, used>>

\* prepare keeps what it collected now; apply previews a last time with the
\* expected fingerprint of its arguments and keeps that payload in memory.
Payload ==
    /\ job.pc = "payload"
    /\ job' = CASE job.op = "prepare" -> [job EXCEPT !.pc = "create", !.after = job.got]
                [] job.op = "patch" /\ Preview.ok /\ Preview.before = job.before ->
                     Collect([job EXCEPT !.after = Preview.after], "parent")
                [] OTHER -> Fails
    /\ UNCHANGED <<source, past, ws, used>>

\* apply inspects the parent once more (its source_stale is not looked at).
Parent ==
    /\ job.pc = "parent"
    /\ job' = IF Inspectable(job.parent) /\ ws[job.parent].files = job.before
              THEN [job EXCEPT !.pc = "create"] ELSE Fails
    /\ UNCHANGED <<source, past, ws, used>>

\* As if the files were written under the final name.
CreateInPlace ==
    /\ job.pc = "create"
    /\ \E i \in Ids :
          /\ i = used.ids + 1
          /\ ws' = [ws EXCEPT ![i] =
                       [NoDir EXCEPT !.dir = "final", !.want = job.after,
                           !.snap = IF job.op = "prepare" THEN job.after ELSE ws[job.parent].snap]]
          /\ job' = [job EXCEPT !.pc = "write", !.ws = i]
    /\ used' = [used EXCEPT !.ids = @ + 1]
    /\ UNCHANGED <<source, past>>

\* A new uuid and its pending directory.
Create ==
    /\ job.pc = "create"
    /\ \E i \in Ids :
          /\ i = used.ids + 1
          /\ ws' = [ws EXCEPT ![i] =
                       [NoDir EXCEPT !.dir = "pending", !.want = job.after,
                           !.snap = IF job.op = "prepare" THEN job.after ELSE ws[job.parent].snap]]
          /\ job' = [job EXCEPT !.pc = "write", !.ws = i]
    /\ used' = [used EXCEPT !.ids = @ + 1]
    /\ UNCHANGED <<source, past>>

\* One file, then the metadata, each written and synced on its own.
Write ==
    /\ job.pc = "write"
    /\ LET d == ws[job.ws]
           missing == DOMAIN d.want \ DOMAIN d.files IN
       IF missing # {}
       THEN /\ \E f \in missing :
                  /\ \A g \in missing : f <= g
                  /\ ws' = [ws EXCEPT ![job.ws].files =
                               [g \in DOMAIN d.files \union {f} |-> d.want[g]]]
            /\ UNCHANGED job
       ELSE /\ ws' = [ws EXCEPT ![job.ws].meta = TRUE]
            /\ job' = [job EXCEPT !.pc = "publish"]
    /\ UNCHANGED <<source, past, used>>

\* An error of the file system removes the pending directory.
WriteFails ==
    /\ job.pc \in {"write", "publish"} /\ Fault
    /\ ws' = [ws EXCEPT ![job.ws] = NoDir]
    /\ job' = Fails
    /\ UNCHANGED <<source, past>>

\* os.replace(pending, final), and the receipt of a patch after it.
Publish ==
    /\ job.pc = "publish"
    /\ ws' = [ws EXCEPT ![job.ws].dir = "final"]
    /\ job' = IF job.op = "patch" THEN [job EXCEPT !.pc = "receipt"] ELSE Collect(job, "check")
    /\ UNCHANGED <<source, past, used>>

Receipt ==
    /\ job.pc = "receipt"
    /\ ws' = [ws EXCEPT ![job.ws].receipt =
                 [parent |-> job.parent, before |-> job.before, after |-> job.after]]
    /\ job' = Collect(job, "check")
    /\ UNCHANGED <<source, past, used>>

\* An error of the sync after the replace: prepare leaves the workspace, apply
\* removes it and its receipt.
PublishedFails ==
    /\ \/ job.pc = "receipt"
       \/ job.pc = "collect" /\ job.then = "check" /\ job.got = Empty
    /\ Fault
    /\ ws' = IF job.op = "patch" THEN [ws EXCEPT ![job.ws] = NoDir] ELSE ws
    /\ job' = Fails
    /\ UNCHANGED <<source, past>>

\* inspect_receipt: the receipt fits its workspace and the parent still is what
\* it was.
ReceiptValid(i) ==
    LET r == ws[i].receipt IN
    /\ r.parent # 0 /\ r.after = ws[i].files
    /\ Inspectable(r.parent) /\ ws[r.parent].files = r.before

\* The result of the call is the inspection after it.
Check ==
    /\ job.pc = "check"
    /\ job' = IF Inspectable(job.ws) /\ (job.op = "patch" => ReceiptValid(job.ws))
              THEN Collect([job EXCEPT !.after = ws[job.ws].files], "verify")
              ELSE Fails
    /\ UNCHANGED <<source, past, ws, used>>

\* As if the freshness of the source was left to the preview.
VerifiesStale ==
    /\ Inspectable(job.ws) /\ ws[job.ws].files = job.after
    /\ job.op = "patch" => ReceiptValid(job.ws)

\* _prepare_verify and _patch_verify: the same fingerprints again, and a source
\* that is not stale.
Verifies ==
    /\ Inspectable(job.ws) /\ ws[job.ws].files = job.after
    /\ job.op = "patch" => ReceiptValid(job.ws)
    /\ ~Stale(job.ws)

Verify ==
    /\ job.pc = "verify"
    /\ job' = IF Verifies THEN [job EXCEPT !.pc = "verified", !.result = "verified"] ELSE Fails
    /\ UNCHANGED <<source, past, ws, used>>

Finish ==
    /\ job.pc = "verified"
    /\ job' = NoJob
    /\ UNCHANGED <<source, past, ws, used>>

Next ==
    \/ Deploy \/ Tamper \/ Delete \/ Dies
    \/ ReadFile \/ Collected \/ Plan \/ Approve \/ Execute \/ Payload \/ Parent
    \/ Create \/ Write \/ WriteFails \/ Publish \/ Receipt \/ PublishedFails
    \/ Check \/ Verify \/ Finish

Spec == Init /\ [][Next]_vars

---------------------------------------------------------------------------
(* Properties. *)

\* A workspace that can be found by its id is whole: every file of the payload
\* and the metadata, whenever a worker died or a write failed, unless someone
\* else changed it.
PublishedIsWhole ==
    \A i \in Ids : ws[i].dir = "final" /\ ~ws[i].touched => ws[i].meta /\ ws[i].files = ws[i].want

\* A verified workspace was taken from a state that the installed addon really had: reading
\* file by file while a deployment runs may tear a snapshot, but then the verification does
\* not pass.  A verified patch is the one that was approved, on the parent that was shown.
VerifiedIsReal ==
    [][ job'.result = "verified" /\ job.result # "verified" =>
            /\ \E s \in past : ws[job.ws].snap = Restrict(s, DOMAIN s \ Secrets)
            /\ job.op = "patch" => /\ ws[job.ws].files = Patched(job.before, job.change)
                                  /\ ws[job.parent].files = job.before ]_vars
============================================================================
