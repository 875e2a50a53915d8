---------------------------- MODULE StoresProofs ----------------------------
(***************************************************************************)
(* Proofs about what the capabilities of a turn work on: workspaces of     *)
(* addon sources and company knowledge, for any addon, any number of       *)
(* workspaces, sources, attachments and turns, and any number of           *)
(* deployments, deaths and changes behind the worker's back.               *)
(*                                                                         *)
(* A verified workspace is a state the addon really had because versions   *)
(* only grow: a payload that was collected before some moment is at most   *)
(* what the addon was then, one collected after it at least that; the      *)
(* verification finds the two equal, so both are the addon of that moment. *)
(***************************************************************************)
EXTENDS Stores, FiniteSetTheorems, TLAPS

-----------------------------------------------------------------------------
(* Workspaces: the inductive invariant. *)

\* Payloads, and parts of them: versions of some of the files.
Payloads == UNION {[S -> Nat] : S \in SUBSET Files}

Public == Files \ Secrets

DirRow ==
    [dir : {"absent", "pending", "final"}, files : Payloads, meta : BOOLEAN, snap : Payloads,
     want : Payloads, touched : BOOLEAN,
     receipt : [parent : Ids \union {0}, before : Payloads, after : Payloads]]

Stages ==
    {"idle", "preview", "precondition", "payload", "parent", "create", "write", "publish",
     "receipt", "check", "verify", "verified"}

JobRow ==
    [pc : Stages \union {"collect"}, op : {"none", "prepare", "patch"}, ws : Ids \union {0},
     parent : Ids \union {0}, rest : SUBSET Files, got : Payloads, then : Stages,
     change : Payloads, before : Payloads, after : Payloads,
     result : {"none", "failed", "verified"}]

TypeOK ==
    /\ source \in [Files -> Nat]
    /\ past \subseteq [Files -> Nat] /\ source \in past
    /\ ws \in [Ids -> DirRow]
    /\ job \in JobRow
    /\ used.deploys \in Nat /\ \A f \in Files : source[f] <= used.deploys
    /\ used = [deploys |-> used.deploys, faults |-> used.faults, ids |-> used.ids]

\* What the job is about, while it collects what it was called for.
Stage(j) == IF j.pc = "collect" THEN j.then ELSE j.pc

\* The operands of a job are workspaces.
OperandInv(j) ==
    /\ Stage(j) # "idle" => j.op # "none"
    /\ Stage(j) # "idle" /\ j.op = "patch" => j.parent \in Ids
    /\ Stage(j) \in {"parent", "receipt"} => j.op = "patch"
    /\ Stage(j) \in {"write", "publish", "receipt", "check", "verify", "verified"} => j.ws \in Ids

\* What was collected is not newer than the addon, and complete when the job goes on.
CollectedInv(j, src) ==
    /\ \A f \in DOMAIN j.got : j.got[f] <= src[f]
    /\ j.pc = "collect" =>
        /\ j.rest \subseteq Public /\ DOMAIN j.got = Public \ j.rest
        /\ j.then \in {"preview", "precondition", "payload", "parent", "check", "verify"}
    /\ j.pc \in {"preview", "precondition", "payload", "verify"} =>
            DOMAIN j.got = Public /\ j.got # Empty
    /\ j.pc = "create" /\ j.op = "prepare" => j.after = j.got /\ DOMAIN j.got = Public

\* From its approval to its receipt a patch is the approved change of the parent shown.
ApprovedInv(j) ==
    j.op = "patch" /\ Stage(j) \in {"precondition", "payload", "parent", "create", "write",
                                    "publish", "receipt"} =>
        j.after = Patched(j.before, j.change)

\* A receipt that the job finds later is the one it wrote.
ReceiptOf(j) ==
    [parent |-> j.parent, before |-> j.before, after |-> Patched(j.before, j.change)]

ReceiptInv(j, w) ==
    j.op = "patch" /\ Stage(j) \in {"check", "verify"} =>
        w[j.ws].receipt.parent = 0 \/ w[j.ws].receipt = ReceiptOf(j)

\* Until it is published the directory holds a part of what its writer wants there.
PendingInv(j, w) ==
    /\ j.pc \in {"write", "publish"} =>
        /\ w[j.ws].dir = "pending" /\ ~w[j.ws].touched
        /\ DOMAIN w[j.ws].files \subseteq DOMAIN w[j.ws].want
        /\ \A f \in DOMAIN w[j.ws].files : w[j.ws].files[f] = w[j.ws].want[f]
    /\ j.pc = "publish" => w[j.ws].meta /\ w[j.ws].files = w[j.ws].want

\* A moment p of the addon after a snapshot was taken.
Follows(m, p, src) == \A f \in DOMAIN m : m[f] <= p[f] /\ p[f] <= src[f]

\* Every snapshot was taken before some moment of the addon.
SnapInv(w, src, pst) ==
    \A i \in Ids :
        w[i].snap = Empty \/ (DOMAIN w[i].snap = Public /\ \E p \in pst : Follows(w[i].snap, p, src))

\* The verification collects after some moment that follows the snapshot.
LaterInv(j, w, src, pst) ==
    Stage(j) = "verify" =>
        \/ w[j.ws].snap = Empty
        \/ \E p \in pst : /\ Follows(w[j.ws].snap, p, src)
                          /\ \A f \in DOMAIN j.got : p[f] <= j.got[f]

WholeInv(w) ==
    \A i \in Ids : w[i].dir = "final" /\ ~w[i].touched => w[i].meta /\ w[i].files = w[i].want

JobInv(j, w, src, pst) ==
    /\ j \in JobRow
    /\ OperandInv(j) /\ CollectedInv(j, src) /\ ApprovedInv(j)
    /\ ReceiptInv(j, w) /\ PendingInv(j, w) /\ LaterInv(j, w, src, pst)

WorkspaceInv ==
    /\ TypeOK
    /\ JobInv(job, ws, source, past)
    /\ WholeInv(ws)
    /\ SnapInv(ws, source, past)

-----------------------------------------------------------------------------
(* Payloads. *)

\* What makes a function a payload.
LEMMA PayloadIntro ==
    ASSUME NEW D \in SUBSET Files, NEW m, m = [f \in D |-> m[f]], \A f \in D : m[f] \in Nat
    PROVE  m \in Payloads
<1>1. m \in [D -> Nat]
  OBVIOUS
<1> QED
  BY <1>1 DEF Payloads

\* What a payload is.
LEMMA PayloadElim ==
    ASSUME NEW m \in Payloads
    PROVE  /\ DOMAIN m \subseteq Files
           /\ m = [f \in DOMAIN m |-> m[f]]
           /\ \A f \in DOMAIN m : m[f] \in Nat
<1>1. PICK S \in SUBSET Files : m \in [S -> Nat]
  BY DEF Payloads
<1> QED
  BY <1>1

\* Nothing is a payload.
LEMMA EmptyPayload == Empty \in Payloads /\ DOMAIN Empty = {}
<1>1. Empty = [f \in {} |-> Empty[f]] /\ DOMAIN Empty = {}
  BY DEF Empty
<1> QED
  BY <1>1, PayloadIntro

\* A payload of no files is the empty one.
LEMMA EmptyOnly ==
    ASSUME NEW m \in Payloads, DOMAIN m = {}
    PROVE  m = Empty
BY PayloadElim DEF Empty

\* Two payloads of the same files and versions are the same.
LEMMA PayloadEqual ==
    ASSUME NEW m \in Payloads, NEW n \in Payloads, DOMAIN m = DOMAIN n,
           \A f \in DOMAIN m : m[f] = n[f]
    PROVE  m = n
<1>1. m = [f \in DOMAIN m |-> m[f]] /\ n = [f \in DOMAIN n |-> n[f]]
  BY PayloadElim
<1> QED
  BY <1>1

\* Typed edits make a payload of a payload.
LEMMA PatchedPayload ==
    ASSUME NEW m \in Payloads, NEW c \in Payloads
    PROVE  Patched(m, c) \in Payloads
<1> DEFINE D == {g \in DOMAIN m \union DOMAIN c : g \notin DOMAIN c \/ c[g] # 0}
<1>1. PICK n : n = [f \in D |-> IF f \in DOMAIN c THEN c[f] ELSE m[f]]
  OBVIOUS
<1>2. D \subseteq Files
  BY PayloadElim
<1>3. \A f \in D : n[f] \in Nat
  BY <1>1, PayloadElim
<1>4. n = [f \in D |-> n[f]]
  BY <1>1
<1>5. n \in Payloads
  <2> HIDE DEF D
  <2> QED
    BY <1>2, <1>3, <1>4, PayloadIntro
<1> QED
  BY <1>1, <1>5 DEF Patched

-----------------------------------------------------------------------------
(* Jobs. *)

\* The job that does nothing.
LEMMA IdleJob ==
    ASSUME NEW w, NEW src, NEW pst, NEW j \in JobRow, j.pc = "idle", j.got = Empty
    PROVE  JobInv(j, w, src, pst)
<1>1. Stage(j) = "idle" /\ DOMAIN j.got = {}
  BY EmptyPayload DEF Stage
<1> QED
  BY <1>1 DEF JobInv, OperandInv, CollectedInv, ApprovedInv, ReceiptInv, PendingInv, LaterInv

LEMMA NoJobRow ==
    /\ NoJob \in JobRow /\ NoJob.pc = "idle" /\ NoJob.got = Empty
    /\ NoJob.result = "none" /\ NoJob.op = "none"
BY EmptyPayload DEF NoJob, JobRow, Stages

LEMMA FailsRow ==
    Fails \in JobRow /\ Fails.pc = "idle" /\ Fails.got = Empty /\ Fails.result = "failed"
BY EmptyPayload DEF Fails, NoJob, JobRow, Stages

\* A job that starts to collect.
LEMMA CollectRow ==
    ASSUME TypeOK, NEW j \in JobRow, NEW t \in Stages
    PROVE  LET c == Collect(j, t) IN
           /\ c \in JobRow /\ c.pc = "collect" /\ c.then = t /\ c.got = Empty /\ c.rest = Public
           /\ c.op = j.op /\ c.ws = j.ws /\ c.parent = j.parent /\ c.change = j.change
           /\ c.before = j.before /\ c.after = j.after /\ c.result = j.result
<1>1. DOMAIN source = Files
  BY DEF TypeOK
<1>2. Public \in SUBSET Files
  BY DEF Public
<1>3. Collect(j, t) = [j EXCEPT !.pc = "collect", !.got = Empty, !.then = t, !.rest = Public]
  BY <1>1 DEF Collect, Public
<1> HIDE DEF Public
<1>4. Collect(j, t) \in JobRow
  BY <1>2, <1>3, EmptyPayload DEF JobRow
<1> QED
  BY <1>3, <1>4 DEF JobRow

\* Such a job owes its invariant to the job that called it.
LEMMA CollectInv ==
    ASSUME TypeOK, NEW w, NEW j \in JobRow, NEW t \in Stages,
           NEW c, c = Collect(j, t), SnapInv(w, source, past),
           j.op # "none", j.op = "patch" => j.parent \in Ids, t = "parent" => j.op = "patch",
           t \in {"check", "verify"} => j.ws \in Ids,
           t \in {"preview", "precondition", "payload", "parent", "check", "verify"},
           j.op = "patch" /\ t \in {"precondition", "payload", "parent"} =>
               j.after = Patched(j.before, j.change),
           j.op = "patch" /\ t \in {"check", "verify"} =>
               w[j.ws].receipt.parent = 0 \/ w[j.ws].receipt = ReceiptOf(j)
    PROVE  JobInv(c, w, source, past)
<1>1. /\ c \in JobRow /\ c.pc = "collect" /\ c.then = t /\ c.got = Empty /\ c.rest = Public
      /\ c.op = j.op /\ c.ws = j.ws /\ c.parent = j.parent /\ c.change = j.change
      /\ c.before = j.before /\ c.after = j.after
  BY CollectRow
<1>2. Stage(c) = t /\ DOMAIN c.got = {}
  BY <1>1, EmptyPayload DEF Stage
<1>3. OperandInv(c)
  BY <1>1, <1>2 DEF OperandInv
<1>4. CollectedInv(c, source)
  BY <1>1, <1>2 DEF CollectedInv
<1>5. ApprovedInv(c)
  BY <1>1, <1>2 DEF ApprovedInv
<1>6. ReceiptInv(c, w)
  BY <1>1, <1>2 DEF ReceiptInv, ReceiptOf
<1>7. PendingInv(c, w)
  BY <1>1 DEF PendingInv
<1>8. LaterInv(c, w, source, past)
  <2> SUFFICES ASSUME t = "verify" PROVE LaterInv(c, w, source, past)
    BY <1>2 DEF LaterInv
  <2>1. c.ws \in Ids
    BY <1>1
  <2> QED
    BY <2>1, <1>2 DEF LaterInv, SnapInv
<1> QED
  BY <1>1, <1>3, <1>4, <1>5, <1>6, <1>7, <1>8 DEF JobInv

\* A job is not concerned by a change of another workspace, or by one that keeps what it
\* knows of its own.
LEMMA OtherWorkspace ==
    ASSUME NEW j, NEW w, NEW v, NEW src, NEW pst, JobInv(j, w, src, pst),
           j.ws \in Ids => v[j.ws] = w[j.ws]
    PROVE  JobInv(j, v, src, pst)
<1>1. ReceiptInv(j, v)
  BY DEF JobInv, ReceiptInv, OperandInv
<1>2. Stage(j) = j.pc \/ j.pc = "collect"
  BY DEF Stage
<1>3. PendingInv(j, v)
  BY <1>2 DEF JobInv, PendingInv, OperandInv
<1>4. LaterInv(j, v, src, pst)
  BY DEF JobInv, LaterInv, OperandInv
<1> QED
  BY <1>1, <1>3, <1>4 DEF JobInv

-----------------------------------------------------------------------------
(* Workspaces: the steps. *)

LEMMA WorkspaceInit == Init => WorkspaceInv
<1> SUFFICES ASSUME Init PROVE WorkspaceInv
  OBVIOUS
<1>1. NoReceipt \in [parent : Ids \union {0}, before : Payloads, after : Payloads]
  BY EmptyPayload DEF NoReceipt
<1>2. NoDir \in DirRow
  BY <1>1, EmptyPayload DEF NoDir, DirRow
<1>3. TypeOK
  BY <1>2, NoJobRow DEF Init, TypeOK
<1>4. JobInv(job, ws, source, past)
  BY NoJobRow, IdleJob DEF Init
<1>5. \A i \in Ids : ws[i].dir = "absent" /\ ws[i].snap = Empty
  BY DEF Init, NoDir
<1>6. WholeInv(ws) /\ SnapInv(ws, source, past)
  BY <1>5 DEF WholeInv, SnapInv
<1> QED
  BY <1>3, <1>4, <1>6 DEF WorkspaceInv

LEMMA NoDirRow ==
    NoDir \in DirRow /\ NoDir.dir = "absent" /\ NoDir.snap = Empty /\ NoDir.receipt.parent = 0
<1>1. NoReceipt \in [parent : Ids \union {0}, before : Payloads, after : Payloads]
  BY EmptyPayload DEF NoReceipt
<1> QED
  BY <1>1, EmptyPayload DEF NoDir, DirRow, NoReceipt

\* The counters say nothing but how many deployments there were.
Counted == used'.deploys = used.deploys /\
    used' = [deploys |-> used'.deploys, faults |-> used'.faults, ids |-> used'.ids]

LEMMA FaultCounted == TypeOK /\ (Fault \/ UNCHANGED used) => Counted
<1> SUFFICES ASSUME TypeOK, Fault \/ UNCHANGED used PROVE Counted
  OBVIOUS
<1>1. used = [deploys |-> used.deploys, faults |-> used.faults, ids |-> used.ids]
  BY DEF TypeOK
<1>2. CASE UNCHANGED used
  BY <1>1, <1>2 DEF Counted
<1>3. CASE Fault
  <2>1. used' = [used EXCEPT !.faults = @ + 1]
    BY <1>3 DEF Fault
  <2> QED
    BY <1>1, <2>1 DEF Counted
<1> QED
  BY <1>2, <1>3

\* A step that changes the job only.
LEMMA JobStep ==
    ASSUME WorkspaceInv, UNCHANGED <<source, past, ws>>, Counted,
           JobInv(job', ws, source, past)
    PROVE  WorkspaceInv'
<1>1. job' \in JobRow
  BY DEF JobInv
<1>2. TypeOK'
  BY <1>1 DEF WorkspaceInv, TypeOK, Counted
<1> QED
  BY <1>2 DEF WorkspaceInv

\* A step after which the job is over.
LEMMA OverStep ==
    ASSUME WorkspaceInv, UNCHANGED <<source, past, ws>>, Fault \/ UNCHANGED used,
           job' \in {NoJob, Fails}
    PROVE  WorkspaceInv'
<1>1. JobInv(job', ws, source, past)
  BY NoJobRow, FailsRow, IdleJob
<1>2. Counted
  BY FaultCounted DEF WorkspaceInv
<1> QED
  BY <1>1, <1>2, JobStep

\* A step that changes one workspace.
LEMMA DirStep ==
    ASSUME WorkspaceInv, NEW i \in Ids, NEW d \in DirRow,
           UNCHANGED <<source, past>>, Counted,
           ws' = [ws EXCEPT ![i] = d],
           d.dir = "final" /\ ~d.touched => d.meta /\ d.files = d.want,
           d.snap \in {Empty, ws[i].snap},
           JobInv(job', ws', source, past)
    PROVE  WorkspaceInv'
<1>1. ws' \in [Ids -> DirRow] /\ ws'[i] = d /\ \A k \in Ids \ {i} : ws'[k] = ws[k]
  BY DEF WorkspaceInv, TypeOK
<1>2. TypeOK'
  BY <1>1 DEF WorkspaceInv, TypeOK, Counted, JobInv
<1>3. WholeInv(ws')
  BY <1>1 DEF WorkspaceInv, WholeInv
<1>4. SnapInv(ws', source, past)
  BY <1>1 DEF WorkspaceInv, SnapInv
<1> QED
  BY <1>2, <1>3, <1>4 DEF WorkspaceInv

LEMMA DeployStep == WorkspaceInv /\ Deploy => WorkspaceInv'
<1> SUFFICES ASSUME WorkspaceInv, Deploy PROVE WorkspaceInv'
  OBVIOUS
<1>1. PICK fs \in SUBSET DOMAIN source :
          source' = [f \in DOMAIN source |-> IF f \in fs THEN used.deploys + 1 ELSE source[f]]
  BY DEF Deploy
<1>2. /\ past' = past \union {source'} /\ ws' = ws /\ job' = job
      /\ used' = [used EXCEPT !.deploys = @ + 1]
  BY DEF Deploy
<1>3. /\ source \in [Files -> Nat] /\ used.deploys \in Nat /\ DOMAIN source = Files
      /\ \A f \in Files : source[f] <= used.deploys
      /\ used = [deploys |-> used.deploys, faults |-> used.faults, ids |-> used.ids]
      /\ past \subseteq [Files -> Nat] /\ ws \in [Ids -> DirRow] /\ job \in JobRow
  BY DEF WorkspaceInv, TypeOK
<1>4. source' \in [Files -> Nat] /\ \A f \in Files : source[f] <= source'[f]
  BY <1>1, <1>3
<1>5. used'.deploys = used.deploys + 1 /\ \A f \in Files : source'[f] <= used.deploys + 1
  BY <1>1, <1>2, <1>3
<1>6. used' = [deploys |-> used'.deploys, faults |-> used'.faults, ids |-> used'.ids]
  BY <1>2, <1>3
<1>7. TypeOK'
  BY <1>2, <1>3, <1>4, <1>5, <1>6 DEF TypeOK
<1>8. ASSUME NEW m \in Payloads, NEW p \in past, Follows(m, p, source)
      PROVE  Follows(m, p, source')
  <2> SUFFICES ASSUME NEW f \in DOMAIN m PROVE m[f] <= p[f] /\ p[f] <= source'[f]
    BY DEF Follows
  <2>1. f \in Files /\ p[f] \in Nat /\ m[f] \in Nat
    BY <1>3, PayloadElim
  <2>2. source[f] \in Nat /\ source'[f] \in Nat /\ source[f] <= source'[f]
    BY <1>3, <1>4, <2>1
  <2>3. m[f] <= p[f] /\ p[f] <= source[f]
    BY <1>8 DEF Follows
  <2> QED
    BY <2>1, <2>2, <2>3
<1>9. \A i \in Ids : ws[i].snap \in Payloads
  <2>1. \A i \in Ids : ws[i] \in DirRow
    BY <1>3
  <2> QED
    BY <2>1 DEF DirRow
<1>10. SnapInv(ws', source', past')
  <2>1. SnapInv(ws, source, past)
    BY DEF WorkspaceInv
  <2> SUFFICES ASSUME NEW i \in Ids, ws[i].snap # Empty
               PROVE  DOMAIN ws[i].snap = Public
                      /\ \E p \in past' : Follows(ws[i].snap, p, source')
    BY <1>2 DEF SnapInv
  <2>2. PICK p \in past : Follows(ws[i].snap, p, source)
    BY <2>1 DEF SnapInv
  <2> QED
    BY <2>1, <2>2, <1>2, <1>8, <1>9 DEF SnapInv
<1>11. JobInv(job, ws, source, past)
  BY DEF WorkspaceInv
<1>12. CollectedInv(job, source')
  <2>1. ASSUME NEW f \in DOMAIN job.got PROVE job.got[f] <= source'[f]
    <3>1. job.got \in Payloads
      BY <1>3 DEF JobRow
    <3>2. f \in Files /\ job.got[f] \in Nat
      BY <3>1, PayloadElim
    <3>3. job.got[f] <= source[f] /\ source[f] <= source'[f] /\ source[f] \in Nat
          /\ source'[f] \in Nat
      BY <1>3, <1>4, <1>11, <3>2 DEF JobInv, CollectedInv
    <3> QED
      BY <3>2, <3>3
  <2> QED
    BY <2>1, <1>11 DEF JobInv, CollectedInv
<1>13. LaterInv(job, ws, source', past')
  <2> SUFFICES ASSUME Stage(job) = "verify", ws[job.ws].snap # Empty
               PROVE  \E p \in past' : /\ Follows(ws[job.ws].snap, p, source')
                                       /\ \A f \in DOMAIN job.got : p[f] <= job.got[f]
    BY DEF LaterInv
  <2>1. job.ws \in Ids
    BY <1>11 DEF JobInv, OperandInv
  <2>2. PICK p \in past : /\ Follows(ws[job.ws].snap, p, source)
                          /\ \A f \in DOMAIN job.got : p[f] <= job.got[f]
    BY <1>11 DEF JobInv, LaterInv
  <2>3. Follows(ws[job.ws].snap, p, source') /\ p \in past'
    BY <1>2, <1>8, <1>9, <2>1, <2>2
  <2> QED
    BY <2>2, <2>3
<1>14. JobInv(job, ws, source', past')
  BY <1>11, <1>12, <1>13 DEF JobInv
<1> QED
  BY <1>2, <1>7, <1>10, <1>14 DEF WorkspaceInv

\* What the job keeps when its workspace is changed or removed after its publication.
LEMMA Disturbed ==
    ASSUME WorkspaceInv, NEW i \in Ids, NEW d \in DirRow, ws[i].dir = "final",
           NEW v, v = [ws EXCEPT ![i] = d],
           \/ d.receipt = ws[i].receipt /\ d.snap = ws[i].snap
           \/ d.receipt.parent = 0 /\ d.snap = Empty
    PROVE  JobInv(job, v, source, past)
<1>1. JobInv(job, ws, source, past) /\ ws \in [Ids -> DirRow]
  BY DEF WorkspaceInv, TypeOK
<1>2. CASE job.ws # i
  <2>1. job.ws \in Ids => v[job.ws] = ws[job.ws]
    BY <1>1, <1>2
  <2> QED
    BY <1>1, <2>1, OtherWorkspace
<1>3. CASE job.ws = i
  <2>1. v[i] = d
    BY <1>1
  <2>2. job.pc \notin {"write", "publish"}
    BY <1>1, <1>3 DEF JobInv, PendingInv
  <2>3. PendingInv(job, v)
    BY <2>2 DEF PendingInv
  <2>4. ReceiptInv(job, v)
    BY <1>1, <1>3, <2>1 DEF JobInv, ReceiptInv
  <2>5. LaterInv(job, v, source, past)
    BY <1>1, <1>3, <2>1 DEF JobInv, LaterInv
  <2> QED
    BY <1>1, <2>3, <2>4, <2>5 DEF JobInv
<1> QED
  BY <1>2, <1>3

LEMMA TamperStep == WorkspaceInv /\ Tamper => WorkspaceInv'
<1> SUFFICES ASSUME WorkspaceInv, Tamper PROVE WorkspaceInv'
  OBVIOUS
<1>1. PICK i \in Ids : /\ ws[i].dir = "final"
                       /\ \E f \in DOMAIN ws[i].files :
                             ws' = [ws EXCEPT ![i].files[f] = 99, ![i].touched = TRUE]
  BY DEF Tamper
<1>2. PICK f \in DOMAIN ws[i].files :
          ws' = [ws EXCEPT ![i].files[f] = 99, ![i].touched = TRUE]
  BY <1>1
<1>3. UNCHANGED <<source, past, job>> /\ Fault
  BY DEF Tamper
<1>4. ws \in [Ids -> DirRow]
  BY DEF WorkspaceInv, TypeOK
<1>5. ws[i] \in DirRow
  BY <1>4
<1>6. ws[i].files \in Payloads
  BY <1>5 DEF DirRow
<1>7. PICK m : m = [ws[i].files EXCEPT ![f] = 99]
  OBVIOUS
<1>8. m \in Payloads
  <2>1. /\ DOMAIN ws[i].files \subseteq Files
        /\ ws[i].files = [g \in DOMAIN ws[i].files |-> ws[i].files[g]]
        /\ \A g \in DOMAIN ws[i].files : ws[i].files[g] \in Nat
    BY <1>6, PayloadElim
  <2>2. m = [g \in DOMAIN ws[i].files |-> m[g]]
    BY <2>1, <1>7
  <2>3. \A g \in DOMAIN ws[i].files : m[g] \in Nat
    BY <2>1, <1>7
  <2> QED
    BY <2>1, <2>2, <2>3, PayloadIntro
<1>9. PICK d : d = [ws[i] EXCEPT !.files = m, !.touched = TRUE]
  OBVIOUS
<1>10. d \in DirRow /\ d.touched = TRUE /\ d.snap = ws[i].snap /\ d.receipt = ws[i].receipt
  BY <1>5, <1>8, <1>9 DEF DirRow
<1>11. ws' = [ws EXCEPT ![i] = d]
  BY <1>2, <1>4, <1>7, <1>9
<1>12. JobInv(job, ws', source, past)
  BY <1>1, <1>10, <1>11, Disturbed
<1>13. Counted
  BY <1>3, FaultCounted DEF WorkspaceInv
<1>14. JobInv(job', ws', source, past)
  BY <1>3, <1>12
<1> QED
  BY <1>3, <1>10, <1>11, <1>13, <1>14, DirStep

LEMMA DeleteStep == WorkspaceInv /\ Delete => WorkspaceInv'
<1> SUFFICES ASSUME WorkspaceInv, Delete PROVE WorkspaceInv'
  OBVIOUS
<1>1. PICK i \in Ids : ws[i].dir = "final" /\ ws' = [ws EXCEPT ![i] = NoDir]
  BY DEF Delete
<1>2. UNCHANGED <<source, past, job>> /\ Fault
  BY DEF Delete
<1>3. JobInv(job, ws', source, past)
  BY <1>1, NoDirRow, Disturbed
<1>4. Counted
  BY <1>2, FaultCounted DEF WorkspaceInv
<1>5. JobInv(job', ws', source, past)
  BY <1>2, <1>3
<1> QED
  BY <1>1, <1>2, <1>4, <1>5, NoDirRow, DirStep

LEMMA ReadFileStep == WorkspaceInv /\ ReadFile => WorkspaceInv'
<1> SUFFICES ASSUME WorkspaceInv, ReadFile PROVE WorkspaceInv'
  OBVIOUS
<1>1. PICK f \in job.rest :
          job' = [job EXCEPT !.rest = @ \ {f},
                             !.got = [g \in DOMAIN job.got \union {f} |->
                                         IF g = f THEN source[f] ELSE job.got[g]]]
  BY DEF ReadFile
<1>2. job.pc = "collect" /\ UNCHANGED <<source, past, ws, used>>
  BY DEF ReadFile
<1>3. JobInv(job, ws, source, past) /\ job \in JobRow
  BY DEF WorkspaceInv, JobInv
<1>4. source \in [Files -> Nat] /\ past \subseteq [Files -> Nat] /\ ws \in [Ids -> DirRow]
  BY DEF WorkspaceInv, TypeOK
<1>5. /\ job.got \in Payloads /\ DOMAIN job.got = Public \ job.rest
      /\ job.rest \subseteq Public /\ \A g \in DOMAIN job.got : job.got[g] <= source[g]
  BY <1>2, <1>3 DEF JobRow, JobInv, CollectedInv
<1>6. PICK m : m = [g \in DOMAIN job.got \union {f} |->
                       IF g = f THEN source[f] ELSE job.got[g]]
  OBVIOUS
<1>7. f \in Files /\ source[f] \in Nat /\ f \in Public
  BY <1>4, <1>5 DEF Public
<1>8. m \in Payloads /\ DOMAIN m = Public \ (job.rest \ {f})
      /\ \A g \in DOMAIN m : m[g] <= source[g]
  <2>1. DOMAIN job.got \subseteq Files /\ \A g \in DOMAIN job.got : job.got[g] \in Nat
    BY <1>5, PayloadElim
  <2>2. \A g \in DOMAIN m : m[g] \in Nat /\ m[g] <= source[g]
    BY <1>5, <1>6, <1>7, <2>1
  <2>3. DOMAIN m \in SUBSET Files /\ m = [g \in DOMAIN m |-> m[g]]
    BY <1>6, <1>7, <2>1
  <2>4. m \in Payloads
    BY <2>2, <2>3, PayloadIntro
  <2> QED
    BY <1>5, <1>6, <1>7, <2>2, <2>4
<1>9. /\ job'.pc = "collect" /\ job'.then = job.then /\ job'.op = job.op
      /\ job'.ws = job.ws /\ job'.parent = job.parent /\ job'.change = job.change
      /\ job'.before = job.before /\ job'.after = job.after
      /\ job'.rest = job.rest \ {f} /\ job'.got = m /\ job' \in JobRow
  <2>1. job.rest \ {f} \in SUBSET Files
    BY <1>3 DEF JobRow
  <2>2. job' = [job EXCEPT !.rest = job.rest \ {f}, !.got = m]
    BY <1>1, <1>6
  <2> QED
    BY <1>2, <1>3, <1>8, <2>1, <2>2 DEF JobRow
<1>10. Stage(job') = Stage(job)
  BY <1>2, <1>9 DEF Stage
<1>11. OperandInv(job') /\ ApprovedInv(job') /\ ReceiptInv(job', ws) /\ PendingInv(job', ws)
  BY <1>3, <1>9, <1>10
     DEF JobInv, OperandInv, ApprovedInv, ReceiptInv, ReceiptOf, PendingInv
<1>12. CollectedInv(job', source)
  BY <1>2, <1>3, <1>5, <1>8, <1>9 DEF CollectedInv, JobInv
<1>13. LaterInv(job', ws, source, past)
  <2> SUFFICES ASSUME Stage(job) = "verify", ws[job.ws].snap # Empty
               PROVE  \E p \in past : /\ Follows(ws[job.ws].snap, p, source)
                                      /\ \A g \in DOMAIN m : p[g] <= m[g]
    BY <1>9, <1>10 DEF LaterInv
  <2>1. job.ws \in Ids
    BY <1>3 DEF JobInv, OperandInv
  <2>2. DOMAIN ws[job.ws].snap = Public
    BY <2>1 DEF WorkspaceInv, SnapInv
  <2>3. PICK p \in past : /\ Follows(ws[job.ws].snap, p, source)
                          /\ \A g \in DOMAIN job.got : p[g] <= job.got[g]
    BY <1>3 DEF JobInv, LaterInv
  <2>4. p[f] <= source[f]
    BY <1>7, <2>2, <2>3 DEF Follows
  <2>5. \A g \in DOMAIN m : p[g] <= m[g]
    BY <1>6, <2>3, <2>4
  <2> QED
    BY <2>3, <2>5
<1>14. JobInv(job', ws, source, past)
  BY <1>9, <1>11, <1>12, <1>13 DEF JobInv
<1>15. Counted
  BY <1>2, FaultCounted DEF WorkspaceInv
<1> QED
  BY <1>2, <1>14, <1>15, JobStep

LEMMA CollectedStep == WorkspaceInv /\ Collected => WorkspaceInv'
<1> SUFFICES ASSUME WorkspaceInv, Collected PROVE WorkspaceInv'
  OBVIOUS
<1>1. job.pc = "collect" /\ job.rest = {} /\ UNCHANGED <<source, past, ws, used>>
  BY DEF Collected
<1>2. CASE job' = Fails
  BY <1>1, <1>2, OverStep
<1>3. CASE job.got # Empty /\ job' = [job EXCEPT !.pc = job.then]
  <2>1. JobInv(job, ws, source, past) /\ job \in JobRow
    BY DEF WorkspaceInv, JobInv
  <2>2. /\ job'.pc = job.then /\ job'.op = job.op /\ job'.got = job.got /\ job'.ws = job.ws
        /\ job'.parent = job.parent /\ job'.change = job.change /\ job'.before = job.before
        /\ job'.after = job.after /\ job' \in JobRow /\ job.then \in Stages
    BY <2>1, <1>3 DEF JobRow
  <2>3. Stage(job') = job.then /\ Stage(job) = job.then /\ job.then # "collect"
    BY <1>1, <2>2 DEF Stage, Stages
  <2>4. OperandInv(job') /\ ApprovedInv(job') /\ ReceiptInv(job', ws)
        /\ LaterInv(job', ws, source, past)
    BY <2>1, <2>2, <2>3
       DEF JobInv, OperandInv, ApprovedInv, ReceiptInv, ReceiptOf, LaterInv
  <2>5. job.then \notin {"write", "publish", "create"}
    BY <1>1, <2>1 DEF JobInv, CollectedInv
  <2>6. CollectedInv(job', source)
    BY <1>1, <1>3, <2>1, <2>2, <2>5 DEF JobInv, CollectedInv
  <2>7. PendingInv(job', ws)
    BY <2>2, <2>5 DEF PendingInv
  <2>8. JobInv(job', ws, source, past)
    BY <2>2, <2>4, <2>6, <2>7 DEF JobInv
  <2>9. Counted
    BY <1>1, FaultCounted DEF WorkspaceInv
  <2> QED
    BY <1>1, <2>8, <2>9, JobStep
<1> QED
  BY <1>2, <1>3 DEF Collected

\* What a preview shows.
LEMMA PreviewRow ==
    ASSUME WorkspaceInv
    PROVE  /\ Preview.before \in Payloads /\ Preview.after \in Payloads
           /\ job.op = "patch" /\ Preview.ok =>
                 Preview.after = Patched(Preview.before, job.change)
<1>1. job \in JobRow /\ ws \in [Ids -> DirRow]
  BY DEF WorkspaceInv, TypeOK
<1>2. CASE job.op = "prepare"
  BY <1>1, <1>2 DEF Preview, JobRow
<1>3. CASE job.op # "prepare" /\ ~Inspectable(job.parent)
  BY <1>3, EmptyPayload DEF Preview
<1>4. CASE job.op # "prepare" /\ Inspectable(job.parent)
  <2>1. ws[job.parent] \in DirRow
    BY <1>1, <1>4 DEF Inspectable
  <2>2. ws[job.parent].files \in Payloads /\ job.change \in Payloads
    BY <1>1, <2>1 DEF DirRow, JobRow
  <2>3. Patched(ws[job.parent].files, job.change) \in Payloads
    BY <2>2, PatchedPayload
  <2> QED
    BY <1>4, <2>2, <2>3 DEF Preview
<1> QED
  BY <1>2, <1>3, <1>4

\* A step that has the job collect again.
LEMMA CollectStep ==
    ASSUME WorkspaceInv, UNCHANGED <<source, past, ws, used>>,
           NEW j \in JobRow,
           NEW t \in {"preview", "precondition", "payload", "parent", "check", "verify"},
           job' = Collect(j, t),
           j.op # "none", j.op = "patch" => j.parent \in Ids, t = "parent" => j.op = "patch",
           t \in {"check", "verify"} => j.ws \in Ids,
           j.op = "patch" /\ t \in {"precondition", "payload", "parent"} =>
               j.after = Patched(j.before, j.change),
           j.op = "patch" /\ t \in {"check", "verify"} =>
               ws[j.ws].receipt.parent = 0 \/ ws[j.ws].receipt = ReceiptOf(j)
    PROVE  WorkspaceInv'
<1>1. TypeOK /\ SnapInv(ws, source, past) /\ t \in Stages
  BY DEF WorkspaceInv, Stages
<1>2. JobInv(job', ws, source, past)
  BY <1>1, CollectInv
<1>3. Counted
  BY <1>1, FaultCounted
<1> QED
  BY <1>2, <1>3, JobStep

LEMMA PlanStep == WorkspaceInv /\ Plan => WorkspaceInv'
<1> SUFFICES ASSUME WorkspaceInv, Plan PROVE WorkspaceInv'
  OBVIOUS
<1>1. UNCHANGED <<source, past, ws, used>>
  BY DEF Plan
<1>2. CASE job' = Collect([NoJob EXCEPT !.op = "prepare"], "preview")
  <2>1. PICK j : j = [NoJob EXCEPT !.op = "prepare"]
    OBVIOUS
  <2>2. j \in JobRow /\ j.op = "prepare"
    BY <2>1, NoJobRow DEF JobRow
  <2> QED
    BY <1>1, <1>2, <2>1, <2>2, CollectStep
<1>3. CASE \E p \in Ids, f \in Files, v \in {0, 50} :
             /\ Inspectable(p)
             /\ job' = Collect([NoJob EXCEPT !.op = "patch", !.parent = p,
                                             !.change = [g \in {f} |-> v]], "preview")
  <2>1. PICK p \in Ids, f \in Files, v \in {0, 50} :
             job' = Collect([NoJob EXCEPT !.op = "patch", !.parent = p,
                                          !.change = [g \in {f} |-> v]], "preview")
    BY <1>3
  <2>2. PICK m : m = [g \in {f} |-> v]
    OBVIOUS
  <2>3. m \in Payloads
    <3>1. {f} \in SUBSET Files /\ m = [g \in {f} |-> m[g]] /\ \A g \in {f} : m[g] \in Nat
      BY <2>2
    <3> QED
      BY <3>1, PayloadIntro
  <2>4. PICK j : j = [NoJob EXCEPT !.op = "patch", !.parent = p, !.change = m]
    OBVIOUS
  <2>5. j \in JobRow /\ j.op = "patch" /\ j.parent = p
    BY <2>3, <2>4, NoJobRow DEF JobRow
  <2>6. job' = Collect(j, "preview")
    BY <2>1, <2>2, <2>4
  <2> QED
    BY <1>1, <2>5, <2>6, CollectStep
<1> QED
  BY <1>2, <1>3 DEF Plan

LEMMA ApproveStep == WorkspaceInv /\ Approve => WorkspaceInv'
<1> SUFFICES ASSUME WorkspaceInv, Approve PROVE WorkspaceInv'
  OBVIOUS
<1>1. job.pc = "preview" /\ UNCHANGED <<source, past, ws, used>>
  BY DEF Approve
<1>2. CASE job' = Fails
  BY <1>1, <1>2, OverStep
<1>3. CASE Preview.ok /\ job' = Collect([job EXCEPT !.before = Preview.before,
                                                    !.after = Preview.after], "precondition")
  <2>1. job \in JobRow /\ OperandInv(job)
    BY DEF WorkspaceInv, JobInv
  <2>2. Stage(job) = "preview"
    BY <1>1 DEF Stage
  <2>3. PICK b, a : b = Preview.before /\ a = Preview.after
    OBVIOUS
  <2>4. b \in Payloads /\ a \in Payloads /\ (job.op = "patch" => a = Patched(b, job.change))
    BY <1>3, <2>3, PreviewRow
  <2>5. PICK j : j = [job EXCEPT !.before = b, !.after = a]
    OBVIOUS
  <2>6. /\ j \in JobRow /\ j.op = job.op /\ j.parent = job.parent /\ j.change = job.change
        /\ j.before = b /\ j.after = a
    BY <2>1, <2>4, <2>5 DEF JobRow
  <2>7. job' = Collect(j, "precondition")
    BY <1>3, <2>3, <2>5
  <2>8. j.op # "none" /\ (j.op = "patch" => j.parent \in Ids)
    BY <2>1, <2>2, <2>6 DEF OperandInv
  <2> QED
    BY <1>1, <2>4, <2>6, <2>7, <2>8, CollectStep
<1> QED
  BY <1>2, <1>3 DEF Approve

LEMMA ExecuteStep == WorkspaceInv /\ Execute => WorkspaceInv'
<1> SUFFICES ASSUME WorkspaceInv, Execute PROVE WorkspaceInv'
  OBVIOUS
<1>1. job.pc = "precondition" /\ UNCHANGED <<source, past, ws, used>>
  BY DEF Execute
<1>2. CASE job' = Fails
  BY <1>1, <1>2, OverStep
<1>3. CASE job' = Collect(job, "payload")
  <2>1. job \in JobRow /\ OperandInv(job) /\ ApprovedInv(job)
    BY DEF WorkspaceInv, JobInv
  <2>2. Stage(job) = "precondition"
    BY <1>1 DEF Stage
  <2>3. /\ job.op # "none" /\ (job.op = "patch" => job.parent \in Ids)
        /\ job.op = "patch" => job.after = Patched(job.before, job.change)
    BY <2>1, <2>2 DEF OperandInv, ApprovedInv
  <2> QED
    BY <1>1, <1>3, <2>1, <2>3, CollectStep
<1> QED
  BY <1>2, <1>3 DEF Execute

LEMMA PayloadStep == WorkspaceInv /\ Payload => WorkspaceInv'
<1> SUFFICES ASSUME WorkspaceInv, Payload PROVE WorkspaceInv'
  OBVIOUS
<1>1. job.pc = "payload" /\ UNCHANGED <<source, past, ws, used>>
  BY DEF Payload
<1>2. JobInv(job, ws, source, past) /\ job \in JobRow /\ Stage(job) = "payload"
  BY <1>1 DEF WorkspaceInv, JobInv, Stage
<1>3. job.op \in {"prepare", "patch"} /\ (job.op = "patch" => job.parent \in Ids)
  BY <1>2 DEF JobInv, OperandInv, JobRow
<1>4. CASE job.op = "prepare"
  <2>1. job' = [job EXCEPT !.pc = "create", !.after = job.got]
    BY <1>4 DEF Payload
  <2>2. job.got \in Payloads /\ DOMAIN job.got = Public
    BY <1>1, <1>2 DEF JobRow, JobInv, CollectedInv
  <2>3. /\ job' \in JobRow /\ job'.pc = "create" /\ job'.op = "prepare" /\ job'.got = job.got
        /\ job'.after = job.got
    BY <1>2, <1>4, <2>1, <2>2 DEF JobRow, Stages
  <2>4. Stage(job') = "create"
    BY <2>3 DEF Stage
  <2>5. OperandInv(job') /\ ApprovedInv(job') /\ ReceiptInv(job', ws) /\ PendingInv(job', ws)
        /\ LaterInv(job', ws, source, past)
    BY <2>3, <2>4 DEF OperandInv, ApprovedInv, ReceiptInv, PendingInv, LaterInv
  <2>6. CollectedInv(job', source)
    BY <1>2, <2>2, <2>3 DEF JobInv, CollectedInv
  <2>7. JobInv(job', ws, source, past)
    BY <2>3, <2>5, <2>6 DEF JobInv
  <2>8. Counted
    BY <1>1, FaultCounted DEF WorkspaceInv
  <2> QED
    BY <1>1, <2>7, <2>8, JobStep
<1>5. CASE job.op = "patch" /\ Preview.ok /\ Preview.before = job.before
  <2>1. job' = Collect([job EXCEPT !.after = Preview.after], "parent")
    BY <1>5 DEF Payload
  <2>2. PICK a : a = Preview.after
    OBVIOUS
  <2>3. a \in Payloads /\ a = Patched(job.before, job.change)
    BY <1>5, <2>2, PreviewRow
  <2>4. PICK j : j = [job EXCEPT !.after = a]
    OBVIOUS
  <2>5. /\ j \in JobRow /\ j.op = "patch" /\ j.parent = job.parent /\ j.change = job.change
        /\ j.before = job.before /\ j.after = a
    BY <1>2, <1>5, <2>3, <2>4 DEF JobRow
  <2>6. job' = Collect(j, "parent")
    BY <2>1, <2>2, <2>4
  <2>7. j.after = Patched(j.before, j.change) /\ j.op = "patch" /\ j.parent \in Ids
    BY <1>3, <1>5, <2>3, <2>5
  <2>8. j \in JobRow
    BY <2>5
  <2> QED
    BY <1>1, <2>6, <2>7, <2>8, CollectStep
<1>6. CASE job.op = "patch" /\ ~(Preview.ok /\ Preview.before = job.before)
  <2>1. job' = Fails
    BY <1>6 DEF Payload
  <2> QED
    BY <1>1, <2>1, OverStep
<1> QED
  BY <1>3, <1>4, <1>5, <1>6

LEMMA ParentStep == WorkspaceInv /\ Parent => WorkspaceInv'
<1> SUFFICES ASSUME WorkspaceInv, Parent PROVE WorkspaceInv'
  OBVIOUS
<1>1. job.pc = "parent" /\ UNCHANGED <<source, past, ws, used>>
  BY DEF Parent
<1>2. CASE job' = Fails
  BY <1>1, <1>2, OverStep
<1>3. CASE job' = [job EXCEPT !.pc = "create"]
  <2>1. JobInv(job, ws, source, past) /\ job \in JobRow /\ Stage(job) = "parent"
    BY <1>1 DEF WorkspaceInv, JobInv, Stage
  <2>2. /\ job' \in JobRow /\ job'.pc = "create" /\ job'.op = job.op /\ job'.got = job.got
        /\ job'.parent = job.parent /\ job'.before = job.before /\ job'.after = job.after
        /\ job'.change = job.change
    BY <1>3, <2>1 DEF JobRow, Stages
  <2>3. Stage(job') = "create"
    BY <2>2 DEF Stage
  <2>4. OperandInv(job') /\ ApprovedInv(job') /\ ReceiptInv(job', ws) /\ PendingInv(job', ws)
        /\ LaterInv(job', ws, source, past)
    BY <2>1, <2>2, <2>3
       DEF JobInv, OperandInv, ApprovedInv, ReceiptInv, PendingInv, LaterInv
  <2>5. job.op = "patch"
    BY <2>1 DEF JobInv, OperandInv
  <2>6. CollectedInv(job', source)
    BY <2>1, <2>2, <2>5 DEF JobInv, CollectedInv
  <2>7. JobInv(job', ws, source, past)
    BY <2>2, <2>4, <2>6 DEF JobInv
  <2>8. Counted
    BY <1>1, FaultCounted DEF WorkspaceInv
  <2> QED
    BY <1>1, <2>7, <2>8, JobStep
<1> QED
  BY <1>2, <1>3 DEF Parent

LEMMA CreateStep == WorkspaceInv /\ Create => WorkspaceInv'
<1> SUFFICES ASSUME WorkspaceInv, Create PROVE WorkspaceInv'
  OBVIOUS
<1> DEFINE S == IF job.op = "prepare" THEN job.after ELSE ws[job.parent].snap
<1>1. PICK i \in Ids :
          /\ ws' = [ws EXCEPT ![i] = [NoDir EXCEPT !.dir = "pending", !.want = job.after,
                                                   !.snap = S]]
          /\ job' = [job EXCEPT !.pc = "write", !.ws = i]
  BY DEF Create
<1>2. job.pc = "create" /\ UNCHANGED <<source, past>> /\ used' = [used EXCEPT !.ids = @ + 1]
  BY DEF Create
<1>3. /\ JobInv(job, ws, source, past) /\ job \in JobRow /\ Stage(job) = "create"
      /\ ws \in [Ids -> DirRow] /\ TypeOK
  BY <1>2 DEF WorkspaceInv, TypeOK, JobInv, Stage
<1>4. /\ S = Empty \/ (DOMAIN S = Public /\ \E p \in past : Follows(S, p, source))
      /\ S \in Payloads
  <2>1. CASE job.op = "prepare"
    <3>1. job.after = job.got /\ DOMAIN job.got = Public /\ job.got \in Payloads
          /\ \A f \in DOMAIN job.got : job.got[f] <= source[f]
      BY <1>2, <1>3, <2>1 DEF JobInv, CollectedInv, JobRow
    <3>2. source \in past /\ source \in [Files -> Nat]
      BY <1>3 DEF TypeOK
    <3>3. \A f \in DOMAIN job.got : source[f] <= source[f]
      BY <3>1, <3>2 DEF Public
    <3>4. Follows(S, source, source)
      BY <2>1, <3>1, <3>3 DEF Follows
    <3> QED
      BY <2>1, <3>1, <3>2, <3>4
  <2>2. CASE job.op # "prepare"
    <3>1. job.parent \in Ids
      BY <1>3, <2>2 DEF JobInv, OperandInv, JobRow
    <3>2. ws[job.parent] \in DirRow
      BY <1>3, <3>1
    <3> QED
      BY <2>2, <3>1, <3>2 DEF WorkspaceInv, SnapInv, DirRow
  <2> QED
    BY <2>1, <2>2
<1> HIDE DEF S
<1>5. PICK d : d = [NoDir EXCEPT !.dir = "pending", !.want = job.after, !.snap = S]
  OBVIOUS
<1>6. job.after \in Payloads
  BY <1>3 DEF JobRow
<1>7. /\ d \in DirRow /\ d.dir = "pending" /\ d.want = job.after /\ d.snap = S
      /\ d.files = Empty /\ d.touched = FALSE
  <2>1. NoDir \in DirRow /\ NoDir.files = Empty /\ NoDir.touched = FALSE
    BY NoDirRow DEF NoDir
  <2> QED
    BY <1>4, <1>5, <1>6, <2>1 DEF DirRow
<1>8. ws' \in [Ids -> DirRow] /\ ws'[i] = d /\ \A k \in Ids \ {i} : ws'[k] = ws[k]
  BY <1>1, <1>3, <1>5, <1>7
<1>9. /\ job' \in JobRow /\ job'.pc = "write" /\ job'.ws = i /\ job'.op = job.op
      /\ job'.parent = job.parent /\ job'.before = job.before /\ job'.after = job.after
      /\ job'.change = job.change /\ job'.got = job.got
  BY <1>1, <1>3 DEF JobRow, Stages
<1>10. Stage(job') = "write"
  BY <1>9 DEF Stage
<1>11. OperandInv(job') /\ ApprovedInv(job') /\ ReceiptInv(job', ws') /\ CollectedInv(job', source)
       /\ LaterInv(job', ws', source, past)
  BY <1>3, <1>9, <1>10
     DEF JobInv, OperandInv, ApprovedInv, ReceiptInv, LaterInv, CollectedInv
<1>12. PendingInv(job', ws')
  BY <1>7, <1>8, <1>9, EmptyPayload DEF PendingInv
<1>13. JobInv(job', ws', source, past)
  BY <1>9, <1>11, <1>12 DEF JobInv
<1>14. used'.deploys = used.deploys
       /\ used' = [deploys |-> used'.deploys, faults |-> used'.faults, ids |-> used'.ids]
  <2>1. used = [deploys |-> used.deploys, faults |-> used.faults, ids |-> used.ids]
    BY <1>3 DEF TypeOK
  <2> QED
    BY <1>2, <2>1
<1>15. TypeOK'
  BY <1>2, <1>3, <1>8, <1>9, <1>14 DEF TypeOK
<1>16. WholeInv(ws')
  BY <1>7, <1>8 DEF WorkspaceInv, WholeInv
<1>17. SnapInv(ws', source, past)
  BY <1>4, <1>7, <1>8 DEF WorkspaceInv, SnapInv
<1> QED
  BY <1>2, <1>13, <1>15, <1>16, <1>17 DEF WorkspaceInv

LEMMA WriteStep == WorkspaceInv /\ Write => WorkspaceInv'
<1> SUFFICES ASSUME WorkspaceInv, Write PROVE WorkspaceInv'
  OBVIOUS
<1>1. job.pc = "write" /\ UNCHANGED <<source, past, used>>
  BY DEF Write
<1>2. /\ JobInv(job, ws, source, past) /\ job \in JobRow /\ Stage(job) = "write"
      /\ ws \in [Ids -> DirRow]
  BY <1>1 DEF WorkspaceInv, TypeOK, JobInv, Stage
<1>3. job.ws \in Ids
  BY <1>2 DEF JobInv, OperandInv
<1>4. PICK i \in Ids : i = job.ws
  BY <1>3
<1>5. PICK e : e = ws[i]
  OBVIOUS
<1>6. e \in DirRow
  BY <1>2, <1>5
<1>7. e.files \in Payloads /\ e.want \in Payloads
  BY <1>6 DEF DirRow
<1>8. /\ e.dir = "pending" /\ ~e.touched /\ DOMAIN e.files \subseteq DOMAIN e.want
      /\ \A f \in DOMAIN e.files : e.files[f] = e.want[f]
  BY <1>1, <1>2, <1>4, <1>5 DEF JobInv, PendingInv
<1>9. Counted
  BY <1>1, FaultCounted DEF WorkspaceInv
<1>10. CASE DOMAIN e.want \ DOMAIN e.files # {}
  <2>1. UNCHANGED job
    BY <1>4, <1>5, <1>10 DEF Write
  <2>2. e = ws[job.ws]
    BY <1>4, <1>5
  <2>3. \E f \in DOMAIN ws[job.ws].want \ DOMAIN ws[job.ws].files :
           /\ \A g \in DOMAIN ws[job.ws].want \ DOMAIN ws[job.ws].files : f <= g
           /\ ws' = [ws EXCEPT ![job.ws].files =
                        [g \in DOMAIN ws[job.ws].files \union {f} |-> ws[job.ws].want[g]]]
    BY <1>10, <2>2, Zenon DEF Write
  <2>4. PICK f \in DOMAIN ws[job.ws].want \ DOMAIN ws[job.ws].files :
           ws' = [ws EXCEPT ![job.ws].files =
                     [g \in DOMAIN ws[job.ws].files \union {f} |-> ws[job.ws].want[g]]]
    BY <2>3, Zenon
  <2>5. /\ f \in DOMAIN e.want \ DOMAIN e.files
        /\ ws' = [ws EXCEPT ![job.ws].files =
                     [g \in DOMAIN e.files \union {f} |-> e.want[g]]]
    BY <2>2, <2>4
  <2>6. PICK m : m = [g \in DOMAIN e.files \union {f} |-> e.want[g]]
    OBVIOUS
  <2>7. m \in Payloads
    <3>1. DOMAIN e.want \subseteq Files /\ \A g \in DOMAIN e.want : e.want[g] \in Nat
      BY <1>7, PayloadElim
    <3>2. DOMAIN m \in SUBSET Files /\ m = [g \in DOMAIN m |-> m[g]]
          /\ \A g \in DOMAIN m : m[g] \in Nat
      BY <1>8, <2>5, <2>6, <3>1
    <3> QED
      BY <3>2, PayloadIntro
  <2>8. PICK d : d = [e EXCEPT !.files = m]
    OBVIOUS
  <2>9. /\ d \in DirRow /\ d.dir = "pending" /\ d.touched = e.touched /\ d.files = m
        /\ d.want = e.want /\ d.snap = e.snap
    BY <1>6, <1>8, <2>7, <2>8 DEF DirRow
  <2>10. ws' = [ws EXCEPT ![i] = d]
    BY <1>2, <1>4, <1>5, <2>5, <2>6, <2>8
  <2>11. ws'[job.ws] = d
    BY <1>2, <1>4, <2>10
  <2>12. PendingInv(job, ws')
    <3>1. DOMAIN m \subseteq DOMAIN e.want /\ \A g \in DOMAIN m : m[g] = e.want[g]
      BY <1>8, <2>5, <2>6
    <3>2. DOMAIN d.files \subseteq DOMAIN d.want /\ \A g \in DOMAIN d.files : d.files[g] = d.want[g]
      BY <2>9, <3>1
    <3>3. d.dir = "pending" /\ ~d.touched
      BY <1>8, <2>9
    <3> QED
      BY <1>1, <2>11, <3>2, <3>3 DEF PendingInv
  <2>13. ReceiptInv(job, ws') /\ LaterInv(job, ws', source, past)
    BY <1>2 DEF ReceiptInv, LaterInv
  <2>14. JobInv(job', ws', source, past)
    BY <1>2, <2>1, <2>12, <2>13 DEF JobInv
  <2>15. d.snap \in {Empty, ws[i].snap} /\ ~(d.dir = "final")
    BY <1>5, <2>9
  <2> QED
    BY <1>1, <1>9, <2>9, <2>10, <2>14, <2>15, DirStep
<1>11. CASE DOMAIN e.want \ DOMAIN e.files = {}
  <2>1. ws' = [ws EXCEPT ![job.ws].meta = TRUE] /\ job' = [job EXCEPT !.pc = "publish"]
    BY <1>4, <1>5, <1>11 DEF Write
  <2>2. e.files = e.want
    BY <1>7, <1>8, <1>11, PayloadEqual
  <2>3. PICK d : d = [e EXCEPT !.meta = TRUE]
    OBVIOUS
  <2>4. /\ d \in DirRow /\ d.dir = "pending" /\ d.touched = e.touched /\ d.files = e.files
        /\ d.want = e.want /\ d.snap = e.snap /\ d.meta = TRUE
    BY <1>6, <1>8, <2>3 DEF DirRow
  <2>5. ws' = [ws EXCEPT ![i] = d]
    BY <1>2, <1>4, <1>5, <2>1, <2>3
  <2>6. ws'[job.ws] = d
    BY <1>2, <1>4, <2>5
  <2>7. /\ job' \in JobRow /\ job'.pc = "publish" /\ job'.ws = job.ws /\ job'.op = job.op
        /\ job'.parent = job.parent /\ job'.before = job.before /\ job'.after = job.after
        /\ job'.change = job.change /\ job'.got = job.got
    BY <1>2, <2>1 DEF JobRow, Stages
  <2>8. Stage(job') = "publish"
    BY <2>7 DEF Stage
  <2>9. OperandInv(job') /\ ApprovedInv(job') /\ ReceiptInv(job', ws')
        /\ CollectedInv(job', source) /\ LaterInv(job', ws', source, past)
    BY <1>2, <2>7, <2>8
       DEF JobInv, OperandInv, ApprovedInv, ReceiptInv, LaterInv, CollectedInv
  <2>10. PendingInv(job', ws')
    BY <1>8, <2>2, <2>4, <2>6, <2>7 DEF PendingInv
  <2>11. JobInv(job', ws', source, past)
    BY <2>7, <2>9, <2>10 DEF JobInv
  <2>12. d.snap \in {Empty, ws[i].snap} /\ ~(d.dir = "final")
    BY <1>5, <2>4
  <2> QED
    BY <1>1, <1>9, <2>4, <2>5, <2>11, <2>12, DirStep
<1> QED
  BY <1>10, <1>11

\* A step that removes the job's workspace and ends the job.
LEMMA RemovedStep ==
    ASSUME WorkspaceInv, job.ws \in Ids, UNCHANGED <<source, past>>, Fault,
           ws' = [ws EXCEPT ![job.ws] = NoDir], job' = Fails
    PROVE  WorkspaceInv'
<1>1. JobInv(job', ws', source, past)
  BY FailsRow, IdleJob
<1>2. Counted
  BY FaultCounted DEF WorkspaceInv
<1> QED
  BY <1>1, <1>2, NoDirRow, DirStep

LEMMA WriteFailsStep == WorkspaceInv /\ WriteFails => WorkspaceInv'
<1> SUFFICES ASSUME WorkspaceInv, WriteFails PROVE WorkspaceInv'
  OBVIOUS
<1>1. /\ job.pc \in {"write", "publish"} /\ Fault /\ UNCHANGED <<source, past>>
      /\ ws' = [ws EXCEPT ![job.ws] = NoDir] /\ job' = Fails
  BY DEF WriteFails
<1>2. job.ws \in Ids
  BY <1>1 DEF WorkspaceInv, JobInv, OperandInv, Stage
<1> QED
  BY <1>1, <1>2, RemovedStep

LEMMA PublishStep == WorkspaceInv /\ Publish => WorkspaceInv'
<1> SUFFICES ASSUME WorkspaceInv, Publish PROVE WorkspaceInv'
  OBVIOUS
<1>1. /\ job.pc = "publish" /\ UNCHANGED <<source, past, used>>
      /\ ws' = [ws EXCEPT ![job.ws].dir = "final"]
  BY DEF Publish
<1>2. /\ JobInv(job, ws, source, past) /\ job \in JobRow /\ Stage(job) = "publish"
      /\ ws \in [Ids -> DirRow] /\ TypeOK
  BY <1>1 DEF WorkspaceInv, TypeOK, JobInv, Stage
<1>3. job.ws \in Ids /\ job.op # "none" /\ (job.op = "patch" => job.parent \in Ids)
  BY <1>2 DEF JobInv, OperandInv
<1>4. PICK i \in Ids : i = job.ws
  BY <1>3
<1>5. PICK e : e = ws[i]
  OBVIOUS
<1>6. e \in DirRow
  BY <1>2, <1>5
<1>7. e.meta /\ e.files = e.want
  BY <1>1, <1>2, <1>4, <1>5 DEF JobInv, PendingInv
<1>8. PICK d : d = [e EXCEPT !.dir = "final"]
  OBVIOUS
<1>9. /\ d \in DirRow /\ d.files = e.files /\ d.want = e.want /\ d.meta = e.meta
      /\ d.snap = e.snap
  BY <1>6, <1>8 DEF DirRow
<1>10. ws' = [ws EXCEPT ![i] = d]
  BY <1>1, <1>2, <1>4, <1>5, <1>8
<1>11. Counted
  BY <1>1, <1>2, FaultCounted
<1>12. d.snap \in {Empty, ws[i].snap} /\ d.meta /\ d.files = d.want
  BY <1>5, <1>7, <1>9
<1>13. SnapInv(ws', source, past)
  <2>1. \A k \in Ids : ws'[k].snap = ws[k].snap
    BY <1>2, <1>5, <1>9, <1>10
  <2> QED
    BY <2>1 DEF WorkspaceInv, SnapInv
<1>14. CASE job.op = "patch"
  <2>1. job' = [job EXCEPT !.pc = "receipt"]
    BY <1>14 DEF Publish
  <2>2. /\ job' \in JobRow /\ job'.pc = "receipt" /\ job'.ws = job.ws /\ job'.op = job.op
        /\ job'.parent = job.parent /\ job'.before = job.before /\ job'.after = job.after
        /\ job'.change = job.change /\ job'.got = job.got
    BY <1>2, <2>1 DEF JobRow, Stages
  <2>3. Stage(job') = "receipt"
    BY <2>2 DEF Stage
  <2>4. OperandInv(job') /\ ApprovedInv(job') /\ ReceiptInv(job', ws') /\ PendingInv(job', ws')
        /\ CollectedInv(job', source) /\ LaterInv(job', ws', source, past)
    BY <1>2, <1>14, <2>2, <2>3
       DEF JobInv, OperandInv, ApprovedInv, ReceiptInv, LaterInv, CollectedInv, PendingInv
  <2>5. JobInv(job', ws', source, past)
    BY <2>2, <2>4 DEF JobInv
  <2> QED
    BY <1>1, <1>9, <1>10, <1>11, <1>12, <2>5, DirStep
<1>15. CASE job.op # "patch"
  <2>1. job' = Collect(job, "check")
    BY <1>15 DEF Publish
  <2>2. "check" \in Stages
    BY DEF Stages
  <2>3. JobInv(job', ws', source, past)
    BY <1>2, <1>3, <1>13, <1>15, <2>1, <2>2, CollectInv
  <2> QED
    BY <1>1, <1>9, <1>10, <1>11, <1>12, <2>3, DirStep
<1> QED
  BY <1>14, <1>15

LEMMA ReceiptStep == WorkspaceInv /\ Receipt => WorkspaceInv'
<1> SUFFICES ASSUME WorkspaceInv, Receipt PROVE WorkspaceInv'
  OBVIOUS
<1> DEFINE R == [parent |-> job.parent, before |-> job.before, after |-> job.after]
<1>1. /\ job.pc = "receipt" /\ UNCHANGED <<source, past, used>>
      /\ ws' = [ws EXCEPT ![job.ws].receipt = R] /\ job' = Collect(job, "check")
  BY DEF Receipt
<1>2. /\ JobInv(job, ws, source, past) /\ job \in JobRow /\ Stage(job) = "receipt"
      /\ ws \in [Ids -> DirRow] /\ TypeOK
  BY <1>1 DEF WorkspaceInv, TypeOK, JobInv, Stage
<1>3. job.ws \in Ids /\ job.op = "patch" /\ job.parent \in Ids
  BY <1>2 DEF JobInv, OperandInv
<1>4. job.after = Patched(job.before, job.change)
  BY <1>2, <1>3 DEF JobInv, ApprovedInv
<1>5. R = ReceiptOf(job)
  BY <1>4 DEF ReceiptOf
<1>6. R \in [parent : Ids \union {0}, before : Payloads, after : Payloads]
  BY <1>2 DEF JobRow
<1> HIDE DEF R
<1>7. PICK i \in Ids : i = job.ws
  BY <1>3
<1>8. PICK e : e = ws[i]
  OBVIOUS
<1>9. e \in DirRow
  BY <1>2, <1>8
<1>10. PICK d : d = [e EXCEPT !.receipt = R]
  OBVIOUS
<1>11. /\ d \in DirRow /\ d.files = e.files /\ d.want = e.want /\ d.meta = e.meta
       /\ d.snap = e.snap /\ d.dir = e.dir /\ d.touched = e.touched /\ d.receipt = R
  BY <1>6, <1>9, <1>10 DEF DirRow
<1>12. ws' = [ws EXCEPT ![i] = d]
  BY <1>1, <1>2, <1>7, <1>8, <1>10
<1>13. Counted
  BY <1>1, <1>2, FaultCounted
<1>14. /\ d.snap \in {Empty, ws[i].snap}
       /\ d.dir = "final" /\ ~d.touched => d.meta /\ d.files = d.want
  BY <1>8, <1>11 DEF WorkspaceInv, WholeInv
<1>15. SnapInv(ws', source, past)
  <2>1. \A k \in Ids : ws'[k].snap = ws[k].snap
    BY <1>2, <1>8, <1>11, <1>12
  <2> QED
    BY <2>1 DEF WorkspaceInv, SnapInv
<1>16. ws'[job.ws].receipt = ReceiptOf(job)
  BY <1>2, <1>5, <1>7, <1>11, <1>12
<1>17. "check" \in Stages
  BY DEF Stages
<1>18. JobInv(job', ws', source, past)
  BY <1>1, <1>2, <1>3, <1>15, <1>16, <1>17, CollectInv
<1> QED
  BY <1>1, <1>11, <1>12, <1>13, <1>14, <1>18, DirStep

LEMMA PublishedFailsStep == WorkspaceInv /\ PublishedFails => WorkspaceInv'
<1> SUFFICES ASSUME WorkspaceInv, PublishedFails PROVE WorkspaceInv'
  OBVIOUS
<1>1. Fault /\ UNCHANGED <<source, past>> /\ job' = Fails
  BY DEF PublishedFails
<1>2. Stage(job) \in {"receipt", "check"}
  BY DEF PublishedFails, Stage
<1>3. job.ws \in Ids
  BY <1>2 DEF WorkspaceInv, JobInv, OperandInv
<1>4. CASE job.op = "patch"
  <2>1. ws' = [ws EXCEPT ![job.ws] = NoDir]
    BY <1>4 DEF PublishedFails
  <2> QED
    BY <1>1, <1>3, <2>1, RemovedStep
<1>5. CASE job.op # "patch"
  <2>1. UNCHANGED ws
    BY <1>5 DEF PublishedFails
  <2> QED
    BY <1>1, <2>1, OverStep
<1> QED
  BY <1>4, <1>5

LEMMA CheckStep == WorkspaceInv /\ Check => WorkspaceInv'
<1> SUFFICES ASSUME WorkspaceInv, Check PROVE WorkspaceInv'
  OBVIOUS
<1>1. job.pc = "check" /\ UNCHANGED <<source, past, ws, used>>
  BY DEF Check
<1>2. CASE job' = Fails
  BY <1>1, <1>2, OverStep
<1>3. CASE job' = Collect([job EXCEPT !.after = ws[job.ws].files], "verify")
  <2>1. /\ JobInv(job, ws, source, past) /\ job \in JobRow /\ Stage(job) = "check"
        /\ ws \in [Ids -> DirRow]
    BY <1>1 DEF WorkspaceInv, TypeOK, JobInv, Stage
  <2>2. job.ws \in Ids /\ job.op # "none" /\ (job.op = "patch" => job.parent \in Ids)
    BY <2>1 DEF JobInv, OperandInv
  <2>3. ws[job.ws] \in DirRow
    BY <2>1, <2>2
  <2>4. PICK a : a = ws[job.ws].files
    OBVIOUS
  <2>5. a \in Payloads
    BY <2>3, <2>4 DEF DirRow
  <2>6. PICK j : j = [job EXCEPT !.after = a]
    OBVIOUS
  <2>7. /\ j \in JobRow /\ j.op = job.op /\ j.parent = job.parent /\ j.change = job.change
        /\ j.before = job.before /\ j.ws = job.ws
    BY <2>1, <2>5, <2>6 DEF JobRow
  <2>8. job' = Collect(j, "verify")
    BY <1>3, <2>4, <2>6
  <2>9. j.op = "patch" => ws[j.ws].receipt.parent = 0 \/ ws[j.ws].receipt = ReceiptOf(j)
    BY <2>1, <2>7 DEF JobInv, ReceiptInv, ReceiptOf
  <2>10. j.op # "none" /\ (j.op = "patch" => j.parent \in Ids) /\ j.ws \in Ids /\ j \in JobRow
    BY <2>2, <2>7
  <2> QED
    BY <1>1, <2>8, <2>9, <2>10, CollectStep
<1> QED
  BY <1>2, <1>3 DEF Check

LEMMA VerifyStep == WorkspaceInv /\ Verify => WorkspaceInv'
<1> SUFFICES ASSUME WorkspaceInv, Verify PROVE WorkspaceInv'
  OBVIOUS
<1>1. job.pc = "verify" /\ UNCHANGED <<source, past, ws, used>>
  BY DEF Verify
<1>2. CASE job' = Fails
  BY <1>1, <1>2, OverStep
<1>3. CASE job' = [job EXCEPT !.pc = "verified", !.result = "verified"]
  <2>1. JobInv(job, ws, source, past) /\ job \in JobRow /\ Stage(job) = "verify"
    BY <1>1 DEF WorkspaceInv, JobInv, Stage
  <2>2. /\ job' \in JobRow /\ job'.pc = "verified" /\ job'.op = job.op /\ job'.got = job.got
        /\ job'.parent = job.parent /\ job'.ws = job.ws
    BY <1>3, <2>1 DEF JobRow, Stages
  <2>3. Stage(job') = "verified"
    BY <2>2 DEF Stage
  <2>4. OperandInv(job') /\ ApprovedInv(job') /\ ReceiptInv(job', ws) /\ PendingInv(job', ws)
        /\ LaterInv(job', ws, source, past) /\ CollectedInv(job', source)
    BY <2>1, <2>2, <2>3
       DEF JobInv, OperandInv, ApprovedInv, ReceiptInv, PendingInv, LaterInv, CollectedInv
  <2>5. JobInv(job', ws, source, past)
    BY <2>2, <2>4 DEF JobInv
  <2>6. Counted
    BY <1>1, FaultCounted DEF WorkspaceInv
  <2> QED
    BY <1>1, <2>5, <2>6, JobStep
<1> QED
  BY <1>2, <1>3 DEF Verify

\* Every step of the store keeps the invariant.
LEMMA WorkspaceNext == WorkspaceInv /\ [Next]_vars => WorkspaceInv'
<1> SUFFICES ASSUME WorkspaceInv, [Next]_vars PROVE WorkspaceInv'
  OBVIOUS
<1>1. CASE UNCHANGED vars
  BY <1>1 DEF vars, WorkspaceInv, TypeOK
<1>2. CASE Dies
  BY <1>2, OverStep DEF Dies
<1>3. CASE Finish
  BY <1>3, OverStep DEF Finish
<1>4. CASE Deploy \/ Tamper \/ Delete \/ ReadFile \/ Collected
  BY <1>4, DeployStep, TamperStep, DeleteStep, ReadFileStep, CollectedStep
<1>5. CASE Plan \/ Approve \/ Execute \/ Payload \/ Parent
  BY <1>5, PlanStep, ApproveStep, ExecuteStep, PayloadStep, ParentStep
<1>6. CASE Create \/ Write \/ WriteFails \/ Publish \/ Receipt \/ PublishedFails
  BY <1>6, CreateStep, WriteStep, WriteFailsStep, PublishStep, ReceiptStep, PublishedFailsStep
<1>7. CASE Check \/ Verify
  BY <1>7, CheckStep, VerifyStep
<1> QED
  BY <1>1, <1>2, <1>3, <1>4, <1>5, <1>6, <1>7 DEF Next

LEMMA WorkspaceInvariant == Spec => []WorkspaceInv
<1>1. Init => WorkspaceInv
  BY WorkspaceInit
<1>2. WorkspaceInv /\ [Next]_vars => WorkspaceInv'
  BY WorkspaceNext
<1> QED
  BY <1>1, <1>2, PTL DEF Spec

\* A workspace that SourceWorkspaceStore can find by its id has every file it is meant to have
\* and its metadata, over deaths and failed writes at any point.
THEOREM WorkspacesAreWhole == Spec => []PublishedIsWhole
<1>1. WorkspaceInv => PublishedIsWhole
  BY DEF WorkspaceInv, WholeInv, PublishedIsWhole
<1> QED
  BY <1>1, WorkspaceInvariant, PTL

\* The step of the verification, which is the only one that says "verified".
VerifiedRight ==
    job'.result = "verified" /\ job.result # "verified" =>
        /\ \E s \in past : ws[job.ws].snap = Restrict(s, DOMAIN s \ Secrets)
        /\ job.op = "patch" => /\ ws[job.ws].files = Patched(job.before, job.change)
                               /\ ws[job.parent].files = job.before

LEMMA VerifyRight == WorkspaceInv /\ Verify => VerifiedRight
<1> SUFFICES ASSUME WorkspaceInv, Verify, job'.result = "verified"
             PROVE  /\ \E s \in past : ws[job.ws].snap = Restrict(s, DOMAIN s \ Secrets)
                    /\ job.op = "patch" => /\ ws[job.ws].files = Patched(job.before, job.change)
                                           /\ ws[job.parent].files = job.before
  BY DEF VerifiedRight
<1>1. job.pc = "verify" /\ Verifies
  BY FailsRow DEF Verify
<1>2. /\ JobInv(job, ws, source, past) /\ job \in JobRow /\ Stage(job) = "verify"
      /\ ws \in [Ids -> DirRow] /\ past \subseteq [Files -> Nat]
  BY <1>1 DEF WorkspaceInv, TypeOK, JobInv, Stage
<1>3. job.ws \in Ids
  BY <1>2 DEF JobInv, OperandInv
<1>4. PICK m : m = job.got
  OBVIOUS
<1>5. m \in Payloads /\ DOMAIN m = Public /\ m # Empty /\ ws[job.ws].snap = m
  BY <1>1, <1>2, <1>4 DEF JobRow, JobInv, CollectedInv, Verifies, Stale
<1>6. PICK p \in past : Follows(m, p, source) /\ \A f \in DOMAIN m : p[f] <= m[f]
  BY <1>2, <1>4, <1>5 DEF JobInv, LaterInv
<1>7. p \in [Files -> Nat] /\ DOMAIN p = Files
  BY <1>2
<1>8. \A f \in Public : m[f] = p[f]
  <2> SUFFICES ASSUME NEW f \in Public PROVE m[f] = p[f]
    OBVIOUS
  <2>1. m[f] \in Nat /\ p[f] \in Nat
    BY <1>5, <1>7, PayloadElim DEF Public
  <2>2. m[f] <= p[f] /\ p[f] <= m[f]
    BY <1>5, <1>6 DEF Follows
  <2> QED
    BY <2>1, <2>2
<1>9. m = Restrict(p, DOMAIN p \ Secrets)
  <2>1. m = [f \in Public |-> m[f]]
    BY <1>5, PayloadElim
  <2>2. m = [f \in Public |-> p[f]]
    BY <1>8, <2>1
  <2> QED
    BY <1>7, <2>2 DEF Restrict, Public
<1>10. ASSUME job.op = "patch"
       PROVE  /\ ws[job.ws].files = Patched(job.before, job.change)
              /\ ws[job.parent].files = job.before
  <2>1. /\ ws[job.ws].receipt.parent # 0
        /\ ws[job.ws].receipt.after = ws[job.ws].files
        /\ ws[ws[job.ws].receipt.parent].files = ws[job.ws].receipt.before
    BY <1>1, <1>10 DEF Verifies, ReceiptValid
  <2>2. ws[job.ws].receipt = ReceiptOf(job)
    BY <1>2, <1>10, <2>1 DEF JobInv, ReceiptInv
  <2>3. /\ ReceiptOf(job).after = Patched(job.before, job.change)
        /\ ReceiptOf(job).parent = job.parent /\ ReceiptOf(job).before = job.before
    BY DEF ReceiptOf
  <2> QED
    BY <2>1, <2>2, <2>3
<1> QED
  BY <1>5, <1>6, <1>9, <1>10

\* No other step does.
LEMMA OthersDoNotVerify ==
    ASSUME WorkspaceInv, [Next]_vars, ~Verify, job.result # "verified"
    PROVE  job'.result # "verified"
<1>1. job \in JobRow /\ TypeOK
  BY DEF WorkspaceInv, JobInv
<1>2. ASSUME NEW j \in JobRow, NEW t \in Stages, j.result # "verified", job' = Collect(j, t)
      PROVE  job'.result # "verified"
  BY <1>1, <1>2, CollectRow
<1>3. "preview" \in Stages /\ "precondition" \in Stages /\ "payload" \in Stages
      /\ "parent" \in Stages /\ "check" \in Stages /\ "verify" \in Stages
  BY DEF Stages
<1>4. CASE UNCHANGED vars
  BY <1>4 DEF vars
<1>5. CASE Deploy \/ Tamper \/ Delete \/ Dies \/ Finish
  BY <1>5, NoJobRow DEF Deploy, Tamper, Delete, Dies, Finish
<1>6. CASE ReadFile
  BY <1>1, <1>6 DEF ReadFile, JobRow
<1>7. CASE Collected
  BY <1>1, <1>7, FailsRow DEF Collected, JobRow
<1>8. CASE Plan
  <2>1. CASE job' = Collect([NoJob EXCEPT !.op = "prepare"], "preview")
    <3>1. PICK j : j = [NoJob EXCEPT !.op = "prepare"]
      OBVIOUS
    <3>2. j \in JobRow /\ j.result = "none"
      BY <3>1, NoJobRow DEF JobRow
    <3> QED
      BY <1>2, <1>3, <2>1, <3>1, <3>2
  <2>2. ASSUME NEW p \in Ids, NEW f \in Files, NEW v \in {0, 50},
               job' = Collect([NoJob EXCEPT !.op = "patch", !.parent = p,
                                            !.change = [g \in {f} |-> v]], "preview")
        PROVE  job'.result # "verified"
    <3>1. PICK m : m = [g \in {f} |-> v]
      OBVIOUS
    <3>2. {f} \in SUBSET Files /\ m = [g \in {f} |-> m[g]] /\ \A g \in {f} : m[g] \in Nat
      BY <3>1
    <3>3. m \in Payloads
      BY <3>2, PayloadIntro
    <3>4. PICK j : j = [NoJob EXCEPT !.op = "patch", !.parent = p, !.change = m]
      OBVIOUS
    <3>5. j \in JobRow /\ j.result = "none"
      BY <3>3, <3>4, NoJobRow DEF JobRow
    <3>6. job' = Collect(j, "preview")
      BY <2>2, <3>1, <3>4
    <3> QED
      BY <1>2, <1>3, <3>5, <3>6
  <2> QED
    BY <1>8, <2>1, <2>2 DEF Plan
<1>9. CASE Approve
  <2>1. CASE job' = Fails
    BY <2>1, FailsRow
  <2>2. CASE job' = Collect([job EXCEPT !.before = Preview.before, !.after = Preview.after],
                            "precondition")
    <3>1. PICK b, a : b = Preview.before /\ a = Preview.after
      OBVIOUS
    <3>2. b \in Payloads /\ a \in Payloads
      BY <3>1, PreviewRow
    <3>3. PICK j : j = [job EXCEPT !.before = b, !.after = a]
      OBVIOUS
    <3>4. j \in JobRow /\ j.result = job.result
      BY <1>1, <3>2, <3>3 DEF JobRow
    <3>5. job' = Collect(j, "precondition")
      BY <2>2, <3>1, <3>3
    <3> QED
      BY <1>2, <1>3, <3>4, <3>5
  <2> QED
    BY <1>9, <2>1, <2>2 DEF Approve
<1>10. CASE Execute
  BY <1>1, <1>2, <1>3, <1>10, FailsRow DEF Execute
<1>11. CASE Payload
  <2>1. CASE job' = Fails
    BY <2>1, FailsRow
  <2>2. CASE job' = [job EXCEPT !.pc = "create", !.after = job.got]
    BY <1>1, <2>2 DEF JobRow
  <2>3. CASE job' = Collect([job EXCEPT !.after = Preview.after], "parent")
    <3>1. PICK a : a = Preview.after
      OBVIOUS
    <3>2. a \in Payloads
      BY <3>1, PreviewRow
    <3>3. PICK j : j = [job EXCEPT !.after = a]
      OBVIOUS
    <3>4. j \in JobRow /\ j.result = job.result
      BY <1>1, <3>2, <3>3 DEF JobRow
    <3>5. job' = Collect(j, "parent")
      BY <2>3, <3>1, <3>3
    <3> QED
      BY <1>2, <1>3, <3>4, <3>5
  <2>4. \/ job.op = "prepare"
        \/ job.op # "prepare" /\ job.op = "patch" /\ Preview.ok /\ Preview.before = job.before
        \/ job.op # "prepare" /\ ~(job.op = "patch" /\ Preview.ok /\ Preview.before = job.before)
    OBVIOUS
  <2> QED
    BY <1>11, <2>1, <2>2, <2>3, <2>4 DEF Payload
<1>12. CASE Parent
  BY <1>1, <1>12, FailsRow DEF Parent, JobRow
<1>13. CASE Create
  BY <1>1, <1>13 DEF Create, JobRow
<1>14. CASE Write
  BY <1>1, <1>14 DEF Write, JobRow
<1>15. CASE WriteFails \/ PublishedFails
  BY <1>15, FailsRow DEF WriteFails, PublishedFails
<1>16. CASE Publish
  <2>1. CASE job' = [job EXCEPT !.pc = "receipt"]
    BY <1>1, <2>1 DEF JobRow
  <2>2. CASE job' = Collect(job, "check")
    BY <1>1, <1>2, <1>3, <2>2
  <2> QED
    BY <1>16, <2>1, <2>2 DEF Publish
<1>17. CASE Receipt
  BY <1>1, <1>2, <1>3, <1>17 DEF Receipt
<1>18. CASE Check
  <2>1. CASE job' = Fails
    BY <2>1, FailsRow
  <2>2. CASE job' = Collect([job EXCEPT !.after = ws[job.ws].files], "verify")
    <3>1. PICK a : a = ws[job.ws].files
      OBVIOUS
    <3>2. Stage(job) = "check"
      BY <1>18 DEF Check, Stage
    <3>3. job.ws \in Ids /\ ws \in [Ids -> DirRow]
      BY <1>1, <3>2 DEF WorkspaceInv, JobInv, OperandInv, TypeOK
    <3>4. ws[job.ws] \in DirRow
      BY <3>3
    <3>5. a \in Payloads
      BY <3>1, <3>4 DEF DirRow
    <3>6. PICK j : j = [job EXCEPT !.after = a]
      OBVIOUS
    <3>7. j \in JobRow /\ j.result = job.result
      BY <1>1, <3>5, <3>6 DEF JobRow
    <3>8. job' = Collect(j, "verify")
      BY <2>2, <3>1, <3>6
    <3> QED
      BY <1>2, <1>3, <3>7, <3>8
  <2> QED
    BY <1>18, <2>1, <2>2 DEF Check
<1> QED
  BY <1>4, <1>5, <1>6, <1>7, <1>8, <1>9, <1>10, <1>11, <1>12, <1>13, <1>14, <1>15, <1>16, <1>17,
     <1>18 DEF Next

\* A workspace that _prepare_verify or _patch_verify accepts was taken from a state that the
\* installed addon really had, however its reads interleaved with deployments, and a verified
\* patch is the approved one on the parent that was shown.
THEOREM VerifiedIsTheAddon == Spec => VerifiedIsReal
<1>1. WorkspaceInv /\ [Next]_vars => VerifiedRight
  <2> SUFFICES ASSUME WorkspaceInv, [Next]_vars PROVE VerifiedRight
    OBVIOUS
  <2>1. CASE Verify
    BY <2>1, VerifyRight
  <2>2. CASE ~Verify
    BY <2>2, OthersDoNotVerify DEF VerifiedRight
  <2> QED
    BY <2>1, <2>2
<1> QED
  BY <1>1, WorkspaceInvariant, PTL DEF Spec, VerifiedIsReal, VerifiedRight

-----------------------------------------------------------------------------
(* Company knowledge: the inductive invariant. *)

\* The rows of the two tables; what they count and fingerprint is not told apart here.
IsSource(r) ==
    /\ r = [state |-> r.state, enabled |-> r.enabled, content |-> r.content,
            indexed |-> r.indexed, version |-> r.version, count |-> r.count, rows |-> r.rows,
            off |-> r.off]
    /\ r.enabled \in BOOLEAN /\ r.off \in BOOLEAN

IsAttachment(r) ==
    r = [there |-> r.there, seen |-> r.seen, expired |-> r.expired, turn |-> r.turn,
         sources |-> r.sources]

\* What its owner switched off is not enabled, whatever was indexed since.
SourcesInv(rows) ==
    /\ rows = [s \in Sources |-> rows[s]]
    /\ \A s \in Sources : IsSource(rows[s]) /\ (rows[s].off => ~rows[s].enabled)

AttachmentsInv(rows) ==
    /\ rows = [a \in Attachments |-> rows[a]]
    /\ \A a \in Attachments : IsAttachment(rows[a])

\* A reference that one of the three providers offers.
IsRef(r) ==
    /\ r.id[1] \in {"knowledge", "attachment", "log"}
    /\ r.id[1] = "knowledge" => r.id[2] \in Sources

\* What is fetched is what was found, and an idle engine has fetched nothing: its items are
\* as old as the snapshot, which moves between collections only.
CollectionInv(e) ==
    /\ e = [col |-> e.col, refs |-> e.refs, texts |-> e.texts]
    /\ e.col = [pc |-> e.col.pc, refs |-> e.col.refs, todo |-> e.col.todo, items |-> e.col.items]
    /\ e.col.todo \subseteq e.col.refs
    /\ \A r \in e.col.refs : IsRef(r)
    /\ e.col.pc = "idle" => e.col.items = {}

KnowledgeInv ==
    /\ SourcesInv(kb) /\ SourcesInv(snap.kb)
    /\ AttachmentsInv(atts)
    /\ CollectionInv(ev)
    /\ K!EvidenceHolds

-----------------------------------------------------------------------------
(* Company knowledge: the steps. *)

LEMMA NewSource ==
    ASSUME NEW c, NEW r, r = [K!NoSource EXCEPT !.state = "uploaded", !.content = c]
    PROVE  IsSource(r) /\ (r.off => ~r.enabled)
<1>1. PICK n : n = K!NoSource
  OBVIOUS
<1>2. n.enabled = TRUE /\ n.off = FALSE
  BY <1>1 DEF K!NoSource
<1>3. n = [state |-> n.state, enabled |-> n.enabled, content |-> n.content,
           indexed |-> n.indexed, version |-> n.version, count |-> n.count, rows |-> n.rows,
           off |-> n.off]
  BY <1>1 DEF K!NoSource
<1>4. r = [n EXCEPT !.state = "uploaded", !.content = c]
  BY <1>1
<1> QED
  BY <1>2, <1>3, <1>4 DEF IsSource

LEMMA SourceReplaced ==
    ASSUME SourcesInv(kb), NEW s \in Sources, NEW r, IsSource(r), r.off => ~r.enabled,
           kb' = [kb EXCEPT ![s] = r]
    PROVE  SourcesInv(kb')
BY DEF SourcesInv

\* Indexing does not enable what was switched off.
LEMMA ProcessedSource ==
    ASSUME NEW r, IsSource(r), r.off => ~r.enabled, NEW q,
           \/ q = r
           \/ q = [r EXCEPT !.state = "error"]
           \/ q = [r EXCEPT !.state = "error", !.rows = 0]
           \/ q = [r EXCEPT !.state = IF r.enabled THEN "active" ELSE "indexed",
                            !.indexed = r.content, !.version = @ + 1, !.count = 1,
                            !.rows = r.content]
    PROVE  IsSource(q) /\ (q.off => ~q.enabled)
<1>1. PICK st : st = IF r.enabled THEN "active" ELSE "indexed"
  OBVIOUS
<1>2. CASE q = [r EXCEPT !.state = st, !.indexed = r.content, !.version = @ + 1, !.count = 1,
                         !.rows = r.content]
  BY <1>2 DEF IsSource
<1>3. CASE q = [r EXCEPT !.state = "error"] \/ q = [r EXCEPT !.state = "error", !.rows = 0]
  BY <1>3 DEF IsSource
<1> QED
  BY <1>1, <1>2, <1>3

\* The steps on sources.
LEMMA SourceSteps ==
    ASSUME KnowledgeInv, NEW s \in Sources,
           \/ K!CreateSource(s) \/ K!WriteSource(s) \/ K!QueueProcessing(s)
           \/ K!ProcessNow(s) \/ K!Activate(s) \/ K!Disable(s)
    PROVE  SourcesInv(kb') /\ UNCHANGED <<atts, turns, file, snap, ev>>
<1>1. /\ SourcesInv(kb) /\ kb = [t \in Sources |-> kb[t]]
      /\ IsSource(kb[s]) /\ (kb[s].off => ~kb[s].enabled)
  BY DEF KnowledgeInv, SourcesInv
<1>2. CASE K!CreateSource(s)
  <2>1. PICK r : r = [K!NoSource EXCEPT !.state = "uploaded", !.content = K!NewDocument]
    OBVIOUS
  <2>2. kb' = [kb EXCEPT ![s] = r] /\ UNCHANGED <<atts, turns, file, snap, ev>>
    BY <1>2, <2>1 DEF K!CreateSource
  <2> QED
    BY <1>1, <2>1, <2>2, NewSource, SourceReplaced
<1>3. CASE K!WriteSource(s)
  <2>1. PICK r : r = [kb[s] EXCEPT !.state = "uploaded", !.content = K!NewDocument]
    OBVIOUS
  <2>2. kb' = [kb EXCEPT ![s] = r] /\ UNCHANGED <<atts, turns, file, snap, ev>>
    BY <1>1, <1>3, <2>1 DEF K!WriteSource
  <2>3. IsSource(r) /\ (r.off => ~r.enabled)
    BY <1>1, <2>1 DEF IsSource
  <2> QED
    BY <1>1, <2>2, <2>3, SourceReplaced
<1>4. CASE K!QueueProcessing(s)
  <2>1. PICK r : r = [kb[s] EXCEPT !.state = "uploaded"]
    OBVIOUS
  <2>2. kb' = [kb EXCEPT ![s] = r] /\ UNCHANGED <<atts, turns, file, snap, ev>>
    BY <1>1, <1>4, <2>1 DEF K!QueueProcessing
  <2>3. IsSource(r) /\ (r.off => ~r.enabled)
    BY <1>1, <2>1 DEF IsSource
  <2> QED
    BY <1>1, <2>2, <2>3, SourceReplaced
<1>5. CASE K!ProcessNow(s)
  <2>1. PICK fails \in BOOLEAN : kb' = [kb EXCEPT ![s] = K!Processed(@, fails)]
    BY <1>5 DEF K!ProcessNow
  <2>2. PICK r : r = K!Processed(kb[s], fails)
    OBVIOUS
  <2>3. kb' = [kb EXCEPT ![s] = r] /\ UNCHANGED <<atts, turns, file, snap, ev>>
    BY <1>5, <2>1, <2>2 DEF K!ProcessNow
  <2>4. IsSource(r) /\ (r.off => ~r.enabled)
    BY <1>1, <2>2, ProcessedSource DEF K!Processed
  <2> QED
    BY <1>1, <2>3, <2>4, SourceReplaced
<1>6. CASE K!Activate(s)
  <2>1. PICK r : r = IF kb[s].indexed # 0 /\ kb[s].count # 0
                     THEN [kb[s] EXCEPT !.enabled = TRUE, !.state = "active", !.off = FALSE]
                     ELSE kb[s]
    OBVIOUS
  <2>2. kb' = [kb EXCEPT ![s] = r] /\ UNCHANGED <<atts, turns, file, snap, ev>>
    BY <1>6, <2>1 DEF K!Activate
  <2>3. IsSource(r) /\ (r.off => ~r.enabled)
    BY <1>1, <2>1 DEF IsSource
  <2> QED
    BY <1>1, <2>2, <2>3, SourceReplaced
<1>7. CASE K!Disable(s)
  <2>1. PICK st : st = IF kb[s].indexed # 0 THEN "indexed" ELSE kb[s].state
    OBVIOUS
  <2>2. PICK r : r = [kb[s] EXCEPT !.enabled = FALSE, !.off = TRUE, !.state = st]
    OBVIOUS
  <2>3. kb' = [kb EXCEPT ![s] = r]
    BY <1>1, <1>7, <2>1, <2>2 DEF K!Disable
  <2>4. IsSource(r) /\ (r.off => ~r.enabled)
    BY <1>1, <2>2 DEF IsSource
  <2>5. UNCHANGED <<atts, turns, file, snap, ev>>
    BY <1>7 DEF K!Disable
  <2> QED
    BY <1>1, <2>3, <2>4, <2>5, SourceReplaced
<1> QED
  BY <1>2, <1>3, <1>4, <1>5, <1>6, <1>7

\* The cron job.
LEMMA CronStep ==
    ASSUME KnowledgeInv, K!CronProcess
    PROVE  /\ SourcesInv(kb') /\ AttachmentsInv(atts') /\ UNCHANGED <<snap, ev>>
           /\ \A a \in Attachments : atts'[a].turn = atts[a].turn
                                     /\ atts'[a].sources = atts[a].sources
<1> DEFINE pending == {s \in Sources : kb[s].state = "uploaded"}
           batch == {s \in pending : K!Cardinality({t \in pending : t < s}) < 2}
<1>1. PICK bad \in SUBSET batch :
         kb' = [s \in Sources |-> IF s \in batch THEN K!Processed(kb[s], s \in bad) ELSE kb[s]]
  BY DEF K!CronProcess
<1> HIDE DEF batch
<1>2. SourcesInv(kb')
  <2>1. ASSUME NEW s \in Sources PROVE IsSource(kb'[s]) /\ (kb'[s].off => ~kb'[s].enabled)
    <3>1. IsSource(kb[s]) /\ (kb[s].off => ~kb[s].enabled)
      BY DEF KnowledgeInv, SourcesInv
    <3>2. kb'[s] = IF s \in batch THEN K!Processed(kb[s], s \in bad) ELSE kb[s]
      BY <1>1
    <3> QED
      BY <3>1, <3>2, ProcessedSource DEF K!Processed
  <2>2. kb' = [s \in Sources |-> kb'[s]]
    BY <1>1
  <2> QED
    BY <2>1, <2>2 DEF SourcesInv
<1>3. atts' = [a \in Attachments |->
                 IF atts[a].there /\ atts[a].expired THEN [atts[a] EXCEPT !.there = FALSE]
                 ELSE atts[a]]
  BY DEF K!CronProcess
<1>4. ASSUME NEW a \in Attachments
      PROVE  IsAttachment(atts'[a]) /\ atts'[a].turn = atts[a].turn
             /\ atts'[a].sources = atts[a].sources
  <2>1. IsAttachment(atts[a])
    BY DEF KnowledgeInv, AttachmentsInv
  <2> QED
    BY <1>3, <2>1 DEF IsAttachment
<1>5. AttachmentsInv(atts')
  BY <1>3, <1>4 DEF AttachmentsInv
<1> QED
  BY <1>2, <1>4, <1>5 DEF K!CronProcess

\* The steps on attachments.
LEMMA AttachmentReplaced ==
    ASSUME AttachmentsInv(atts), NEW a \in Attachments, NEW r, IsAttachment(r),
           atts' = [atts EXCEPT ![a] = r],
           r.turn = atts[a].turn, r.sources = atts[a].sources \/ atts[a].sources = {}
    PROVE  /\ AttachmentsInv(atts')
           /\ \A b \in Attachments :
                 /\ atts'[b].turn = atts[b].turn
                 /\ atts[b].sources # {} => atts'[b].sources = atts[b].sources
BY DEF AttachmentsInv

LEMMA AttachmentSteps ==
    ASSUME KnowledgeInv, NEW a \in Attachments, K!UploadAttachment(a) \/ K!Expire(a)
    PROVE  /\ AttachmentsInv(atts') /\ UNCHANGED <<kb, snap, ev>>
           /\ \A b \in Attachments :
                 /\ atts'[b].turn = atts[b].turn
                 /\ atts[b].sources # {} => atts'[b].sources = atts[b].sources
<1>1. AttachmentsInv(atts) /\ atts = [b \in Attachments |-> atts[b]] /\ IsAttachment(atts[a])
  BY DEF KnowledgeInv, AttachmentsInv
<1>2. CASE K!UploadAttachment(a)
  <2>1. PICK r : r = [atts[a] EXCEPT !.there = TRUE, !.seen = TRUE]
    OBVIOUS
  <2>2. atts' = [atts EXCEPT ![a] = r]
    BY <1>1, <1>2, <2>1 DEF K!UploadAttachment
  <2>3. IsAttachment(r) /\ r.turn = atts[a].turn /\ r.sources = atts[a].sources
    BY <1>1, <2>1 DEF IsAttachment
  <2>4. UNCHANGED <<kb, snap, ev>>
    BY <1>2 DEF K!UploadAttachment
  <2> QED
    BY <1>1, <2>2, <2>3, <2>4, AttachmentReplaced
<1>3. CASE K!Expire(a)
  <2>1. PICK r : r = [atts[a] EXCEPT !.expired = TRUE]
    OBVIOUS
  <2>2. atts' = [atts EXCEPT ![a] = r]
    BY <1>1, <1>3, <2>1 DEF K!Expire
  <2>3. IsAttachment(r) /\ r.turn = atts[a].turn /\ r.sources = atts[a].sources
    BY <1>1, <2>1 DEF IsAttachment
  <2>4. UNCHANGED <<kb, snap, ev>>
    BY <1>3 DEF K!Expire
  <2> QED
    BY <1>1, <2>2, <2>3, <2>4, AttachmentReplaced
<1> QED
  BY <1>2, <1>3

LEMMA EnqueueStep ==
    ASSUME KnowledgeInv, NEW k \in Keys, NEW as \in SUBSET Attachments, K!Enqueue(k, as)
    PROVE  /\ AttachmentsInv(atts') /\ UNCHANGED <<kb, snap, ev>>
           /\ \A b \in Attachments :
                 /\ atts[b].turn # "none" => atts'[b].turn = atts[b].turn
                 /\ atts'[b].sources = atts[b].sources
<1>1. AttachmentsInv(atts) /\ UNCHANGED <<kb, snap, ev>>
  BY DEF KnowledgeInv, K!Enqueue
<1>2. CASE K!BoundIn(as) # {}
  BY <1>1, <1>2 DEF K!Enqueue
<1>3. CASE K!BoundIn(as) = {}
  <2>1. atts' = [a \in Attachments |->
                   IF a \in as THEN [atts[a] EXCEPT !.turn = k] ELSE atts[a]]
    BY <1>3 DEF K!Enqueue
  <2>2. \A a \in as : atts[a].turn = "none"
    BY <1>3 DEF K!BoundIn
  <2>3. ASSUME NEW b \in Attachments
        PROVE  /\ IsAttachment(atts'[b]) /\ atts'[b].sources = atts[b].sources
               /\ atts[b].turn # "none" => atts'[b].turn = atts[b].turn
    <3>1. IsAttachment(atts[b])
      BY <1>1 DEF AttachmentsInv
    <3>2. CASE b \in as
      <4>1. atts'[b] = [atts[b] EXCEPT !.turn = k]
        BY <2>1, <3>2
      <4> QED
        BY <2>2, <3>1, <3>2, <4>1 DEF IsAttachment
    <3>3. CASE b \notin as
      BY <2>1, <3>1, <3>3
    <3> QED
      BY <3>2, <3>3
  <2>4. AttachmentsInv(atts')
    BY <2>1, <2>3 DEF AttachmentsInv
  <2> QED
    BY <1>1, <2>3, <2>4
<1> QED
  BY <1>2, <1>3

LEMMA IngestStep ==
    ASSUME KnowledgeInv, NEW k \in Keys, NEW a \in Attachments, K!Ingest(k, a)
    PROVE  /\ SourcesInv(kb') /\ AttachmentsInv(atts') /\ UNCHANGED <<snap, ev>>
           /\ \A b \in Attachments :
                 /\ atts'[b].turn = atts[b].turn
                 /\ atts[b].sources # {} => atts'[b].sources = atts[b].sources
<1>1. PICK s \in Sources :
         /\ kb' = [kb EXCEPT ![s] = [K!NoSource EXCEPT !.state = "uploaded",
                                                       !.content = K!NewDocument]]
         /\ atts' = [atts EXCEPT ![a].sources = {s}]
  BY DEF K!Ingest
<1>2. /\ SourcesInv(kb) /\ AttachmentsInv(atts) /\ IsAttachment(atts[a])
      /\ atts = [b \in Attachments |-> atts[b]]
  BY DEF KnowledgeInv, AttachmentsInv
<1>3. SourcesInv(kb')
  <2>1. PICK r : r = [K!NoSource EXCEPT !.state = "uploaded", !.content = K!NewDocument]
    OBVIOUS
  <2>2. kb' = [kb EXCEPT ![s] = r]
    BY <1>1, <2>1
  <2> QED
    BY <1>2, <2>1, <2>2, NewSource, SourceReplaced
<1>4. PICK r : r = [atts[a] EXCEPT !.sources = {s}]
  OBVIOUS
<1>5. IsAttachment(r) /\ r.turn = atts[a].turn
  BY <1>2, <1>4 DEF IsAttachment
<1>6. atts' = [atts EXCEPT ![a] = r]
  BY <1>1, <1>2, <1>4
<1>7. atts[a].sources = {} /\ UNCHANGED <<snap, ev>>
  BY DEF K!Ingest
<1> QED
  BY <1>2, <1>3, <1>5, <1>6, <1>7, AttachmentReplaced

\* What the providers offer.
LEMMA FoundRefs ==
    ASSUME NEW k \in Keys, NEW refs \in K!Found(k), NEW r \in refs
    PROVE  IsRef(r)
<1>1. r \in K!KnowledgeRefs \union K!AttachmentRefs(k) \union K!LogRefs
  BY DEF K!Found
<1>2. CASE r \in K!KnowledgeRefs
  <2>1. PICK s \in Sources : r = [id |-> <<"knowledge", s, snap.kb[s].version>>,
                                  fp |-> snap.kb[s].rows]
    BY <1>2 DEF K!KnowledgeRefs
  <2>2. r.id = <<"knowledge", s, snap.kb[s].version>>
    BY <2>1
  <2> QED
    BY <2>2 DEF IsRef
<1>3. CASE r \in K!AttachmentRefs(k)
  <2>1. PICK a \in Attachments : r = [id |-> <<"attachment", a, 0>>, fp |-> 0]
    BY <1>3 DEF K!AttachmentRefs
  <2>2. r.id = <<"attachment", a, 0>>
    BY <2>1
  <2> QED
    BY <2>2 DEF IsRef
<1>4. CASE r \in K!LogRefs
  <2>1. r.id = <<"log", 0, 0>>
    BY <1>4 DEF K!LogRefs
  <2> QED
    BY <2>1 DEF IsRef
<1> QED
  BY <1>1, <1>2, <1>3, <1>4

\* What a fetch gives as current.
LEMMA FetchedHolds ==
    ASSUME SourcesInv(snap.kb), NEW r, IsRef(r), NEW i, i = K!Fetched(r), i.fresh = "current"
    PROVE  /\ i.id = r.id /\ i.text = r.fp
           /\ i.id[1] = "knowledge" => ~snap.kb[i.id[2]].off
<1>1. CASE r.id[1] = "knowledge"
  <2>1. PICK n : n = K!KnowledgeItem(r)
    OBVIOUS
  <2>2. i = IF n.fp # r.fp /\ n.fresh = "current" THEN [n EXCEPT !.fresh = "stale"] ELSE n
    BY <1>1, <2>1 DEF K!Fetched
  <2>3. PICK s : s = snap.kb[r.id[2]]
    OBVIOUS
  <2>4. s.off => ~s.enabled
    BY <1>1, <2>3 DEF SourcesInv, IsRef
  <2>5. CASE ~s.enabled
    <3>1. n = [id |-> r.id, fp |-> r.fp, fresh |-> "revoked", text |-> 0]
      BY <2>1, <2>3, <2>5 DEF K!KnowledgeItem
    <3> QED
      BY <2>2, <3>1
  <2>6. CASE s.enabled /\ (s.state # "active" \/ s.version # r.id[3] \/ s.rows # r.fp)
    <3>1. n = [id |-> r.id, fp |-> r.fp, fresh |-> "stale", text |-> 0]
      BY <2>1, <2>3, <2>6 DEF K!KnowledgeItem
    <3> QED
      BY <2>2, <3>1
  <2>7. CASE s.enabled /\ ~(s.state # "active" \/ s.version # r.id[3] \/ s.rows # r.fp)
    <3>1. n = [id |-> r.id, fp |-> s.rows, fresh |-> "current", text |-> s.rows]
      BY <2>1, <2>3, <2>7 DEF K!KnowledgeItem
    <3>2. i = n /\ i.id = r.id /\ i.text = r.fp
      BY <2>2, <2>7, <3>1
    <3> QED
      BY <2>3, <2>4, <2>7, <3>2
  <2> QED
    BY <2>5, <2>6, <2>7
<1>2. CASE r.id[1] = "attachment"
  <2>1. PICK n : n = K!AttachmentItem(r)
    OBVIOUS
  <2>2. n = [id |-> r.id, fp |-> r.fp, fresh |-> "current", text |-> r.fp]
    BY <2>1 DEF K!AttachmentItem
  <2>3. i = IF n.fp # r.fp /\ n.fresh = "current" THEN [n EXCEPT !.fresh = "stale"] ELSE n
    BY <1>2, <2>1 DEF K!Fetched
  <2>4. i = n
    BY <2>2, <2>3
  <2> QED
    BY <1>2, <2>2, <2>4
<1>3. CASE r.id[1] = "log"
  <2>1. PICK n : n = K!LogItem(r)
    OBVIOUS
  <2>2. PICK fr : fr = IF file = r.fp THEN "current" ELSE "stale"
    OBVIOUS
  <2>3. n = [id |-> r.id, fp |-> file, text |-> file, fresh |-> fr]
    BY <2>1, <2>2 DEF K!LogItem
  <2>4. i = IF n.fp # r.fp /\ n.fresh = "current" THEN [n EXCEPT !.fresh = "stale"] ELSE n
    BY <1>3, <2>1 DEF K!Fetched
  <2>5. CASE file = r.fp
    <3>1. i = n
      BY <2>2, <2>3, <2>4, <2>5
    <3> QED
      BY <1>3, <2>3, <2>5, <3>1
  <2>6. CASE file # r.fp
    <3>1. i = n /\ n.fresh = "stale"
      BY <2>2, <2>3, <2>4, <2>6
    <3> QED
      BY <3>1
  <2> QED
    BY <2>5, <2>6
<1> QED
  BY <1>1, <1>2, <1>3 DEF IsRef

\* A collection that starts, or ends, has no items.
LEMMA NoItems ==
    ASSUME CollectionInv(ev'), ev'.col.items = {}, SourcesInv(kb), AttachmentsInv(atts),
           SourcesInv(snap.kb), UNCHANGED <<kb, atts, snap>>
    PROVE  KnowledgeInv'
<1>1. K!EvidenceHolds'
  BY DEF K!EvidenceHolds
<1> QED
  BY <1>1 DEF KnowledgeInv

LEMMA SearchStep ==
    ASSUME KnowledgeInv, NEW k \in Keys, K!Search(k)
    PROVE  KnowledgeInv' /\ UNCHANGED atts
<1>1. UNCHANGED <<kb, atts, turns, file, snap>> /\ SourcesInv(kb) /\ AttachmentsInv(atts)
      /\ SourcesInv(snap.kb)
  BY DEF K!Search, KnowledgeInv
<1>2. ev = [col |-> ev.col, refs |-> ev.refs, texts |-> ev.texts]
  BY DEF KnowledgeInv, CollectionInv
<1>3. CASE ev' = [ev EXCEPT !.col = [K!NoCollection EXCEPT !.pc = "failed"]]
  <2>1. PICK c : c = [K!NoCollection EXCEPT !.pc = "failed"]
    OBVIOUS
  <2>2. c = [pc |-> "failed", refs |-> {}, todo |-> {}, items |-> {}]
    BY <2>1 DEF K!NoCollection
  <2>3. ev' = [col |-> c, refs |-> ev.refs, texts |-> ev.texts]
    BY <1>2, <1>3, <2>1
  <2>4. CollectionInv(ev') /\ ev'.col.items = {}
    BY <2>2, <2>3 DEF CollectionInv
  <2> QED
    BY <1>1, <2>4, NoItems
<1>4. ASSUME NEW refs \in K!Found(k), NEW todo \in SUBSET refs, NEW m,
             ev' = [ev EXCEPT !.col = [pc |-> "fetch", refs |-> refs, todo |-> todo,
                                       items |-> {}], !.refs = m]
      PROVE  KnowledgeInv' /\ UNCHANGED atts
  <2>1. PICK c : c = [pc |-> "fetch", refs |-> refs, todo |-> todo, items |-> {}]
    OBVIOUS
  <2>2. ev' = [col |-> c, refs |-> m, texts |-> ev.texts]
    BY <1>2, <1>4, <2>1
  <2>3. \A r \in refs : IsRef(r)
    BY FoundRefs
  <2>4. CollectionInv(ev') /\ ev'.col.items = {}
    BY <2>1, <2>2, <2>3 DEF CollectionInv
  <2> QED
    BY <1>1, <2>4, NoItems
<1>5. \E refs \in K!Found(k) : \E todo \in SUBSET refs :
         \/ ev' = [ev EXCEPT !.col = [K!NoCollection EXCEPT !.pc = "failed"]]
         \/ LET ids == {r.id : r \in refs} IN
            ev' = [ev EXCEPT !.col = [pc |-> "fetch", refs |-> refs, todo |-> todo,
                                      items |-> {}],
                             !.refs = [i \in DOMAIN @ \union ids |->
                                          IF i \in ids THEN (CHOOSE r \in refs : r.id = i).fp
                                          ELSE @[i]]]
  BY DEF K!Search
<1> QED
  BY <1>3, <1>4, <1>5

LEMMA FetchStep ==
    ASSUME KnowledgeInv, K!Fetch
    PROVE  KnowledgeInv' /\ UNCHANGED atts
<1>1. UNCHANGED <<kb, atts, snap>> /\ SourcesInv(kb) /\ AttachmentsInv(atts)
      /\ SourcesInv(snap.kb) /\ ev.col.pc = "fetch" /\ CollectionInv(ev)
  BY DEF K!Fetch, KnowledgeInv
<1>2. PICK c : c = ev.col
  OBVIOUS
<1>3. /\ ev = [col |-> c, refs |-> ev.refs, texts |-> ev.texts]
      /\ c = [pc |-> "fetch", refs |-> c.refs, todo |-> c.todo, items |-> c.items]
      /\ c.todo \subseteq c.refs /\ \A r \in c.refs : IsRef(r)
  BY <1>1, <1>2 DEF CollectionInv
<1>4. ASSUME NEW r \in c.todo, NEW its, NEW rf, NEW tx,
             its = c.items \/ its = c.items \union {K!Fetched(r)},
             ev' = [col |-> [pc |-> "fetch", refs |-> c.refs, todo |-> c.todo \ {r},
                             items |-> its], refs |-> rf, texts |-> tx]
      PROVE  KnowledgeInv' /\ UNCHANGED atts
  <2>1. PICK d : d = [pc |-> "fetch", refs |-> c.refs, todo |-> c.todo \ {r}, items |-> its]
    OBVIOUS
  <2>2. ev' = [col |-> d, refs |-> rf, texts |-> tx]
    BY <1>4, <2>1
  <2>3. CollectionInv(ev')
    BY <1>3, <2>1, <2>2 DEF CollectionInv
  <2>4. ev'.col.items = its /\ ev'.col.refs = c.refs
    BY <2>1, <2>2
  <2>5. ASSUME NEW i \in its, i.fresh = "current"
        PROVE  /\ \E q \in c.refs : q.id = i.id /\ q.fp = i.text
               /\ i.id[1] = "knowledge" => ~snap.kb[i.id[2]].off
    <3>1. CASE i \in c.items
      BY <1>2, <2>5, <3>1 DEF KnowledgeInv, K!EvidenceHolds
    <3>2. CASE i = K!Fetched(r)
      <4>1. IsRef(r) /\ r \in c.refs
        BY <1>3, <1>4
      <4>2. /\ i.id = r.id /\ i.text = r.fp
            /\ i.id[1] = "knowledge" => ~snap.kb[i.id[2]].off
        BY <1>1, <2>5, <3>2, <4>1, FetchedHolds
      <4> QED
        BY <4>1, <4>2
    <3> QED
      BY <1>4, <2>5, <3>1, <3>2
  <2>6. K!EvidenceHolds'
    BY <1>1, <2>4, <2>5 DEF K!EvidenceHolds
  <2> QED
    BY <1>1, <2>3, <2>6 DEF KnowledgeInv
<1>5. PICK r \in ev.col.todo :
         LET i == K!Fetched(r)
             rest == [ev EXCEPT !.col.todo = @ \ {r}] IN
         \/ ev' = [rest EXCEPT !.col.items = @ \union {i},
                               !.refs = K!Known(@, i.id, i.fp), !.texts = K!Known(@, i.id, i.text)]
         \/ ev' = rest
  BY DEF K!Fetch
<1>6. PICK rest : rest = [ev EXCEPT !.col.todo = @ \ {r}]
  OBVIOUS
<1>7. rest = [col |-> [pc |-> "fetch", refs |-> c.refs, todo |-> c.todo \ {r},
                       items |-> c.items], refs |-> ev.refs, texts |-> ev.texts]
  <2>1. PICK d : d = [c EXCEPT !.todo = c.todo \ {r}]
    OBVIOUS
  <2>2. d = [pc |-> "fetch", refs |-> c.refs, todo |-> c.todo \ {r}, items |-> c.items]
    BY <1>3, <2>1
  <2>3. rest = [ev EXCEPT !.col = d]
    BY <1>2, <1>3, <1>6, <2>1
  <2>4. rest = [col |-> d, refs |-> ev.refs, texts |-> ev.texts]
    BY <1>3, <2>3
  <2> QED
    BY <2>2, <2>4
<1>8. r \in c.todo
  BY <1>2
<1>9. CASE ev' = rest
  BY <1>4, <1>7, <1>8, <1>9
<1>10. CASE ev' # rest
  <2>1. PICK i : i = K!Fetched(r)
    OBVIOUS
  <2>2. PICK rf, tx : ev' = [rest EXCEPT !.col.items = @ \union {i}, !.refs = rf, !.texts = tx]
    BY <1>5, <1>6, <1>10, <2>1
  <2>3. ev' = [col |-> [pc |-> "fetch", refs |-> c.refs, todo |-> c.todo \ {r},
                        items |-> c.items \union {i}], refs |-> rf, texts |-> tx]
    BY <1>7, <2>2
  <2> QED
    BY <1>4, <1>8, <2>1, <2>3
<1> QED
  BY <1>9, <1>10

LEMMA DecideStep ==
    ASSUME KnowledgeInv, K!Decide
    PROVE  KnowledgeInv' /\ UNCHANGED atts
<1>1. UNCHANGED <<kb, atts, snap>> /\ SourcesInv(kb) /\ AttachmentsInv(atts)
      /\ SourcesInv(snap.kb) /\ ev' = [ev EXCEPT !.col = K!NoCollection]
  BY DEF K!Decide, KnowledgeInv
<1>2. ev = [col |-> ev.col, refs |-> ev.refs, texts |-> ev.texts]
  BY DEF KnowledgeInv, CollectionInv
<1>3. PICK c : c = K!NoCollection
  OBVIOUS
<1>4. c = [pc |-> "idle", refs |-> {}, todo |-> {}, items |-> {}]
  BY <1>3 DEF K!NoCollection
<1>5. ev' = [col |-> c, refs |-> ev.refs, texts |-> ev.texts]
  BY <1>1, <1>2, <1>3
<1>6. CollectionInv(ev') /\ ev'.col.items = {}
  BY <1>4, <1>5 DEF CollectionInv
<1> QED
  BY <1>1, <1>6, NoItems

LEMMA CommitStep ==
    ASSUME KnowledgeInv, K!Commit
    PROVE  KnowledgeInv' /\ UNCHANGED atts
<1>1. UNCHANGED <<kb, atts, ev>> /\ ev.col.pc = "idle" /\ snap' = [kb |-> kb, atts |-> atts]
  BY DEF K!Commit
<1>2. ev'.col.items = {} /\ CollectionInv(ev')
  BY <1>1 DEF KnowledgeInv, CollectionInv
<1>3. snap'.kb = kb
  BY <1>1
<1>4. SourcesInv(snap'.kb) /\ SourcesInv(kb') /\ AttachmentsInv(atts')
  BY <1>1, <1>3 DEF KnowledgeInv
<1>5. K!EvidenceHolds'
  BY <1>2 DEF K!EvidenceHolds
<1> QED
  BY <1>1, <1>2, <1>4, <1>5 DEF KnowledgeInv

\* Requests and the cron job touch nothing that the worker reads before its next commit.
LEMMA TablesStep ==
    ASSUME KnowledgeInv, SourcesInv(kb'), AttachmentsInv(atts'), UNCHANGED <<snap, ev>>
    PROVE  KnowledgeInv'
BY DEF KnowledgeInv, K!EvidenceHolds

\* What a step does to the attachments.
UsedOnce ==
    \A a \in Attachments :
        /\ atts[a].turn # "none" => atts'[a].turn = atts[a].turn
        /\ atts[a].sources # {} => atts'[a].sources = atts[a].sources

LEMMA KnowledgeNext ==
    ASSUME KnowledgeInv, [K!Next]_K!vars
    PROVE  KnowledgeInv' /\ UsedOnce
<1>1. SourcesInv(kb) /\ AttachmentsInv(atts)
  BY DEF KnowledgeInv
<1>2. CASE UNCHANGED K!vars
  BY <1>2, <1>1, TablesStep DEF K!vars, UsedOnce
<1>3. ASSUME NEW s \in Sources,
             \/ K!CreateSource(s) \/ K!WriteSource(s) \/ K!QueueProcessing(s)
             \/ K!ProcessNow(s) \/ K!Activate(s) \/ K!Disable(s)
      PROVE  KnowledgeInv' /\ UsedOnce
  <2>1. SourcesInv(kb') /\ UNCHANGED <<atts, turns, file, snap, ev>>
    BY <1>3, SourceSteps
  <2> QED
    BY <1>1, <2>1, TablesStep DEF UsedOnce
<1>4. CASE K!CronProcess
  BY <1>4, CronStep, TablesStep DEF UsedOnce
<1>5. ASSUME NEW a \in Attachments, K!UploadAttachment(a) \/ K!Expire(a)
      PROVE  KnowledgeInv' /\ UsedOnce
  BY <1>1, <1>5, AttachmentSteps, TablesStep DEF UsedOnce
<1>6. ASSUME NEW k \in Keys, NEW as \in SUBSET Attachments, K!Enqueue(k, as)
      PROVE  KnowledgeInv' /\ UsedOnce
  BY <1>1, <1>6, EnqueueStep, TablesStep DEF UsedOnce
<1>7. ASSUME NEW k \in Keys, NEW a \in Attachments, K!Ingest(k, a)
      PROVE  KnowledgeInv' /\ UsedOnce
  BY <1>7, IngestStep, TablesStep DEF UsedOnce
<1>8. CASE K!Commit
  BY <1>8, CommitStep DEF UsedOnce
<1>9. CASE K!FileChanges
  BY <1>1, <1>9, TablesStep DEF K!FileChanges, UsedOnce
<1>10. ASSUME NEW k \in Keys, K!Search(k)
       PROVE  KnowledgeInv' /\ UsedOnce
  BY <1>10, SearchStep DEF UsedOnce
<1>11. CASE K!Fetch
  BY <1>11, FetchStep DEF UsedOnce
<1>12. CASE K!Decide
  BY <1>12, DecideStep DEF UsedOnce
<1> QED
  BY <1>2, <1>3, <1>4, <1>5, <1>6, <1>7, <1>8, <1>9, <1>10, <1>11, <1>12 DEF K!Next

LEMMA KnowledgeInit == K!Init => KnowledgeInv
<1> SUFFICES ASSUME K!Init PROVE KnowledgeInv
  OBVIOUS
<1>1. PICK n : n = K!NoSource
  OBVIOUS
<1>2. IsSource(n) /\ n.off = FALSE
  <2>1. n.enabled = TRUE /\ n.off = FALSE
    BY <1>1 DEF K!NoSource
  <2>2. n = [state |-> n.state, enabled |-> n.enabled, content |-> n.content,
             indexed |-> n.indexed, version |-> n.version, count |-> n.count, rows |-> n.rows,
             off |-> n.off]
    BY <1>1 DEF K!NoSource
  <2> QED
    BY <2>1, <2>2 DEF IsSource
<1>3. kb = [s \in Sources |-> n] /\ snap.kb = kb
  BY <1>1 DEF K!Init
<1>4. SourcesInv(kb) /\ SourcesInv(snap.kb)
  BY <1>2, <1>3 DEF SourcesInv
<1>5. PICK m : m = K!NoAttachment
  OBVIOUS
<1>6. IsAttachment(m)
  BY <1>5 DEF IsAttachment, K!NoAttachment
<1>7. atts = [a \in Attachments |-> m]
  BY <1>5 DEF K!Init
<1>8. AttachmentsInv(atts)
  BY <1>6, <1>7 DEF AttachmentsInv
<1>9. PICK c : c = K!NoCollection
  OBVIOUS
<1>10. c = [pc |-> "idle", refs |-> {}, todo |-> {}, items |-> {}]
  BY <1>9 DEF K!NoCollection
<1>11. ev = [col |-> c, refs |-> <<>>, texts |-> <<>>]
  BY <1>9 DEF K!Init
<1>12. CollectionInv(ev) /\ ev.col.items = {}
  BY <1>10, <1>11 DEF CollectionInv
<1>13. K!EvidenceHolds
  BY <1>12 DEF K!EvidenceHolds
<1> QED
  BY <1>4, <1>8, <1>12, <1>13 DEF KnowledgeInv

LEMMA KnowledgeInvariant == K!Spec => []KnowledgeInv
<1>1. KnowledgeInv /\ [K!Next]_K!vars => KnowledgeInv'
  BY KnowledgeNext
<1> QED
  BY <1>1, KnowledgeInit, PTL DEF K!Spec

\* What the evidence engine gives a decision as current is the text that its reference names,
\* and none of it is from a source that was switched off at the worker's last commit.
THEOREM EvidenceCanBeQuoted == K!Spec => []EvidenceHolds
<1>1. KnowledgeInv => EvidenceHolds
  BY DEF KnowledgeInv, EvidenceHolds
<1> QED
  BY <1>1, KnowledgeInvariant, PTL

\* A file that enqueue_for_current_user bound to a turn stays with it, and ingest_attachment
\* makes one source of it at most.
THEOREM AttachmentsAreUsedOnce == K!Spec => AttachmentUsedOnce
<1>1. KnowledgeInv /\ [K!Next]_K!vars => UsedOnce
  BY KnowledgeNext
<1> QED
  BY <1>1, KnowledgeInvariant, PTL DEF K!Spec, AttachmentUsedOnce, K!AttachmentUsedOnce, UsedOnce
=============================================================================
