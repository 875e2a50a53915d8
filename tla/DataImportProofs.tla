-------------------------- MODULE DataImportProofs --------------------------
(***************************************************************************)
(* Proofs about DataImport, for any files, chunk sizes, workers, repairs   *)
(* and crashes.                                                            *)
(*                                                                         *)
(* Fit is what holds of a committed session together with its receipts and *)
(* the records that were imported for it.  Importing, rejecting, failing   *)
(* and repairing are shown to keep it as functions of the row alone; the   *)
(* rest of the invariant says why each of them is applied to the committed *)
(* row and to no other: a worker holds the lock of a queued session, and a *)
(* repair that may still commit is one whose session has not moved.        *)
(***************************************************************************)
EXTENDS DataImport, FiniteSetTheorems, SequenceTheorems, TLAPS

CellValues == Cells \union {"none"}

SessionRow ==
    [state : {"absent", "queued", "completed", "partial", "failed"}, next : Nat, imported : Nat,
     failed : Nat, corrected : Nat, chunks : Nat, planned : Nat, revision : Nat,
     staged : Seq(CellValues), changed : SUBSET Nat,
     error : {"none", "chunk_rejected", "processing_failed"}]

ReceiptRow == [sequence : Nat, start : Nat, end : Nat, state : {"completed", "rejected"}]

Fixes == UNION {[D -> Cells] : D \in SUBSET Nat}

\* The chunk numbers left are those the rows need, as a fact about one row.
PlanFits(r, row) ==
    LET rows == Total(row) - row.next IN
    (row.planned - row.chunks) * ChunkOf[r] \in rows .. rows + ChunkOf[r] - 1

\* The last receipt is the rejection that the failed rows are counted for.
Rejected(row, chunks) ==
    /\ row.state \in {"partial", "failed"}
    /\ Len(chunks) > 0
    /\ LastReceipt(chunks).state = "rejected"
    /\ LastReceipt(chunks).start = row.next + 1
    /\ LastReceipt(chunks).end <= Total(row)
    /\ row.failed = Input(LastReceipt(chunks))

\* A committed session, its receipts and the records imported for it.
Fit(r, row, chunks, done) ==
    /\ row \in SessionRow /\ chunks \in Seq(ReceiptRow) /\ done \in Seq(CellValues)
    /\ row.next <= Total(row)
    /\ row.changed \subseteq 1..Total(row)
    /\ done = SubSeq(row.staged, 1, row.next)
    /\ row.chunks = Len(chunks)
    /\ \A i \in DOMAIN chunks : chunks[i].sequence = i /\ chunks[i].start <= chunks[i].end
    /\ Tiled(chunks, row.next)
    /\ row.imported = row.next
    /\ row.failed > 0 => Rejected(row, chunks)
    /\ row.state = "completed" => row.next = Total(row)
    /\ row.state = "queued" => (row.failed = 0 /\ PlanFits(r, row))
    /\ row.corrected = Cardinality({i \in row.changed : i <= row.next})

\* What a transaction that has processed a chunk of row will commit.
Result(r, row, new, chunk, rows) ==
    LET n == ChunkInput(r, row) IN
    \/ /\ n > 0
       /\ new = AfterImport(r, row)
       /\ chunk = <<Receipt(row, row.chunks + 1, n, "completed")>>
       /\ rows = SubSeq(row.staged, row.next + 1, row.next + n)
    \/ /\ n > 0
       /\ new = AfterRejection(r, row)
       /\ chunk = <<Receipt(row, row.chunks + 1, n, "rejected")>>
       /\ rows = << >>
    \/ /\ new = [row EXCEPT !.state = "failed", !.error = "processing_failed"]
       /\ chunk = << >> /\ rows = << >>

WorkerRow == [pc : {"idle", "claimed", "processed"}, request : Requests \union {"none"},
              row : SessionRow, receipts : Seq(ReceiptRow), rows : Seq(CellValues)]

PlanRow == [pc : {"none", "approved", "writing", "refused", "done"}, request : Requests \union {"none"},
            fixes : Fixes \union {<< >>},
            print : (Nat \X Nat \X Seq(CellValues) \X Fixes) \union {<< >>}, row : SessionRow]

TypeOK ==
    /\ session \in [Requests -> SessionRow]
    /\ receipts \in [Requests -> Seq(ReceiptRow)]
    /\ imported \in [Requests -> Seq(CellValues)]
    /\ order \in Seq(Requests)
    /\ open \subseteq Requests
    /\ worker \in [Workers -> WorkerRow]
    /\ plan \in [Plans -> PlanRow]

\* A session that was never created, or is gone for good.
Gone(r) == receipts[r] = << >> /\ (r \in open => imported[r] = << >>)

SessionInv ==
    \A r \in Requests :
        /\ Live(r) => Fit(r, session[r], receipts[r], imported[r])
        /\ ~Live(r) => Gone(r)

\* A worker's transaction is about the committed row of a queued session.
WorkerInv ==
    \A w \in Workers :
        LET t == worker[w] IN
        /\ t.pc = "idle" <=> t.request = "none"
        /\ t.pc # "idle" => session[t.request].state = "queued"
        /\ t.pc = "claimed" => t.row = session[t.request]
        /\ t.pc = "processed" =>
            Result(t.request, session[t.request], t.row, t.receipts, t.rows)

\* No two transactions hold one session.
LockInv ==
    \A v, w \in Workers : (worker[v].request = worker[w].request /\ worker[v].request # "none") => v = w

\* The corrections of a repair lie in the window of the receipt its approval saw.
InWindow(p) ==
    LET r == plan[p].request n == plan[p].print[2] IN
    /\ n \in 1..Len(receipts[r])
    /\ \A i \in DOMAIN plan[p].fixes : receipts[r][n].start <= i /\ i <= receipts[r][n].end

\* A repair that has read its session: the session has not moved, or has been repaired since.
RepairInv(p) ==
    LET r == plan[p].request IN
    /\ plan[p].row.state \in {"partial", "failed"}
    /\ Live(r) =>
        \/ session[r].revision > plan[p].row.revision
        \/ /\ session[r] = plan[p].row
           /\ session[r].failed > 0
           /\ plan[p].print[2] = Len(receipts[r])
           /\ plan[p].print[3] = session[r].staged

PlanInv ==
    \A p \in Plans : plan[p].pc \in {"approved", "writing"} =>
        /\ plan[p].request \in Requests
        /\ plan[p].fixes \in Fixes
        /\ plan[p].print \in Nat \X Nat \X Seq(CellValues) \X Fixes
        /\ plan[p].request \in open => Live(plan[p].request)
        /\ Live(plan[p].request) => InWindow(p)
        /\ plan[p].pc = "writing" => RepairInv(p)

ImportInv == TypeOK /\ SessionInv /\ WorkerInv /\ LockInv /\ PlanInv

-----------------------------------------------------------------------------
(* Arithmetic and sequences *)

\* CeilDiv is the number of chunks that the rows need.
LEMMA CeilDivBounds ==
    ASSUME NEW n \in Nat, NEW d \in Nat \ {0}
    PROVE  /\ CeilDiv(n, d) \in Nat
           /\ CeilDiv(n, d) * d \in n .. n + d - 1
  <1> DEFINE a == n + d - 1
             q == a \div d
  <1>1. a \in Nat /\ d \in Nat /\ d > 0
    OBVIOUS
  <1>2. q \in Nat /\ a = d * q + (a % d) /\ a % d \in 0 .. d - 1
    BY <1>1, Z3
  <1>3. d * q = q * d
    BY <1>2
  <1> QED BY <1>2, <1>3 DEF CeilDiv

\* One chunk number less is one chunk of rows less.
LEMMA OneLess ==
    ASSUME NEW p \in Nat, NEW c \in Nat, NEW t \in Nat, NEW x \in Nat, NEW d \in Nat \ {0},
           (p - c) * d \in t - x .. (t - x) + d - 1
    PROVE  (p - (c + 1)) * d \in t - (x + d) .. (t - (x + d)) + d - 1
  <1>1. (p - (c + 1)) * d = (p - c) * d - d /\ (p - c) * d \in Int
    OBVIOUS
  <1> DEFINE k == (p - c) * d
  <1>2. k \in Int /\ (p - (c + 1)) * d = k - d /\ k \in t - x .. (t - x) + d - 1
    BY <1>1
  <1> HIDE DEF k
  <1> QED BY <1>2

\* Windows of two sequences that agree on them.
LEMMA SubSeqAgree ==
    ASSUME NEW S, NEW s \in Seq(S), NEW t \in Seq(S), NEW n \in Nat, n <= Len(s), n <= Len(t),
           \A i \in 1..n : s[i] = t[i]
    PROVE  SubSeq(s, 1, n) = SubSeq(t, 1, n)
  <1> DEFINE u == SubSeq(s, 1, n)
             v == SubSeq(t, 1, n)
  <1>1. u \in Seq(S) /\ Len(u) = n /\ \A i \in 1..n : u[i] = s[i]
    OBVIOUS
  <1>2. v \in Seq(S) /\ Len(v) = n /\ \A i \in 1..n : v[i] = t[i]
    OBVIOUS
  <1> HIDE DEF u, v
  <1>3. u = v
    BY <1>1, <1>2, SeqEqual
  <1> QED BY <1>3 DEF u, v

\* The receipts all are those of chunks, and then rc.
OneMore(all, chunks, rc) ==
    /\ all \in Seq(ReceiptRow) /\ Len(all) = Len(chunks) + 1
    /\ DOMAIN all = 1..(Len(chunks) + 1) /\ DOMAIN chunks = 1..Len(chunks)
    /\ \A i \in 1..Len(chunks) : all[i] = chunks[i]
    /\ all[Len(chunks) + 1] = rc

\* Appending a receipt.
LEMMA AppendOne ==
    ASSUME NEW chunks \in Seq(ReceiptRow), NEW rc \in ReceiptRow
    PROVE  OneMore(chunks \o <<rc>>, chunks, rc)
  <1>1. <<rc>> \in Seq(ReceiptRow) /\ Len(<<rc>>) = 1 /\ <<rc>>[1] = rc
    OBVIOUS
  <1> QED BY <1>1, ConcatProperties DEF OneMore

\* The rows of a chunk are left of the file, and no more than the chunk size.
LEMMA ChunkBounds ==
    ASSUME NEW r \in Requests, NEW row \in SessionRow, row.next <= Total(row)
    PROVE  /\ Total(row) \in Nat /\ ChunkOf[r] \in Nat \ {0} /\ ChunkInput(r, row) \in Nat
           /\ row.next + ChunkInput(r, row) <= Total(row)
           /\ row.next + ChunkInput(r, row) < Total(row) => ChunkInput(r, row) = ChunkOf[r]
           /\ (ChunkInput(r, row) = 0) => row.next = Total(row)
  <1>1. Total(row) \in Nat /\ row.next \in Nat
    BY DEF Total, SessionRow
  <1>2. ChunkOf[r] \in Nat \ {0}
    BY RequestAssumption
  <1> QED BY <1>1, <1>2 DEF ChunkInput, Min2

\* Corrections among the first rows of a finite file.
LEMMA FiniteChanges ==
    ASSUME NEW row \in SessionRow, row.changed \subseteq 1..Total(row), NEW P \in SUBSET row.changed
    PROVE  IsFiniteSet(P) /\ Cardinality(P) \in Nat
  <1>1. Total(row) \in Nat
    BY DEF Total, SessionRow
  <1>2. IsFiniteSet(1..Total(row))
    BY <1>1, FS_Interval
  <1>3. P \in SUBSET (1..Total(row))
    OBVIOUS
  <1> QED BY <1>2, <1>3, FS_Subset, FS_CardinalityType

-----------------------------------------------------------------------------
(* What the operations do to a row that fits its receipts *)

\* A fresh session fits no receipts at all.
LEMMA NewFit ==
    ASSUME NEW r \in Requests, NEW rows \in Seq(CellValues), Len(rows) = Len(FileRows[r])
    PROVE  Fit(r, NewSession(r, rows), << >>, << >>) /\ NewSession(r, rows).state = "queued"
  <1> DEFINE row == NewSession(r, rows)
  <1>1. ChunkOf[r] \in Nat \ {0}
    BY RequestAssumption
  <1> DEFINE need == CeilDiv(Len(rows), ChunkOf[r])
             changed == ChangedRows(r, rows)
  <1>2. Len(rows) \in Nat
    OBVIOUS
  <1>3. need \in Nat /\ need * ChunkOf[r] \in Len(rows) .. Len(rows) + ChunkOf[r] - 1
    BY <1>1, <1>2, CeilDivBounds
  <1>4. changed \subseteq 1..Len(rows)
    BY DEF ChangedRows
  <1> HIDE DEF need, changed
  <1>5. row \in SessionRow /\ row.changed \subseteq 1..Total(row) /\ Total(row) = Len(rows)
        /\ row.next = 0 /\ row.chunks = 0 /\ row.imported = 0 /\ row.failed = 0 /\ row.corrected = 0
        /\ row.state = "queued" /\ row.staged = rows /\ row.planned = need
    <2>1. row = [Absent EXCEPT !.state = "queued", !.staged = rows, !.planned = need, !.changed = changed]
      BY DEF NewSession, need, changed
    <2> HIDE DEF row
    <2>2. changed \in SUBSET Nat
      BY <1>2, <1>4
    <2>3. row = [state |-> "queued", next |-> 0, imported |-> 0, failed |-> 0, corrected |-> 0,
                 chunks |-> 0, planned |-> need, revision |-> 0, staged |-> rows,
                 changed |-> changed, error |-> "none"]
      BY <2>1, Zenon DEF Absent
    <2>4. row \in SessionRow
      BY <2>2, <2>3, <1>3 DEF SessionRow
    <2> QED BY <2>3, <2>4, <1>4 DEF Total
  <1> HIDE DEF row
  <1>6. SubSeq(rows, 1, 0) = << >>
    BY SubSeqEmpty
  <1>7. Tiled(<< >>, 0)
    BY DEF Tiled
  <1>8. PlanFits(r, row)
    BY <1>1, <1>2, <1>3, <1>5 DEF PlanFits
  <1>9. Cardinality({i \in row.changed : i <= 0}) = 0
    <2>1. {i \in row.changed : i <= 0} = {}
      BY <1>5
    <2> QED BY <2>1, FS_EmptySet
  <1>10. << >> \in Seq(ReceiptRow) /\ << >> \in Seq(CellValues) /\ Len(<< >>) = 0 /\ DOMAIN << >> = {}
    OBVIOUS
  <1>11. Fit(r, row, << >>, << >>)
    BY <1>5, <1>6, <1>7, <1>8, <1>9, <1>10 DEF Fit
  <1> QED BY <1>5, <1>11 DEF row

\* Cleaned rows are as many cells as the file has.
LEMMA CleanRowsType ==
    ASSUME NEW r \in Requests
    PROVE  CleanRows(r) \in Seq(CellValues) /\ Len(CleanRows(r)) = Len(FileRows[r])
           /\ FileRows[r] \in Seq(CellValues)
  <1>1. FileRows[r] \in Seq(Cells) /\ RulesOf[r] \subseteq RuleSet
    BY RequestAssumption
  <1>2. \A x \in RuleSet : x.value \in CellValues
    BY DEF RuleSet, Rule, CellValues
  <1>3. ASSUME NEW c \in Cells PROVE CleanCell(RulesOf[r], c) \in CellValues
    <2> DEFINE rules == RulesOf[r]
               trimmed == IF \E x \in rules : x.operation = "trim" THEN Trim(c) ELSE c
               replace == {x \in rules : x.operation = "replace_exact" /\ x.match = trimmed}
               replaced == IF replace = {} THEN trimmed ELSE (CHOOSE x \in replace : TRUE).value
               fill == {x \in rules : x.operation = "set_if_empty"}
    <2>1. trimmed \in CellValues
      BY <1>3 DEF Trim, Cells, CellValues
    <2> HIDE DEF trimmed
    <2>2. replace # {} => (CHOOSE x \in replace : TRUE) \in RuleSet
      BY <1>1
    <2>3. fill # {} => (CHOOSE x \in fill : TRUE) \in RuleSet
      BY <1>1
    <2>4. replaced \in CellValues
      BY <1>2, <2>1, <2>2
    <2> HIDE DEF replaced
    <2>5. CleanCell(rules, c) = IF replaced = "" /\ fill # {} THEN (CHOOSE x \in fill : TRUE).value
                                ELSE replaced
      BY DEF CleanCell, replaced, trimmed
    <2> QED BY <1>2, <2>3, <2>4, <2>5
  <1>4. DOMAIN FileRows[r] = 1..Len(FileRows[r]) /\ Len(FileRows[r]) \in Nat
        /\ \A i \in DOMAIN FileRows[r] : FileRows[r][i] \in Cells
    BY <1>1
  <1>5. CleanRows(r) \in [1..Len(FileRows[r]) -> CellValues]
    BY <1>3, <1>4 DEF CleanRows
  <1>6. CleanRows(r) \in Seq(CellValues) /\ Len(CleanRows(r)) = Len(FileRows[r])
    BY <1>4, <1>5
  <1>7. FileRows[r] \in Seq(CellValues)
    BY <1>1 DEF CellValues
  <1> QED BY <1>6, <1>7

\* Receipts keep their numbers and windows when one is added at the cursor.
LEMMA AddReceipt ==
    ASSUME NEW r \in Requests, NEW row, NEW chunks, NEW done, Fit(r, row, chunks, done),
           NEW n \in Nat \ {0}, NEW state \in {"completed", "rejected"}, NEW all,
           OneMore(all, chunks, Receipt(row, row.chunks + 1, n, state))
    PROVE  /\ all \in Seq(ReceiptRow) /\ Len(all) = Len(chunks) + 1
           /\ \A i \in DOMAIN all : all[i].sequence = i /\ all[i].start <= all[i].end
           /\ LastReceipt(all) = Receipt(row, row.chunks + 1, n, state)
           /\ state = "completed" => Tiled(all, row.next + n)
           /\ state = "rejected" => Tiled(all, row.next)
  <1> DEFINE m == Len(chunks)
             rc == Receipt(row, row.chunks + 1, n, state)
  <1>1. row.next \in Nat /\ row.chunks = m /\ m \in Nat /\ chunks \in Seq(ReceiptRow)
        /\ \A i \in DOMAIN chunks : chunks[i].sequence = i /\ chunks[i].start <= chunks[i].end
    BY DEF Fit, SessionRow
  <1>2. rc.sequence = m + 1 /\ rc.start = row.next + 1 /\ rc.end = row.next + n /\ rc.state = state
    BY <1>1 DEF Receipt
  <1> HIDE DEF rc
  <1>3. row.next + 1 <= row.next + n
    BY <1>1
  <1>4. all \in Seq(ReceiptRow) /\ Len(all) = m + 1 /\ DOMAIN all = 1..(m + 1)
        /\ DOMAIN chunks = 1..m /\ all[m + 1] = rc
    BY DEF OneMore, rc
  <1>5. \A i \in 1..m : all[i] = chunks[i]
    BY DEF OneMore
  <1> HIDE DEF m
  <1>6. ASSUME NEW i \in DOMAIN all PROVE all[i].sequence = i /\ all[i].start <= all[i].end
    <2>1. CASE i = m + 1
      BY <2>1, <1>2, <1>3, <1>4
    <2>2. CASE i \in 1..m
      BY <2>2, <1>1, <1>4, <1>5
    <2> QED BY <2>1, <2>2, <1>1, <1>4
  <1>7. Tiled(chunks, row.next) /\ \A i \in 1..m : chunks[i].start \in Nat /\ chunks[i].end \in Nat
    <2>1. Tiled(chunks, row.next)
      BY DEF Fit
    <2>2. ASSUME NEW i \in 1..m PROVE chunks[i].start \in Nat /\ chunks[i].end \in Nat
      <3>1. chunks[i] \in ReceiptRow
        BY <1>1 DEF m
      <3> QED BY <3>1 DEF ReceiptRow
    <2> QED BY <2>1, <2>2
  <1>8. ASSUME NEW x \in 1..row.next
        PROVE  \E i \in DOMAIN all : Covers(all, i, x) /\ \A j \in DOMAIN all : Covers(all, j, x) => j = i
    <2>1. PICK i \in 1..m : Covers(chunks, i, x) /\ \A j \in 1..m : Covers(chunks, j, x) => j = i
      BY <1>4, <1>7 DEF Tiled
    <2>2. \A j \in 1..m : Covers(all, j, x) <=> Covers(chunks, j, x)
      BY <1>5 DEF Covers
    <2>3. ~Covers(all, m + 1, x)
      BY <1>1, <1>2, <1>4 DEF Covers
    <2>4. \A j \in DOMAIN all : j \in 1..m \/ j = m + 1
      BY <1>1, <1>4
    <2>5. i \in DOMAIN all /\ Covers(all, i, x)
      BY <2>1, <2>2, <1>1, <1>4
    <2>6. \A j \in DOMAIN all : Covers(all, j, x) => j = i
      BY <2>1, <2>2, <2>3, <2>4
    <2> QED BY <2>5, <2>6
  <1>9. ASSUME state = "completed" PROVE Tiled(all, row.next + n)
    <2>1. ASSUME NEW i \in DOMAIN all, all[i].state = "completed"
          PROVE  1 <= all[i].start /\ all[i].start <= all[i].end /\ all[i].end <= row.next + n
      <3>1. CASE i = m + 1
        BY <3>1, <1>1, <1>2, <1>4
      <3>2. CASE i \in 1..m
        <4>1. all[i] = chunks[i] /\ chunks[i].start \in Nat /\ chunks[i].end \in Nat
          BY <3>2, <1>5, <1>7
        <4>2. 1 <= chunks[i].start /\ chunks[i].start <= chunks[i].end /\ chunks[i].end <= row.next
          BY <2>1, <3>2, <4>1, <1>4, <1>7 DEF Tiled
        <4> QED BY <4>1, <4>2, <1>1
      <3> QED BY <3>1, <3>2, <1>1, <1>4
    <2>2. ASSUME NEW x \in (row.next + 1)..(row.next + n)
          PROVE  \E i \in DOMAIN all : Covers(all, i, x) /\ \A j \in DOMAIN all : Covers(all, j, x) => j = i
      <3>1. Covers(all, m + 1, x)
        BY <1>1, <1>2, <1>4, <1>9 DEF Covers
      <3>2. ASSUME NEW j \in 1..m PROVE ~Covers(all, j, x)
        <4>1. all[j] = chunks[j] /\ chunks[j].end \in Nat
          BY <1>5, <1>7
        <4>2. chunks[j].state = "completed" => chunks[j].end <= row.next
          BY <1>4, <1>7 DEF Tiled
        <4>3. row.next \in Nat
          BY <1>1
        <4> QED BY <4>1, <4>2, <4>3 DEF Covers
      <3>3. \A j \in DOMAIN all : j \in 1..m \/ j = m + 1
        BY <1>1, <1>4
      <3>4. m + 1 \in DOMAIN all
        BY <1>1, <1>4
      <3>5. \A j \in DOMAIN all : Covers(all, j, x) => j = m + 1
        BY <3>2, <3>3
      <3> QED BY <3>1, <3>4, <3>5
    <2>3. \A x \in 1..(row.next + n) : x \in 1..row.next \/ x \in (row.next + 1)..(row.next + n)
      BY <1>1
    <2> QED BY <2>1, <2>2, <2>3, <1>8 DEF Tiled
  <1>10. ASSUME state = "rejected" PROVE Tiled(all, row.next)
    <2>1. ASSUME NEW i \in DOMAIN all, all[i].state = "completed"
          PROVE  1 <= all[i].start /\ all[i].start <= all[i].end /\ all[i].end <= row.next
      <3>1. i \in 1..m
        BY <2>1, <1>1, <1>2, <1>4, <1>10
      <3> QED BY <2>1, <3>1, <1>4, <1>5, <1>7 DEF Tiled
    <2> QED BY <2>1, <1>8 DEF Tiled
  <1>11. LastReceipt(all) = rc
    BY <1>4 DEF LastReceipt
  <1>12. Len(all) = Len(chunks) + 1
    BY <1>4 DEF m
  <1>13. (state = "completed" => Tiled(all, row.next + n)) /\ (state = "rejected" => Tiled(all, row.next))
    BY <1>9, <1>10
  <1> QED BY <1>4, <1>6, <1>11, <1>12, <1>13 DEF rc

\* An imported chunk: the records reach the new cursor.
LEMMA ImportFit ==
    ASSUME NEW r \in Requests, NEW row, NEW chunks, NEW done, Fit(r, row, chunks, done),
           row.state = "queued", ChunkInput(r, row) > 0
    PROVE  LET n == ChunkInput(r, row) IN
           Fit(r, AfterImport(r, row), chunks \o <<Receipt(row, row.chunks + 1, n, "completed")>>,
               done \o SubSeq(row.staged, row.next + 1, row.next + n))
  <1> DEFINE n == ChunkInput(r, row)
             new == AfterImport(r, row)
             all == chunks \o <<Receipt(row, row.chunks + 1, n, "completed")>>
             rows == done \o SubSeq(row.staged, row.next + 1, row.next + n)
             total == Total(row)
  <1>1. row \in SessionRow /\ row.next \in Nat /\ row.next <= total /\ row.chunks \in Nat
        /\ row.planned \in Nat /\ row.corrected \in Nat /\ row.imported = row.next /\ row.failed = 0
    BY DEF Fit, SessionRow, Total
  <1>2. /\ total \in Nat /\ ChunkOf[r] \in Nat \ {0} /\ n \in Nat \ {0} /\ row.next + n <= total
        /\ row.next + n < total => n = ChunkOf[r]
    BY <1>1, ChunkBounds
  <1>0. row.staged \in Seq(CellValues) /\ total = Len(row.staged)
        /\ row.changed \subseteq 1..total /\ row.chunks = Len(chunks) /\ chunks \in Seq(ReceiptRow)
    BY DEF Fit, SessionRow, Total
  <1> HIDE DEF n, total
  <1>3. /\ all \in Seq(ReceiptRow) /\ Len(all) = Len(chunks) + 1
        /\ \A i \in DOMAIN all : all[i].sequence = i /\ all[i].start <= all[i].end
        /\ Tiled(all, row.next + n)
    <2>1. Receipt(row, row.chunks + 1, n, "completed") \in ReceiptRow
      BY <1>1, <1>2 DEF Receipt, ReceiptRow
    <2>2. OneMore(all, chunks, Receipt(row, row.chunks + 1, n, "completed"))
      BY <2>1, <1>0, AppendOne
    <2> HIDE DEF all
    <2> QED BY <2>2, <1>2, AddReceipt
  <1> HIDE DEF all
  <1>4. /\ new.state = (IF row.next + n >= total THEN "completed" ELSE "queued")
        /\ new.next = row.next + n /\ new.imported = row.imported + n /\ new.chunks = row.chunks + 1
        /\ new.corrected = row.corrected + CorrectedIn(row, n) /\ new.failed = row.failed
        /\ new.planned = row.planned /\ new.staged = row.staged /\ new.changed = row.changed
    BY <1>1 DEF AfterImport, SessionRow, n, total
  <1>5. CorrectedIn(row, n) \in Nat
        /\ row.corrected + CorrectedIn(row, n) = Cardinality({i \in row.changed : i <= row.next + n})
    <2> DEFINE P == {i \in row.changed : i <= row.next}
               Q == {i \in row.changed : row.next < i /\ i <= row.next + n}
    <2>1. {i \in row.changed : i <= row.next + n} = P \union Q /\ P \cap Q = {}
      BY <1>0, <1>1, <1>2
    <2>2. IsFiniteSet(P) /\ IsFiniteSet(Q) /\ Cardinality(Q) \in Nat /\ Cardinality(P) \in Nat
      BY <1>0, <1>1, FiniteChanges DEF total
    <2>3. Cardinality(P \union Q) = Cardinality(P) + Cardinality(Q)
      <3> HIDE DEF P, Q
      <3>1. Cardinality(P \union Q) = Cardinality(P) + Cardinality(Q) - Cardinality(P \cap Q)
        BY <2>2, FS_Union
      <3>2. Cardinality(P \cap Q) = 0
        BY <2>1, FS_EmptySet
      <3> QED BY <3>1, <3>2, <2>2
    <2>4. row.corrected = Cardinality(P)
      BY DEF Fit
    <2> QED BY <2>1, <2>2, <2>3, <2>4 DEF CorrectedIn
  <1>6. new \in SessionRow
    <2> DEFINE state == IF row.next + n >= total THEN "completed" ELSE "queued"
               corrected == row.corrected + CorrectedIn(row, n)
    <2>1. new = [row EXCEPT !.state = state, !.next = row.next + n, !.imported = row.imported + n,
                            !.chunks = row.chunks + 1, !.corrected = corrected, !.error = "none"]
      BY DEF AfterImport, n, total
    <2>2. state \in {"completed", "queued"} /\ corrected \in Nat
      BY <1>1, <1>5
    <2>3. row.next + n \in Nat /\ row.imported + n \in Nat /\ row.chunks + 1 \in Nat /\ row \in SessionRow
      BY <1>1, <1>2
    <2> HIDE DEF state, corrected, new
    <2> QED BY <2>1, <2>2, <2>3 DEF SessionRow
  <1> HIDE DEF new
  <1>7. Total(new) = total
    BY <1>4 DEF Total, total
  <1>8. rows = SubSeq(row.staged, 1, row.next + n) /\ rows \in Seq(CellValues)
    <2>1. done = SubSeq(row.staged, 1, row.next)
      BY DEF Fit
    <2>2. rows = SubSeq(row.staged, 1, row.next + n)
      <3>1. /\ row.staged \in Seq(CellValues) /\ 1 \in 1..Len(row.staged) + 1
            /\ row.next \in (1 - 1)..Len(row.staged) /\ row.next + n \in row.next..Len(row.staged)
        BY <1>0, <1>1, <1>2
      <3> QED BY <2>1, <3>1, ConcatAdjacentSubSeq
    <2>3. SubSeq(row.staged, 1, row.next + n) \in Seq(CellValues)
      BY <1>0, <1>1, <1>2
    <2> QED BY <2>2, <2>3
  <1> HIDE DEF rows
  <1>9. new.state = "queued" => PlanFits(r, new)
    <2> SUFFICES ASSUME new.state = "queued" PROVE PlanFits(r, new)
      OBVIOUS
    <2>1. row.next + n < total /\ n = ChunkOf[r]
      BY <1>1, <1>2, <1>4
    <2>2. (row.planned - row.chunks) * ChunkOf[r] \in total - row.next .. (total - row.next) + ChunkOf[r] - 1
      BY DEF Fit, PlanFits, total
    <2>3. (row.planned - (row.chunks + 1)) * ChunkOf[r]
             \in total - (row.next + ChunkOf[r]) .. (total - (row.next + ChunkOf[r])) + ChunkOf[r] - 1
      BY <1>1, <1>2, <2>2, OneLess
    <2> QED BY <2>1, <2>3, <1>4, <1>7 DEF PlanFits
  <1>10. /\ new.next <= Total(new) /\ new.changed \subseteq 1..Total(new)
         /\ rows = SubSeq(new.staged, 1, new.next) /\ new.chunks = Len(all)
         /\ Tiled(all, new.next) /\ new.imported = new.next /\ new.failed = 0
         /\ new.state = "completed" => new.next = Total(new)
    BY <1>0, <1>1, <1>2, <1>3, <1>4, <1>7, <1>8
  <1>11. new.corrected = Cardinality({i \in new.changed : i <= new.next})
    BY <1>4, <1>5
  <1>12. ~(new.failed > 0)
    BY <1>10
  <1>13. Fit(r, new, all, rows)
    BY <1>3, <1>6, <1>8, <1>9, <1>10, <1>11, <1>12, Zenon DEF Fit
  <1> QED BY <1>13 DEF new, all, rows, n

\* A rejected chunk: the records stay, and its rows are counted as failed.
LEMMA RejectFit ==
    ASSUME NEW r \in Requests, NEW row, NEW chunks, NEW done, Fit(r, row, chunks, done),
           row.state = "queued", ChunkInput(r, row) > 0
    PROVE  LET n == ChunkInput(r, row) IN
           Fit(r, AfterRejection(r, row), chunks \o <<Receipt(row, row.chunks + 1, n, "rejected")>>, done)
  <1> DEFINE n == ChunkInput(r, row)
             new == AfterRejection(r, row)
             rc == Receipt(row, row.chunks + 1, n, "rejected")
             all == chunks \o <<rc>>
             total == Total(row)
  <1>1. row \in SessionRow /\ row.next \in Nat /\ row.next <= total /\ row.chunks \in Nat
        /\ row.imported = row.next /\ row.failed = 0
    BY DEF Fit, SessionRow, Total
  <1>2. /\ row.changed \subseteq 1..total /\ row.chunks = Len(chunks) /\ chunks \in Seq(ReceiptRow)
        /\ row.corrected = Cardinality({i \in row.changed : i <= row.next})
        /\ done = SubSeq(row.staged, 1, row.next) /\ done \in Seq(CellValues)
    BY DEF Fit
  <1>3. total \in Nat /\ n \in Nat \ {0} /\ row.next + n <= total
    BY <1>1, ChunkBounds
  <1> HIDE DEF n, total
  <1>4. /\ rc.start = row.next + 1 /\ rc.end = row.next + n /\ rc.state = "rejected"
        /\ rc \in ReceiptRow /\ Input(rc) = n
    BY <1>1, <1>3 DEF Receipt, ReceiptRow, Input
  <1>5. /\ all \in Seq(ReceiptRow) /\ Len(all) = Len(chunks) + 1
        /\ \A i \in DOMAIN all : all[i].sequence = i /\ all[i].start <= all[i].end
        /\ Tiled(all, row.next) /\ LastReceipt(all) = rc
    <2>1. OneMore(all, chunks, rc)
      BY <1>2, <1>4, AppendOne
    <2> HIDE DEF all
    <2> QED BY <2>1, <1>3, AddReceipt
  <1> HIDE DEF all, rc
  <1> DEFINE state == IF row.imported > 0 THEN "partial" ELSE "failed"
  <1>6. new = [row EXCEPT !.state = state, !.failed = row.failed + n, !.chunks = row.chunks + 1,
                          !.error = "chunk_rejected"]
    BY DEF AfterRejection, n
  <1>7. state \in {"partial", "failed"} /\ row.failed + n = n /\ row.chunks + 1 \in Nat /\ n \in Nat
    BY <1>1, <1>3
  <1> HIDE DEF state, new
  <1>8. /\ new \in SessionRow
        /\ new.state = state /\ new.failed = n /\ new.chunks = row.chunks + 1
        /\ new.next = row.next /\ new.imported = row.imported /\ new.staged = row.staged
        /\ new.changed = row.changed /\ new.corrected = row.corrected
    BY <1>1, <1>6, <1>7 DEF SessionRow
  <1>9. Total(new) = total
    BY <1>8 DEF Total, total
  <1>10. Rejected(new, all)
    <2>1. Len(all) > 0
      BY <1>1, <1>2, <1>5
    <2> QED BY <2>1, <1>3, <1>4, <1>5, <1>7, <1>8, <1>9 DEF Rejected
  <1>11. /\ new.next <= Total(new) /\ new.changed \subseteq 1..Total(new)
         /\ done = SubSeq(new.staged, 1, new.next) /\ new.chunks = Len(all)
         /\ Tiled(all, new.next) /\ new.imported = new.next
         /\ new.state # "completed" /\ new.state # "queued"
         /\ new.corrected = Cardinality({i \in new.changed : i <= new.next})
    BY <1>1, <1>2, <1>5, <1>7, <1>8, <1>9
  <1>12. Fit(r, new, all, done)
    BY <1>2, <1>5, <1>8, <1>10, <1>11, Zenon DEF Fit
  <1> QED BY <1>12 DEF new, all, rc, n

\* Any other failure closes a queued session and touches nothing else.
LEMMA FailFit ==
    ASSUME NEW r \in Requests, NEW row, NEW chunks, NEW done, Fit(r, row, chunks, done),
           row.state = "queued"
    PROVE  Fit(r, [row EXCEPT !.state = "failed", !.error = "processing_failed"], chunks, done)
  <1> DEFINE new == [row EXCEPT !.state = "failed", !.error = "processing_failed"]
  <1>1. row \in SessionRow /\ row.failed = 0
    BY DEF Fit
  <1>2. /\ new \in SessionRow
        /\ new.state = "failed" /\ new.failed = 0 /\ new.chunks = row.chunks
        /\ new.next = row.next /\ new.imported = row.imported /\ new.staged = row.staged
        /\ new.changed = row.changed /\ new.corrected = row.corrected
    BY <1>1 DEF SessionRow
  <1> HIDE DEF new
  <1>3. Total(new) = Total(row) /\ ~(new.failed > 0)
    BY <1>2 DEF Total
  <1>4. Fit(r, new, chunks, done)
    BY <1>2, <1>3, Zenon DEF Fit
  <1> QED BY <1>4 DEF new

\* Whatever a worker's transaction commits fits.
LEMMA ResultFit ==
    ASSUME NEW r \in Requests, NEW row, NEW chunks, NEW done, Fit(r, row, chunks, done),
           row.state = "queued", NEW new, NEW rc, NEW rows, Result(r, row, new, rc, rows)
    PROVE  Fit(r, new, chunks \o rc, done \o rows)
  <1>1. chunks \o << >> = chunks /\ done \o << >> = done
    BY ConcatEmptySeq DEF Fit
  <1> DEFINE n == ChunkInput(r, row)
  <1>2. CASE /\ n > 0
             /\ new = AfterImport(r, row)
             /\ rc = <<Receipt(row, row.chunks + 1, n, "completed")>>
             /\ rows = SubSeq(row.staged, row.next + 1, row.next + n)
    BY <1>2, ImportFit
  <1>3. CASE /\ n > 0
             /\ new = AfterRejection(r, row)
             /\ rc = <<Receipt(row, row.chunks + 1, n, "rejected")>>
             /\ rows = << >>
    BY <1>1, <1>3, RejectFit
  <1>4. CASE /\ new = [row EXCEPT !.state = "failed", !.error = "processing_failed"]
             /\ rc = << >> /\ rows = << >>
    BY <1>1, <1>4, FailFit
  <1> QED BY <1>2, <1>3, <1>4 DEF Result

\* A repair of the rejected window: no imported row changes, and the plan grows to fit.
LEMMA RepairFit ==
    ASSUME NEW r \in Requests, NEW row, NEW chunks, NEW done, Fit(r, row, chunks, done),
           row.failed > 0, NEW fixes \in Fixes,
           \A i \in DOMAIN fixes : LastReceipt(chunks).start <= i /\ i <= LastReceipt(chunks).end
    PROVE  Fit(r, AfterRepair(r, row, chunks, fixes), chunks, done)
  <1> DEFINE new == AfterRepair(r, row, chunks, fixes)
             last == LastReceipt(chunks)
             total == Total(row)
             need == CeilDiv(total - row.next, ChunkOf[r])
             staged == Fixed(row, fixes)
  <1>1. row \in SessionRow /\ row.next \in Nat /\ row.next <= total /\ row.chunks \in Nat
        /\ row.imported = row.next /\ row.revision \in Nat /\ row.staged \in Seq(CellValues)
        /\ total = Len(row.staged) /\ total \in Nat
    BY DEF Fit, SessionRow, Total
  <1>2. /\ row.changed \subseteq 1..total /\ row.chunks = Len(chunks) /\ chunks \in Seq(ReceiptRow)
        /\ row.corrected = Cardinality({i \in row.changed : i <= row.next})
        /\ done = SubSeq(row.staged, 1, row.next) /\ done \in Seq(CellValues)
        /\ \A i \in DOMAIN chunks : chunks[i].sequence = i /\ chunks[i].start <= chunks[i].end
        /\ Tiled(chunks, row.next)
    BY DEF Fit
  <1>3. /\ last.start = row.next + 1 /\ last.end <= total /\ row.failed = Input(last)
        /\ last \in ReceiptRow
    <2>1. Rejected(row, chunks)
      BY DEF Fit
    <2>2. Len(chunks) \in 1..Len(chunks)
      BY <2>1, <1>2 DEF Rejected
    <2>3. last \in ReceiptRow
      BY <2>2, <1>2 DEF LastReceipt
    <2> QED BY <2>1, <2>3 DEF Rejected
  <1>4. ASSUME NEW i \in DOMAIN fixes PROVE i \in (row.next + 1)..total /\ fixes[i] \in CellValues
    <2>1. i \in Nat /\ fixes[i] \in CellValues
      BY DEF Fixes, CellValues
    <2>2. last.start \in Nat /\ last.end \in Nat /\ last.start <= i /\ i <= last.end
      BY <1>3 DEF ReceiptRow
    <2> QED BY <2>1, <2>2, <1>1, <1>3
  <1>5. ChunkOf[r] \in Nat \ {0} /\ need \in Nat
        /\ need * ChunkOf[r] \in total - row.next .. (total - row.next) + ChunkOf[r] - 1
    <2>1. ChunkOf[r] \in Nat \ {0} /\ total - row.next \in Nat
      BY <1>1, RequestAssumption
    <2> QED BY <2>1, CeilDivBounds
  <1> HIDE DEF total, last, need
  <1>6. staged \in Seq(CellValues) /\ Len(staged) = total /\ \A i \in 1..row.next : staged[i] = row.staged[i]
    <2>1. DOMAIN row.staged = 1..total /\ \A i \in 1..total : row.staged[i] \in CellValues
      BY <1>1
    <2>2. staged = [i \in 1..total |-> IF i \in DOMAIN fixes THEN fixes[i] ELSE row.staged[i]]
      BY <2>1 DEF Fixed
    <2>3. \A i \in 1..row.next : i \in 1..total /\ i \notin DOMAIN fixes
      BY <1>1, <1>4
    <2>4. staged \in [1..total -> CellValues]
      BY <2>1, <2>2, <1>4
    <2>5. staged \in Seq(CellValues) /\ Len(staged) = total
      <3> HIDE DEF staged
      <3> QED BY <2>4, <1>1
    <2> QED BY <2>2, <2>3, <2>5
  <1> HIDE DEF staged
  <1>7. new = [row EXCEPT !.staged = staged, !.changed = row.changed \union DOMAIN fixes,
                          !.failed = row.failed - Input(last), !.planned = row.chunks + need,
                          !.revision = row.revision + 1, !.state = "queued", !.error = "none"]
    BY DEF AfterRepair, staged, last, need, total, ReplannedChunks
  <1> DEFINE changed == row.changed \union DOMAIN fixes
  <1>8. changed \subseteq 1..total /\ changed \in SUBSET Nat
    BY <1>1, <1>2, <1>4
  <1>9. {i \in changed : i <= row.next} = {i \in row.changed : i <= row.next}
    BY <1>1, <1>2, <1>4
  <1>10. row.failed - Input(last) = 0 /\ row.chunks + need \in Nat /\ row.revision + 1 \in Nat
    <2>1. row.failed \in Nat
      BY <1>1 DEF SessionRow
    <2>2. row.failed = Input(last)
      BY <1>3
    <2>3. row.failed - Input(last) = 0
      BY <2>1, <2>2
    <2>4. row.chunks \in Nat /\ row.revision \in Nat /\ need \in Nat
      BY <1>1, <1>5
    <2> QED BY <2>3, <2>4
  <1> HIDE DEF new, changed
  <1>11. new = [row EXCEPT !.staged = staged, !.changed = changed, !.failed = 0,
                          !.planned = row.chunks + need, !.revision = row.revision + 1,
                          !.state = "queued", !.error = "none"]
    BY <1>7, <1>10, Zenon DEF changed
  <1>12. /\ new \in SessionRow
         /\ new.state = "queued" /\ new.failed = 0 /\ new.chunks = row.chunks
         /\ new.next = row.next /\ new.imported = row.imported /\ new.staged = staged
         /\ new.changed = changed /\ new.corrected = row.corrected /\ new.planned = row.chunks + need
    BY <1>1, <1>6, <1>8, <1>10, <1>11 DEF SessionRow
  <1>13. Total(new) = total /\ ~(new.failed > 0)
    BY <1>6, <1>12 DEF Total
  <1>14. done = SubSeq(staged, 1, row.next)
    BY <1>1, <1>2, <1>6, SubSeqAgree
  <1>15. PlanFits(r, new)
    <2>1. (row.chunks + need) - row.chunks = need
      BY <1>1, <1>5
    <2> QED BY <2>1, <1>5, <1>12, <1>13 DEF PlanFits
  <1>16. /\ new.next <= Total(new) /\ new.changed \subseteq 1..Total(new)
         /\ done = SubSeq(new.staged, 1, new.next) /\ new.chunks = Len(chunks)
         /\ Tiled(chunks, new.next) /\ new.imported = new.next /\ new.state # "completed"
    BY <1>1, <1>2, <1>8, <1>12, <1>13, <1>14
  <1>17. new.corrected = Cardinality({i \in new.changed : i <= new.next})
    BY <1>2, <1>9, <1>12
  <1>18. Fit(r, new, chunks, done)
    BY <1>2, <1>12, <1>13, <1>15, <1>16, <1>17, Zenon DEF Fit
  <1> QED BY <1>18 DEF new

-----------------------------------------------------------------------------
(* The invariant holds initially *)

\* Rows that stand for nothing have their types.
LEMMA EmptyRows ==
    /\ Absent \in SessionRow /\ NoTransaction \in WorkerRow /\ NoPlan \in PlanRow
    /\ << >> \in Seq(ReceiptRow) /\ << >> \in Seq(CellValues)
  <1>1. << >> \in Seq(ReceiptRow) /\ << >> \in Seq(CellValues)
    OBVIOUS
  <1>2. Absent \in SessionRow
    BY <1>1 DEF Absent, SessionRow
  <1>3. NoTransaction \in WorkerRow
    BY <1>1, <1>2 DEF NoTransaction, WorkerRow
  <1>4. NoPlan \in PlanRow
    BY <1>2 DEF NoPlan, PlanRow
  <1> QED BY <1>1, <1>2, <1>3, <1>4

\* No session, no transaction, no repair.
LEMMA InitImport == Init => ImportInv
  <1> SUFFICES ASSUME Init PROVE ImportInv
    OBVIOUS
  <1>1. TypeOK
    BY EmptyRows, WorkloadAssumption DEF Init, TypeOK
  <1>2. SessionInv
    BY DEF Init, SessionInv, Live, Gone, Absent
  <1>3. WorkerInv /\ LockInv
    BY DEF Init, WorkerInv, LockInv, NoTransaction
  <1>4. PlanInv
    BY DEF Init, PlanInv, NoPlan
  <1> QED BY <1>1, <1>2, <1>3, <1>4 DEF ImportInv

-----------------------------------------------------------------------------
(* How a session may change, and what that leaves true *)

Same(r) == session'[r] = session[r] /\ receipts'[r] = receipts[r] /\ imported'[r] = imported[r]

\* A chunk of a queued session was committed.
Advanced(r) ==
    /\ session[r].state = "queued" /\ session'[r].state # "absent"
    /\ session'[r].revision = session[r].revision
    /\ \A n \in 1..Len(receipts[r]) : n \in 1..Len(receipts'[r]) /\ receipts'[r][n] = receipts[r][n]

\* A repair was committed.
Corrected(r) ==
    /\ Live(r) /\ session'[r].state # "absent"
    /\ receipts'[r] = receipts[r] /\ session'[r].revision = session[r].revision + 1

\* The session was removed, after its turn had ended.
Removed(r) == session'[r] = Absent /\ receipts'[r] = << >> /\ r \notin open

\* The session was created, while its turn ran.
Created(r) == ~Live(r) /\ r \in open

Evolves(r) == Same(r) \/ Advanced(r) \/ Corrected(r) \/ Removed(r) \/ Created(r)

\* A repair survives whatever becomes of its session.
LEMMA PlanFrame ==
    ASSUME ImportInv, NEW p \in Plans, plan'[p] = plan[p], open' \subseteq open,
           \A r \in Requests : Evolves(r), TypeOK',
           plan[p].pc \in {"approved", "writing"}
    PROVE  /\ plan'[p].request \in Requests /\ plan'[p].fixes \in Fixes
           /\ plan'[p].print \in Nat \X Nat \X Seq(CellValues) \X Fixes
           /\ plan'[p].request \in open' => session'[plan'[p].request].state # "absent"
           /\ session'[plan'[p].request].state # "absent" => InWindow(p)'
           /\ plan'[p].pc = "writing" => RepairInv(p)'
  <1> DEFINE r == plan[p].request
  <1>1. /\ r \in Requests /\ plan[p].fixes \in Fixes
        /\ plan[p].print \in Nat \X Nat \X Seq(CellValues) \X Fixes
        /\ r \in open => Live(r)
        /\ Live(r) => InWindow(p)
        /\ plan[p].pc = "writing" => RepairInv(p)
    BY DEF ImportInv, PlanInv
  <1>2. Evolves(r) /\ ~Created(r)
    BY <1>1 DEF Created
  <1>3. session[r].revision \in Nat /\ session'[r].revision \in Nat
    BY <1>1 DEF ImportInv, TypeOK, SessionRow
  <1>4. plan[p].row.revision \in Nat
    BY DEF ImportInv, TypeOK, PlanRow, SessionRow
  <1>5. r \in open' => session'[r].state # "absent"
    <2>1. CASE Same(r)
      BY <2>1, <1>1 DEF Same, Live
    <2>2. CASE Removed(r)
      BY <2>2 DEF Removed
    <2>3. CASE Advanced(r) \/ Corrected(r)
      BY <2>3 DEF Advanced, Corrected
    <2> QED BY <1>2, <2>1, <2>2, <2>3 DEF Evolves
  <1>6. ASSUME session'[r].state # "absent" PROVE InWindow(p)' /\ (plan[p].pc = "writing" => RepairInv(p)')
    <2>0. ~Removed(r)
      BY <1>6 DEF Removed, Absent
    <2>1. Live(r) /\ InWindow(p)
      <3>1. Live(r)
        BY <1>2, <1>6, <2>0 DEF Evolves, Same, Advanced, Corrected, Live
      <3> QED BY <3>1, <1>1
    <2> DEFINE n == plan[p].print[2]
    <2>2. n \in 1..Len(receipts'[r]) /\ receipts'[r][n] = receipts[r][n]
      BY <1>2, <2>0, <2>1 DEF Evolves, Same, Advanced, Corrected, InWindow
    <2>3. InWindow(p)'
      BY <2>1, <2>2 DEF InWindow
    <2>4. ASSUME plan[p].pc = "writing" PROVE RepairInv(p)'
      <3>1. RepairInv(p)
        BY <2>4, <1>1
      <3>2. CASE Same(r)
        BY <3>1, <3>2 DEF RepairInv, Same, Live
      <3>3. CASE Advanced(r)
        <4>1. session[r].revision > plan[p].row.revision
          BY <3>1, <3>3, <2>1 DEF RepairInv, Advanced
        <4> QED BY <3>1, <3>3, <4>1 DEF RepairInv, Advanced
      <3>4. CASE Corrected(r)
        <4>1. session'[r].revision > plan[p].row.revision
          BY <3>1, <3>4, <2>1, <1>3, <1>4 DEF RepairInv, Corrected
        <4> QED BY <3>1, <4>1 DEF RepairInv
      <3> QED BY <1>2, <1>6, <3>2, <3>3, <3>4 DEF Evolves, Removed, Absent
    <2> QED BY <2>3, <2>4
  <1>7. ASSUME session'[r].state = "absent", plan[p].pc = "writing" PROVE RepairInv(p)'
    BY <1>1, <1>7 DEF RepairInv, Live
  <1> QED BY <1>1, <1>5, <1>6, <1>7

\* What a step that leaves all repairs alone keeps of them.
LEMMA PlansFrame ==
    ASSUME ImportInv, plan' = plan, open' \subseteq open, \A r \in Requests : Evolves(r), TypeOK'
    PROVE  PlanInv'
  BY PlanFrame DEF PlanInv, Live

\* A transaction is not disturbed while its session keeps still.
LEMMA WorkersFrame ==
    ASSUME ImportInv, NEW w \in Workers, worker'[w] = worker[w],
           worker[w].pc # "idle" => session'[worker[w].request] = session[worker[w].request]
    PROVE  LET t == worker'[w] IN
           /\ t.pc = "idle" <=> t.request = "none"
           /\ t.pc # "idle" => session'[t.request].state = "queued"
           /\ t.pc = "claimed" => t.row = session'[t.request]
           /\ t.pc = "processed" =>
                Result(t.request, session'[t.request], t.row, t.receipts, t.rows)
  BY DEF ImportInv, WorkerInv

\* A session that a step leaves alone.
LEMMA SessionFrame ==
    ASSUME ImportInv, NEW r \in Requests, Same(r), open' \subseteq open
    PROVE  /\ session'[r].state # "absent" => Fit(r, session'[r], receipts'[r], imported'[r])
           /\ session'[r].state = "absent" => Gone(r)'
  BY DEF ImportInv, SessionInv, Same, Live, Gone

\* Steps that leave every session alone.
LEMMA SessionsFrame ==
    ASSUME ImportInv, UNCHANGED <<session, receipts, imported>>, open' \subseteq open
    PROVE  SessionInv' /\ \A r \in Requests : Same(r) /\ Evolves(r)
  <1>1. \A r \in Requests : Same(r) /\ Evolves(r)
    BY DEF Same, Evolves
  <1>2. SessionInv'
    BY <1>1, SessionFrame DEF SessionInv, Live
  <1> QED BY <1>1, <1>2

-----------------------------------------------------------------------------
(* One lemma per action *)

\* The turn ends or the owner loses rights: the sessions stay.
LEMMA OutsideKeeps ==
    ASSUME ImportInv, UNCHANGED <<session, receipts, imported, order, worker, plan>>, open' \subseteq open
    PROVE  ImportInv'
  <1>1. TypeOK'
    BY DEF ImportInv, TypeOK
  <1>2. SessionInv' /\ \A r \in Requests : Evolves(r)
    BY SessionsFrame
  <1>3. PlanInv'
    BY <1>1, <1>2, PlansFrame
  <1>4. WorkerInv' /\ LockInv'
    BY DEF ImportInv, WorkerInv, LockInv
  <1> QED BY <1>1, <1>2, <1>3, <1>4 DEF ImportInv

\* A session is created for a request that has none.
LEMMA CreateKeeps ==
    ASSUME ImportInv, NEW r \in Requests, r \in open, session[r].state = "absent",
           NEW rows \in Seq(CellValues), Len(rows) = Len(FileRows[r]), Create(r, rows)
    PROVE  ImportInv'
  <1>1. /\ session' = [session EXCEPT ![r] = NewSession(r, rows)] /\ order' = Append(order, r)
        /\ UNCHANGED <<receipts, imported, open, worker, plan>>
    BY DEF Create
  <1>2. Fit(r, NewSession(r, rows), << >>, << >>) /\ NewSession(r, rows).state = "queued"
    BY NewFit
  <1>3. NewSession(r, rows) \in SessionRow
    BY <1>2 DEF Fit
  <1>4. session' \in [Requests -> SessionRow] /\ session'[r] = NewSession(r, rows)
    BY <1>1, <1>3 DEF ImportInv, TypeOK
  <1>5. \A q \in Requests : q # r => Same(q)
    BY <1>1 DEF ImportInv, TypeOK, Same
  <1>6. TypeOK'
    <2>1. order' \in Seq(Requests)
      BY <1>1 DEF ImportInv, TypeOK
    <2> QED BY <2>1, <1>1, <1>4 DEF ImportInv, TypeOK
  <1>7. \A q \in Requests : Evolves(q)
    BY <1>5 DEF Evolves, Created, Live
  <1>8. PlanInv'
    BY <1>1, <1>6, <1>7, PlansFrame
  <1>9. receipts'[r] = << >> /\ imported'[r] = << >>
    BY <1>1 DEF ImportInv, SessionInv, Live, Gone
  <1>10. SessionInv'
    <2>1. ASSUME NEW q \in Requests
          PROVE  /\ session'[q].state # "absent" => Fit(q, session'[q], receipts'[q], imported'[q])
                 /\ session'[q].state = "absent" => Gone(q)'
      <3>1. CASE q = r
        BY <3>1, <1>2, <1>4, <1>9
      <3>2. CASE q # r
        BY <3>2, <1>1, <1>5, SessionFrame
      <3> QED BY <3>1, <3>2
    <2> QED BY <2>1 DEF SessionInv, Live
  <1>11. WorkerInv'
    <2>1. ASSUME NEW w \in Workers, worker[w].pc # "idle"
          PROVE  session'[worker[w].request] = session[worker[w].request]
      <3>1. session[worker[w].request].state = "queued"
        BY <2>1 DEF ImportInv, WorkerInv
      <3>2. worker[w].request # r
        BY <3>1
      <3> QED BY <3>2, <1>1
    <2> QED BY <2>1, <1>1, WorkersFrame DEF WorkerInv
  <1>12. LockInv'
    BY <1>1 DEF ImportInv, LockInv
  <1> QED BY <1>6, <1>8, <1>10, <1>11, <1>12 DEF ImportInv

\* What a step of one transaction leaves alone.
Alone(w) ==
    /\ UNCHANGED <<session, receipts, imported, order, open, plan>>
    /\ \A v \in Workers : v # w => worker'[v] = worker[v]

\* What worker w must satisfy after its step.
Sound(w) ==
    LET t == worker'[w] IN
    /\ t \in WorkerRow
    /\ t.pc = "idle" <=> t.request = "none"
    /\ t.pc # "idle" => session[t.request].state = "queued"
    /\ t.pc = "claimed" => t.row = session[t.request]
    /\ t.pc = "processed" => Result(t.request, session[t.request], t.row, t.receipts, t.rows)
    /\ \A v \in Workers : (v # w /\ t.request # "none") => worker[v].request # t.request

\* A transaction changes nothing that is committed.
LEMMA TransactionKeeps ==
    ASSUME ImportInv, NEW w \in Workers, Alone(w), Sound(w), DOMAIN worker' = Workers,
           worker' = [v \in Workers |-> worker'[v]]
    PROVE  ImportInv'
  <1>1. UNCHANGED <<session, receipts, imported, order, open, plan>>
        /\ \A v \in Workers : v # w => worker'[v] = worker[v]
    BY DEF Alone
  <1>2. worker' \in [Workers -> WorkerRow]
    <2>1. \A v \in Workers : worker'[v] \in WorkerRow
      BY <1>1 DEF Sound, ImportInv, TypeOK
    <2> QED BY <2>1
  <1>3. TypeOK'
    BY <1>1, <1>2 DEF ImportInv, TypeOK
  <1>4. SessionInv' /\ \A r \in Requests : Evolves(r)
    BY <1>1, SessionsFrame
  <1>5. PlanInv'
    BY <1>1, <1>3, <1>4, PlansFrame
  <1>6. WorkerInv'
    <2> SUFFICES ASSUME NEW v \in Workers
                 PROVE  LET t == worker'[v] IN
                        /\ t.pc = "idle" <=> t.request = "none"
                        /\ t.pc # "idle" => session'[t.request].state = "queued"
                        /\ t.pc = "claimed" => t.row = session'[t.request]
                        /\ t.pc = "processed" =>
                             Result(t.request, session'[t.request], t.row, t.receipts, t.rows)
      BY DEF WorkerInv
    <2>1. CASE v = w
      BY <2>1, <1>1 DEF Sound
    <2>2. CASE v # w
      BY <2>2, <1>1, WorkersFrame
    <2> QED BY <2>1, <2>2
  <1>7. LockInv'
    <2> SUFFICES ASSUME NEW u \in Workers, NEW v \in Workers,
                        worker'[u].request = worker'[v].request, worker'[u].request # "none", u # v
                 PROVE  FALSE
      BY DEF LockInv
    <2>1. CASE u = w
      BY <2>1, <1>1 DEF Sound
    <2>2. CASE v = w
      BY <2>2, <1>1 DEF Sound
    <2>3. CASE u # w /\ v # w
      BY <2>3, <1>1 DEF ImportInv, LockInv
    <2> QED BY <2>1, <2>2, <2>3
  <1> QED BY <1>3, <1>4, <1>5, <1>6, <1>7 DEF ImportInv

\* FOR UPDATE SKIP LOCKED: the claimed session is queued and nobody else's.
LEMMA ClaimKeeps ==
    ASSUME ImportInv, NEW w \in Workers, Claim(w)
    PROVE  ImportInv'
  <1>1. PICK i \in DOMAIN order :
          /\ Claimable(order[i])
          /\ worker' = [worker EXCEPT ![w] = [NoTransaction EXCEPT
                !.pc = "claimed", !.request = order[i], !.row = session[order[i]]]]
    BY DEF Claim
  <1> DEFINE r == order[i]
  <1>2. r \in Requests /\ session[r].state = "queued" /\ r \notin Locked /\ session[r] \in SessionRow
    BY <1>1 DEF ImportInv, TypeOK, Claimable
  <1> HIDE DEF r
  <1>3. Alone(w) /\ worker' = [v \in Workers |-> worker'[v]] /\ DOMAIN worker' = Workers
    BY <1>1 DEF Claim, db, Alone, ImportInv, TypeOK
  <1> DEFINE t == worker'[w]
  <1>4. t = [pc |-> "claimed", request |-> r, row |-> session[r], receipts |-> << >>, rows |-> << >>]
    BY <1>1, Zenon DEF ImportInv, TypeOK, NoTransaction, r
  <1> HIDE DEF t
  <1>5. t \in WorkerRow
    BY <1>2, <1>4, EmptyRows DEF WorkerRow
  <1>6. \A v \in Workers : worker[v].request # r
    BY <1>2, NoneAssumption DEF Locked
  <1>7. Sound(w)
    BY <1>2, <1>4, <1>5, <1>6, NoneAssumption DEF Sound, t
  <1> QED BY <1>3, <1>7, TransactionKeeps

\* A chunk is processed in the transaction that claimed its session.
LEMMA ProcessedKeeps ==
    ASSUME ImportInv, NEW w \in Workers, worker[w].pc = "claimed",
           NEW row \in SessionRow, NEW rc \in Seq(ReceiptRow), NEW rows \in Seq(CellValues),
           Processed(w, row, rc, rows),
           Result(worker[w].request, worker[w].row, row, rc, rows)
    PROVE  ImportInv'
  <1>1. Alone(w) /\ worker' = [v \in Workers |-> worker'[v]] /\ DOMAIN worker' = Workers
    BY DEF Processed, db, Alone, ImportInv, TypeOK
  <1>2. worker[w] \in WorkerRow /\ worker[w].request # "none" /\ worker[w].row = session[worker[w].request]
        /\ session[worker[w].request].state = "queued"
    BY DEF ImportInv, TypeOK, WorkerInv
  <1> DEFINE t == worker'[w]
  <1>3. t = [worker[w] EXCEPT !.pc = "processed", !.row = row, !.receipts = rc, !.rows = rows]
    BY DEF Processed, ImportInv, TypeOK
  <1> HIDE DEF t
  <1>4. t \in WorkerRow /\ t.pc = "processed" /\ t.request = worker[w].request /\ t.row = row
        /\ t.receipts = rc /\ t.rows = rows
    BY <1>2, <1>3 DEF WorkerRow
  <1>5. \A v \in Workers : v # w => worker[v].request # worker[w].request
    BY <1>2 DEF ImportInv, LockInv
  <1>6. Sound(w)
    BY <1>2, <1>4, <1>5 DEF Sound, t
  <1> QED BY <1>1, <1>6, TransactionKeeps

\* The native import, a rejection of it, and any other failure.
LEMMA ChunkKeeps ==
    ASSUME ImportInv, NEW w \in Workers, ImportChunk(w) \/ RejectChunk(w) \/ FailChunk(w)
    PROVE  ImportInv'
  <1> DEFINE t == worker[w]
             r == t.request
             n == ChunkInput(r, t.row)
  <1>1. t.pc = "claimed"
    BY DEF ImportChunk, RejectChunk, FailChunk
  <1>2. r \in Requests /\ t.row = session[r] /\ session[r].state = "queued"
    BY <1>1 DEF ImportInv, TypeOK, WorkerInv, WorkerRow
  <1>3. Fit(r, t.row, receipts[r], imported[r]) /\ t.row.state = "queued"
    BY <1>2 DEF ImportInv, SessionInv, Live
  <1> HIDE DEF r
  <1>4. t.row \in SessionRow /\ t.row.next \in Nat /\ t.row.next <= Total(t.row) /\ t.row.chunks \in Nat
        /\ t.row.staged \in Seq(CellValues) /\ Total(t.row) = Len(t.row.staged)
    BY <1>3 DEF Fit, SessionRow, Total
  <1>5. n \in Nat /\ t.row.next + n <= Total(t.row)
    BY <1>2, <1>4, ChunkBounds
  <1>6. CASE ImportChunk(w)
    <2> DEFINE rc == <<Receipt(t.row, t.row.chunks + 1, n, "completed")>>
               rows == SubSeq(t.row.staged, t.row.next + 1, t.row.next + n)
    <2>1. n > 0 /\ Processed(w, AfterImport(r, t.row), rc, rows)
      BY <1>6 DEF ImportChunk, MayProcess, r
    <2>2. AfterImport(r, t.row) \in SessionRow
      BY <1>2, <1>3, <2>1, ImportFit DEF Fit
    <2>3. rc \in Seq(ReceiptRow)
      <3>1. Receipt(t.row, t.row.chunks + 1, n, "completed") \in ReceiptRow
        BY <1>4, <1>5 DEF Receipt, ReceiptRow
      <3> QED BY <3>1
    <2>4. rows \in Seq(CellValues)
      BY <1>4, <1>5
    <2>5. Result(r, t.row, AfterImport(r, t.row), rc, rows)
      BY <2>1 DEF Result
    <2> HIDE DEF rc, rows
    <2> QED BY <1>1, <2>1, <2>2, <2>3, <2>4, <2>5, ProcessedKeeps DEF r
  <1>7. CASE RejectChunk(w)
    <2> DEFINE rc == <<Receipt(t.row, t.row.chunks + 1, n, "rejected")>>
    <2>1. n > 0 /\ Processed(w, AfterRejection(r, t.row), rc, << >>)
      BY <1>7 DEF RejectChunk, MayProcess, r
    <2>2. AfterRejection(r, t.row) \in SessionRow
      BY <1>2, <1>3, <2>1, RejectFit DEF Fit
    <2>3. rc \in Seq(ReceiptRow)
      <3>1. Receipt(t.row, t.row.chunks + 1, n, "rejected") \in ReceiptRow
        BY <1>4, <1>5 DEF Receipt, ReceiptRow
      <3> QED BY <3>1
    <2>4. Result(r, t.row, AfterRejection(r, t.row), rc, << >>)
      BY <2>1 DEF Result
    <2> HIDE DEF rc
    <2> QED BY <1>1, <2>1, <2>2, <2>3, <2>4, EmptyRows, ProcessedKeeps DEF r
  <1>8. CASE FailChunk(w)
    <2> DEFINE new == [t.row EXCEPT !.state = "failed", !.error = "processing_failed"]
    <2>1. Processed(w, new, << >>, << >>)
      BY <1>8 DEF FailChunk
    <2>2. new \in SessionRow
      BY <1>4 DEF SessionRow
    <2>3. Result(r, t.row, new, << >>, << >>)
      BY DEF Result
    <2> HIDE DEF new
    <2> QED BY <1>1, <2>1, <2>2, <2>3, EmptyRows, ProcessedKeeps DEF r
  <1> QED BY <1>6, <1>7, <1>8

\* A worker that dies before its commit leaves nothing behind.
LEMMA CrashKeeps ==
    ASSUME ImportInv, NEW w \in Workers, CrashWorker(w)
    PROVE  ImportInv'
  <1>1. Alone(w) /\ worker' = [v \in Workers |-> worker'[v]] /\ DOMAIN worker' = Workers
        /\ worker'[w] = NoTransaction
    BY DEF CrashWorker, db, Alone, ImportInv, TypeOK
  <1>2. Sound(w)
    BY <1>1, EmptyRows DEF Sound, NoTransaction
  <1> QED BY <1>1, <1>2, TransactionKeeps

\* A chunk leaves the staged rows and the revision of its session alone.
LEMMA ResultRow ==
    ASSUME NEW r \in Requests, NEW row \in SessionRow, row.state = "queued", NEW new, NEW rc, NEW rows,
           Result(r, row, new, rc, rows)
    PROVE  new.state # "absent" /\ new.revision = row.revision /\ new.staged = row.staged
  <1> DEFINE st == IF row.next + ChunkInput(r, row) >= Total(row) THEN "completed" ELSE "queued"
             fl == IF row.imported > 0 THEN "partial" ELSE "failed"
  <1>1. st # "absent" /\ fl # "absent"
    OBVIOUS
  <1>2. CASE new = AfterImport(r, row)
    <2>1. new.state = st /\ new.revision = row.revision /\ new.staged = row.staged
      BY <1>2 DEF AfterImport, SessionRow
    <2> QED BY <1>1, <2>1
  <1>3. CASE new = AfterRejection(r, row)
    <2>1. new.state = fl /\ new.revision = row.revision /\ new.staged = row.staged
      BY <1>3 DEF AfterRejection, SessionRow
    <2> QED BY <1>1, <2>1
  <1>4. CASE new = [row EXCEPT !.state = "failed", !.error = "processing_failed"]
    BY <1>4 DEF SessionRow
  <1> QED BY <1>2, <1>3, <1>4 DEF Result

\* What the commit of a chunk writes.
LEMMA CommitFacts ==
    ASSUME ImportInv, NEW w \in Workers, CommitChunk(w)
    PROVE  LET r == worker[w].request IN
           /\ r \in Requests /\ session[r].state = "queued"
           /\ session'[r] = worker[w].row /\ session'[r].state # "absent"
           /\ session'[r].revision = session[r].revision /\ session'[r].staged = session[r].staged
           /\ receipts'[r] = receipts[r] \o worker[w].receipts
           /\ imported'[r] = imported[r] \o worker[w].rows
           /\ Fit(r, session'[r], receipts'[r], imported'[r])
           /\ \A q \in Requests : q # r => Same(q)
  <1> DEFINE t == worker[w]
             r == t.request
  <1>1. t.pc = "processed" /\ t \in WorkerRow
    BY DEF CommitChunk, ImportInv, TypeOK
  <1>2. r \in Requests /\ session[r].state = "queued" /\ session[r] \in SessionRow
        /\ Result(r, session[r], t.row, t.receipts, t.rows)
    BY <1>1 DEF ImportInv, TypeOK, WorkerInv, WorkerRow
  <1>3. Fit(r, session[r], receipts[r], imported[r])
    BY <1>2 DEF ImportInv, SessionInv, Live
  <1>4. Fit(r, t.row, receipts[r] \o t.receipts, imported[r] \o t.rows)
    BY <1>2, <1>3, ResultFit
  <1>5. t.row.state # "absent" /\ t.row.revision = session[r].revision /\ t.row.staged = session[r].staged
    BY <1>2, ResultRow
  <1>6. session'[r] = t.row /\ receipts'[r] = receipts[r] \o t.receipts
        /\ imported'[r] = imported[r] \o t.rows /\ \A q \in Requests : q # r => Same(q)
    BY <1>2 DEF CommitChunk, ImportInv, TypeOK, Same
  <1> QED BY <1>2, <1>4, <1>5, <1>6

\* Rows, receipt and cursor become visible together.
LEMMA CommitKeeps ==
    ASSUME ImportInv, NEW w \in Workers, CommitChunk(w)
    PROVE  ImportInv'
  <1> DEFINE t == worker[w]
             r == t.request
  <1>1. /\ r \in Requests /\ session[r].state = "queued"
        /\ session'[r] = t.row /\ session'[r].state # "absent"
        /\ session'[r].revision = session[r].revision
        /\ receipts'[r] = receipts[r] \o t.receipts
        /\ imported'[r] = imported[r] \o t.rows
        /\ Fit(r, session'[r], receipts'[r], imported'[r])
        /\ \A q \in Requests : q # r => Same(q)
    BY CommitFacts
  <1>2. t.pc = "processed" /\ t \in WorkerRow /\ UNCHANGED <<order, open, plan>>
        /\ worker' = [worker EXCEPT ![w] = NoTransaction]
    BY DEF CommitChunk, ImportInv, TypeOK
  <1>3. t.receipts \in Seq(ReceiptRow) /\ receipts[r] \in Seq(ReceiptRow)
    BY <1>1, <1>2 DEF ImportInv, TypeOK, WorkerRow
  <1> HIDE DEF r
  <1>4. TypeOK'
    <2>1. /\ session' = [session EXCEPT ![r] = t.row]
          /\ receipts' = [receipts EXCEPT ![r] = receipts'[r]]
          /\ imported' = [imported EXCEPT ![r] = imported'[r]]
      <3>1. /\ session' = [session EXCEPT ![r] = t.row]
            /\ receipts' = [receipts EXCEPT ![r] = @ \o t.receipts]
            /\ imported' = [imported EXCEPT ![r] = @ \o t.rows]
        BY DEF CommitChunk, r
      <3> QED BY <3>1, <1>1 DEF ImportInv, TypeOK
    <2>2. session'[r] \in SessionRow /\ receipts'[r] \in Seq(ReceiptRow) /\ imported'[r] \in Seq(CellValues)
      BY <1>1 DEF Fit
    <2>3. session' \in [Requests -> SessionRow] /\ receipts' \in [Requests -> Seq(ReceiptRow)]
          /\ imported' \in [Requests -> Seq(CellValues)]
      BY <1>1, <2>1, <2>2 DEF ImportInv, TypeOK
    <2>4. worker' \in [Workers -> WorkerRow]
      BY <1>2, EmptyRows DEF ImportInv, TypeOK
    <2> QED BY <2>3, <2>4, <1>2 DEF ImportInv, TypeOK
  <1>5. Advanced(r)
    <2>1. \A n \in 1..Len(receipts[r]) : n \in 1..Len(receipts'[r]) /\ receipts'[r][n] = receipts[r][n]
      <3> DEFINE a == receipts[r]
                 b == t.receipts
      <3>1. receipts'[r] = a \o b /\ a \in Seq(ReceiptRow) /\ b \in Seq(ReceiptRow)
        BY <1>1, <1>3
      <3> HIDE DEF a, b
      <3>2. /\ Len(a \o b) = Len(a) + Len(b) /\ Len(a) \in Nat /\ Len(b) \in Nat
            /\ \A i \in 1..(Len(a) + Len(b)) : (a \o b)[i] = IF i <= Len(a) THEN a[i] ELSE b[i - Len(a)]
        BY <3>1, ConcatProperties
      <3>3. \A n \in 1..Len(a) : n \in 1..Len(a \o b) /\ (a \o b)[n] = a[n]
        BY <3>2
      <3> QED BY <3>1, <3>3 DEF a
    <2> QED BY <2>1, <1>1 DEF Advanced
  <1>6. \A q \in Requests : Evolves(q)
    BY <1>1, <1>5 DEF Evolves
  <1>7. PlanInv'
    BY <1>2, <1>4, <1>6, PlansFrame
  <1>8. SessionInv'
    <2>1. ASSUME NEW q \in Requests
          PROVE  /\ session'[q].state # "absent" => Fit(q, session'[q], receipts'[q], imported'[q])
                 /\ session'[q].state = "absent" => Gone(q)'
      <3>1. CASE q = r
        BY <3>1, <1>1
      <3>2. CASE q # r
        BY <3>2, <1>1, <1>2, SessionFrame
      <3> QED BY <3>1, <3>2
    <2> QED BY <2>1 DEF SessionInv, Live
  <1>9. \A v \in Workers : v # w => (worker'[v] = worker[v] /\ worker[v].request # r)
    <2>1. r # "none"
      BY <1>1, NoneAssumption
    <2> QED BY <2>1, <1>2 DEF ImportInv, LockInv, TypeOK, r
  <1>10. worker'[w] = NoTransaction
    BY <1>2 DEF ImportInv, TypeOK
  <1>11. WorkerInv'
    <2> SUFFICES ASSUME NEW v \in Workers
                 PROVE  LET u == worker'[v] IN
                        /\ u.pc = "idle" <=> u.request = "none"
                        /\ u.pc # "idle" => session'[u.request].state = "queued"
                        /\ u.pc = "claimed" => u.row = session'[u.request]
                        /\ u.pc = "processed" =>
                             Result(u.request, session'[u.request], u.row, u.receipts, u.rows)
      BY DEF WorkerInv
    <2>1. CASE v = w
      BY <2>1, <1>10 DEF NoTransaction
    <2>2. CASE v # w
      <3>1. worker[v].pc # "idle" => session'[worker[v].request] = session[worker[v].request]
        <4> SUFFICES ASSUME worker[v].pc # "idle"
                     PROVE  session'[worker[v].request] = session[worker[v].request]
          OBVIOUS
        <4>1. worker[v].request \in Requests
          BY DEF ImportInv, TypeOK, WorkerRow, WorkerInv
        <4> QED BY <4>1, <1>1, <1>9, <2>2 DEF Same
      <3> QED BY <3>1, <2>2, <1>9, WorkersFrame
    <2> QED BY <2>1, <2>2
  <1>12. LockInv'
    <2> SUFFICES ASSUME NEW u \in Workers, NEW v \in Workers,
                        worker'[u].request = worker'[v].request, worker'[u].request # "none", u # v
                 PROVE  FALSE
      BY DEF LockInv
    <2>1. u # w /\ v # w
      BY <1>10 DEF NoTransaction
    <2> QED BY <2>1, <1>9 DEF ImportInv, LockInv
  <1> QED BY <1>4, <1>7, <1>8, <1>11, <1>12 DEF ImportInv

\* A terminal session is removed once its turn has ended and nobody holds it.
LEMMA CleanupKeeps ==
    ASSUME ImportInv, NEW r \in Requests, CleanupTerminal(r)
    PROVE  ImportInv'
  <1>1. /\ r \notin open /\ r \notin Locked
        /\ session' = [session EXCEPT ![r] = Absent] /\ receipts' = [receipts EXCEPT ![r] = << >>]
        /\ UNCHANGED <<imported, order, open, worker, plan>>
    BY DEF CleanupTerminal
  <1>2. session'[r] = Absent /\ receipts'[r] = << >> /\ \A q \in Requests : q # r => Same(q)
    BY <1>1 DEF ImportInv, TypeOK, Same
  <1>3. TypeOK'
    BY <1>1, EmptyRows DEF ImportInv, TypeOK
  <1>4. \A q \in Requests : Evolves(q)
    BY <1>1, <1>2 DEF Evolves, Removed
  <1>5. PlanInv'
    BY <1>1, <1>3, <1>4, PlansFrame
  <1>6. SessionInv'
    <2>1. ASSUME NEW q \in Requests
          PROVE  /\ session'[q].state # "absent" => Fit(q, session'[q], receipts'[q], imported'[q])
                 /\ session'[q].state = "absent" => Gone(q)'
      <3>1. CASE q = r
        BY <3>1, <1>1, <1>2 DEF Absent, Gone
      <3>2. CASE q # r
        BY <3>2, <1>1, <1>2, SessionFrame
      <3> QED BY <3>1, <3>2
    <2> QED BY <2>1 DEF SessionInv, Live
  <1>7. WorkerInv'
    <2>1. ASSUME NEW w \in Workers, worker[w].pc # "idle"
          PROVE  session'[worker[w].request] = session[worker[w].request]
      <3>1. worker[w].request \in Requests /\ worker[w].request # "none"
        BY <2>1 DEF ImportInv, TypeOK, WorkerRow, WorkerInv
      <3>2. worker[w].request # r
        BY <3>1, <1>1 DEF Locked
      <3> QED BY <3>1, <3>2, <1>2 DEF Same
    <2> QED BY <2>1, <1>1, WorkersFrame DEF WorkerInv
  <1>8. LockInv'
    BY <1>1 DEF ImportInv, LockInv
  <1> QED BY <1>3, <1>5, <1>6, <1>7, <1>8 DEF ImportInv

\* What PlanInv says of one repair.
PlanSound(p) ==
    plan[p].pc \in {"approved", "writing"} =>
        /\ plan[p].request \in Requests
        /\ plan[p].fixes \in Fixes
        /\ plan[p].print \in Nat \X Nat \X Seq(CellValues) \X Fixes
        /\ plan[p].request \in open => Live(plan[p].request)
        /\ Live(plan[p].request) => InWindow(p)
        /\ plan[p].pc = "writing" => RepairInv(p)

\* A step of one repair that leaves the sessions alone.
LEMMA RepairStep ==
    ASSUME ImportInv, NEW p \in Plans, UNCHANGED <<session, receipts, imported, order, open, worker>>,
           NEW new \in PlanRow, plan' = [plan EXCEPT ![p] = new], PlanSound(p)'
    PROVE  ImportInv'
  <1>1. TypeOK'
    BY DEF ImportInv, TypeOK
  <1>2. SessionInv' /\ \A r \in Requests : Evolves(r)
    BY SessionsFrame
  <1>3. WorkerInv' /\ LockInv'
    BY DEF ImportInv, WorkerInv, LockInv
  <1>4. ASSUME NEW q \in Plans PROVE PlanSound(q)'
    <2>1. CASE q = p
      BY <2>1
    <2>2. CASE q # p
      <3>1. plan'[q] = plan[q]
        BY <2>2 DEF ImportInv, TypeOK
      <3> QED BY <3>1, <1>1, <1>2, PlanFrame DEF PlanSound, Live
    <2> QED BY <2>1, <2>2
  <1>5. PlanInv'
    BY <1>4 DEF PlanInv, PlanSound
  <1> QED BY <1>1, <1>2, <1>3, <1>5 DEF ImportInv

\* The rejection a repair is about is the last receipt of its session.
LEMMA ActiveRejection ==
    ASSUME ImportInv, NEW r \in Requests, Live(r), MayRepair(r, session[r], receipts[r])
    PROVE  LET last == LastReceipt(receipts[r]) IN
           /\ session[r].state \in {"partial", "failed"}
           /\ Len(receipts[r]) \in Nat /\ Len(receipts[r]) > 0
           /\ last = receipts[r][Len(receipts[r])]
           /\ last \in ReceiptRow /\ last.sequence = Len(receipts[r])
           /\ session[r].failed > 0
  <1> DEFINE row == session[r]
             chunks == receipts[r]
             last == LastReceipt(chunks)
  <1>1. row \in SessionRow /\ chunks \in Seq(ReceiptRow)
        /\ \A i \in DOMAIN chunks : chunks[i].sequence = i /\ chunks[i].start <= chunks[i].end
    BY DEF ImportInv, SessionInv, Fit
  <1>2. row.state \in {"partial", "failed"} /\ DOMAIN chunks # {} /\ row.failed >= Input(last)
    BY DEF MayRepair, HasActiveRejection
  <1> HIDE DEF row, chunks
  <1>3. Len(chunks) \in Nat /\ Len(chunks) > 0 /\ DOMAIN chunks = 1..Len(chunks)
    BY <1>1, <1>2
  <1>4. Len(chunks) \in DOMAIN chunks
    BY <1>3
  <1>5. last \in ReceiptRow /\ last.sequence = Len(chunks) /\ last.start <= last.end
    BY <1>1, <1>4 DEF LastReceipt
  <1>6. row.failed > 0
    <2>1. last.start \in Nat /\ last.end \in Nat /\ row.failed \in Nat
      BY <1>1, <1>5 DEF ReceiptRow, SessionRow
    <2> QED BY <2>1, <1>2, <1>5 DEF Input
  <1> QED BY <1>2, <1>3, <1>5, <1>6 DEF LastReceipt, row, chunks

\* The preview binds its corrections to the window of the last receipt.
LEMMA PreviewKeeps ==
    ASSUME ImportInv, NEW p \in Plans, NEW r \in Requests, PreviewRepair(p, r)
    PROVE  ImportInv'
  <1> DEFINE row == session[r]
             chunks == receipts[r]
             last == LastReceipt(chunks)
  <1>1. Live(r) /\ MayRepair(r, row, chunks) /\ UNCHANGED <<session, receipts, imported, order, open, worker>>
    BY DEF PreviewRepair, Live, db
  <1>2. PICK fixes \in Corrections(row, chunks) :
          plan' = [plan EXCEPT ![p] = [NoPlan EXCEPT !.pc = "approved", !.request = r,
                    !.fixes = fixes, !.print = RepairPrint(row, chunks, fixes)]]
    BY DEF PreviewRepair
  <1>3. /\ Len(chunks) \in Nat /\ Len(chunks) > 0 /\ last = chunks[Len(chunks)]
        /\ last \in ReceiptRow /\ last.sequence = Len(chunks)
    BY <1>1, ActiveRejection
  <1>4. last.start \in Nat /\ last.end \in Nat
    BY <1>3 DEF ReceiptRow
  <1>5. fixes \in Fixes /\ \A i \in DOMAIN fixes : last.start <= i /\ i <= last.end
    <2>1. PICK D \in SUBSET (last.start .. last.end) : fixes \in [D -> Cells]
      BY <1>2 DEF Corrections
    <2>2. D \in SUBSET Nat /\ DOMAIN fixes = D
      BY <2>1, <1>4
    <2>3. \A i \in D : last.start <= i /\ i <= last.end
      BY <2>1, <1>4
    <2> QED BY <2>1, <2>2, <2>3 DEF Fixes
  <1>6. row.revision + 1 \in Nat /\ row.staged \in Seq(CellValues)
    BY DEF ImportInv, TypeOK, SessionRow
  <1> DEFINE print == <<row.revision + 1, Len(chunks), row.staged, fixes>>
             new == [NoPlan EXCEPT !.pc = "approved", !.request = r, !.fixes = fixes, !.print = print]
  <1>7. print \in Nat \X Nat \X Seq(CellValues) \X Fixes /\ print[2] = Len(chunks)
    BY <1>3, <1>5, <1>6
  <1>8. RepairPrint(row, chunks, fixes) = print
    BY <1>3 DEF RepairPrint
  <1> HIDE DEF print
  <1>9. plan' = [plan EXCEPT ![p] = new]
    BY <1>2, <1>8
  <1>10. new \in PlanRow /\ new.pc = "approved" /\ new.request = r /\ new.fixes = fixes /\ new.print = print
    BY <1>5, <1>7, EmptyRows DEF PlanRow
  <1> HIDE DEF new
  <1>11. plan'[p] = new
    BY <1>9 DEF ImportInv, TypeOK
  <1>12. InWindow(p)'
    <2>1. plan'[p].request = r /\ plan'[p].fixes = fixes /\ plan'[p].print[2] = Len(chunks)
      BY <1>7, <1>10, <1>11
    <2>2. receipts'[r] = chunks /\ chunks[Len(chunks)] = last /\ Len(chunks) \in 1..Len(chunks)
      BY <1>1, <1>3
    <2> QED BY <2>1, <2>2, <1>5 DEF InWindow
  <1>13. PlanSound(p)'
    BY <1>1, <1>5, <1>7, <1>10, <1>11, <1>12 DEF PlanSound, Live
  <1> QED BY <1>1, <1>9, <1>10, <1>13, RepairStep

\* The executor goes on only if the session is as the preview saw it.
LEMMA BeginKeeps ==
    ASSUME ImportInv, NEW p \in Plans, BeginRepair(p)
    PROVE  ImportInv'
  <1> DEFINE r == plan[p].request
             row == session[r]
             chunks == receipts[r]
  <1>1. plan[p].pc = "approved" /\ UNCHANGED <<session, receipts, imported, order, open, worker>>
    BY DEF BeginRepair, db
  <1>2. /\ r \in Requests /\ plan[p].fixes \in Fixes /\ plan[p] \in PlanRow
        /\ plan[p].print \in Nat \X Nat \X Seq(CellValues) \X Fixes
        /\ r \in open => Live(r)
        /\ Live(r) => InWindow(p)
    BY <1>1 DEF ImportInv, PlanInv, TypeOK
  <1>3. CASE Live(r) /\ PreviewStillHolds(r, row, chunks, p)
    <2> DEFINE new == [plan[p] EXCEPT !.pc = "writing", !.row = row]
    <2>1. plan' = [plan EXCEPT ![p] = new]
      BY <1>3 DEF BeginRepair, Live
    <2>2. row \in SessionRow
      BY <1>2 DEF ImportInv, TypeOK
    <2>3. /\ new \in PlanRow /\ new.pc = "writing" /\ new.row = row /\ new.request = r
          /\ new.fixes = plan[p].fixes /\ new.print = plan[p].print
      BY <1>2, <2>2 DEF PlanRow
    <2> HIDE DEF new
    <2>4. plan'[p] = new
      BY <2>1 DEF ImportInv, TypeOK
    <2>5. InWindow(p)'
      BY <1>1, <1>2, <1>3, <2>3, <2>4 DEF InWindow
    <2>6. RepairInv(p)'
      <3>1. MayRepair(r, row, chunks) /\ RepairPrint(row, chunks, plan[p].fixes) = plan[p].print
        BY <1>3 DEF PreviewStillHolds
      <3>2. /\ row.state \in {"partial", "failed"} /\ LastReceipt(chunks).sequence = Len(chunks)
            /\ row.failed > 0
        BY <3>1, <1>2, <1>3, ActiveRejection
      <3>3. plan[p].print[2] = Len(chunks) /\ plan[p].print[3] = row.staged
        BY <3>1, <3>2 DEF RepairPrint
      <3> QED BY <1>1, <2>3, <2>4, <3>2, <3>3 DEF RepairInv
    <2>7. PlanSound(p)'
      BY <1>1, <1>2, <2>3, <2>4, <2>5, <2>6 DEF PlanSound, Live
    <2> QED BY <1>1, <2>1, <2>3, <2>7, RepairStep
  <1>4. CASE ~(Live(r) /\ PreviewStillHolds(r, row, chunks, p))
    <2> DEFINE new == [plan[p] EXCEPT !.pc = "refused"]
    <2>1. plan' = [plan EXCEPT ![p] = new]
      BY <1>4 DEF BeginRepair, Live
    <2>2. new \in PlanRow /\ new.pc = "refused"
      BY <1>2 DEF PlanRow
    <2> HIDE DEF new
    <2>3. plan'[p] = new
      BY <2>1 DEF ImportInv, TypeOK
    <2>4. PlanSound(p)'
      BY <2>2, <2>3 DEF PlanSound
    <2> QED BY <1>1, <2>1, <2>2, <2>4, RepairStep
  <1> QED BY <1>3, <1>4

\* A repair that commits finds the session that its approval saw.
LEMMA RepairFacts ==
    ASSUME ImportInv, NEW p \in Plans, CommitRepair(p), session[plan[p].request] = plan[p].row
    PROVE  LET r == plan[p].request IN
           /\ r \in Requests /\ Live(r) /\ plan[p].fixes \in Fixes
           /\ Fit(r, session[r], receipts[r], imported[r])
           /\ session[r].failed > 0 /\ plan[p].print[3] = session[r].staged
           /\ \A i \in DOMAIN plan[p].fixes :
                LastReceipt(receipts[r]).start <= i /\ i <= LastReceipt(receipts[r]).end
           /\ session' = [session EXCEPT ![r] = AfterRepair(r, session[r], receipts[r], plan[p].fixes)]
           /\ UNCHANGED <<receipts, imported>>
  <1> DEFINE r == plan[p].request
  <1>1. plan[p].pc = "writing"
    BY DEF CommitRepair
  <1>2. r \in Requests /\ plan[p].fixes \in Fixes /\ (Live(r) => InWindow(p)) /\ RepairInv(p)
    BY <1>1 DEF ImportInv, PlanInv
  <1>3. Live(r)
    BY <1>2 DEF RepairInv, Live
  <1>4. session[r].revision \in Nat
    BY <1>2 DEF ImportInv, TypeOK, SessionRow
  <1>5. /\ session[r].failed > 0 /\ plan[p].print[2] = Len(receipts[r])
        /\ plan[p].print[3] = session[r].staged
    BY <1>2, <1>3, <1>4 DEF RepairInv
  <1>6. \A i \in DOMAIN plan[p].fixes :
          LastReceipt(receipts[r]).start <= i /\ i <= LastReceipt(receipts[r]).end
    BY <1>2, <1>3, <1>5 DEF InWindow, LastReceipt
  <1>7. session' = [session EXCEPT ![r] = AfterRepair(r, session[r], receipts[r], plan[p].fixes)]
        /\ UNCHANGED <<receipts, imported>>
    BY DEF CommitRepair
  <1>8. Fit(r, session[r], receipts[r], imported[r])
    BY <1>2, <1>3 DEF ImportInv, SessionInv
  <1> QED BY <1>2, <1>3, <1>5, <1>6, <1>7, <1>8

\* The corrected session is queued again, and a repair that lost the race is refused.
LEMMA CommitRepairKeeps ==
    ASSUME ImportInv, NEW p \in Plans, CommitRepair(p)
    PROVE  ImportInv'
  <1> DEFINE r == plan[p].request
  <1>1. plan[p].pc = "writing" /\ r \notin Locked /\ UNCHANGED <<receipts, imported, order, open, worker>>
        /\ plan[p] \in PlanRow
    BY DEF CommitRepair, ImportInv, TypeOK
  <1>2. CASE session[r] # plan[p].row
    <2> DEFINE new == [plan[p] EXCEPT !.pc = "refused", !.row = Absent]
    <2>1. plan' = [plan EXCEPT ![p] = new] /\ UNCHANGED session
      BY <1>2 DEF CommitRepair
    <2>2. new \in PlanRow /\ new.pc = "refused"
      BY <1>1, EmptyRows DEF PlanRow
    <2> HIDE DEF new
    <2>3. plan'[p] = new
      BY <2>1 DEF ImportInv, TypeOK
    <2>4. PlanSound(p)'
      BY <2>2, <2>3 DEF PlanSound
    <2> QED BY <1>1, <2>1, <2>2, <2>4, RepairStep
  <1>3. CASE session[r] = plan[p].row
    <2> DEFINE row == AfterRepair(r, session[r], receipts[r], plan[p].fixes)
               new == [plan[p] EXCEPT !.pc = "done", !.row = Absent]
    <2>1. /\ r \in Requests /\ Live(r) /\ plan[p].fixes \in Fixes
          /\ Fit(r, session[r], receipts[r], imported[r]) /\ session[r].failed > 0
          /\ \A i \in DOMAIN plan[p].fixes :
                LastReceipt(receipts[r]).start <= i /\ i <= LastReceipt(receipts[r]).end
          /\ session' = [session EXCEPT ![r] = row]
      BY <1>3, RepairFacts
    <2>2. Fit(r, row, receipts[r], imported[r])
      BY <2>1, RepairFit
    <2>3. row \in SessionRow
      BY <2>2 DEF Fit
    <2>4. row.state = "queued" /\ row.revision = session[r].revision + 1
      BY <2>1 DEF AfterRepair, Fit, SessionRow
    <2> HIDE DEF row
    <2>5. plan' = [plan EXCEPT ![p] = new]
      BY <1>3 DEF CommitRepair
    <2>6. new \in PlanRow /\ new.pc = "done"
      BY <1>1, EmptyRows DEF PlanRow
    <2> HIDE DEF new
    <2>7. TypeOK' /\ plan'[p] = new /\ session'[r] = row
      BY <1>1, <2>1, <2>3, <2>5, <2>6 DEF ImportInv, TypeOK
    <2>8. \A q \in Requests : q # r => Same(q)
      BY <1>1, <2>1 DEF ImportInv, TypeOK, Same
    <2>9. Corrected(r) /\ \A q \in Requests : Evolves(q)
      BY <1>1, <2>1, <2>4, <2>7, <2>8 DEF Corrected, Evolves
    <2>10. SessionInv'
      <3>1. ASSUME NEW q \in Requests
            PROVE  /\ session'[q].state # "absent" => Fit(q, session'[q], receipts'[q], imported'[q])
                   /\ session'[q].state = "absent" => Gone(q)'
        <4>1. CASE q = r
          BY <4>1, <1>1, <2>2, <2>4, <2>7
        <4>2. CASE q # r
          BY <4>2, <1>1, <2>8, SessionFrame
        <4> QED BY <4>1, <4>2
      <3> QED BY <3>1 DEF SessionInv, Live
    <2>11. WorkerInv'
      <3>1. ASSUME NEW w \in Workers, worker[w].pc # "idle"
            PROVE  session'[worker[w].request] = session[worker[w].request]
        <4>1. worker[w].request \in Requests /\ worker[w].request # "none"
          BY <3>1 DEF ImportInv, TypeOK, WorkerRow, WorkerInv
        <4>2. worker[w].request # r
          BY <4>1, <1>1 DEF Locked
        <4> QED BY <4>1, <4>2, <2>8 DEF Same
      <3> QED BY <3>1, <1>1, WorkersFrame DEF WorkerInv
    <2>12. LockInv'
      BY <1>1 DEF ImportInv, LockInv
    <2>13. ASSUME NEW q \in Plans PROVE PlanSound(q)'
      <3>1. CASE q = p
        BY <3>1, <2>6, <2>7 DEF PlanSound
      <3>2. CASE q # p
        <4>1. plan'[q] = plan[q]
          BY <3>2, <2>5 DEF ImportInv, TypeOK
        <4> QED BY <4>1, <1>1, <2>7, <2>9, PlanFrame DEF PlanSound, Live
      <3> QED BY <3>1, <3>2
    <2>14. PlanInv'
      BY <2>13 DEF PlanInv, PlanSound
    <2> QED BY <2>7, <2>10, <2>11, <2>12, <2>14 DEF ImportInv
  <1> QED BY <1>2, <1>3

\* Every step keeps the invariant.
LEMMA StepImport == ImportInv /\ [Next]_vars => ImportInv'
  <1> SUFFICES ASSUME ImportInv, [Next]_vars PROVE ImportInv'
    OBVIOUS
  <1>1. ASSUME NEW r \in Requests, CreateSession(r) PROVE ImportInv'
    <2>1. FileRows[r] \in Seq(CellValues)
      BY RequestAssumption DEF CellValues
    <2> QED BY <1>1, <2>1, CreateKeeps DEF CreateSession, Prepared, BoundAttachment
  <1>2. ASSUME NEW r \in Requests, CreateCleanSession(r) PROVE ImportInv'
    BY <1>2, CleanRowsType, CreateKeeps DEF CreateCleanSession, CleanupPrepared, Prepared, BoundAttachment
  <1>3. ASSUME NEW r \in Requests, EndTurn(r) \/ RevokeRights(r) PROVE ImportInv'
    BY <1>3, OutsideKeeps DEF EndTurn, RevokeRights, db
  <1>4. ASSUME NEW r \in Requests, CleanupTerminal(r) PROVE ImportInv'
    BY <1>4, CleanupKeeps
  <1>5. ASSUME NEW w \in Workers, WorkerStep(w) \/ CrashWorker(w) PROVE ImportInv'
    BY <1>5, ClaimKeeps, ChunkKeeps, CommitKeeps, CrashKeeps DEF WorkerStep
  <1>6. ASSUME NEW p \in Plans, BeginRepair(p) \/ CommitRepair(p) PROVE ImportInv'
    BY <1>6, BeginKeeps, CommitRepairKeeps
  <1>7. ASSUME NEW p \in Plans, NEW r \in Requests, PreviewRepair(p, r) PROVE ImportInv'
    BY <1>7, PreviewKeeps
  <1>8. CASE UNCHANGED vars
    BY <1>8, OutsideKeeps DEF vars
  <1> QED BY <1>1, <1>2, <1>3, <1>4, <1>5, <1>6, <1>7, <1>8 DEF Next

\* The inductive invariant.
LEMMA ImportInvariant == Spec => []ImportInv
  BY InitImport, StepImport, PTL DEF Spec

-----------------------------------------------------------------------------
(* The theorems *)

\* For any files, chunk sizes, numbers of workers, crashes and repairs, the
\* records committed for a session are its staged rows up to the cursor, each
\* once and with the staged value.
THEOREM NoRowTwice == Spec => []ImportedExactlyOnce
  <1>1. ImportInv => ImportedExactlyOnce
    BY DEF ImportInv, SessionInv, Fit, ImportedExactlyOnce
  <1> QED BY <1>1, ImportInvariant, PTL

\* The counters of a session agree with its receipts: no gap in the sequence, every
\* imported row in exactly one completed receipt, the failed rows those of the
\* active rejection, and chunk numbers left for exactly the remaining rows.
THEOREM StatusMatchesReceipts == Spec => []CountersMatchReceipts
  <1>1. ASSUME ImportInv, NEW r \in Requests, Live(r)
        PROVE  LET row == session[r] chunks == receipts[r] IN
               /\ row.chunks = Len(chunks)
               /\ \A i \in DOMAIN chunks : chunks[i].sequence = i
               /\ Tiled(chunks, row.imported)
               /\ row.next = row.imported
               /\ row.failed \in 0..(Total(row) - row.imported)
               /\ row.failed > 0 => /\ HasActiveRejection(row, chunks)
                                    /\ row.failed = Input(LastReceipt(chunks))
               /\ row.state = "completed" => row.imported = Total(row)
               /\ row.state = "queued" => PlanSuffices(r)
               /\ row.corrected = Cardinality({i \in row.changed : i <= row.next})
    <2> DEFINE row == session[r]
               chunks == receipts[r]
               last == LastReceipt(chunks)
    <2>1. Fit(r, row, chunks, imported[r])
      BY <1>1 DEF ImportInv, SessionInv
    <2>2. /\ row.chunks = Len(chunks) /\ row.next = row.imported /\ Tiled(chunks, row.imported)
          /\ \A i \in DOMAIN chunks : chunks[i].sequence = i
          /\ row.state = "completed" => row.imported = Total(row)
          /\ row.corrected = Cardinality({i \in row.changed : i <= row.next})
          /\ row.failed > 0 => Rejected(row, chunks)
          /\ row \in SessionRow /\ chunks \in Seq(ReceiptRow) /\ row.next <= Total(row)
      BY <2>1, Zenon DEF Fit
    <2>3. row.state = "queued" => PlanSuffices(r)
      BY <2>1 DEF Fit, PlanFits, PlanSuffices
    <2> HIDE DEF row, chunks
    <2>4. row.failed \in Nat /\ row.next \in Nat /\ Total(row) \in Nat
      BY <2>2 DEF SessionRow, Total
    <2>5. ASSUME row.failed > 0
          PROVE  /\ HasActiveRejection(row, chunks) /\ row.failed = Input(last)
                 /\ row.failed <= Total(row) - row.next
      <3>1. Rejected(row, chunks)
        BY <2>2, <2>5
      <3>2. DOMAIN chunks = 1..Len(chunks) /\ Len(chunks) \in Nat
        BY <2>2
      <3>3. Len(chunks) \in DOMAIN chunks
        BY <3>1, <3>2 DEF Rejected
      <3>4. last \in ReceiptRow /\ last = chunks[Len(chunks)]
        BY <3>3, <2>2 DEF LastReceipt
      <3>5. row.failed = Input(last) /\ last.start = row.next + 1 /\ last.end <= Total(row)
            /\ last.state = "rejected" /\ row.state \in {"partial", "failed"}
        BY <3>1 DEF Rejected
      <3>6. last.sequence = row.chunks /\ \A j \in DOMAIN chunks : j <= Len(chunks)
        BY <2>2, <3>2, <3>3, <3>4
      <3>7. HasActiveRejection(row, chunks)
        BY <3>3, <3>4, <3>5, <3>6 DEF HasActiveRejection
      <3>8. last.end \in Nat /\ last.start \in Nat
        BY <3>4 DEF ReceiptRow
      <3>9. row.failed <= Total(row) - row.next
        BY <3>5, <3>8, <2>4 DEF Input
      <3> QED BY <3>5, <3>7, <3>9
    <2>6. row.failed \in 0..(Total(row) - row.imported)
      BY <2>2, <2>4, <2>5
    <2> QED BY <2>2, <2>3, <2>5, <2>6, Zenon DEF row, chunks
  <1>2. ImportInv => CountersMatchReceipts
    BY <1>1, Zenon DEF CountersMatchReceipts
  <1> QED BY <1>2, ImportInvariant, PTL

\* No step changes a staged row but a repair, and a repair only rows of the
\* rejected window, under the approval that saw the rows as they still are.
THEOREM RepairsAreBounded == Spec => RepairTouchesRejectedWindow
  <1> DEFINE Touched(r) ==
        Live(r) /\ session'[r].state # "absent" /\ session'[r].staged # session[r].staged =>
            /\ session'[r].revision = session[r].revision + 1
            /\ LastReceipt(receipts[r]).state = "rejected"
            /\ session[r].failed > 0
            /\ \E p \in Plans :
                /\ plan[p].pc = "writing"
                /\ plan[p].print[3] = session[r].staged
                /\ \A i \in DOMAIN session[r].staged :
                     session'[r].staged[i] # session[r].staged[i] =>
                        /\ i \in DOMAIN plan[p].fixes
                        /\ i \in LastReceipt(receipts[r]).start .. LastReceipt(receipts[r]).end
  <1>1. ASSUME ImportInv, [Next]_vars, NEW r \in Requests PROVE Touched(r)
    <2> SUFFICES ASSUME Live(r), session'[r].state # "absent", session'[r].staged # session[r].staged
                 PROVE  Touched(r)
      OBVIOUS
    <2>0. session[r] \in SessionRow /\ session \in [Requests -> SessionRow]
      BY <1>1 DEF ImportInv, TypeOK
    <2>1. PICK p \in Plans : CommitRepair(p) /\ session[plan[p].request] = plan[p].row
      <3>1. session' # session
        OBVIOUS
      <3>2. ASSUME NEW q \in Requests,
                   CreateSession(q) \/ CreateCleanSession(q) \/ EndTurn(q) \/ RevokeRights(q) \/ CleanupTerminal(q)
            PROVE  FALSE
        <4>1. CASE CleanupTerminal(q)
          BY <4>1, <2>0 DEF CleanupTerminal, Absent
        <4>2. CASE CreateSession(q) \/ CreateCleanSession(q)
          BY <4>2, <2>0 DEF CreateSession, CreateCleanSession, Create, Live
        <4>3. CASE EndTurn(q) \/ RevokeRights(q)
          BY <4>3, <3>1 DEF EndTurn, RevokeRights, db
        <4> QED BY <3>2, <4>1, <4>2, <4>3
      <3>3. ASSUME NEW w \in Workers, WorkerStep(w) \/ CrashWorker(w) PROVE FALSE
        <4>1. CASE CommitChunk(w)
          BY <4>1, <1>1, CommitFacts DEF Same
        <4>2. CASE Claim(w) \/ ImportChunk(w) \/ RejectChunk(w) \/ FailChunk(w) \/ CrashWorker(w)
          BY <4>2, <3>1 DEF Claim, ImportChunk, RejectChunk, FailChunk, Processed, CrashWorker, db
        <4> QED BY <3>3, <4>1, <4>2 DEF WorkerStep
      <3>4. ASSUME NEW p \in Plans, BeginRepair(p) \/ \E q \in Requests : PreviewRepair(p, q) PROVE FALSE
        BY <3>4, <3>1 DEF BeginRepair, PreviewRepair, db
      <3>5. ASSUME NEW p \in Plans, CommitRepair(p) PROVE session[plan[p].request] = plan[p].row
        BY <3>5, <3>1 DEF CommitRepair
      <3>6. ~UNCHANGED vars
        BY <3>1 DEF vars
      <3> QED BY <1>1, <3>2, <3>3, <3>4, <3>5, <3>6 DEF Next
    <2> DEFINE q == plan[p].request
               last == LastReceipt(receipts[q])
    <2>2. /\ q \in Requests /\ plan[p].fixes \in Fixes
          /\ Fit(q, session[q], receipts[q], imported[q])
          /\ session[q].failed > 0 /\ plan[p].print[3] = session[q].staged
          /\ \A i \in DOMAIN plan[p].fixes : last.start <= i /\ i <= last.end
          /\ session' = [session EXCEPT ![q] = AfterRepair(q, session[q], receipts[q], plan[p].fixes)]
      BY <1>1, <2>1, RepairFacts
    <2>3. q = r
      BY <2>0, <2>2
    <2>4. session'[r] = AfterRepair(r, session[r], receipts[r], plan[p].fixes)
      BY <2>0, <2>2, <2>3
    <2>5. session'[r].staged = Fixed(session[r], plan[p].fixes)
          /\ session'[r].revision = session[r].revision + 1
      BY <2>0, <2>4 DEF AfterRepair, SessionRow
    <2>6. Rejected(session[r], receipts[r]) /\ receipts[r] \in Seq(ReceiptRow)
      BY <2>2, <2>3 DEF Fit
    <2>7. last.state = "rejected" /\ last.start \in Nat /\ last.end \in Nat
      <3>1. Len(receipts[r]) \in 1..Len(receipts[r])
        BY <2>6 DEF Rejected
      <3>2. last \in ReceiptRow
        BY <3>1, <2>3, <2>6 DEF LastReceipt
      <3> QED BY <3>2, <2>3, <2>6 DEF Rejected, ReceiptRow
    <2>8. ASSUME NEW i \in DOMAIN session[r].staged, session'[r].staged[i] # session[r].staged[i]
          PROVE  i \in DOMAIN plan[p].fixes /\ i \in last.start .. last.end
      <3>1. i \in DOMAIN plan[p].fixes
        BY <2>5, <2>8 DEF Fixed
      <3>2. i \in Nat
        BY <3>1, <2>2 DEF Fixes
      <3> QED BY <3>1, <3>2, <2>2, <2>7
    <2>9. plan[p].pc = "writing"
      BY <2>1 DEF CommitRepair
    <2> HIDE DEF q, last
    <2> QED BY <2>2, <2>3, <2>5, <2>7, <2>8, <2>9 DEF last
  <1>2. ImportInv /\ [Next]_vars => [\A r \in Requests : Touched(r)]_vars
    BY <1>1
  <1> QED BY <1>2, ImportInvariant, PTL DEF Spec, RepairTouchesRejectedWindow

=============================================================================
