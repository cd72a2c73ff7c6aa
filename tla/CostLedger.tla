------------------------------ MODULE CostLedger ------------------------------
(***************************************************************************)
(* The cost ledger reports/cost.md (lewm-hub/src/cost_ledger.rs and its    *)
(* twin python/cost_ledger.py).  Every job appends its row when it ends:   *)
(* append_entry reads the table, adds the row, recomputes the cumulative   *)
(* column and rewrites the file in place.  The operator may backfill the   *)
(* rows of the jobs that are missing.  Nothing locks the file: a write     *)
(* empties it when it opens it and then fills it from its beginning, so    *)
(* that two of them may end up in one file, and a writer may die in the    *)
(* middle of its own.                                                      *)
(***************************************************************************)
EXTENDS Integers, FiniteSets, SequencesExt

CONSTANTS
  JobList,     \* the jobs, as the Jobs service lists them
  Wall,        \* seconds each job ran
  Price,       \* price_cents_per_hour
  Cap,         \* HARD_CAP_USD_CENTS
  Backfill,    \* the operator's python/cost_ledger.py backfill
  Garbled,     \* a job id that is a part of one and a part of another
  MaxDeaths    \* bound on the writers that die while writing

ASSUME LedgerAssumption ==
  /\ JobList \in Seq(Range(JobList)) /\ IsInjective(JobList)
  /\ Backfill \notin Range(JobList) /\ Garbled \notin Range(JobList)
  /\ Wall \in [Range(JobList) -> Nat] /\ Price \in Nat
  /\ Cap \in Nat /\ MaxDeaths \in Nat

Jobs == Range(JobList)
Writers == Jobs \cup {Backfill}

VARIABLES
  ledger,     \* the lines of the file after the header
  at,         \* what each writer does next
  draft,      \* the rows each writer is about to write
  stale,      \* history: the file was written since the writer read it
  ended,      \* the jobs whose record at the Jobs service says when they ended
  billed,     \* history: the jobs whose append returned Ok
  repaired,   \* history: the jobs a backfill added before they were billed
  disturbed,  \* history: a writer died while writing, or wrote over another's rows
  mixed,      \* history: lines of two writes are in the file
  overlaid,   \* history: they were, now or before
  ledgerCrashes

historyVars == <<billed, repaired, disturbed, mixed, overlaid>>
ledgerVars == <<ledger, at, draft, stale, ended, historyVars, ledgerCrashes>>

-----------------------------------------------------------------------------
\* Money

CeilDiv(a, b) == (a + b - 1) \div b

\* rounded_billable_minutes and cost_for_wall_time: whole minutes, whole cents.
CostForWallTime(seconds, price) == CeilDiv(price * CeilDiv(seconds, 60), 60)
Cost(j) == CostForWallTime(Wall[j], Price)

\* UsdAmount as text: the dollars, and the digits after the point.
Render(c) == [dollars |-> c \div 100, cents |-> <<(c % 100) \div 10, c % 10>>]

\* UsdAmount::parse: no digits for no point, one digit is tens of cents, more
\* than two are an error.
NotAnAmount == -1
ParseAmount(t) ==
  CASE Len(t.cents) = 0 -> t.dollars * 100
    [] Len(t.cents) = 1 -> t.dollars * 100 + t.cents[1] * 10
    [] Len(t.cents) = 2 -> t.dollars * 100 + t.cents[1] * 10 + t.cents[2]
    [] OTHER -> NotAnAmount

-----------------------------------------------------------------------------
\* The file.  A line is a row, or a part of one: "torn" lacks its first or its
\* last bar, and the readers skip it; "cut" has bars at both ends but not eight
\* cells between them, and the readers refuse the whole file.

\* An entry is a row without the cumulative column.
EntriesOf(rows) == [i \in DOMAIN rows |-> [job |-> rows[i].job, cost |-> rows[i].cost]]
NewEntries(jobs) == [i \in DOMAIN jobs |-> [job |-> jobs[i], cost |-> Cost(jobs[i])]]

\* The amounts of a line are what parsing its cells yields.
Row(entry, cum) ==
  [kind |-> "row", job |-> entry.job, cost |-> ParseAmount(Render(entry.cost)),
   cum |-> ParseAmount(Render(cum))]

\* The members of a sequence that are in a set, in their order: SelectSeq with a
\* set for a test, which the proofs can reason about.
Filter(s, kept) ==
  LET taken[i \in 0..Len(s)] ==
        IF i = 0 THEN << >> ELSE IF s[i] \in kept THEN Append(taken[i - 1], s[i]) ELSE taken[i - 1]
  IN  taken[Len(s)]
Rows(lines) == Filter(lines, {l \in Range(lines) : l.kind = "row"})
JobsIn(lines) == {Rows(lines)[i].job : i \in DOMAIN Rows(lines)}

\* The sum of the first n amounts of a sequence.
Total(amounts, n) ==
  LET sum[i \in 0..n] == IF i = 0 THEN 0 ELSE sum[i - 1] + amounts[i] IN sum[n]
Amounts(rows) == [i \in DOMAIN rows |-> rows[i].cost]

\* verify_rows: every amount parses, every cumulative is the sum so far, and
\* none is above the cap.
VerifyRows(rows) ==
  \A i \in DOMAIN rows :
    /\ NotAnAmount \notin {rows[i].cost, rows[i].cum}
    /\ rows[i].cum = Total(Amounts(rows), i)
    /\ rows[i].cum <= Cap

\* read_ledger: parse_table_row on every line, then verify_rows.
ReadLedger(lines) ==
  [ok |-> (\A i \in DOMAIN lines : lines[i].kind # "cut") /\ VerifyRows(Rows(lines)),
   rows |-> Rows(lines)]

\* rows_from_entries: the cumulative column from scratch, up to the cap.
RowsFromEntries(entries) ==
  LET sum(i) == Total(Amounts(entries), i)
  IN  [ok |-> \A i \in DOMAIN entries : sum(i) <= Cap,
       rows |-> [i \in DOMAIN entries |-> Row(entries[i], sum(i))]]

-----------------------------------------------------------------------------
LedgerInit ==
  /\ ledger = << >>
  /\ at = [w \in Writers |-> IF w = Backfill THEN "idle" ELSE "running"]
  /\ draft = [w \in Writers |-> << >>]
  /\ stale = [w \in Writers |-> FALSE]
  /\ ended = {} /\ billed = {} /\ repaired = {}
  /\ disturbed = FALSE /\ mixed = FALSE /\ overlaid = FALSE /\ ledgerCrashes = 0

\* A job is over and its row is to be appended; or it is killed, and nobody does.
EndJob(j) ==
  /\ at[j] = "running"
  /\ \E next \in {"idle", "silent"} : at' = [at EXCEPT ![j] = next]
  /\ UNCHANGED <<ledger, draft, stale, ended, historyVars, ledgerCrashes>>

\* The service records ended_at, before or after the row is appended.
RecordEnd(j) ==
  /\ at[j] # "running" /\ ended' = ended \cup {j}
  /\ UNCHANGED <<ledger, at, draft, stale, historyVars, ledgerCrashes>>

AllListed(lines, asked) == Filter(JobList, asked)

SinceTheLastRow(lines, asked) ==
  LET last == {i \in DOMAIN JobList : Rows(lines) # << >> /\ JobList[i] = Last(Rows(lines)).job}
  IN  Filter(SubSeq(JobList, 1 + Cardinality({k \in DOMAIN JobList : \E i \in last : k <= i}), Len(JobList)),
             asked \ JobsIn(lines))

\* backfill_command adds, of the jobs it asked the service for, those whose id no
\* row has, in the order of the list.
Missing(lines, asked) == Filter(JobList, asked \ JobsIn(lines))

\* Reading, adding and recomputing: append_entry up to write_ledger, append_row,
\* and backfill_command with the records that --since, --from or --input-json
\* select.  row_from_job_record takes every record, that of a known job too, and
\* fails on one without ended_at.  Any error leaves the file alone; the row of a
\* job that is refused is not appended again.
Prepare(w, asked) ==
  /\ at[w] = "idle"
  /\ \E read \in {ReadLedger(ledger)} :
     \E added \in {IF w = Backfill THEN Missing(ledger, asked) ELSE <<w>>} :
     \E new \in {RowsFromEntries(EntriesOf(read.rows) \o NewEntries(added))} :
       IF read.ok /\ new.ok /\ (w = Backfill => asked \subseteq ended)
       THEN /\ at' = [at EXCEPT ![w] = "prepared"]
            /\ draft' = [draft EXCEPT ![w] = new.rows]
            /\ stale' = [stale EXCEPT ![w] = FALSE]
       ELSE /\ at' = [at EXCEPT ![w] = IF w = Backfill THEN "idle" ELSE "silent"]
            /\ UNCHANGED <<draft, stale>>
  /\ UNCHANGED <<ledger, ended, historyVars, ledgerCrashes>>

\* write_ledger: fs::write and write_text empty the file when they open it.
Truncate(w) ==
  /\ at[w] = "prepared"
  /\ at' = [at EXCEPT ![w] = "writing"]
  /\ ledger' = << >> /\ mixed' = FALSE
  /\ UNCHANGED <<draft, stale, ended, billed, repaired, disturbed, overlaid, ledgerCrashes>>

Torn(l, kind) == [l EXCEPT !.kind = kind]

\* What a write from the beginning of the file leaves of the lines it finds there:
\* rows have no fixed width, so that it ends after any line, or inside it.
LeftOver(new, old) ==
  IF new = << >> \/ old = << >> THEN {old}
  ELSE UNION {{SubSeq(old, k + 1, Len(old))}
                \cup {<<Torn(old[k], kind)>> \o SubSeq(old, k + 1, Len(old)) : kind \in {"torn", "cut"}}
                : k \in DOMAIN old}

\* Whether what is left makes the file one of two writes.
MixedBy(new, rest) == rest # << >> /\ (new # << >> \/ mixed)

Write(w) ==
  /\ at[w] = "writing"
  /\ \E rest \in LeftOver(draft[w], ledger) :
       /\ ledger' = draft[w] \o rest
       /\ mixed' = MixedBy(draft[w], rest)
  /\ overlaid' = (overlaid \/ mixed')
  /\ stale' = [v \in Writers |-> v # w]
  /\ disturbed' = (disturbed \/ stale[w])
  /\ at' = [at EXCEPT ![w] = IF w = Backfill THEN "idle" ELSE "done"]
  /\ draft' = [draft EXCEPT ![w] = << >>]
  /\ billed' = IF w = Backfill THEN billed ELSE billed \cup {w}
  /\ repaired' = IF w = Backfill THEN repaired \cup ((Jobs \cap JobsIn(draft[w])) \ billed) ELSE repaired
  /\ UNCHANGED <<ended, ledgerCrashes>>

\* The line that a broken write and the line it breaks off in make: the first
\* cells of the one and the last of the other.  It is no row when their number is
\* wrong, and counts as cut when the break spoils an amount.
Splices(new, old) ==
  {Torn(new, kind) : kind \in {"torn", "cut"}}
    \cup {[new EXCEPT !.job = j, !.cost = old.cost, !.cum = old.cum] : j \in {new.job, old.job, Garbled}}
    \cup {new, [new EXCEPT !.cum = old.cum]}

\* The process dies: it has written some first rows and perhaps a part of the
\* next.  A cut header is refused like a cut row.
DieWriting(w) ==
  /\ at[w] = "writing" /\ ledgerCrashes < MaxDeaths
  /\ \E k \in 0..Len(draft[w]) : LET first == SubSeq(draft[w], 1, k) IN
       \/ \E rest \in LeftOver(first, ledger) :
            ledger' = first \o rest /\ mixed' = MixedBy(first, rest)
       \/ /\ k < Len(draft[w])
          /\ \/ \E kind \in {"torn", "cut"} :
                  ledger' = Append(first, Torn(draft[w][k + 1], kind)) /\ mixed' = FALSE
             \/ \E i \in DOMAIN ledger : \E line \in Splices(draft[w][k + 1], ledger[i]) :
                  ledger' = Append(first, line) \o SubSeq(ledger, i + 1, Len(ledger)) /\ mixed' = TRUE
  /\ overlaid' = (overlaid \/ mixed')
  /\ stale' = [v \in Writers |-> TRUE]
  /\ disturbed' = TRUE /\ ledgerCrashes' = ledgerCrashes + 1
  /\ at' = [at EXCEPT ![w] = IF w = Backfill THEN "idle" ELSE "silent"]
  /\ draft' = [draft EXCEPT ![w] = << >>]
  /\ repaired' = IF w = Backfill THEN repaired \cup ((Jobs \cap JobsIn(ledger')) \ billed) ELSE repaired
  /\ UNCHANGED <<ended, billed>>

\* --since lists the jobs, --from one of them, and --input-json any.
Records(w) == IF w = Backfill THEN SUBSET Jobs ELSE {{w}}

WriterStep(w) == (\E asked \in Records(w) : Prepare(w, asked)) \/ Truncate(w) \/ Write(w)
LedgerNext ==
  \/ \E j \in Jobs : EndJob(j) \/ RecordEnd(j)
  \/ \E w \in Writers : WriterStep(w) \/ DieWriting(w)

\* backfill --from the job's page, and the write it ends with
Import(j) == Prepare(Backfill, {j})
Rewrite == Truncate(Backfill) \/ Write(Backfill)

\* The operator imports every job again and again, and an import that was begun
\* goes on.  Nothing is asked of the jobs, which may stop anywhere.
LedgerSpec ==
  /\ LedgerInit /\ [][LedgerNext]_ledgerVars
  /\ WF_ledgerVars(Rewrite) /\ \A j \in Jobs : SF_ledgerVars(Import(j))

-----------------------------------------------------------------------------
\* Properties

Writing == \E w \in Writers : at[w] = "writing"
Cut == \E i \in DOMAIN ledger : ledger[i].kind = "cut"
Full ==
  ~RowsFromEntries(EntriesOf(Rows(ledger)) \o NewEntries(Missing(ledger, ended))).ok

(* Whatever writers overlap or die, and however often they rewrite each other's
   rows, the rows that are left add up, in cents, and stay under the cap, unless a
   writer that had emptied the file ended its write inside the longer one that
   another had made meanwhile (cost_ledger.rs: rows_from_entries, verify_rows). *)
LedgerAddsUp == ~mixed => VerifyRows(Rows(ledger))

(* Rows are lost only when writers overlap or die: otherwise the row of every
   job whose append returned Ok, or that a backfill added, is there. *)
RowsStayUndisturbed ==
  (~disturbed /\ ~Writing) => (billed \cup repaired) \subseteq JobsIn(ledger)

(* A job is billed twice only when a backfill adds its row before its own append
   does, for append_entry does not look for the job id and backfill does, or when
   the lines of two writes came to stand in one file. *)
BilledOncePerWriter ==
  ~overlaid =>
    \A j \in Jobs : Cardinality({i \in DOMAIN ledger : ledger[i].kind = "row" /\ ledger[i].job = j})
                      <= (IF j \in repaired THEN 2 ELSE 1)

(* What the ledger says is true but where writers collide: its rows add up, none
   is lost, and none is doubled but by a backfill (cost_ledger.rs, cost_ledger.py). *)
LedgerIsConsistent == LedgerAddsUp /\ RowsStayUndisturbed /\ BilledOncePerWriter

(* If the operator keeps importing the jobs one by one, every job that the service
   says has ended is in the ledger in the end, rows that collisions lost included
   and whatever job still runs, unless the cap refuses the rows or a collision or a
   death left a file that every reader refuses and no tool repairs. *)
EventuallyBilled ==
  <>[](at[Backfill] # "writing" =>
        (Cut \/ (mixed /\ ~VerifyRows(Rows(ledger))) \/ Full \/ ended \subseteq JobsIn(ledger)))
=============================================================================
