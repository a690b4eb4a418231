----------------------------- MODULE NoteTables -----------------------------
(***************************************************************************)
(* The tables of a note, as the linter and the briefing read them: one     *)
(* scanner cuts a run of lines into tables; the tables rule judges those   *)
(* a change touched, and the briefing sorts the rows of one of them into   *)
(* buckets by their deadline.  A second, shorter reader finds the first    *)
(* table for the columns rule.  A line is one of a few kinds; two rows of  *)
(* a kind are the same row.                                                *)
(***************************************************************************)
EXTENDS Integers, SequencesExt

CONSTANTS Notes,     \* for each reader, the notes it may be given
          Scopes,    \* the sets of lines a change may have added
          Unscoped,  \* no set: every line is judged
          Rows,      \* the kinds of line that carry a separator and cells
          Wide,      \* the rows with a cell too long
          Other,     \* the rows with another number of cells than the rest
          Empty,     \* the rows with nothing in their cells
          Labels,    \* the row that names the columns the briefing looks for
          Due,       \* the day in a row's date cell
          Never,     \* a cell with no date
          Doubtful,  \* the rows whose date cell holds what may be another date
          Today, UpcomingDays

VARIABLES reader,  \* "tables" or "pending"
          note, added,
          first, last,  \* the lines the scanner is given
          at, header, rows, found,
          findings,               \* of the tables rule
          buckets, later, problems,  \* of the briefing
          done

vars == <<reader, note, added, first, last, at, header, rows, found, findings, buckets, later, problems, done>>
given == <<reader, note, added, first, last>>

Delimiter == "delimiter"  \* dashes and separators
Rule == "rule"            \* dashes alone
Blank == "blank"
Heading == "heading"      \* the heading the pending table is under
Above == "above"          \* a heading of a higher level

\* A note is its lines, the row of the briefing's columns is not one of
\* dashes, and a date is a day.
TablesAssumption ==
    /\ \A r \in DOMAIN Notes : \A n \in Notes[r] : Len(n) \in Nat /\ DOMAIN n = 1..Len(n)
    /\ Labels \notin {Delimiter, Rule}
    /\ \A row \in DOMAIN Due : Due[row] \in Int
    /\ Today \in Int /\ UpcomingDays \in Nat

-----------------------------------------------------------------------------
(* Lines.                                                                  *)

HasPipe(i) == note[i] \in Rows \cup {Delimiter}
IsDelimiterRow(i) == note[i] \in {Delimiter, Rule}

\* The columns rule's reader: the first table of the whole note, or none.
FindFirstTableHeader ==
    LET headers == {i \in 1..(Len(note) - 1) : HasPipe(i) /\ IsDelimiterRow(i + 1)}
    IN  IF headers = {} THEN 0 ELSE Min(headers)

-----------------------------------------------------------------------------
(* findAllTables.                                                          *)

StartsTable(i) == i < last /\ HasPipe(i) /\ HasPipe(i + 1) /\ IsDelimiterRow(i + 1)

Scanning == ~done /\ UNCHANGED <<given, findings, buckets, later, problems, done>>

Skip ==
    /\ Scanning
    /\ header = 0 /\ at < last
    /\ ~StartsTable(at)
    /\ at' = at + 1
    /\ UNCHANGED <<header, rows, found>>

Open ==
    /\ Scanning
    /\ header = 0 /\ at < last
    /\ StartsTable(at)
    /\ header' = at
    /\ rows' = <<>>
    /\ at' = at + 2
    /\ UNCHANGED found

\* Mutant: the next table is more rows of this one.
TakesRowAlways == at <= last /\ HasPipe(at)

\* Another row of the table that is open, and not the header of the next.
TakesRow == at <= last /\ HasPipe(at) /\ ~(at < last /\ IsDelimiterRow(at + 1))

Row ==
    /\ Scanning
    /\ header # 0
    /\ TakesRow
    /\ rows' = Append(rows, at)
    /\ at' = at + 1
    /\ UNCHANGED <<header, found>>

Close ==
    /\ Scanning
    /\ header # 0
    /\ ~TakesRow
    /\ found' = Append(found, [header |-> header, rows |-> rows])
    /\ header' = 0
    /\ UNCHANGED <<at, rows>>

-----------------------------------------------------------------------------
(* The tables rule.                                                        *)

Finding(line, check) == [line |-> line, check |-> check]

LineIsInScope(i) == added = Unscoped \/ i \in added

\* Mutant: a table is new when its heading is.
InScopeByHeader(table) == LineIsInScope(table.header)

InScope(table) == \E i \in {table.header, table.header + 1} \cup ToSet(table.rows) : LineIsInScope(i)

MissingBlankLine(table) ==
    {Finding(i, "blank-line") : i \in {j \in {table.header} : j > first /\ note[j - 1] # Blank}}

DuplicateRows(table) ==
    {Finding(table.rows[k], "duplicate") : k \in
        {k \in DOMAIN table.rows : \E j \in 1..(k - 1) : note[table.rows[j]] = note[table.rows[k]]}}

\* A row whose cells are not as many as the header's is prose, not measured.
CellsTooLong(table) ==
    LET measured == {table.header} \cup {r \in ToSet(table.rows) : (note[r] \in Other) = (note[table.header] \in Other)}
    IN  {Finding(i, "too-long") : i \in {j \in measured : note[j] \in Wide}}

Judge ==
    /\ ~done
    /\ reader = "tables"
    /\ header = 0 /\ at >= last
    /\ findings' = UNION {MissingBlankLine(t) \cup DuplicateRows(t) \cup CellsTooLong(t) : t \in {t \in ToSet(found) : InScope(t)}}
    /\ done' = TRUE
    /\ UNCHANGED <<given, at, header, rows, found, buckets, later, problems>>

-----------------------------------------------------------------------------
(* The briefing's buckets.                                                 *)

HeadingsOf(text) == {i \in DOMAIN text : text[i] = Heading}

\* From the line under the heading to the next one of its level or higher.
SectionUnder(text) ==
    LET start == Min(HeadingsOf(text))
        ends == {i \in (start + 1)..Len(text) : text[i] \in {Heading, Above}}
    IN  <<start + 1, IF ends = {} THEN Len(text) ELSE Min(ends) - 1>>

\* Mutant: the last of the days ahead is later.
BucketOfShort(due) ==
    CASE due = Never -> "undated"
      [] OTHER -> IF due < Today THEN "overdue"
                  ELSE IF due = Today THEN "today"
                  ELSE IF due < Today + UpcomingDays THEN "upcoming" ELSE "later"

BucketOf(due) ==
    CASE due = Never -> "undated"
      [] OTHER -> IF due < Today THEN "overdue"
                  ELSE IF due = Today THEN "today"
                  ELSE IF due <= Today + UpcomingDays THEN "upcoming" ELSE "later"

Items(table) == {r \in ToSet(table.rows) : note[r] \notin Empty}

DateOf(r) == IF note[r] \in DOMAIN Due THEN Due[note[r]] ELSE Never

SectionProblems ==
    {p \in {<<"heading_missing", 0>>} : HeadingsOf(note) = {}}
    \cup {p \in {<<"heading_repeated", 0>>} : Cardinality(HeadingsOf(note)) > 1}

TableProblems ==
    {p \in {<<"table_missing", 0>>} : found = <<>>}
    \cup {p \in {<<"tables_ignored", 0>>} : Len(found) > 1}
    \cup {p \in {<<"column_missing", 0>>} : found # <<>> /\ note[found[1].header] # Labels}

PendingBuckets ==
    /\ ~done
    /\ reader = "pending"
    /\ header = 0 /\ at >= last
    /\ IF HeadingsOf(note) = {}
       THEN problems' = SectionProblems /\ UNCHANGED <<buckets, later>>
       ELSE LET items == IF found # <<>> /\ note[found[1].header] = Labels THEN Items(found[1]) ELSE {}
                Of(bucket) == {r \in items : BucketOf(DateOf(r)) = bucket}
            IN  /\ problems' = SectionProblems \cup TableProblems
                                \cup {<<IF DateOf(r) = Never THEN "invalid_date" ELSE "ambiguous_deadline", r>> :
                                        r \in {i \in items : note[i] \in Doubtful}}
                /\ buckets' = [bucket \in DOMAIN buckets |-> Of(bucket)]
                /\ later' = Cardinality(Of("later"))
    /\ done' = TRUE
    /\ UNCHANGED <<given, at, header, rows, found, findings>>

-----------------------------------------------------------------------------

Init ==
    /\ reader \in DOMAIN Notes
    /\ note \in Notes[reader]
    /\ added \in IF reader = "tables" THEN Scopes \cup {Unscoped} ELSE {Unscoped}
    /\ LET section == IF reader = "tables" THEN <<1, Len(note)>>
                      ELSE IF HeadingsOf(note) = {} THEN <<1, 0>> ELSE SectionUnder(note)
       IN  first = section[1] /\ last = section[2]
    /\ at = first
    /\ header = 0
    /\ rows = <<>>
    /\ found = <<>>
    /\ findings = {}
    /\ buckets = [bucket \in {"overdue", "today", "upcoming", "undated"} |-> {}]
    /\ later = 0
    /\ problems = {}
    /\ done = FALSE

Next == Skip \/ Open \/ Row \/ Close \/ Judge \/ PendingBuckets

Spec == Init /\ [][Next]_vars

-----------------------------------------------------------------------------

TypeOK ==
    /\ first <= at /\ at <= Max({first, last + 1})
    /\ header \in 0..Len(note)
    /\ \A k \in DOMAIN found : found[k].header \in first..last

BareRuleUnder(i) == i < last /\ note[i + 1] = Rule

\* The lines that follow a table's delimiter, separator after separator, up
\* to the next table: its rows, by what a table is and not by how it is read.
RowsUnder(table) ==
    {r \in (table.header + 2)..last :
        \A i \in (table.header + 2)..r : HasPipe(i) /\ ~StartsTable(i)}

Delimiters == {found[k].header + 1 : k \in DOMAIN found}

\* Every table of the text is found, and every row of it is a row of that
\* table and of no other, but for a row with a bare rule right under it.
EveryRowHasItsTable ==
    done => /\ \A i \in first..last : StartsTable(i) /\ i \notin Delimiters
                                      => \E k \in DOMAIN found : found[k].header = i
            /\ \A k \in DOMAIN found :
                ToSet(found[k].rows) = {r \in RowsUnder(found[k]) : ~\E i \in RowsUnder(found[k]) : i <= r /\ BareRuleUnder(i)}

\* A change that adds any line of a table has the whole of it judged: a row
\* that repeats an earlier one is reported wherever either was added.  A
\* table it added nothing to is left alone.
TouchedTablesAreJudged ==
    done /\ reader = "tables"
    => \A k \in DOMAIN found :
        LET lines == {found[k].header, found[k].header + 1} \cup ToSet(found[k].rows)
            touched == added = Unscoped \/ lines \cap added # {}
        IN  /\ touched => \A r, s \in ToSet(found[k].rows) :
                r < s /\ note[r] = note[s] => Finding(s, "duplicate") \in findings
            /\ ~touched => \A f \in findings : f.line \notin lines

\* What the briefing found to say of the table: where its items are, or why
\* they are in no bucket.
Said(r) == problems # {} \/ r \in UNION {buckets[b] : b \in DOMAIN buckets}

\* Every row under the heading is in a bucket, in the count of the later
\* ones, or its table is the matter of a problem, but for a row with a bare
\* rule right under it; and no bucket holds what is due on another day.
NoItemIsSilent ==
    done /\ reader = "pending"
    => /\ \A i \in DOMAIN note :
            /\ StartsTable(i) /\ i \in first..last
            /\ note[i] = Labels
            => \A r \in RowsUnder([header |-> i]) :
                \/ Said(r)
                \/ note[r] \in Empty \/ (\E j \in (i + 2)..r : BareRuleUnder(j))
                \/ DateOf(r) # Never /\ DateOf(r) > Today + UpcomingDays
       /\ \A i \in DOMAIN note : note[i] = Heading /\ i < first - 1 => problems # {}
       /\ (\E i \in DOMAIN note : note[i] = Heading /\ i > last) => problems # {}
       /\ \A r \in buckets["upcoming"] : DateOf(r) \in (Today + 1)..(Today + UpcomingDays)

\* "an item is never dropped, and `no date` is a bucket of its own, never
\* silence" (briefing/pending.mjs): the row above a bare rule too.
ItemsAreNeverDropped ==
    done /\ reader = "pending"
    => \A i \in first..last :
        StartsTable(i) /\ note[i] = Labels
        => \A r \in RowsUnder([header |-> i]) :
            Said(r) \/ note[r] \in Empty \/ (DateOf(r) # Never /\ DateOf(r) > Today + UpcomingDays)

\* "the two can never disagree about what a table IS" (rules/lint.mjs): the
\* first table of the columns rule is the first the tables rule finds.
ReadersAgree ==
    done /\ reader = "tables"
    => FindFirstTableHeader = IF found = <<>> THEN 0 ELSE found[1].header
=============================================================================
