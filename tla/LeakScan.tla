------------------------------ MODULE LeakScan ------------------------------
(***************************************************************************)
(* scanText, the one scan behind the push gate, the secrets rule and the   *)
(* commit check: a text read by runs of lines, a line that some pattern    *)
(* matches read again in full, and an excerpt around each match that is    *)
(* kept.  A line is its length and, for each pattern, the spans the        *)
(* pattern matches on it, start included and end not.                      *)
(***************************************************************************)
EXTENDS Naturals, FiniteSets, SequencesExt

CONSTANTS Texts,      \* the texts scanned, each a sequence of lines
          Generic,    \* the credential shapes, in their order
          Configured, \* the lists a configuration may add
          Personal,   \* the owner's own lists; Refused is one that cannot be read
          Refused,
          Wrong,      \* what is no pattern at all
          MaxLines, MaxChars,  \* what one run of lines may hold
          Context,    \* how far an excerpt reaches on each side
          Floor,      \* how many spans of a pattern are kept on a line, at least
          MaxMatches  \* how many matches are reported

VARIABLES text, config, personal,
          patterns, at, hits, prefilter,
          matches, total,
          status  \* "loading", "scanning", "done" or "failed"

vars == <<text, config, personal, patterns, at, hits, prefilter, matches, total, status>>
inputs == <<text, config, personal>>

-----------------------------------------------------------------------------
(* The patterns: a list that cannot be read in full is no list.            *)

LoadPersonalPatterns == IF personal = Refused THEN <<Refused>> ELSE personal

\* Each pattern once, in the order it was met.
Loaded(list) ==
    FoldLeft(LAMBDA seen, raw : IF Contains(seen, raw) THEN seen ELSE Append(seen, raw), <<>>, list)

Load ==
    /\ status = "loading"
    /\ LET list == Generic \o config \o LoadPersonalPatterns
       IN  IF ToSet(list) \cap (Wrong \cup {Refused}) # {}
           THEN status' = "failed" /\ UNCHANGED patterns
           ELSE status' = "scanning" /\ patterns' = Loaded(list)
    /\ UNCHANGED <<inputs, at, hits, prefilter, matches, total>>

-----------------------------------------------------------------------------
(* One line.                                                               *)

Before(a, b) == a[1] < b[1]
InOrder(spans) == SetToSortSeq(spans, Before)

\* The spans of one pattern, no more than the cap, and how many there are.
ScanLine(line, pattern, cap) ==
    LET count == Cardinality(line.spans[pattern])
    IN  [kept |-> SubSeq(InOrder(line.spans[pattern]), 1, Min({cap, count})), count |-> count]

Absorb(merged, span) ==
    IF merged # <<>> /\ span[1] <= Last(merged)[2]
    THEN Append(Front(merged), <<Last(merged)[1], Max({span[2], Last(merged)[2]})>>)
    ELSE Append(merged, span)

\* Mutant: the spans are merged in the order the patterns gave them.
MergedUnsorted(spans) == FoldLeft(Absorb, <<>>, spans)

\* Spans that touch or overlap become one.
Merged(spans) == FoldLeft(Absorb, <<>>, SortSeq(spans, Before))

Clipped(spans, from, to) ==
    LET Clip(span) == <<Max({span[1], from}), Min({span[2], to})>>
    IN  SelectSeq([i \in DOMAIN spans |-> Clip(spans[i])], LAMBDA span : span[1] < span[2])

\* The columns of a region that are shown: what lies between the spans.
MaskRegion(from, to, spans) ==
    (from..(to - 1)) \ UNION {span[1]..(span[2] - 1) : span \in ToSet(Merged(Clipped(spans, from, to)))}

\* The columns an excerpt shows: none of the match, and nothing at all on a
\* line whose spans were not all kept.
BuildExcerpt(line, start, end, spans, tooDense) ==
    IF tooDense THEN {}
    ELSE MaskRegion(IF start > Context THEN start - Context ELSE 0, start, spans)
         \cup MaskRegion(end, Min({end + Context, line.length}), spans)

TooDense(results) == \E p \in DOMAIN results : results[p].count > Len(results[p].kept)

\* The line's matches by column, as many as may still be reported; all of
\* them are counted.
ScanOneLine(index) ==
    LET line == text[index]
        budget == MaxMatches - Len(matches)
        cap == Max({budget, Floor})
        results == [p \in DOMAIN patterns |-> ScanLine(line, patterns[p], cap)]
        spans == FlattenSeq([p \in DOMAIN patterns |-> results[p].kept])
        dense == TooDense(results)
        ordered == SortSeq(spans, Before)
        reported == SubSeq(ordered, 1, Min({budget, Len(ordered)}))
    IN  /\ total' = total + FoldLeft(LAMBDA sum, result : sum + result.count, 0, results)
        /\ matches' = matches \o [i \in DOMAIN reported |->
                [line |-> index, span |-> reported[i],
                 shown |-> BuildExcerpt(line, reported[i][1], reported[i][2], spans, dense)]]

-----------------------------------------------------------------------------
(* The scan: runs of lines while they last, then lines one by one.  A run  *)
(* that takes too long is asked again line by line; a line that does, or   *)
(* the whole scan past its deadline, ends in an error and no result.       *)

Length(from, to) == FoldLeft(LAMBDA sum, line : sum + line.length, 0, SubSeq(text, from, to - 1))

\* The first line after the run: a line too long is a run of its own.
PrefilterRunEnd(start) ==
    LET ends == {end \in (start + 1)..(Len(text) + 1) :
                    /\ end - start <= MaxLines
                    /\ end = start + 1 \/ Length(start, end) <= MaxChars}
    IN  CHOOSE end \in ends : \A other \in ends : other <= end

LinesWithAnyMatch(from, to) ==
    SelectSeq([i \in 1..(to - from) |-> from + i - 1], LAMBDA i : \E p \in ToSet(patterns) : text[i].spans[p] # {})

Scanning == status = "scanning" /\ UNCHANGED <<inputs, patterns>>

\* Mutant: a run that took too long is left behind.
TooSlowIsSkipped ==
    /\ Scanning
    /\ hits = <<>> /\ at <= Len(text) /\ prefilter
    /\ at' = PrefilterRunEnd(at)
    /\ UNCHANGED <<hits, prefilter, matches, total, status>>

TooSlow ==
    /\ Scanning
    /\ hits = <<>> /\ at <= Len(text) /\ prefilter
    /\ PrefilterRunEnd(at) - at > 1
    /\ prefilter' = FALSE
    /\ UNCHANGED <<at, hits, matches, total, status>>

PrefilterRun ==
    /\ Scanning
    /\ hits = <<>> /\ at <= Len(text) /\ prefilter
    /\ hits' = LinesWithAnyMatch(at, PrefilterRunEnd(at))
    /\ at' = PrefilterRunEnd(at)
    /\ UNCHANGED <<prefilter, matches, total, status>>

Hit ==
    /\ Scanning
    /\ hits # <<>>
    /\ ScanOneLine(Head(hits))
    /\ hits' = Tail(hits)
    /\ UNCHANGED <<at, prefilter, status>>

LineByLine ==
    /\ Scanning
    /\ hits = <<>> /\ at <= Len(text) /\ ~prefilter
    /\ ScanOneLine(at)
    /\ at' = at + 1
    /\ UNCHANGED <<hits, prefilter, status>>

\* A timeout of one line, the deadline, or an error of the engine.
Throw ==
    /\ Scanning
    /\ hits # <<>> \/ at <= Len(text)
    /\ status' = "failed"
    /\ UNCHANGED <<at, hits, prefilter, matches, total>>

Return ==
    /\ Scanning
    /\ hits = <<>> /\ at > Len(text)
    /\ status' = "done"
    /\ UNCHANGED <<at, hits, prefilter, matches, total>>

Init ==
    /\ text \in Texts
    /\ config \in Configured
    /\ personal \in Personal
    /\ patterns = <<>>
    /\ at = 1
    /\ hits = <<>>
    /\ prefilter = TRUE
    /\ matches = <<>>
    /\ total = 0
    /\ status = "loading"

Next == Load \/ PrefilterRun \/ TooSlow \/ Hit \/ LineByLine \/ Throw \/ Return

Spec == Init /\ [][Next]_vars

-----------------------------------------------------------------------------

\* Every match of every pattern that was asked for.
AllMatches ==
    UNION {{<<i, p, span>> : span \in text[i].spans[p]} :
              i \in DOMAIN text, p \in ToSet(Generic \o config \o personal)}

TypeOK ==
    /\ at \in 1..(Len(text) + 1)
    /\ Len(matches) <= MaxMatches
    /\ status \in {"loading", "scanning", "done", "failed"}

\* A scan that returns counted every match of every pattern once, however
\* the runs were cut or repeated, and reports the first of them, as many as
\* it may; one that could not says nothing was found by returning nothing.
ScanIsExact ==
    status = "done"
    => /\ total = Cardinality(AllMatches)
       /\ Len(matches) = Min({total, MaxMatches})
       /\ \A m \in ToSet(matches) : \E p \in ToSet(patterns) : m.span \in text[m.line].spans[p]
       /\ \A m \in ToSet(matches), other \in AllMatches :
            (other[1] < m.line \/ (other[1] = m.line /\ other[3][1] < m.span[1]))
            => \E n \in ToSet(matches) : n.line = other[1] /\ n.span = other[3]

\* No excerpt shows a character of any match on its line, its own or a
\* neighbour's, cut at the edge or not, of its pattern or of another.
ExcerptsShowNoMatch ==
    \A m \in ToSet(matches), p \in ToSet(patterns) : \A span \in text[m.line].spans[p] :
        m.shown \cap (span[1]..(span[2] - 1)) = {}
=============================================================================
