------------------------------- MODULE Listings -------------------------------
(***************************************************************************)
(* Whether a round read a connector source, told from the record of its    *)
(* calls alone (src/src/sources/calendar-google.mjs, readEvidence, and     *)
(* meeting-notes-google-drive.mjs, readEvidence, over the pages            *)
(* src/src/harness/stream.mjs counts).  What is planned, a calendar each   *)
(* or a search each, is listed page by page: the model makes the calls, in *)
(* any order and with any inputs, the connector answers, and events and    *)
(* files appear meanwhile.  One item is a page here; a page past the last  *)
(* item is empty.                                                          *)
(***************************************************************************)
EXTENDS Integers, FiniteSets, FiniteSetsExt, Sequences

CONSTANTS Settings, \* what a configuration says: [source, listed, team, authorized]
          Owner,    \* the ids that are the owner's own: primary, the e-mail
          MaxHeld,  \* how many items there are, all calendars together
          MaxCalls, \* how many calls a round makes
          MaxOdd    \* how many of them are not the plain ones of the prompt

Ids == UNION {s.listed \cup s.team : s \in Settings}

VARIABLES setting, \* the configuration of the source
          before,  \* how many items each calendar held when the round began
          held,    \* how many it holds now
          calls    \* the record: the calls and their answers, in order

vars == <<setting, before, held, calls>>

\* What a listing is asked with: the window and the filter of the prompt, a
\* window or a query around it, a shorter window of a calendar, or another
\* filter (none, an input the prompt does not name, a clause reworded or
\* negated).
Inputs == {"exact", "wider", "shorter", "other"}

\* A token: none given, a blank one, or the one a page gave for page 2, 3 ...
Tokens == 0..MaxHeld + 1

\* What came of a call: the page, whole; the page without a count (or two
\* results for the call); an error, a text cut short, or no result.
Results == {"whole", "uncounted", "failed"}

TypeOK ==
    /\ setting \in Settings
    /\ before \in [Ids -> 0..MaxHeld] /\ held \in [Ids -> 0..MaxHeld]
    /\ calls \in Seq([of : Ids, inputs : Inputs, token : Tokens, result : Results, more : BOOLEAN, items : {0, 1}])

-----------------------------------------------------------------------------
(* The plan.                                                               *)

\* For whatever reason it is off: not enabled, a placeholder for a calendar, a
\* tool it needs left out.
Off == setting.listed = {}

\* The title's search, and one for each folder.
Searches == setting.listed

\* The calendars read as the owner's: those listed, but for one that is also
\* the team's and not the owner's own.
Calendars == {c \in setting.listed : c \notin setting.team \/ c \in Owner}

TeamOnly == setting.team \ Calendars

\* The problem team_calendars_without_authorization.
LeftOut == IF ~Off /\ ~setting.authorized THEN TeamOnly ELSE {}

\* What the configuration lists, but for what the round is told is left out.
Told == (setting.listed \cup setting.team) \ LeftOut

Planned ==
    IF Off THEN {} ELSE IF setting.source = "notes" THEN Searches ELSE Calendars \cup (TeamOnly \ LeftOut)

-----------------------------------------------------------------------------
(* The calls.                                                              *)

Page(token) == IF token < 2 THEN 1 ELSE token

\* The listings that leave no item out; another leaves out the last.
Covering == {"exact", "wider"}

\* How many items the connector has for these inputs.
Holds(c, inputs) == IF inputs \in Covering \/ held[c] = 0 THEN held[c] ELSE held[c] - 1

\* The tokens the model has seen: a page gives the next one, after its items,
\* so a text cut short does not hold it.
Given(c, inputs) ==
    {Page(calls[i].token) + 1 : i \in {j \in DOMAIN calls :
        calls[j].of = c /\ calls[j].inputs = inputs /\ calls[j].result # "failed" /\ calls[j].more}}

\* What is not as the prompt asks, a listing counted once.
Odd(call) == (call.inputs # "exact" /\ call.token < 2) \/ call.token = 1 \/ call.result # "whole"

Init ==
    /\ setting \in Settings
    /\ before \in [Ids -> 0..MaxHeld] /\ held = before /\ calls = <<>>
    /\ \A c \in Ids \ Told : before[c] = 0
    /\ MapThenSumSet(LAMBDA c : before[c], Ids) <= MaxHeld

\* tool_use and tool_result: hasNextPage and items are the page's own.
Call ==
    \E c \in Planned, inputs \in Inputs, result \in Results :
    \E token \in {0, 1} \cup Given(c, inputs) :
        LET page == Page(token)
            call == [of |-> c, inputs |-> inputs, token |-> token, result |-> result,
                     more |-> result # "failed" /\ page < Holds(c, inputs),
                     items |-> IF page <= Holds(c, inputs) THEN 1 ELSE 0]
        IN  /\ Len(calls) < MaxCalls
            /\ setting.source = "notes" => inputs # "shorter"
            /\ Cardinality({i \in DOMAIN calls : Odd(calls[i])}) + (IF Odd(call) THEN 1 ELSE 0) <= MaxOdd
            /\ calls' = Append(calls, call)
            /\ UNCHANGED <<setting, before, held>>

Appear ==
    \E c \in Planned :
        /\ held = before /\ MapThenSumSet(LAMBDA d : held[d], Ids) < MaxHeld
        /\ calls # <<>> /\ Len(calls) < MaxCalls
        /\ held' = [held EXCEPT ![c] = @ + 1]
        /\ UNCHANGED <<setting, before, calls>>

Next == Call \/ Appear

Spec == Init /\ [][Next]_vars

-----------------------------------------------------------------------------
(* The evidence.                                                           *)

\* An error, a text cut short and no result at all are one.
Whole(call) == call.result # "failed"

FirstOf(positions) == IF positions = {} THEN 0 ELSE CHOOSE i \in positions : \A j \in positions : i <= j

\* The filter is there, and no input the prompt does not name; whether the
\* window is covered is for the first page to say.
AsksTheListing(call) == call.inputs # "other"

\* A search holds every clause, and none of them negated.
HoldsTheClauses(call) == call.inputs \in {"exact", "wider"}

AsksAnything(call) == TRUE
Asks(call) == IF setting.source = "notes" THEN HoldsTheClauses(call) ELSE AsksTheListing(call)

\* A blank token is none for a search, and is neither none nor one for a
\* calendar.
NoPageToken(call) == call.token = 0 \/ (setting.source = "notes" /\ call.token = 1)

\* The first page of a listing over the window.
Opens(call) == NoPageToken(call) /\ call.inputs # "shorter" /\ Asks(call)

\* A next page of the listing that began with `first`, over the same window or
\* of the same query.
ContinuesAny(call, first) == call.token > 1 /\ Asks(call)
Continues(call, first) == call.token > 1 /\ call.inputs = first.inputs /\ Asks(call)

\* For a calendar, the first later call with any token at all.
NextWithToken(at, first) == FirstOf({j \in at + 1..Len(calls) : calls[j].of = first.of /\ calls[j].token # 0})

\* For a search, the first later call of the query that came back whole.
NextOfQuery(at, first) ==
    FirstOf({j \in at + 1..Len(calls) : calls[j].of = first.of /\ Whole(calls[j]) /\ Continues(calls[j], first)})

\* The call that carries the listing on after the one at `at`, a failed one
\* only by its very token.
CarriesOn(at, first) ==
    LET next == IF setting.source = "notes" THEN NextOfQuery(at, first) ELSE NextWithToken(at, first)
    IN  IF /\ next # 0 /\ Continues(calls[next], first)
           /\ Whole(calls[at]) \/ calls[next].token = calls[at].token
        THEN next ELSE 0

\* readToLastPage and reachedLastPage, from the page at `start`.
ReadToLastPage(start) ==
    LET reached[at \in 0..Len(calls)] ==
            /\ at # 0
            /\ \/ Whole(calls[at]) /\ ~calls[at].more
               \/ reached[CarriesOn(at, calls[start])]
    IN  reached[start]

\* readCalendar: one listing read to its last page is enough.
IsRead(c) ==
    \E i \in DOMAIN calls :
        calls[i].of = c /\ Whole(calls[i]) /\ Opens(calls[i]) /\ ReadToLastPage(i)

SourceRead == Planned # {} /\ \A c \in Planned : IsRead(c)

\* Every page of a calendar's listing over the window, also one whose first
\* page came back failed.
FirstPageRead(c) == {FirstOf({i \in DOMAIN calls : calls[i].of = c /\ Opens(calls[i]) /\ ReadToLastPage(i)})} \ {0}
ListingPages(c) ==
    {i \in DOMAIN calls :
        /\ calls[i].of = c /\ Whole(calls[i])
        /\ \/ Opens(calls[i])
           \/ \E first \in DOMAIN calls :
                calls[first].of = c /\ Opens(calls[first]) /\ Continues(calls[i], calls[first])}

\* Every search that came back whole.
SearchPages(c) == {i \in DOMAIN calls : calls[i].of = c /\ Whole(calls[i]) /\ Asks(calls[i])}

\* How many items they listed; no count while one of them gave none.
Listed ==
    LET pages == UNION {IF setting.source = "notes" THEN SearchPages(c) ELSE ListingPages(c) : c \in Planned}
    IN  IF \E i \in pages : calls[i].result = "uncounted" THEN -1
        ELSE Cardinality({i \in pages : calls[i].items = 1})

-----------------------------------------------------------------------------

\* The items of c on the pages of an unfiltered listing the model was given
\* whole.
Shown(c) ==
    {Page(calls[i].token) : i \in {j \in DOMAIN calls :
        calls[j].of = c /\ calls[j].result # "failed" /\ calls[j].inputs \in Covering /\ calls[j].items = 1}}

\* A source counts as read only when the model was shown everything that was
\* there when the round began, in every calendar the configuration lists but
\* those it is told are left out (calendar-google.mjs:401, readToLastPage).
ReadIsWhole ==
    SourceRead => \A c \in Told : 1..before[c] \subseteq Shown(c)

\* A source that counts as read with nothing listed had nothing to list, when
\* the round began and, unless it gave a blank token, in any call it made:
\* its window may be closed without a note (calendar-google.mjs:435,
\* listingPages).
EmptyIsEmpty ==
    SourceRead /\ Listed = 0 =>
        \A c \in Planned : before[c] = 0 /\ (Shown(c) = {} \/ \E i \in DOMAIN calls : calls[i].token = 1)
==============================================================================
