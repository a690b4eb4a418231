------------------------------- MODULE MCTexts -------------------------------
(***************************************************************************)
(* What the kit reads and judges, one small instance of each part.  The    *)
(* lint's (MCTexts.cfg): a root index, one more note and one file that is  *)
(* no note, which git ignores until it tracks it; one plain line, one with *)
(* a forbidden character, one with a keyword and a secret.                 *)
(***************************************************************************)
EXTENDS Texts, TLC

(* The links: three folders deep, with an index and a note in each; the    *)
(* targets spell one file or folder in the ways a link can.                *)

ThreeDeep ==
    {<<"index.md">>, <<"n.md">>, <<"p", "index.md">>, <<"p", "n.md">>, <<"p", "t", "index.md">>, <<"p", "t", "n.md">>}
Spelled ==
    {<<"p">>, <<"p", "index">>, <<"p", "index.md">>, <<"p", "t">>, <<"p", "t", "index.md">>,
     <<"p", "n">>, <<"t">>, <<"n.md">>, <<"..", "n.md">>, <<"/", "p", "t", "n.md">>, <<"..", "x.md">>}
NamesWithMd == [n |-> "n.md", index |-> "index.md", p |-> "p.md", t |-> "t.md"]
TwoFolders == {<<"p">>, <<"p", "t">>}

(* The leak scan: lines of six columns and less: every way two patterns    *)
(* match one of them, with one or two spans each, and texts of four        *)
(* simpler lines.                                                          *)

Line(length, shape, own) == [length |-> length, spans |-> [shape |-> shape, own |-> own]]
Spans == {{<<s, e>>} : s \in 0..2, e \in 3..4}
         \cup {{<<0, 1>>, <<3, 5>>}, {<<0, 1>>, <<1, 2>>, <<4, 5>>}, {<<2, 3>>, <<3, 4>>}, {<<4, 5>>}, {}}
Rich == {<<Line(5, shape, own)>> : shape \in Spans, own \in Spans}
Simple == {Line(1, {}, {}), Line(3, {}, {}), Line(2, {<<0, 1>>}, {}), Line(2, {<<0, 1>>}, {<<0, 2>>})}
RichOrSimple == Rich \cup [1..4 -> Simple]
OneShape == <<"shape">>
ConfiguredLists == {<<>>, <<"own">>, <<"shape">>, <<"own", "own">>, <<"wrong">>}
PersonalLists == {<<>>, <<"own">>, Refused}

(* The tables: every note of five lines for the tables rule, and of six    *)
(* under its heading for the briefing.                                     *)

TableLines == {"blank", "rule", "delimiter", "soon", "wide", "odd"}
EveryNote ==
    [tables |-> [1..5 -> TableLines],
     pending |-> {b \o n : b \in {<<"heading", "labels", "delimiter">>, <<"prose", "heading", "labels">>,
                                  <<"heading", "soon", "delimiter">>, <<"heading", "labels", "delimiter", "odd">>,
                                  <<"heading", "labels", "delimiter", "empty">>},
                           n \in [1..3 -> {"rule", "delimiter", "heading", "above", "soon", "far"}]}]
OneLineOrNone == {{i} : i \in 1..5} \cup {{}}
SoonAndFar == [soon |-> 1, far |-> 9]

(* The doctor: a vault of the transcripts alone, one just made (no session *)
(* yet), one that requires both connectors, and one that is switched off.  *)

Plain == [
    nodeRun |-> "ok", nodePath |-> "ok", git |-> "ok", place |-> "top", hooksPath |-> "here", hook |-> "gate",
    kit |-> "ok", roundPath |-> "ok", config |-> "ok", enabled |-> TRUE,
    budget |-> "set", turns |-> "set", minutes |-> "none", policy |-> "ok", keywords |-> "off",
    scope |-> "inside", kitVersion |-> "same", manifest |-> "ok", machine |-> "ok", access |-> "private",
    digests |-> "safe", legacy |-> "off", gh |-> "ok", login |-> "in", claudeBin |-> "named", claude |-> "real",
    ignore |-> "ignored", timezone |-> "ok", mark |-> "open", timer |-> "active", notify |-> "found",
    briefing |-> "on", task |-> "ok", queue |-> "ok", blocks |-> "ok", signature |-> "ok", lastRun |-> "ok",
    tree |-> "clean", network |-> "up", head |-> "main", tracked |-> {"main"}, locals |-> {"main"},
    published |-> {"main"}, reachable |-> TRUE, committed |-> "unset", worktree |-> "unset",
    upstream |-> "same", remote |-> TRUE, diverged |-> FALSE, unknownSource |-> FALSE,
    transcripts |-> "required", list |-> "both", named |-> "default", root |-> "there", nameable |-> TRUE,
    own |-> "directory", project |-> "directory",
    calendar |-> "no", calendarSet |-> "on", notes |-> "no", notesSet |-> "on",
    calendarState |-> "connected", notesState |-> "connected",
    calendarSeen |-> "connected", notesSeen |-> "connected", team |-> "ok", twice |-> FALSE,
    consentFlag |-> FALSE, rules |-> "none", launch |-> "init"]

VaultsMade ==
    [plain     |-> Plain,
     new       |-> [Plain EXCEPT !.list = "own", !.own = "gone", !.lastRun = "none", !.mark = "unset"],
     connected |-> [Plain EXCEPT !.calendar = "best_effort", !.notes = "required"],
     off       |-> [Plain EXCEPT !.enabled = FALSE]]

VaultsLookedAt == {VaultsMade[vault] : vault \in DOMAIN VaultsMade}

ASSUME Linted!LintAssumption /\ Linked!LinksAssumption /\ Linked!NoFolderIsAnIndex
ASSUME Tables!TablesAssumption /\ Health!DoctorAssumption
==============================================================================
