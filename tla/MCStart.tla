------------------------------- MODULE MCStart -------------------------------
(***************************************************************************)
(* What a round rests on before and after its model runs, one instance:    *)
(* the text of the lock, the rules the person allowed, the transcripts     *)
(* offered and the listings of a connector.  They share no state, so a     *)
(* behaviour is one of one part, and the variables of the others keep      *)
(* still.                                                                  *)
(***************************************************************************)
EXTENDS LockIdentity, Sequences, TLC

CONSTANTS Parts,   \* the parts the run looks at
          None, Refused,
          Midway   \* whether a session may change its format: see Transcripts

VARIABLES
    part,
    vaultRoot, home, settings, extra, available, blocked, left, deny, widened, blocking, dropNode, mode,
    now, mark, file, place, renamed, plan, faults,
    setting, before, held, calls

ofIdentity == vars
ofRules == <<vaultRoot, home, settings, extra, available, blocked, left, deny, widened, blocking, dropNode, mode>>
ofTranscripts == <<now, mark, file, place, renamed, plan, faults>>
ofListings == <<setting, before, held, calls>>
allVars == <<part, ofIdentity, ofRules, ofTranscripts, ofListings>>

-----------------------------------------------------------------------------
(* The lock's text: two Linux machines of one host name that share a file  *)
(* system, the first with a container, and a machine without ids.          *)

CONSTANTS linux, twin, mac, outer, inner, hostX, hostY, idL, idT

SharedMachines   == {linux, twin, mac}
SharedHosts      == [m \in Machines |-> IF m = mac THEN hostY ELSE hostX]
SharedIds        == [m \in Machines |-> IF m = linux THEN idL ELSE IF m = twin THEN idT ELSE NoId]
SharedNamespaces == [m \in Machines |-> IF m = linux THEN {outer, inner} ELSE {outer}]
SharedKnows      == {linux, twin}

IdentityIdle ==
    boot = None /\ running = None /\ writer = None /\ writtenAt = None /\ writerAlive = None /\ placed = FALSE

(* The transcripts: two sessions, each in a project of its own, over three *)
(* days; a day of both is over the cap, and two messages of a day are more *)
(* than a digest.                                                          *)

Heard == INSTANCE Transcripts WITH
    Sessions <- {"s1", "s2"}, Projects <- {"p1", "p2"}, ProjectOf <- [s1 |-> "p1", s2 |-> "p2"], Own <- "p2",
    MaxDays <- 2, Cap <- 1, Room <- 1, Slack <- 1, Behind <- [p1 |-> 0, p2 |-> 1],
    LastInstant <- 5, MaxLines <- 3, MaxFaults <- 1

TranscriptsIdle ==
    now = None /\ mark = None /\ file = None /\ place = None /\ renamed = None /\ plan = None /\ faults = None

(* The listings: two calendars, one of someone else's, or two searches,    *)
(* with up to three items between them.                                    *)

Calendar(authorized) ==
    [source |-> "calendar", listed |-> {"own", "other"}, team |-> {"other"}, authorized |-> authorized]
Search(listed) == [source |-> "notes", listed |-> listed, team |-> {}, authorized |-> FALSE]

Listed == INSTANCE Listings WITH
    Settings <- {Calendar(FALSE), Calendar(TRUE), Search({"own"}), Search({"own", "other"})},
    Owner <- {"own"}, MaxHeld <- 3, MaxCalls <- 4, MaxOdd <- 1

ListingsIdle == setting = None /\ before = None /\ held = None /\ calls = None

(* The person's rules: a home h with the vault v in it, a folder vx beside *)
(* it, a link to each of the home and the vault, and every rule that tells *)
(* them apart.                                                             *)

There == {<<>>, <<"h">>, <<"h", "v">>, <<"h", "vx">>, <<"h", "v", "n">>, <<"h", "v", "g">>, <<"h", "t">>}
         \cup {<<"l">>, <<"k">>, <<"l", "v">>, <<"l", "vx">>, <<"l", "v", "n">>, <<"l", "v", "g">>, <<"l", "t">>,
               <<"k", "n">>, <<"k", "g">>}

PathRule(tool, base_, path) ==
    [kind |-> "path", tool |-> tool, base |-> base_, path |-> path, partial |-> FALSE, climbs |-> FALSE, odd |-> FALSE]
PathRules ==
    {PathRule(tool, b[1], b[2]) : tool \in {"Read", "Edit"}, b \in
        {<<"root", <<"h">>>>, <<"root", <<"k">>>>, <<"root", <<"k", "g">>>>, <<"root", <<"k", "n">>>>, <<"root", <<"t">>>>,
         <<"home", <<"vx">>>>, <<"home", <<"t">>>>, <<"home", <<"v", "n">>>>, <<"home", <<"v", "g">>>>,
         <<"settings", <<"t">>>>, <<"vault", <<"n">>>>, <<"vault", <<"g">>>>, <<"none", <<>>>>}}
    \cup {[PathRule(tool, "root", path) EXCEPT !.partial = TRUE] : tool \in {"Read", "Edit"}, path \in {<<"l", "v">>, <<"h", "v">>}}
    \cup {[PathRule(tool, "home", <<"vx">>) EXCEPT !.odd = TRUE] : tool \in {"Read", "Edit"}}
    \cup {[PathRule(tool, "vault", <<"n">>) EXCEPT !.climbs = TRUE] : tool \in {"Read", "Edit"}}
BashRules == {[kind |-> "bash", prefix |-> p] :
                  p \in {<<>>, <<"kit">>, <<"kit", "lint", "all">>, <<"node">>, <<"node", "kit", "lint">>, <<"curl">>}}
ToolRules == {[kind |-> "tool", names |-> names] :
                  names \in {{"a.read"}, {"a.write"}, {"a.list", "a.write"}, {"b.read"}, {"a.read", "b.read"}}}

Allowed == INSTANCE UserRules WITH
    Starts <- [n \in {"h", "v", "vx", "n", "g", "t", "l", "k"} |-> IF n = "v" THEN {"v", "vx"} ELSE {n}],
    Links <- (<<"l">> :> <<"h">>) @@ (<<"k">> :> <<"h", "v">>), Existing <- There,
    Paths <- There \cup {<<"h", "v", "t">>, <<"t">>, <<"h", "t", "n">>},
    Vault <- <<"h", "v">>, Protected <- {"g"}, SettingsDir <- <<"h", "t">>,
    Rules <- PathRules \cup BashRules \cup ToolRules \cup {[kind |-> "unreadable"]},
    Extra <- {{}, {PathRule("Read", "root", <<"h", "t">>)}, {PathRule("Read", "settings", <<"t">>)}},
    Sources <- {"a", "b"}, ReadTools <- [a |-> {"a.read", "a.list"}, b |-> {"b.read"}],
    WriteTools <- [a |-> {"a.write"}, b |-> {"b.write"}],
    KitForms <- {<<"kit", "lint">>, <<"kit", "propose">>}, MaxRules <- 2

RulesIdle ==
    /\ vaultRoot = None /\ home = None /\ settings = None /\ extra = None /\ available = None /\ blocked = None
    /\ left = None /\ deny = None /\ widened = None /\ blocking = None /\ dropNode = None /\ mode = None

-----------------------------------------------------------------------------

EachInit ==
    /\ part \in Parts
    /\ IF part = "identity" THEN Init ELSE IdentityIdle
    /\ IF part = "rules" THEN Allowed!Init ELSE RulesIdle
    /\ IF part = "transcripts" THEN Heard!Init ELSE TranscriptsIdle
    /\ IF part = "listings" THEN Listed!Init ELSE ListingsIdle

EachNext ==
    \/ part = "identity" /\ Next /\ UNCHANGED <<part, ofRules, ofTranscripts, ofListings>>
    \/ part = "rules" /\ Allowed!Next /\ UNCHANGED <<part, ofIdentity, ofTranscripts, ofListings>>
    \/ part = "transcripts" /\ Heard!Next /\ UNCHANGED <<part, ofIdentity, ofRules, ofListings>>
    \/ part = "listings" /\ Listed!Next /\ UNCHANGED <<part, ofIdentity, ofRules, ofTranscripts>>

EachSpec == EachInit /\ [][EachNext]_allVars

-----------------------------------------------------------------------------

\* The person's rules bring nothing into a round with connectors that it
\* would not have, and take none of its own tools away.
NothingComesIn == part = "rules" => Allowed!TypeOK /\ Allowed!NothingComesIn /\ Allowed!OwnToolsStand

\* A mark that moves over a day leaves no line of it unread that the round
\* did not count or say it left out, and a plan covers a day, however small
\* the digest; a connector counts as read only when every page of its
\* listings was shown, and as empty only when it had nothing.
WhatCountsWasRead ==
    [][/\ part = "transcripts" => Heard!NoDayClosedUnread /\ Heard!EveryPlanCovers'
       /\ part = "listings" => Listed!TypeOK' /\ Listed!ReadIsWhole' /\ Listed!EmptyIsEmpty']_allVars
=============================================================================
