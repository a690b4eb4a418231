------------------------------ MODULE PushGate ------------------------------
(***************************************************************************)
(* The pre-push gate: what a push adds to the remote is enumerated, the    *)
(* patterns are gathered from the configurations that declare any, and     *)
(* every text the push publishes is read against them; while other clones  *)
(* move the remote's references.  src/push/records.sh,                     *)
(* src/commands/push-gate.mjs, src/commands/scan-blobs.mjs.                *)
(*                                                                         *)
(* A text is what a pattern can say of it: "plain", "word" and "me" (the   *)
(* vault's own patterns match them, "me" being the identity the push is    *)
(* made under) or "shape" (a generic credential shape).                    *)
(***************************************************************************)
EXTENDS Naturals, Sequences, FiniteSets

CONSTANTS
    Refs,        \* the references of the remote
    NamedAs,     \* the text of each one's name
    Chains,      \* the messages of the tag objects a push may name, outermost first
    MaxTagDepth,
    Changes,     \* what one commit may change: <<a path or a text, its new value>>
    MaxCommits,  \* bound: commits in the history
    MaxOdd,      \* bound: texts that are not plain
    MaxTheirs,   \* bound: what other clones do
    MaxPushes, MaxFaults

(* As the community modules define them: the proofs about Setup load all   *)
(* that an instance of this module extends, in every obligation.           *)
ToSet(s) == {s[i] : i \in DOMAIN s}
Max(S)   == CHOOSE x \in S : \A y \in S : x >= y
IsInjective(f) == \A i, j \in DOMAIN f : f[i] = f[j] => i = j
SetToSeq(S) == CHOOSE f \in [1 .. Cardinality(S) -> S] : IsInjective(f)

Main  == "main"
Texts == {"plain", "word", "me", "shape"}
Paths == {"config", "note", "named"}
NoCommit == 0

Absent == "absent"
(* A configuration is a JSON object but for "word"; "link" is a gitlink.   *)
ContentsOf(p) == CASE p = "config" -> {Absent, "declares", "bare", "word", "shape"}
                   [] p = "note"   -> {Absent, "plain", "word", "shape", "link"}
                   [] p = "named"  -> {Absent, "plain"}

GateAssumption ==
    /\ Main \in Refs /\ IsFiniteSet(Refs) /\ NamedAs \in [Refs -> Texts]
    /\ Chains \subseteq Seq(Texts) /\ <<>> \in Chains
    /\ \A ch \in Changes :
          \/ ch[1] \in Paths /\ ch[2] \in ContentsOf(ch[1])
          \/ ch[1] \in {"message", "author", "header"} /\ ch[2] \in Texts

VARIABLES
    commits,    \* every commit made anywhere, in the order they were made
    known,      \* those whose objects this clone has
    remote,     \* the remote's references
    tracking,   \* this clone's remote-tracking references
    published,  \* history: every commit that has been on the remote
    working,    \* the configuration in the working tree
    push,       \* the push that runs
    theirs, pushes, faults

vars == <<commits, known, remote, tracking, published, working, push, theirs, pushes, faults>>

Ids == 1 .. Len(commits)
PathText(p)   == IF p = "named" THEN "word" ELSE "plain"

NoPush == [phase |-> "none", lines |-> <<>>, asked |-> "no", excluded |-> {}, at |-> 1,
           listed |-> <<>>, blobs |-> {}, heads |-> {}, patterns |-> {}]

TypeOK ==
    /\ \A c \in Ids : commits[c].parents \subseteq 1 .. c - 1 /\ \A p \in Paths : commits[c].tree[p] \in ContentsOf(p)
    /\ known \subseteq Ids /\ published \subseteq Ids
    /\ remote \in [Refs -> {NoCommit} \cup Ids] /\ tracking \in [Refs -> {NoCommit} \cup Ids]
    /\ working \in {Absent, "declares"}
    /\ push.phase \in {"none", "list", "scan", "send", "refused", "done"}

Mine == [x \in {"message", "author", "header"} |-> IF x = "author" THEN "me" ELSE "plain"]
Bare == [p \in Paths |-> IF p = "note" THEN "plain" ELSE Absent]

Init ==
    /\ working \in {Absent, "declares"}
    /\ \E first \in {"declares", Absent} :
          commits = <<[parents |-> {}, tree |-> [Bare EXCEPT !["config"] = first], texts |-> Mine]>>
    /\ known = {1} /\ published = {1}
    /\ remote = [r \in Refs |-> IF r = Main THEN 1 ELSE NoCommit] /\ tracking = remote
    /\ push = NoPush /\ theirs = 0 /\ pushes = 0 /\ faults = 0

(***************************************************************************)
(* History.                                                                *)
(***************************************************************************)
Whole(cs) == \A c \in cs : commits[c].parents \subseteq cs
(* The commits from which every parent is followed: the least such set.    *)
Reach(from) ==
    {c \in Ids : \A cs \in SUBSET Ids : (from \ {NoCommit} \subseteq cs /\ Whole(cs)) => c \in cs}
Roots(f)   == {f[r] : r \in Refs} \ {NoCommit}
Odd(c)     == Cardinality({x \in {"message", "author", "header"} : c.texts[x] \notin {"plain", "me"}})
              + Cardinality({p \in Paths : c.tree[p] \in {"word", "shape", "link"} \/ (p = "named" /\ c.tree[p] # Absent)})
OddOf(cs)  == LET n[i \in 0 .. Len(cs)] == IF i = 0 THEN 0 ELSE n[i - 1] + Odd(cs[i]) IN n[Len(cs)]
Merged(parents) ==
    IF parents = {} THEN {Bare}
    ELSE {[p \in Paths |-> commits[of[p]].tree[p]] : of \in [Paths -> parents]}
(* A commit changes one file, or has one text that is not plain.           *)
NewCommits(parents, changes) ==
    UNION {{[parents |-> parents, tree |-> IF ch[1] \in Paths THEN [tree EXCEPT ![ch[1]] = ch[2]] ELSE tree,
             texts |-> IF ch[1] \in Paths THEN Mine ELSE [Mine EXCEPT ![ch[1]] = ch[2]]] : ch \in changes} : tree \in Merged(parents)}

quiet == push.phase = "none"
Commit ==
    /\ quiet /\ Len(commits) < MaxCommits
    /\ \E parents \in {s \in SUBSET known : Cardinality(s) <= 2} : \E c \in NewCommits(parents, Changes) :
          commits' = Append(commits, c) /\ OddOf(commits') <= MaxOdd
    /\ known' = known \cup {Len(commits')}
    /\ UNCHANGED <<remote, tracking, published, working, push, theirs, pushes, faults>>

(* Another clone pushes a commit of its own, or deletes a reference.       *)
OtherClone ==
    /\ theirs < MaxTheirs /\ theirs' = theirs + 1
    /\ \E r \in Refs :
          \/ /\ Len(commits) < MaxCommits
             /\ \E c \in NewCommits({remote[r]} \ {NoCommit}, {<<"note", "word">>, <<"config", "declares">>}) :
                   commits' = Append(commits, c) /\ OddOf(commits') <= MaxOdd
             /\ remote' = [remote EXCEPT ![r] = Len(commits')]
             /\ published' = published \cup {Len(commits')}
          \/ remote[r] # NoCommit /\ remote' = [remote EXCEPT ![r] = NoCommit] /\ UNCHANGED <<commits, published>>
    /\ UNCHANGED <<known, tracking, working, push, pushes, faults>>

Fetch ==
    /\ quiet
    /\ tracking' = [r \in Refs |-> IF remote[r] = NoCommit THEN tracking[r] ELSE remote[r]]
    /\ known' = known \cup Reach(Roots(remote))
    /\ tracking' # tracking \/ known' # known
    /\ UNCHANGED <<commits, remote, published, working, push, theirs, pushes, faults>>

(***************************************************************************)
(* A push: git tells the hook, for each reference, what goes there and     *)
(* what it saw there.  A line's tip is a commit, or the last of a chain of *)
(* tags; or a blob or a tree of its own.                                   *)
(***************************************************************************)
Tip(kind, chain, c, text) == [kind |-> kind, chain |-> chain, commit |-> c, text |-> text]
Deletion == Tip("none", <<>>, NoCommit, "plain")
Tips ==
    {Deletion}
    \cup {Tip("commit", <<>>, c, "plain") : c \in known}
    \cup {Tip("commit", chain, Max(known), "plain") : chain \in Chains}
    \cup {Tip("blob", <<>>, NoCommit, text) : text \in {"plain", "word"}}
    \cup {Tip("tree", <<>>, Max(known), "plain")}

Begin ==
    /\ quiet /\ pushes < MaxPushes /\ pushes' = pushes + 1
    /\ \E rs \in (SUBSET Refs) \ {{}} : \E tips \in [rs -> Tips] :
          /\ Cardinality(rs) > 1 => \A r \in rs : tips[r].kind = "commit" /\ tips[r].chain = <<>>
          /\ \A r \in rs : r = Main => tips[r].kind \in {"commit", "none"} /\ tips[r].chain = <<>>
          /\ push' = [NoPush EXCEPT !.phase = "list",
                                    !.lines = [i \in 1 .. Cardinality(rs) |->
                                                 LET r == SetToSeq(rs)[i] IN [ref |-> r, tip |-> tips[r], old |-> remote[r]]]]
    /\ UNCHANGED <<commits, known, remote, tracking, published, working, theirs, faults>>

(***************************************************************************)
(* The enumeration: one record for every reference line, in order, then    *)
(* its tip, its commits and what each of them changes.                     *)
(***************************************************************************)
Line == push.lines[push.at]
NewToNoMerge(c, p) ==      \* mutant: a merge diffs to nothing
    /\ commits[c].tree[p] # Absent /\ Cardinality(commits[c].parents) < 2
    /\ \A q \in commits[c].parents : commits[q].tree[p] # commits[c].tree[p]
NewTo(c, p) ==      \* differs from the file of some parent, or there is none
    /\ commits[c].tree[p] # Absent
    /\ \/ commits[c].parents = {}
       \/ \E q \in commits[c].parents : commits[q].tree[p] # commits[c].tree[p]
Pairs(cs) == {b \in cs \X Paths : NewTo(b[1], b[2])}

Listed(cs) ==
    push' = [push EXCEPT !.at = @ + 1, !.listed = Append(@, push.at), !.heads = @ \cup cs, !.blobs = @ \cup Pairs(cs)]

Enumerates == push.phase = "list" /\ push.at <= Len(push.lines)
steady     == <<commits, known, remote, tracking, published, working, theirs, pushes>>

ListNoRange ==      \* a deletion, or a tip that is no commit
    /\ Enumerates /\ Line.tip.kind # "commit"
    /\ Listed({}) /\ UNCHANGED <<steady, faults>>
Between(from, to) ==      \* git rev-list from..to, which fails on a commit this clone has not
    IF from \in known THEN Reach({to}) \ Reach({from}) ELSE Reach({to})
ListUpdate ==
    /\ Enumerates /\ Line.tip.kind = "commit" /\ Line.old # NoCommit
    /\ Listed(Between(Line.old, Line.tip.commit)) /\ UNCHANGED <<steady, faults>>

QueryRemote ==      \* once in a push
    /\ Enumerates /\ Line.tip.kind = "commit" /\ Line.old = NoCommit /\ push.asked = "no"
    /\ \/ push' = [push EXCEPT !.asked = "answered", !.excluded = Roots(remote) \cap known] /\ UNCHANGED faults
       \/ faults < MaxFaults /\ faults' = faults + 1 /\ push' = [push EXCEPT !.asked = "unknown"]
    /\ UNCHANGED steady
ListNew ==
    /\ Enumerates /\ Line.tip.kind = "commit" /\ Line.old = NoCommit /\ push.asked # "no"
    /\ Listed(Reach({Line.tip.commit}) \ (IF push.asked = "answered" THEN Reach(push.excluded) ELSE {}))
    /\ UNCHANGED <<steady, faults>>

Refuse == push' = [push EXCEPT !.phase = "refused"]
EnumerationEnds ==
    /\ push.phase = "list" /\ push.at > Len(push.lines)
    /\ push' = [push EXCEPT !.phase = "scan"] /\ UNCHANGED <<steady, faults>>
(* It fails, or a copy of it cut short answers for its first lines only.   *)
EnumerationFails ==
    /\ push.phase = "list" /\ faults < MaxFaults /\ faults' = faults + 1 /\ UNCHANGED steady
    /\ Refuse \/ push' = [push EXCEPT !.phase = "scan"]

(***************************************************************************)
(* The patterns: the union of what every configuration declares that the   *)
(* push carries, that the working tree holds, or that is on the default    *)
(* branch as this clone knows it.                                          *)
(***************************************************************************)
DeclaredBy(content) == IF content = "declares" THEN {"word", "me"} ELSE {}
ConfigOf(c)         == IF c = NoCommit THEN Absent ELSE commits[c].tree["config"]
TipCommits          == {push.lines[i].tip.commit : i \in {j \in DOMAIN push.lines : push.lines[j].tip.kind = "commit"}}
ChangesConfig(c)    ==
    IF commits[c].parents = {} THEN ConfigOf(c) # Absent
    ELSE \E q \in commits[c].parents : ConfigOf(q) # ConfigOf(c)
CarriedConfigs      == {c \in Reach(TipCommits) \ Reach(Roots(tracking)) : ChangesConfig(c)} \ TipCommits
Sources ==
    {working, ConfigOf(tracking[Main])} \cup {ConfigOf(c) : c \in TipCommits \cup CarriedConfigs}
Patterns == UNION {DeclaredBy(s) : s \in Sources}

(***************************************************************************)
(* The scan.                                                               *)
(***************************************************************************)
Matches(text, patterns) == text = "shape" \/ text \in patterns \/ (text = "declares" /\ "word" \in patterns)
AnswersForSome == push.listed = [i \in 1 .. Len(push.listed) |-> i]      \* mutant: not counted against the lines git sent

AnswersForAll == push.listed = [i \in 1 .. Len(push.lines) |-> i]
FileIsClean(p, v, patterns) ==
    /\ ~Matches(PathText(p), patterns)
    /\ v \in {Absent, "link"} \/ ~Matches(v, IF p = "config" /\ v # "word" THEN {} ELSE patterns)
CommitIsClean(c, patterns) ==
    \A x \in {"message", "author", "header"} :
        Matches(commits[c].texts[x], patterns) => x = "author" /\ commits[c].texts[x] = "me"
TipIsClean(tip, patterns) ==
    /\ Len(tip.chain) <= MaxTagDepth
    /\ \A text \in ToSet(tip.chain) : ~Matches(text, patterns)
    /\ tip.kind = "blob" => ~Matches(tip.text, patterns)
    /\ tip.kind = "tree" => \A p \in Paths : commits[tip.commit].tree[p] # Absent =>
                                /\ ~Matches(PathText(p), patterns)
                                /\ commits[tip.commit].tree[p] = "link" \/ ~Matches(commits[tip.commit].tree[p], patterns)
StreamIsClean(patterns) ==
    \A i \in ToSet(push.listed) :
        ~Matches(NamedAs[push.lines[i].ref], patterns) /\ TipIsClean(push.lines[i].tip, patterns)

Scan ==
    /\ push.phase = "scan"
    /\ IF /\ AnswersForAll
          /\ StreamIsClean(Patterns)
          /\ \A b \in push.blobs : FileIsClean(b[2], commits[b[1]].tree[b[2]], Patterns)
          /\ \A c \in push.heads : CommitIsClean(c, Patterns)
       THEN push' = [push EXCEPT !.phase = "send", !.patterns = Patterns]
       ELSE Refuse
    /\ UNCHANGED <<steady, faults>>
ReadFails ==      \* an object of the push git cannot read
    /\ push.phase = "scan" /\ faults < MaxFaults /\ faults' = faults + 1
    /\ Refuse /\ UNCHANGED steady

(* git sends it: a reference that moved meanwhile is not updated.          *)
Landing(l) == remote[l.ref] = l.old
Send ==
    /\ push.phase = "send"
    /\ LET to(r) == {l \in ToSet(push.lines) : l.ref = r /\ Landing(l) /\ l.tip.kind \in {"commit", "none"}}
       IN  /\ remote' = [r \in Refs |-> IF to(r) = {} THEN remote[r] ELSE (CHOOSE l \in to(r) : TRUE).tip.commit]
           /\ published' = published \cup Reach({l.tip.commit : l \in UNION {to(r) : r \in Refs}})
           /\ tracking' = [r \in Refs |-> IF to(r) = {} THEN tracking[r] ELSE remote'[r]]
    /\ push' = [push EXCEPT !.phase = "done"]
    /\ UNCHANGED <<commits, known, working, theirs, pushes, faults>>
Over ==
    /\ push.phase \in {"done", "refused"} /\ push' = NoPush /\ UNCHANGED <<steady, faults>>

Next ==
    \/ Commit \/ OtherClone \/ Fetch \/ Begin
    \/ ListNoRange \/ ListUpdate \/ QueryRemote \/ ListNew \/ EnumerationEnds \/ EnumerationFails
    \/ Scan \/ ReadFails \/ Send \/ Over

Spec == Init /\ [][Next]_vars

-----------------------------------------------------------------------------
Sends == push.phase = "send" /\ push'.phase = "done"
(* The patterns a reader would ask of a push: whatever is declared by the  *)
(* working tree, a tip, the default branch, or a commit the push carries   *)
(* that no tracking reference holds yet, unless that commit only inherits  *)
(* its configuration from one that is held.                                *)
Held     == Reach(Roots(tracking))
Declares == {c \in Reach(TipCommits) \ Held : \A d \in Reach({c}) \cap Held : ConfigOf(d) # ConfigOf(c)}
Asked    ==
    UNION {DeclaredBy(s) : s \in {working, ConfigOf(tracking[Main])} \cup {ConfigOf(c) : c \in TipCommits \cup Declares}}

(* No push puts on the remote a commit that was never there with a text a  *)
(* pattern asked of that push matches: in its message, its identities but  *)
(* the person's own, its headers, the name or the content of any file of   *)
(* its whole tree that no commit published before has; whatever the shape  *)
(* of its history, what this clone knows of the remote, and what other     *)
(* clones did between the enumeration and the sending.                     *)
NothingMatchedLands ==
    Sends => \A c \in published' \ published :
           /\ CommitIsClean(c, Asked)
           /\ \A p \in Paths : LET v == commits[c].tree[p] IN
                  \/ v = Absent
                  \/ \E d \in published : commits[d].tree[p] = v
                  \/ FileIsClean(p, v, Asked)

(* Nor the name of a reference, deletions included, nor a tag of a chain,  *)
(* nor a file of a tree or a blob that a reference names directly.         *)
PublishedBy(l) ==
    {NamedAs[l.ref]} \cup ToSet(l.tip.chain) \cup {l.tip.text}
    \cup IF l.tip.kind # "tree" THEN {}
         ELSE UNION {{commits[l.tip.commit].tree[p], PathText(p)} : p \in {q \in Paths : commits[l.tip.commit].tree[q] # Absent}}
EveryLineIsRead ==
    Sends => \A l \in ToSet(push.lines) : \A text \in PublishedBy(l) : ~Matches(text, Asked)
=============================================================================
