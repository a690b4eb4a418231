----------------------------- MODULE VaultLinks -----------------------------
(***************************************************************************)
(* The rules that read a vault's links: the index of every folder, the     *)
(* walk from the root index, the targets that are not there, and the       *)
(* boundary of the confidential folders.  A path is the sequence of its    *)
(* names, from the vault's root.                                           *)
(***************************************************************************)
EXTENDS Naturals, FiniteSets, SequencesExt

CONSTANTS Paths,     \* the files a vault may hold
          Targets,   \* what a link may say, ".." and a leading "/" among its names
          WithMd,    \* the names with no extension, each with ".md" after it
          Folders,   \* the folders the configuration may call confidential
          MaxSteps   \* bound: what the owner writes

Root == <<"index.md">>

\* A file of the vault is a note: its name ends in ".md".
LinksAssumption ==
    /\ Root \in Paths
    /\ \A path \in Paths : path \in Seq(STRING) /\ path # <<>> /\ path[Len(path)] # "index"
    /\ \A target \in Targets : target \in Seq(STRING)
    /\ \A dir \in Folders : dir \in Seq(STRING)
    /\ \A name \in DOMAIN WithMd : WithMd[name] \in STRING

\* No folder has the name of a front door.
NoFolderIsAnIndex == \A path \in Paths : \A n \in 1..(Len(path) - 1) : path[n] \notin {"index", "index.md"}

VARIABLES disk,    \* the files there are
          walked,  \* those the run reads: git publishes them, nothing ignores them
          links,   \* [from, to, wiki]
          confidential, templates, steps

vars == <<disk, walked, links, confidential, templates, steps>>

Reserved(file) == Last(file) \in {"index.md", "log.md"}
Folder(file) == Front(file)
IndexOf(folder) == Append(folder, "index.md")

\* Everything strictly below a folder; the vault's root is the empty path.
Below(path, folder) == IsStrictPrefix(folder, path)
UnderPath(path, folder) == IsPrefix(folder, path)

-----------------------------------------------------------------------------
(* Where a link leads.                                                     *)

Named(path, name) ==
    IF name = "." THEN path
    ELSE IF name = ".." /\ path # <<>> /\ Last(path) # ".." THEN Front(path)
    ELSE Append(path, name)

Normalized(names) ==
    LET upTo[n \in 0..Len(names)] == IF n = 0 THEN <<>> ELSE Named(upTo[n - 1], names[n])
    IN  upTo[Len(names)]

\* From the file's own folder, or from the root after a slash.
ResolveLinkPath(file, part) ==
    Normalized(IF part # <<>> /\ Head(part) = "/" THEN Tail(part) ELSE Folder(file) \o part)

\* A wikilink that names no extension is tried with and without one.
WikilinkPathParts(target) ==
    IF target = <<>> THEN {}
    ELSE IF Last(target) \in DOMAIN WithMd THEN {target, Append(Front(target), WithMd[Last(target)])}
    ELSE {target}

LinkParts(link) == IF link.wiki THEN WikilinkPathParts(link.to) ELSE {link.to}

Resolved(link) == {ResolveLinkPath(link.from, part) : part \in LinkParts(link)}

ClassifyTarget(path) ==
    IF path # <<>> /\ Head(path) = ".." THEN "outside"
    ELSE IF path \in walked THEN "in-walk"
    ELSE IF path \in disk THEN "unwalked"
    ELSE IF path = <<>> \/ \E file \in disk : Below(file, path) THEN "directory"
    ELSE "absent"

LinksOf(file) == {link \in links : link.from = file}

-----------------------------------------------------------------------------
(* index-completeness                                                      *)

\* Mutant: the folder a note is in, and none above it.
AncestorDirsNearest(file) == {Folder(file)}

\* Every folder from a note up to the root.
AncestorDirs(file) == {SubSeq(file, 1, n) : n \in 0..(Len(file) - 1)}

MissingIndexes == {dir \in UNION {AncestorDirs(file) : file \in walked} : IndexOf(dir) \notin walked}

RootLinked == UNION {{path \in Resolved(link) : ClassifyTarget(path) \in {"directory", "in-walk"}} :
                        link \in {l \in LinksOf(Root) : ~l.wiki}}

\* The root links every first folder, by its name or by its index.
UnlinkedDirs ==
    IF Root \notin walked THEN {}
    ELSE {dir \in {<<Head(file)>> : file \in {f \in walked : Len(f) > 1}} :
            dir \notin RootLinked /\ IndexOf(dir) \notin RootLinked}

-----------------------------------------------------------------------------
(* orphans                                                                 *)

\* A link to a folder is one to its index.
FollowLink(link) ==
    {path \in Resolved(link) : ClassifyTarget(path) = "in-walk"}
    \cup {file \in {IndexOf(path) : path \in {p \in Resolved(link) : ClassifyTarget(p) = "directory"}} :
            file \in walked}

\* The sets of notes that hold the root and whatever a link of one leads to.
Whole ==
    LET leads == {<<link.from, FollowLink(link)>> : link \in links}
    IN  {notes \in SUBSET walked :
            /\ {Root} \cap walked \subseteq notes
            /\ \A lead \in leads : lead[1] \in notes => lead[2] \subseteq notes}

\* The walk from the root visits the least of them.
Visited == LET whole == Whole IN {file \in walked : \A notes \in whole : file \in notes}

Orphans ==
    IF Root \notin walked THEN {}
    ELSE {file \in walked \ Visited :
            ~Reserved(file) /\ ~(templates # <<>> /\ UnderPath(file, templates))}

-----------------------------------------------------------------------------
(* link-target-exists                                                      *)

Broken == {link \in links : link.from \in walked /\ ~link.wiki
             /\ \A path \in Resolved(link) : ClassifyTarget(path) \in {"outside", "absent"}}

LinksOutOfTheWalk == {link \in links : link.from \in walked /\ ~link.wiki
                        /\ \E path \in Resolved(link) : ClassifyTarget(path) = "unwalked"}

-----------------------------------------------------------------------------
(* privacy                                                                 *)

\* The vault itself, as a folder, holds every file.
UnderAnyConfidential(file) == \E dir \in confidential : UnderPath(file, dir)

\* Mutant: the front door of any confidential folder is everybody's.
ConfidentialContentOfAny(path) ==
    /\ \E dir \in confidential \ {<<>>} : Below(path, dir)
    /\ \A dir \in confidential : path \notin {IndexOf(dir), Append(dir, "index")}

\* Inside a confidential folder, and not that folder's own front door.
ConfidentialContent(path) ==
    \E dir \in confidential \ {<<>>} : Below(path, dir) /\ path \notin {IndexOf(dir), Append(dir, "index")}

LinksIntoConfidential ==
    {link \in links :
        /\ link.from \in walked
        /\ ~UnderAnyConfidential(link.from)
        /\ \E path \in Resolved(link) : ConfidentialContent(path)}

-----------------------------------------------------------------------------
(* The owner.                                                              *)

Init ==
    /\ disk \in {{Root}, Paths}
    /\ walked = disk
    /\ links = {}
    /\ confidential \in SUBSET Folders
    /\ templates \in {<<>>} \cup {<<dir[1]>> : dir \in Folders}
    /\ steps = IF disk = Paths THEN 1 ELSE 0

Busy == steps < MaxSteps /\ steps' = steps + 1 /\ UNCHANGED <<confidential, templates>>

AddFile(file) ==
    /\ Busy
    /\ file \notin disk
    /\ disk' = disk \cup {file}
    /\ walked' \in {walked, walked \cup {file}}
    /\ UNCHANGED links

AddLink(file, to, wiki) ==
    /\ Busy
    /\ file \in disk
    /\ links' = links \cup {[from |-> file, to |-> to, wiki |-> wiki]}
    /\ UNCHANGED <<disk, walked>>

Next ==
    \/ \E file \in Paths : AddFile(file)
    \/ \E file \in Paths, to \in Targets, wiki \in BOOLEAN : AddLink(file, to, wiki)

Spec == Init /\ [][Next]_vars

-----------------------------------------------------------------------------

TypeOK ==
    /\ walked \subseteq disk /\ disk \subseteq Paths
    /\ Orphans \subseteq walked
    /\ links \subseteq [from : Paths, to : Targets, wiki : BOOLEAN]

\* A note nobody reaches has a cause the run names: a link of a visited
\* note leads to what is visited too, or is reported as leading out of the
\* walk or nowhere, or names a folder reported to have no index, or one with
\* nothing in it to read.
OrphansHaveACause ==
    LET visited == Visited
        orphans == Orphans
    IN  \A link \in {l \in links : l.from \in visited /\ ~l.wiki} : \A path \in Resolved(link) :
            \/ path \in visited \ orphans
            \/ link \in Broken \cup LinksOutOfTheWalk
            \/ IndexOf(path) \in visited
            \/ path \in MissingIndexes
            \/ \A file \in walked : ~Below(file, path)

\* Whatever the spelling, a link from outside that a reader, or the walk,
\* follows to a note of a confidential folder is reported, unless the note
\* is that folder's own index, and no other confidential folder makes it one
\* less.  The front doors stay open: a root index that links its folders as
\* index-completeness asks it to links into no confidential folder.
BoundaryIsOneForAllSpellings ==
    /\ \A link \in links, dir \in confidential \ {<<>>} :
        (/\ link.from \in walked
         /\ \A d \in confidential : ~UnderPath(link.from, d)
         /\ \E file \in FollowLink(link) : Below(file, dir) /\ file # IndexOf(dir))
        => link \in LinksIntoConfidential
    /\ \A link \in LinksOf(Root) :
        (\A path \in Resolved(link) : \E file \in disk : path \in {<<file[1]>>, IndexOf(<<file[1]>>)})
        => link \notin LinksIntoConfidential

\* Every rule follows a link to one place.
LinksAreOneForAllReaders == TypeOK /\ OrphansHaveACause /\ BoundaryIsOneForAllSpellings
=============================================================================
