----------------------------- MODULE UserRules -----------------------------
(***************************************************************************)
(* A round that reads connectors is launched with the person's own Claude  *)
(* Code settings, and so with every tool they allow there.  Each of those  *)
(* rules is passed back as a deny, unless it is the round's own, or only   *)
(* widens what it reads, or stays in the vault; one that cannot be refuses *)
(* the connectors.  A path is a sequence of names, a link leads elsewhere, *)
(* and what a rule reaches is a region: a path and all under it, or, when  *)
(* its last name is cut short, every name that starts like it.             *)
(***************************************************************************)
EXTENDS Naturals, SequencesExt

CONSTANTS Starts,     \* for a name, or the start of one: the names that start so
          Links,      \* the links, each with the folder it leads to
          Existing,   \* the paths that exist
          Paths,      \* the paths a tool may be asked for
          Vault,      \* the vault, with no link in it
          Protected,  \* the names in the vault no round may write
          SettingsDir,
          Rules,      \* the rules the person may allow
          Extra,      \* the reads a vault may grant its rounds besides
          Sources,    \* the connector sources
          ReadTools, WriteTools,  \* the tools of each source
          KitForms,   \* the commands of the kit a round runs
          MaxRules

VARIABLES vaultRoot, home,  \* as written, either may go through a link
          settings,         \* what the settings files allow, rule after rule
          extra,            \* the vault's own further read
          available, blocked,
          left,             \* the rules the mirror has still to take
          deny, widened, blocking, dropNode,
          mode              \* "mirroring", "isolated" or "connectors"

vars == <<vaultRoot, home, settings, extra, available, blocked, left,
          deny, widened, blocking, dropNode, mode>>
inputs == <<vaultRoot, home, settings, extra>>

NodeForms == {<<"node">> \o form : form \in KitForms}

-----------------------------------------------------------------------------
(* Where a rule points.                                                    *)

Real(path) ==
    IF \E l \in DOMAIN Links : IsPrefix(l, path)
    THEN LET l == CHOOSE l \in DOMAIN Links : IsPrefix(l, path)
         IN  Links[l] \o SubSeq(path, Len(l) + 1, Len(path))
    ELSE path

\* Mutant: links are not followed.
SpellingsAsWritten(path) == {path}

\* A path as written and, when it exists, with its links followed.
Spellings(path) == {path} \cup {r \in {Real(path)} : r \in Existing}

Region(path, partial) == [path |-> path, partial |-> partial]

StartsLike(path, start) ==
    /\ Len(path) >= Len(start)
    /\ IsPrefix(Front(start), path)
    /\ path[Len(start)] \in Starts[Last(start)]

InRegion(path, r) == IF r.partial THEN StartsLike(path, r.path) ELSE IsPrefix(r.path, path)

OverlapsRegion(a, b) == InRegion(a.path, b) \/ InRegion(b.path, a)

CoversVault(r, vault) == IsPrefix(r.path, vault) \/ (r.partial /\ StartsLike(vault, r.path))

InsideVault(r, vault) == IsStrictPrefix(vault, r.path) \/ (r.path = vault /\ ~r.partial)

Vaults == Spellings(vaultRoot)

\* The folders a scope's base may be, and the one the CLI takes it for.
Bases(base) ==
    CASE base = "root"     -> {<<>>}
      [] base = "home"     -> Spellings(home)
      [] base = "settings" -> Spellings(SettingsDir)
      [] base = "vault"    -> Vaults
CliBase(base) ==
    CASE base = "root"     -> <<>>
      [] base = "home"     -> home
      [] base = "settings" -> SettingsDir
      [] base = "vault"    -> Real(vaultRoot)

ScopePaths(rule, bases) ==
    LET written == {base \o rule.path : base \in bases}
    IN  {Region(path, rule.partial) : path \in
            IF rule.partial THEN written ELSE UNION {Spellings(path) : path \in written}}

ScopeOf(rule) == ScopePaths(rule, Bases(rule.base))
CliRegion(rule) == Region(CliBase(rule.base) \o rule.path, rule.partial)

-----------------------------------------------------------------------------
(* The round's own tools.                                                  *)

PathRule(tool, base, path) ==
    [kind |-> "path", tool |-> tool, base |-> base, path |-> path,
     partial |-> FALSE, climbs |-> FALSE, odd |-> FALSE]
ToolRule(names) == [kind |-> "tool", names |-> names]

OwnReads == {PathRule("Read", "vault", <<>>)} \cup extra
Own == OwnReads \cup {PathRule("Edit", "vault", <<>>)}
           \cup UNION {{ToolRule({name}) : name \in ReadTools[s]} : s \in available}

\* A single slash on the command line may be either of two folders.
OwnReadRegions ==
    UNION {ScopePaths(rule, IF rule.base = "settings" THEN Vaults \cup {<<>>} ELSE Bases(rule.base)) : rule \in OwnReads}

-----------------------------------------------------------------------------
(* mirrorUserRules: what is done about each rule.                          *)

\* Mutant: inside by any spelling of the path.
InsideAnySpelling(rule) == ~rule.climbs /\ \E r \in ScopeOf(rule), vault \in Vaults : InsideVault(r, vault)

\* Inside the vault as the CLI will resolve it.
Inside(rule) == ~rule.climbs /\ InsideVault(CliRegion(rule), Real(vaultRoot))

Covers(rule) == \E r \in ScopeOf(rule), vault \in Vaults : CoversVault(r, vault)

ThroughLink(rule) == \E r \in ScopeOf(rule), vault \in Vaults : InsideVault(r, vault)

ReachesProtected(rule) ==
    \E r \in ScopeOf(rule), vault \in Vaults, name \in Protected :
        OverlapsRegion(r, Region(Append(vault, name), FALSE))

OverlapsReads(rule) ==
    \E r \in ScopeOf(rule), own \in OwnReadRegions \cup {Region(vault, FALSE) : vault \in Vaults} :
        OverlapsRegion(r, own)

Overlaps(prefix, form) == IsPrefix(prefix, form) \/ IsPrefix(form, prefix)

Bare(rule) == rule.base = "none"

\* What becomes of one rule.
Verdict(rule) ==
    IF rule \in Own THEN "skip"
    ELSE IF rule.kind = "unreadable" THEN "unreadable"
    ELSE IF rule.kind = "path" /\ rule.tool = "Read"
    THEN IF ~Bare(rule) /\ Inside(rule) THEN "skip"
         ELSE IF Bare(rule) \/ rule.climbs \/ OverlapsReads(rule) THEN "widen"
         ELSE IF rule.odd THEN "unreadable" ELSE "mirror"
    ELSE IF rule.kind = "path"
    THEN IF ~Bare(rule) /\ rule.climbs THEN "unreadable"
         ELSE IF Bare(rule) \/ Covers(rule) THEN "covers_vault"
         ELSE IF Inside(rule) \/ (ThroughLink(rule) /\ ~ReachesProtected(rule)) THEN "skip"
         ELSE IF rule.odd THEN "unreadable" ELSE "mirror"
    ELSE IF rule.kind = "bash"
    THEN IF \E form \in KitForms : Overlaps(rule.prefix, form) THEN "covers_kit" ELSE "mirror"
    ELSE "mirror"

\* A mirrored rule as the command line carries it.
DenyOf(rule) ==
    CASE rule.kind = "path" -> [kind |-> "path", tool |-> rule.tool, region |-> CliRegion(rule)]
      [] rule.kind = "bash" -> [kind |-> "bash", prefix |-> rule.prefix]
      [] rule.kind = "tool" -> rule

\* Mutant: a command that starts like a node form leaves it granted.
DropsNodeNever(rule) == FALSE

DropsNode(rule) == rule.kind = "bash" /\ \E form \in NodeForms : Overlaps(rule.prefix, form)

Mirroring == mode = "mirroring" /\ UNCHANGED inputs

MirrorOne ==
    /\ Mirroring
    /\ left # <<>>
    /\ LET rule == Head(left)
           verdict == Verdict(rule)
       IN  /\ deny' = IF verdict = "mirror" THEN deny \cup {DenyOf(rule)} ELSE deny
           /\ widened' = IF verdict = "widen" THEN widened \cup {rule} ELSE widened
           /\ blocking' = IF verdict \in {"unreadable", "covers_vault", "covers_kit"}
                          THEN blocking \cup {<<rule, verdict>>} ELSE blocking
           /\ dropNode' = (dropNode \/ (verdict = "mirror" /\ DropsNode(rule)))
    /\ left' = Tail(left)
    /\ UNCHANGED <<available, blocked, mode>>

-----------------------------------------------------------------------------
(* chooseMode.                                                             *)

\* The sources a mirrored deny would keep from their own tools.
Hit == {s \in available : \E d \in deny : d.kind = "tool" /\ d.names \cap ReadTools[s] # {}}

\* A rule that cannot be mirrored blocks every source.
Refuse ==
    /\ Mirroring
    /\ left = <<>>
    /\ blocking # {}
    /\ mode' = "isolated"
    /\ blocked' = blocked \cup available
    /\ available' = {}
    /\ UNCHANGED <<left, deny, widened, blocking, dropNode>>

\* Mutant: the mirror made for the sources now blocked is kept.
BlockAndKeep ==
    /\ Mirroring
    /\ left = <<>>
    /\ blocking = {}
    /\ Hit # {}
    /\ blocked' = blocked \cup Hit
    /\ available' = available \ Hit
    /\ UNCHANGED <<left, deny, widened, blocking, dropNode, mode>>

\* The sources hit are left out, and the mirror is taken again without them.
Block ==
    /\ Mirroring
    /\ left = <<>>
    /\ blocking = {}
    /\ Hit # {}
    /\ blocked' = blocked \cup Hit
    /\ available' = available \ Hit
    /\ left' = settings
    /\ deny' = {}
    /\ widened' = {}
    /\ dropNode' = FALSE
    /\ UNCHANGED <<blocking, mode>>

Choose ==
    /\ Mirroring
    /\ left = <<>>
    /\ blocking = {}
    /\ Hit = {}
    /\ mode' = IF available = {} THEN "isolated" ELSE "connectors"
    /\ UNCHANGED <<available, blocked, left, deny, widened, blocking, dropNode>>

Init ==
    /\ vaultRoot \in {path \in Existing : Real(path) = Vault}
    /\ home \in {path \in Existing : Real(path) = Front(Vault)}
    /\ settings \in SeqOf(Rules, MaxRules)
    /\ extra \in Extra
    /\ available \in SUBSET Sources \ {{}}
    /\ blocked = {}
    /\ left = settings
    /\ deny = {} /\ widened = {} /\ blocking = {}
    /\ dropNode = FALSE
    /\ mode = "mirroring"

Next == MirrorOne \/ Refuse \/ Block \/ Choose

Spec == Init /\ [][Next]_vars

-----------------------------------------------------------------------------
(* What the launched round may do, as the CLI reads the rules: by the path *)
(* a tool is given, and a deny before an allow.                            *)

Acts ==
    {[kind |-> "path", tool |-> tool, path |-> path] : tool \in {"Read", "Edit"}, path \in Paths}
    \cup {[kind |-> "bash", command |-> command] : command \in KitForms \cup NodeForms \cup {<<"node">>, <<"curl">>}}
    \cup {[kind |-> "tool", name |-> name] : name \in UNION {ReadTools[s] \cup WriteTools[s] : s \in Sources}}

\* What one of the person's rules lets through.
Grants(rule, act) ==
    /\ rule.kind = act.kind
    /\ CASE act.kind = "path" -> /\ rule.tool = act.tool
                                 /\ Bare(rule) \/ rule.climbs \/ InRegion(act.path, CliRegion(rule))
         [] act.kind = "bash" -> IsPrefix(rule.prefix, act.command)
         [] act.kind = "tool" -> act.name \in rule.names

Denies(d, act) ==
    /\ d.kind = act.kind
    /\ CASE act.kind = "path" -> d.tool = act.tool /\ InRegion(act.path, d.region)
         [] act.kind = "bash" -> IsPrefix(d.prefix, act.command)
         [] act.kind = "tool" -> act.name \in d.names

\* What the round's own lists grant at a path as it is given.
OwnGrantsAt(tool, path) ==
    IF tool = "Edit"
    THEN /\ IsPrefix(Vault, path)
         /\ ~\E name \in Protected : IsPrefix(Append(Vault, name), path)
    ELSE \E r \in {CliRegion(rule) : rule \in OwnReads} : InRegion(path, r)

OwnGrants(act) ==
    CASE act.kind = "path" -> OwnGrantsAt(act.tool, act.path)
      [] act.kind = "bash" -> act.command \in KitForms \cup (IF dropNode THEN {} ELSE NodeForms)
      [] act.kind = "tool" -> act.name \in UNION {ReadTools[s] : s \in available}

\* A path through a link is the place it leads to.
WithinOwn(act) == OwnGrants(act) \/ (act.kind = "path" /\ OwnGrantsAt(act.tool, Real(act.path)))

OwnDenies(act) ==
    CASE act.kind = "path" -> act.tool = "Edit" /\ \E name \in Protected : IsPrefix(Append(Vault, name), act.path)
      [] act.kind = "bash" -> FALSE
      [] act.kind = "tool" -> act.name \in UNION {WriteTools[s] : s \in Sources}

Denied(act) == OwnDenies(act) \/ \E d \in deny : Denies(d, act)

TypeOK ==
    /\ available \subseteq Sources
    /\ blocked \subseteq Sources \ available
    /\ mode \in {"mirroring", "isolated", "connectors"}

\* A round with connectors may do nothing the person's settings allow and
\* its own lists do not, but for the reads it recorded: no write, command or
\* tool comes in with them, by whatever name, link or anchor it is allowed.
NothingComesIn ==
    mode = "connectors"
    => \A act \in Acts :
        ((\E i \in DOMAIN settings : Grants(settings[i], act)) /\ ~Denied(act))
        => \/ WithinOwn(act)
           \/ act.kind = "path" /\ act.tool = "Read" /\ \E rule \in widened : Grants(rule, act)

\* No deny made of a person's rule takes from the round a tool it was
\* launched with: its reads, its writes, the kit's commands, its sources.
OwnToolsStand ==
    mode = "connectors" => \A act \in Acts : OwnGrants(act) => ~\E d \in deny : Denies(d, act)
=============================================================================
