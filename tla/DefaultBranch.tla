--------------------------- MODULE DefaultBranch ---------------------------
(***************************************************************************)
(* Which branch is the vault's default branch, as src/git.mjs answers it   *)
(* for sync, lint, doctor and the push gate, and as the pre-push hook      *)
(* answers it for itself.  A repository is a record r of                   *)
(*   head       what refs/remotes/<remote>/HEAD names: a branch of that    *)
(*              remote, "outside" (anything else), or "none"               *)
(*   tracked    the branches this clone holds under refs/remotes/<remote>  *)
(*   locals     the branches under refs/heads                              *)
(*   published  what the remote lists when asked, if reachable             *)
(*   committed  vault.default_branch at the published tip                  *)
(*   worktree   vault.default_branch in the working tree                   *)
(*   upstream   what the default branch tracks: "same" (nothing, or the    *)
(*              same name there), "local", or another branch's name        *)
(*   remote     whether the remote is configured                           *)
(* A value of vault.default_branch is a name, "unset" or "no name".        *)
(***************************************************************************)
EXTENDS FiniteSets

Nothing == "-"

\* The first of main and master in a set of branches.
FirstOfMain(branches) ==
    IF "main" \in branches THEN "main"
    ELSE IF "master" \in branches THEN "master" ELSE Nothing

\* What the remote publishes as its default, as this clone knows it: its
\* HEAD when it leads to a branch of that remote held here, else main, else
\* master.
Published(r) == IF r.head \in r.tracked THEN r.head ELSE FirstOfMain(r.tracked)

\* The configuration that counts: the one at the published tip, and the
\* working tree's only when nothing is published.
Configured(r) == IF Published(r) # Nothing THEN r.committed ELSE r.worktree

\* The one resolver.  "no name" is a configured value that names no branch.
DefaultBranchOf(r) ==
    IF Configured(r) # "unset" THEN Configured(r)
    ELSE IF Published(r) # Nothing THEN Published(r)
    ELSE FirstOfMain(r.locals)

\* The push gate's reading: only an answer the remote publishes counts.
PublishedDefault(r) ==
    IF Configured(r) \in r.tracked THEN Configured(r) ELSE Published(r)

\* The branch of the remote the default branch is brought level with.
UpstreamOf(r) == IF r.upstream = "same" THEN DefaultBranchOf(r) ELSE r.upstream

\* What the hook's own default_branch answers: any HEAD it has, held here or
\* not, then a local main or master, then a tracked one.
HookBranch(r) ==
    IF r.head = "outside" THEN Nothing
    ELSE IF r.head # "none" THEN r.head
    ELSE IF FirstOfMain(r.locals) # Nothing THEN FirstOfMain(r.locals)
    ELSE FirstOfMain(r.tracked)
=============================================================================
