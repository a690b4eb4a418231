------------------------------ MODULE MCSetup ------------------------------
(***************************************************************************)
(* What the kit writes outside a round, one small instance of each part.   *)
(***************************************************************************)
EXTENDS Setup, TLC

CONSTANTS vaultV, vaultW, updateA, updateB

Either == Permutations({vaultV, vaultW}) \cup Permutations({updateA, updateB})

(* The machine file: two vaults (MCSetup.cfg), two folders of one name and *)
(* one of another.                                                         *)

FolderNames == [here |-> "notes", there |-> "notes", other |-> "work"]

(* Updates: a note and the hook over three kits; the second changes both,  *)
(* the third the note only.                                                *)

ThreeKits == <<[hook |-> 1, note |-> 1], [hook |-> 2, note |-> 2], [hook |-> 2, note |-> 3]>>

(* Init: a vault with one file, the manifest and the hook in folders of    *)
(* their own, and a state directory two levels below one that is there.    *)

Tree ==
    [vault |-> <<"vault">>, note |-> <<"vault", "note">>,
     kitDir |-> <<"vault", "kitDir">>, manifest |-> <<"vault", "kitDir", "manifest">>,
     hooksDir |-> <<"vault", "hooksDir">>, hook |-> <<"vault", "hooksDir", "hook">>,
     git |-> <<"vault", "git">>, head |-> <<"vault", "git", "head">>,
     home |-> <<"home">>, state |-> <<"home", "state">>, machine |-> <<"home", "state", "machine">>]
TreePlaces == DOMAIN Tree

Step(what, p) == [does |-> what, path |-> p]

CommandPlans ==
    [init  |-> <<Step("private", "state"), Step("new", "machine"), Step("new", "note"), Step("new", "hook"), Step("new", "manifest"),
                 Step("own", "git"), Step("fill", "head")>>,
     adopt |-> <<Step("private", "state"), Step("new", "machine"), Step("new", "note"), Step("new", "manifest")>>,
     gate  |-> <<Step("new", "hook"), Step("wire", "hook"), Step("record", "manifest")>>]

(* The gate: the default branch and a reference whose name is a pattern's  *)
(* word; tags of tags one deeper than the gate follows.                    *)

RefNames == [main |-> "plain", named |-> "word"]
TagChains == {<<>>, <<"plain", "word">>, <<"plain", "plain", "plain">>}
OneChange ==
    {<<"note", "word">>, <<"config", "declares">>, <<"config", "absent">>,
     <<"named", "plain">>, <<"author", "word">>, <<"header", "shape">>}

ASSUME Assumptions ==
    /\ MachineFile!MachineAssumption /\ Managed!ManagedAssumption /\ Ledger!LedgerAssumption
    /\ Entries!ScheduleAssumption /\ Gate!GateAssumption
=============================================================================
