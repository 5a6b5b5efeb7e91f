----------------------------- MODULE ScaffoldMerge -----------------------------
(***************************************************************************)
(* chain/scripts/scaffold-chain.sh, which lets Ignite generate a chain in a*)
(* temporary directory and merges it into chain/, over several runs,       *)
(* between which the project edits what was generated.  `set -e` ends a run*)
(* at the first command that fails; Ignite, rsync and go are EXTERNAL.     *)
(*                                                                         *)
(* A file is 0 when it is absent, Own when its contents are the project's, *)
(* and otherwise the number of the run whose scaffold it comes from.       *)
(***************************************************************************)
EXTENDS Integers

CONSTANTS
  Generated,      \* files of a scaffold
  Project,        \* files of chain/ that no scaffold has
  Versions,       \* values of COSMOS_SDK_VERSION
  IgniteVersion,  \* the version Ignite puts into go.mod
  Paths,          \* values of SCAFFOLD_REL_PATH; "default" is .tmp/$CHAIN_NAME
  MaxRuns         \* bound: runs of the script

ASSUME FilesAssumption ==
  /\ {"go.mod", "README.md"} \subseteq Generated /\ "configs" \in Project
  /\ Generated \cap Project = {}
  /\ MaxRuns \in Nat

VARIABLES
  pc,     \* next command, or how the last run ended
  args,   \* [force, sdk, path] of the current run
  chain,  \* the files of CHAIN_DIR
  tmp,    \* the files of SCAFFOLD_DIR
  sdk,    \* [mod, env]: SDK version in go.mod and in configs/scaffold.env
  todo,   \* files rsync has still to copy
  cut,    \* the last merge into chain/ was cut short
  whole,  \* some merge has ended
  ignored,\* `go get` failed in the current run
  runs    \* runs so far

vars == <<pc, args, chain, tmp, sdk, todo, cut, whole, ignored, runs>>

Own == -1
NoVersion == -1
Nothing == [f \in Generated |-> 0]
Ended == pc \in {"off", "done", "missing", "refused", "absent", "failed"}

(* CHAIN_DIR holds the project's files, or does not exist yet when the     *)
(* variable is set to a new directory.                                     *)
Init ==
  /\ pc = "off" /\ runs = 0 /\ tmp = Nothing /\ todo = {}
  /\ args = [force |-> FALSE, sdk |-> IgniteVersion, path |-> "default"]
  /\ \E own \in {{}, Project \cup {"README.md"}} :
       chain = [f \in Generated \cup Project |-> IF f \in own THEN Own ELSE 0]
  /\ sdk = [mod |-> NoVersion, env |-> NoVersion]
  /\ cut = FALSE /\ whole = FALSE /\ ignored = FALSE

Goto(command) == pc' = command /\ UNCHANGED <<args, runs>>

(* Arguments and environment; an unknown argument ends the script here.    *)
Run(a) ==
  /\ Ended /\ runs < MaxRuns
  /\ pc' = "ignite installed" /\ runs' = runs + 1 /\ args' = a
  /\ ignored' = FALSE
  /\ UNCHANGED <<chain, tmp, sdk, todo, cut, whole>>

FindIgnite ==
  /\ pc = "ignite installed"
  /\ \E found \in BOOLEAN : Goto(IF found THEN "look" ELSE "missing")
  /\ UNCHANGED <<chain, tmp, sdk, todo, cut, whole, ignored>>

(* Mutant: the test is made on the temporary directory.                    *)
InTemporary == tmp["go.mod"] # 0

(* A go.mod in chain/ stands for an existing scaffold.                     *)
Existing == chain["go.mod"] # 0

Look ==
  /\ pc = "look"
  /\ Goto(IF Existing /\ ~args.force THEN "refused" ELSE "remove")
  /\ UNCHANGED <<chain, tmp, sdk, todo, cut, whole, ignored>>

RemoveOld ==
  /\ pc = "remove" /\ tmp' = Nothing
  /\ Goto("scaffold")
  /\ UNCHANGED <<chain, sdk, todo, cut, whole, ignored>>

(* Ignite writes below SCAFFOLD_REL_PATH.                                  *)
Scaffold ==
  /\ pc = "scaffold"
  /\ tmp' = IF args.path = "default" THEN [f \in Generated |-> runs] ELSE tmp
  /\ Goto("expect")
  /\ UNCHANGED <<chain, sdk, todo, cut, whole, ignored>>

(* Mutant: the failure of Ignite is ignored.                               *)
IgnoredFailure == "expect"

AfterFailure == "failed"

(* Ignite fails or is killed and leaves some of the files.                 *)
ScaffoldFails ==
  /\ pc = "scaffold"
  /\ \E written \in SUBSET Generated :
       tmp' = IF args.path = "default"
                THEN [f \in Generated |-> IF f \in written THEN runs ELSE 0] ELSE tmp
  /\ Goto(AfterFailure)
  /\ UNCHANGED <<chain, sdk, todo, cut, whole, ignored>>

(* Mutant: rsync is told to ignore the files that exist.                   *)
NewFiles == {f \in Generated \ {"README.md"} : tmp[f] # 0 /\ chain[f] = 0}

(* Mutant: README.md is not excluded.                                      *)
AllFiles == {f \in Generated : tmp[f] # 0}

(* What rsync copies; it deletes nothing.                                  *)
Merged == {f \in Generated \ {"README.md"} : tmp[f] # 0}

Expect ==
  /\ pc = "expect"
  /\ IF tmp # Nothing THEN todo' = Merged /\ Goto("merge")
                      ELSE todo' = todo /\ Goto("absent")
  /\ UNCHANGED <<chain, tmp, sdk, cut, whole, ignored>>

(* rsync copies a file; the order is its own.                              *)
MergeFile(f) ==
  /\ pc = "merge" /\ f \in todo
  /\ chain' = [chain EXCEPT ![f] = tmp[f]]
  /\ sdk' = IF f = "go.mod" THEN [sdk EXCEPT !.mod = IgniteVersion] ELSE sdk
  /\ todo' = todo \ {f}
  /\ Goto("merge")
  /\ UNCHANGED <<tmp, cut, whole, ignored>>

MergeEnds ==
  /\ pc = "merge" /\ todo = {}
  /\ cut' = FALSE /\ whole' = TRUE
  /\ Goto("normalize")
  /\ UNCHANGED <<chain, tmp, sdk, todo, ignored>>

(* go get, go mod edit and go mod tidy, whose failures are ignored; only   *)
(* the first of them sets the version of the SDK.  The greps before them   *)
(* find it, because the go.mod that was just merged is that of Ignite.     *)
(* That go mod tidy leaves it alone, no other module requiring a later     *)
(* one, is assumed.                                                        *)
Normalize ==
  /\ pc = "normalize"
  /\ \/ sdk' = [sdk EXCEPT !.mod = args.sdk] /\ UNCHANGED ignored
     \/ ignored' = TRUE /\ UNCHANGED sdk
  /\ Goto("write")
  /\ UNCHANGED <<chain, tmp, todo, cut, whole>>

(* The directory configs/ is not created.                                  *)
WriteEnv ==
  /\ pc = "write"
  /\ IF chain["configs"] # 0 THEN sdk' = [sdk EXCEPT !.env = args.sdk] /\ Goto("done")
                             ELSE UNCHANGED sdk /\ Goto("failed")
  /\ UNCHANGED <<chain, tmp, todo, cut, whole, ignored>>

(* The run is ended, by a user, for want of memory, or by a failing rsync. *)
Kill ==
  /\ ~Ended
  /\ Goto("failed")
  /\ cut' = (cut \/ pc = "merge")
  /\ UNCHANGED <<chain, tmp, sdk, todo, whole, ignored>>

(* The project edits a file between the runs.                              *)
Edit(f) ==
  /\ Ended /\ chain[f] > 0
  /\ chain' = [chain EXCEPT ![f] = Own]
  /\ pc' = "off"
  /\ UNCHANGED <<args, tmp, sdk, todo, cut, whole, ignored, runs>>

Next ==
  \/ \E a \in [force : BOOLEAN, sdk : Versions, path : Paths] : Run(a)
  \/ FindIgnite \/ Look \/ RemoveOld \/ Scaffold \/ ScaffoldFails \/ Expect
  \/ \E f \in Generated : MergeFile(f)
  \/ MergeEnds \/ Normalize \/ WriteEnv \/ Kill
  \/ \E f \in Generated : Edit(f)

Spec == Init /\ [][Next]_vars

(***************************************************************************)
(* Properties                                                              *)
(***************************************************************************)

(* Every variable keeps its type.                                          *)
TypeOK ==
  /\ pc \in {"off", "ignite installed", "look", "remove", "scaffold", "expect", "merge",
             "normalize", "write", "done", "missing", "refused", "absent", "failed"}
  /\ args.force \in BOOLEAN /\ args.sdk \in Versions \cup {IgniteVersion}
  /\ args.path \in Paths \cup {"default"}
  /\ chain \in [Generated \cup Project -> Own .. MaxRuns]
  /\ tmp \in [Generated -> 0 .. MaxRuns]
  /\ {sdk.mod, sdk.env} \subseteq Versions \cup {IgniteVersion, NoVersion}
  /\ todo \subseteq Generated \ {"README.md"}
  /\ {cut, whole, ignored} \subseteq BOOLEAN
  /\ runs \in 0 .. MaxRuns

(* "Refusing to overwrite an existing chain scaffold": the scaffold is     *)
(* there with all its files, unless a merge was cut short; a failing Ignite*)
(* never makes the next run refuse.                                        *)
RefusesWholeScaffold ==
  pc = "refused" /\ ~cut => \A f \in Generated \ {"README.md"} : chain[f] # 0

(* "Scaffold merge complete": every generated file but README.md is of this*)
(* run, whatever earlier runs left in chain/ and in the temporary          *)
(* directory, and go.mod and scaffold.env name the version asked for       *)
(* unless `go get` failed.                                                 *)
DoneMeansThisRun ==
  pc = "done" =>
    /\ \A f \in Generated \ {"README.md"} : chain[f] = runs
    /\ sdk.env = args.sdk
    /\ ~ignored => sdk.mod = args.sdk

(* What a run says when it ends is true of the files.                      *)
ReportsTrue == RefusesWholeScaffold /\ DoneMeansThisRun

(* Once a merge has ended, a run overwrites what the project edited only   *)
(* with --force; README.md and the project's scripts and configs never.    *)
EditsKept ==
  [][\A f \in Generated \cup Project :
       chain[f] = Own /\ chain'[f] # Own => f \in Generated \ {"README.md"}
                                            /\ (args.force \/ ~whole)]_vars

=============================================================================
