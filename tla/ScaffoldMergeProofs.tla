-------------------------- MODULE ScaffoldMergeProofs --------------------------
(***************************************************************************)
(* The scaffold script, for any files, versions and number of runs.        *)
(*                                                                         *)
(* What a run reports is true because the merge copies a whole scaffold or *)
(* leaves `cut`: Merging says how far it has got, ModStandsForAll what a   *)
(* go.mod in chain/ then tells, and ForcedOrFirst why a run that has come  *)
(* to copy files may overwrite edits.                                      *)
(***************************************************************************)
EXTENDS ScaffoldMerge, TLAPS

Kept == Generated \ {"README.md"}
Copied == \A f \in Kept : chain[f] = runs

Numbered == ~Ended => runs # 0

(* The temporary directory holds all of this run's scaffold or nothing.    *)
Scaffolded ==
  /\ pc = "scaffold" => tmp = Nothing
  /\ pc = "expect" => tmp = Nothing \/ tmp = [f \in Generated |-> runs]

Merging ==
  /\ pc = "merge" => /\ \A f \in Generated : tmp[f] = runs
                     /\ \A f \in Kept \ todo : chain[f] = runs
  /\ pc \in {"normalize", "write", "done"} => Copied

ModStandsForAll ==
  pc # "merge" /\ ~cut /\ chain["go.mod"] # 0 => \A f \in Kept : chain[f] # 0

(* A refusal comes right after go.mod was seen.                            *)
Refusal == pc = "refused" => chain["go.mod"] # 0

ForcedOrFirst ==
  /\ whole => chain["go.mod"] # 0
  /\ pc \in {"remove", "scaffold", "expect", "merge"} => args.force \/ ~whole

Versioned ==
  /\ pc \in {"write", "done"} /\ ~ignored => sdk.mod = args.sdk
  /\ pc = "done" => sdk.env = args.sdk

(* sdk is a record, whatever versions it holds.                            *)
SdkShape == sdk = [mod |-> sdk.mod, env |-> sdk.env]

Inv ==
  /\ TypeOK /\ SdkShape /\ Numbered /\ Scaffolded /\ Merging
  /\ ModStandsForAll /\ Refusal /\ ForcedOrFirst /\ Versioned

LEMMA GoModKept == "go.mod" \in Kept /\ "go.mod" \in Generated
BY FilesAssumption DEF Kept

LEMMA InitInv == Init => Inv
<1> SUFFICES ASSUME Init PROVE Inv
  OBVIOUS
<1>1. PICK own \in {{}, Project \cup {"README.md"}} :
        chain = [f \in Generated \cup Project |-> IF f \in own THEN Own ELSE 0]
  BY DEF Init
<1>2. chain["go.mod"] = 0
  BY <1>1, FilesAssumption
<1>3. chain \in [Generated \cup Project -> Own .. MaxRuns]
  BY <1>1, FilesAssumption DEF Own
<1>4. tmp \in [Generated -> 0 .. MaxRuns]
  BY FilesAssumption DEF Init, Nothing
<1>5. /\ pc = "off" /\ todo = {} /\ runs = 0 /\ cut = FALSE /\ whole = FALSE /\ ignored = FALSE
      /\ args = [force |-> FALSE, sdk |-> IgniteVersion, path |-> "default"]
      /\ sdk = [mod |-> NoVersion, env |-> NoVersion]
  BY DEF Init
<1>6. TypeOK
  <2>1. args.force = FALSE /\ args.sdk = IgniteVersion /\ args.path = "default"
    BY <1>5
  <2>2. sdk.mod = NoVersion /\ sdk.env = NoVersion
    BY <1>5
  <2>3. runs \in 0 .. MaxRuns
    BY <1>5, FilesAssumption
  <2>4. QED
    BY <1>3, <1>4, <1>5, <2>1, <2>2, <2>3 DEF TypeOK
<1>7. SdkShape /\ Numbered /\ Scaffolded /\ Merging /\ ModStandsForAll /\ Refusal
      /\ ForcedOrFirst /\ Versioned
  BY <1>2, <1>5 DEF SdkShape, Numbered, Ended, Scaffolded, Merging, ModStandsForAll, Refusal,
     ForcedOrFirst, Versioned
<1>8. QED
  BY <1>6, <1>7 DEF Inv

(* The steps that touch neither chain/ nor the temporary directory.        *)
LEMMA QuietTypes ==
  ASSUME Inv, UNCHANGED <<args, chain, tmp, sdk, todo, runs>>,
         pc' \in {"off", "ignite installed", "look", "remove", "scaffold", "expect", "merge",
                  "normalize", "write", "done", "missing", "refused", "absent", "failed"},
         cut' \in BOOLEAN, whole' \in BOOLEAN, ignored' \in BOOLEAN
  PROVE  TypeOK' /\ SdkShape'
BY DEF Inv, TypeOK, SdkShape

LEMMA RunInv == ASSUME Inv, NEW a \in [force : BOOLEAN, sdk : Versions, path : Paths], Run(a) PROVE Inv'
<1>0. /\ pc # "merge" /\ pc' = "ignite installed" /\ runs < MaxRuns /\ runs' = runs + 1
      /\ args' = a /\ ignored' = FALSE /\ UNCHANGED <<chain, tmp, sdk, todo, cut, whole>>
  BY DEF Run, Ended
<1>1. runs' \in 0 .. MaxRuns /\ runs' # 0
  <2>1. runs \in 0 .. MaxRuns /\ MaxRuns \in Nat
    BY FilesAssumption DEF Inv, TypeOK
  <2>2. runs < MaxRuns /\ runs' = runs + 1
    BY <1>0
  <2>3. QED
    BY <2>1, <2>2
<1>2. TypeOK' /\ SdkShape'
  <2>1. args'.force \in BOOLEAN /\ args'.sdk \in Versions /\ args'.path \in Paths
    BY <1>0
  <2>2. QED
    BY <1>0, <1>1, <2>1 DEF Inv, TypeOK, SdkShape
<1>3. Numbered'
  BY <1>1 DEF Numbered
<1>4. Scaffolded' /\ Merging' /\ ModStandsForAll' /\ Refusal' /\ ForcedOrFirst' /\ Versioned'
  BY <1>0 DEF Inv, Scaffolded, Merging, ModStandsForAll, Refusal, ForcedOrFirst, Versioned, Kept
<1>5. QED
  BY <1>2, <1>3, <1>4 DEF Inv

LEMMA FindIgniteInv == ASSUME Inv, FindIgnite PROVE Inv'
<1>1. /\ pc = "ignite installed" /\ pc' \in {"look", "missing"}
      /\ UNCHANGED <<args, runs, chain, tmp, sdk, todo, cut, whole, ignored>>
  BY DEF FindIgnite, Goto
<1>2. TypeOK' /\ SdkShape'
  BY <1>1, QuietTypes DEF Inv, TypeOK
<1>3. QED
  BY <1>1, <1>2 DEF Inv, Numbered, Ended, Scaffolded, Merging, ModStandsForAll, Refusal,
     ForcedOrFirst, Versioned, Kept

LEMMA LookInv == ASSUME Inv, Look PROVE Inv'
<1>1. /\ pc = "look" /\ pc' = (IF Existing /\ ~args.force THEN "refused" ELSE "remove")
      /\ UNCHANGED <<args, runs, chain, tmp, sdk, todo, cut, whole, ignored>>
  BY DEF Look, Goto
<1>2. TypeOK' /\ SdkShape'
  BY <1>1, QuietTypes DEF Inv, TypeOK
<1>3. QED
  BY <1>1, <1>2 DEF Inv, Existing, Numbered, Ended, Scaffolded, Merging, ModStandsForAll, Refusal,
     ForcedOrFirst, Versioned, Kept

LEMMA RemoveOldInv == ASSUME Inv, RemoveOld PROVE Inv'
<1>1. /\ pc = "remove" /\ pc' = "scaffold" /\ tmp' = Nothing
      /\ UNCHANGED <<args, runs, chain, sdk, todo, cut, whole, ignored>>
  BY DEF RemoveOld, Goto
<1>2. tmp' \in [Generated -> 0 .. MaxRuns]
  BY <1>1, FilesAssumption DEF Nothing
<1>3. TypeOK' /\ SdkShape'
  BY <1>1, <1>2 DEF Inv, TypeOK, SdkShape
<1>4. QED
  BY <1>1, <1>3 DEF Inv, Numbered, Ended, Scaffolded, Nothing, Merging, ModStandsForAll, Refusal,
     ForcedOrFirst, Versioned, Kept

LEMMA ScaffoldInv == ASSUME Inv, Scaffold PROVE Inv'
<1>1. /\ pc = "scaffold" /\ pc' = "expect"
      /\ tmp' = IF args.path = "default" THEN [f \in Generated |-> runs] ELSE tmp
      /\ UNCHANGED <<args, runs, chain, sdk, todo, cut, whole, ignored>>
  BY DEF Scaffold, Goto
<1>2. tmp' \in [Generated -> 0 .. MaxRuns]
  BY <1>1 DEF Inv, TypeOK
<1>3. TypeOK' /\ SdkShape'
  BY <1>1, <1>2 DEF Inv, TypeOK, SdkShape
<1>4. Scaffolded'
  BY <1>1 DEF Inv, Scaffolded, Nothing
<1>5. QED
  BY <1>1, <1>3, <1>4 DEF Inv, Numbered, Ended, Merging, ModStandsForAll, Refusal,
     ForcedOrFirst, Versioned, Kept

LEMMA ScaffoldFailsInv == ASSUME Inv, ScaffoldFails PROVE Inv'
<1>1. /\ pc = "scaffold" /\ pc' = "failed"
      /\ UNCHANGED <<args, runs, chain, sdk, todo, cut, whole, ignored>>
  BY DEF ScaffoldFails, AfterFailure, Goto
<1>2. tmp' \in [Generated -> 0 .. MaxRuns]
  BY FilesAssumption DEF ScaffoldFails, Inv, TypeOK
<1>3. TypeOK' /\ SdkShape'
  BY <1>1, <1>2 DEF Inv, TypeOK, SdkShape
<1>4. QED
  BY <1>1, <1>3 DEF Inv, Numbered, Ended, Scaffolded, Merging, ModStandsForAll, Refusal,
     ForcedOrFirst, Versioned, Kept

(* Either there is nothing, or the whole scaffold is to be copied.         *)
LEMMA ExpectInv == ASSUME Inv, Expect PROVE Inv'
<1>1. /\ pc = "expect"
      /\ UNCHANGED <<args, runs, chain, tmp, sdk, cut, whole, ignored>>
      /\ \/ tmp # Nothing /\ todo' = Merged /\ pc' = "merge"
         \/ tmp = Nothing /\ todo' = todo /\ pc' = "absent"
  BY DEF Expect, Goto
<1>2. runs # 0 /\ tmp \in [Generated -> 0 .. MaxRuns] /\ todo \subseteq Kept
  BY <1>1 DEF Inv, Numbered, Ended, TypeOK, Kept
<1>3. TypeOK' /\ SdkShape'
  BY <1>1, <1>2 DEF Inv, TypeOK, SdkShape, Merged, Kept
<1>4. CASE tmp # Nothing /\ todo' = Merged /\ pc' = "merge"
  <2>1. tmp = [f \in Generated |-> runs]
    BY <1>1, <1>4 DEF Inv, Scaffolded
  <2>2. Merged = Kept
    BY <1>2, <2>1 DEF Merged, Kept
  <2>3. Merging'
    BY <1>1, <1>4, <2>1, <2>2 DEF Merging, Kept
  <2>4. QED
    BY <1>1, <1>3, <1>4, <2>3 DEF Inv, Numbered, Ended, Scaffolded, ModStandsForAll, Refusal,
       ForcedOrFirst, Versioned, Kept
<1>5. CASE tmp = Nothing /\ todo' = todo /\ pc' = "absent"
  BY <1>1, <1>3, <1>5 DEF Inv, Numbered, Ended, Scaffolded, Merging, ModStandsForAll, Refusal,
     ForcedOrFirst, Versioned, Kept
<1>6. QED
  BY <1>1, <1>4, <1>5

LEMMA MergeFileInv == ASSUME Inv, NEW f \in Generated, MergeFile(f) PROVE Inv'
<1>1. /\ pc = "merge" /\ pc' = "merge" /\ f \in todo
      /\ chain' = [chain EXCEPT ![f] = tmp[f]]
      /\ sdk' = IF f = "go.mod" THEN [sdk EXCEPT !.mod = IgniteVersion] ELSE sdk
      /\ todo' = todo \ {f}
      /\ UNCHANGED <<args, runs, tmp, cut, whole, ignored>>
  BY DEF MergeFile, Goto
<1>2. runs # 0 /\ tmp[f] = runs /\ runs \in 0 .. MaxRuns
  BY <1>1 DEF Inv, Numbered, Ended, Merging, TypeOK
<1>3. chain \in [Generated \cup Project -> Own .. MaxRuns]
  BY DEF Inv, TypeOK
<1>4. chain' \in [Generated \cup Project -> Own .. MaxRuns]
  BY <1>1, <1>2, <1>3 DEF Own
<1>5. sdk'.mod \in {sdk.mod, IgniteVersion} /\ sdk'.env = sdk.env /\ SdkShape'
  BY <1>1 DEF Inv, SdkShape
<1>6. TypeOK'
  BY <1>1, <1>4, <1>5 DEF Inv, TypeOK
<1>7. Merging'
  BY <1>1, <1>2, <1>3 DEF Inv, Merging, Kept
<1>8. chain["go.mod"] # 0 => chain'["go.mod"] # 0
  BY <1>1, <1>2, <1>3, GoModKept
<1>9. QED
  BY <1>1, <1>5, <1>6, <1>7, <1>8 DEF Inv, Numbered, Ended, Scaffolded, ModStandsForAll, Refusal,
     ForcedOrFirst, Versioned

LEMMA MergeEndsInv == ASSUME Inv, MergeEnds PROVE Inv'
<1>1. /\ pc = "merge" /\ pc' = "normalize" /\ todo = {} /\ cut' = FALSE /\ whole' = TRUE
      /\ UNCHANGED <<args, runs, chain, tmp, sdk, todo, ignored>>
  BY DEF MergeEnds, Goto
<1>2. TypeOK' /\ SdkShape'
  BY <1>1, QuietTypes DEF Inv, TypeOK
<1>3. Copied /\ runs # 0
  BY <1>1 DEF Inv, Merging, Copied, Numbered, Ended
<1>4. QED
  BY <1>1, <1>2, <1>3, GoModKept DEF Inv, Copied, Numbered, Ended, Scaffolded, Merging, ModStandsForAll,
     Refusal, ForcedOrFirst, Versioned, Kept

LEMMA NormalizeInv == ASSUME Inv, Normalize PROVE Inv'
<1>1. /\ pc = "normalize" /\ pc' = "write"
      /\ \/ sdk' = [sdk EXCEPT !.mod = args.sdk] /\ ignored' = ignored
         \/ ignored' = TRUE /\ sdk' = sdk
      /\ UNCHANGED <<args, runs, chain, tmp, todo, cut, whole>>
  BY DEF Normalize, Goto
<1>2. sdk'.mod \in {sdk.mod, args.sdk} /\ sdk'.env = sdk.env /\ SdkShape'
      /\ (~ignored' => sdk'.mod = args.sdk)
  BY <1>1 DEF Inv, SdkShape
<1>3. TypeOK'
  BY <1>1, <1>2 DEF Inv, TypeOK
<1>4. QED
  BY <1>1, <1>2, <1>3 DEF Inv, Copied, Numbered, Ended, Scaffolded, Merging, ModStandsForAll, Refusal,
     ForcedOrFirst, Versioned, Kept

LEMMA WriteEnvInv == ASSUME Inv, WriteEnv PROVE Inv'
<1>1. /\ pc = "write"
      /\ \/ sdk' = [sdk EXCEPT !.env = args.sdk] /\ pc' = "done"
         \/ sdk' = sdk /\ pc' = "failed"
      /\ UNCHANGED <<args, runs, chain, tmp, todo, cut, whole, ignored>>
  BY DEF WriteEnv, Goto
<1>2. /\ sdk'.mod = sdk.mod /\ sdk'.env \in {sdk.env, args.sdk} /\ SdkShape'
      /\ pc' = "done" => sdk'.env = args.sdk
  BY <1>1 DEF Inv, SdkShape
<1>3. TypeOK'
  BY <1>1, <1>2 DEF Inv, TypeOK
<1>4. QED
  BY <1>1, <1>2, <1>3 DEF Inv, Copied, Numbered, Ended, Scaffolded, Merging, ModStandsForAll, Refusal,
     ForcedOrFirst, Versioned, Kept

LEMMA KillInv == ASSUME Inv, Kill PROVE Inv'
<1>1. /\ pc' = "failed" /\ cut' = (cut \/ pc = "merge")
      /\ UNCHANGED <<args, runs, chain, tmp, sdk, todo, whole, ignored>>
  BY DEF Kill, Goto
<1>2. TypeOK' /\ SdkShape'
  BY <1>1, QuietTypes DEF Inv, TypeOK
<1>3. QED
  BY <1>1, <1>2 DEF Inv, Numbered, Ended, Scaffolded, Merging, ModStandsForAll, Refusal,
     ForcedOrFirst, Versioned, Kept

LEMMA EditInv == ASSUME Inv, NEW f \in Generated, Edit(f) PROVE Inv'
<1>1. /\ Ended /\ pc' = "off" /\ chain' = [chain EXCEPT ![f] = Own] /\ chain[f] > 0
      /\ UNCHANGED <<args, runs, tmp, sdk, todo, cut, whole, ignored>>
  BY DEF Edit
<1>2. chain \in [Generated \cup Project -> Own .. MaxRuns]
  BY DEF Inv, TypeOK
<1>3. chain' \in [Generated \cup Project -> Own .. MaxRuns]
  BY <1>1, <1>2, FilesAssumption DEF Own
<1>4. \A g \in Generated : chain'[g] = 0 <=> chain[g] = 0
  BY <1>1, <1>2 DEF Own
<1>5. TypeOK' /\ SdkShape'
  BY <1>1, <1>3 DEF Inv, TypeOK, SdkShape
<1>6. pc # "merge"
  BY <1>1 DEF Ended
<1>7. QED
  BY <1>1, <1>4, <1>5, <1>6, GoModKept DEF Inv, Numbered, Ended, Scaffolded, Merging, ModStandsForAll,
     Refusal, ForcedOrFirst, Versioned, Kept

LEMMA StutterInv == ASSUME Inv, UNCHANGED vars PROVE Inv'
<1>1. UNCHANGED <<pc, args, chain, tmp, sdk, todo, cut, whole, ignored, runs>>
  BY DEF vars
<1>2. TypeOK' /\ SdkShape'
  BY <1>1, QuietTypes DEF Inv, TypeOK
<1>3. QED
  BY <1>1, <1>2 DEF Inv, Copied, Numbered, Ended, Scaffolded, Merging, ModStandsForAll, Refusal,
     ForcedOrFirst, Versioned, Kept

LEMMA StepInv == ASSUME Inv, [Next]_vars PROVE Inv'
<1>1. ASSUME NEW a \in [force : BOOLEAN, sdk : Versions, path : Paths], Run(a) PROVE Inv'
  BY <1>1, RunInv
<1>2. ASSUME NEW f \in Generated, MergeFile(f) \/ Edit(f) PROVE Inv'
  BY <1>2, MergeFileInv, EditInv
<1>3. CASE UNCHANGED vars
  BY <1>3, StutterInv
<1>4. QED
  BY <1>1, <1>2, <1>3, FindIgniteInv, LookInv, RemoveOldInv, ScaffoldInv, ScaffoldFailsInv, ExpectInv,
     MergeEndsInv, NormalizeInv, WriteEnvInv, KillInv DEF Next

(* Directories, versions and the place in the script fit in every state.   *)
THEOREM ScaffoldInvariant == Spec => []Inv
<1>1. QED
  BY InitInv, StepInv, PTL DEF Spec

(* The type invariant.                                                     *)
THEOREM ScaffoldTypes == Spec => []TypeOK
<1>1. Inv => TypeOK
  BY DEF Inv
<1>2. QED
  BY <1>1, ScaffoldInvariant, PTL

(* A refusal means a whole scaffold unless a merge was cut short, and a    *)
(* completed run left its own scaffold and version, whatever the files.    *)
THEOREM ReportsAreTrue == Spec => []ReportsTrue
<1>1. Inv => RefusesWholeScaffold
  BY DEF Inv, Refusal, ModStandsForAll, RefusesWholeScaffold, Kept
<1>2. Inv => DoneMeansThisRun
  BY DEF Inv, Merging, Copied, Versioned, DoneMeansThisRun, Kept
<1>3. QED
  BY <1>1, <1>2, ScaffoldInvariant, PTL DEF ReportsTrue

(* What turns a file of the project's into another is the copying.         *)
LEMMA OverwritesAllowed ==
  ASSUME Inv, Next, NEW f \in Generated \cup Project, chain[f] = Own, chain'[f] # Own
  PROVE  f \in Generated \ {"README.md"} /\ (args.force \/ ~whole)
<1>1. chain \in [Generated \cup Project -> Own .. MaxRuns] /\ todo \subseteq Generated \ {"README.md"}
  BY DEF Inv, TypeOK
<1>2. chain' # chain
  OBVIOUS
<1>3. ~ \E g \in Generated : Edit(g)
  BY <1>1 DEF Edit
<1>4. PICK g \in Generated : MergeFile(g)
  BY <1>2, <1>3
  DEF Next, Run, FindIgnite, Look, RemoveOld, Scaffold, ScaffoldFails, Expect, MergeEnds, Normalize,
      WriteEnv, Kill
<1>5. g = f /\ g \in todo /\ pc = "merge"
  BY <1>1, <1>4 DEF MergeFile
<1>6. QED
  BY <1>1, <1>5 DEF Inv, ForcedOrFirst

(* After the first complete merge only --force lets a run overwrite what   *)
(* the project edited; README.md and files of its own are never touched.   *)
THEOREM EditsAreKept == Spec => EditsKept
<1>1. Inv /\ [Next]_vars =>
        [\A f \in Generated \cup Project :
           chain[f] = Own /\ chain'[f] # Own => f \in Generated \ {"README.md"}
                                                /\ (args.force \/ ~whole)]_vars
  BY OverwritesAllowed
<1>2. QED
  BY <1>1, ScaffoldInvariant, PTL DEF Spec, EditsKept

=============================================================================
