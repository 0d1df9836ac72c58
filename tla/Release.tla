------------------------------- MODULE Release -------------------------------
(***************************************************************************)
(* The release tooling (tools/): programs that read the working tree and   *)
(* each other's reports and files, run one after the other in the order of *)
(* a script (Makefile, workflow, publishing protocol), while somebody may  *)
(* edit the tree.  The last ones build the four release assets and verify  *)
(* them.                                                                   *)
(*                                                                         *)
(* A digest is what it is taken of.  "code" is what the attestation lists  *)
(* as validators, "rest" every other source, test or document; a version   *)
(* is a number.  "dotfiles" is .gitignore and .github, "stray" a file that *)
(* the .gitignore names and the inventory does not exclude (.env, .idea).  *)
(* An edit of "rest" leaves the number of tests alone, which the           *)
(* attestation states and the gate counts again.                           *)
(***************************************************************************)
EXTENDS Naturals, Sequences, Functions

CONSTANTS
    Scripts,        \* the orders in which the programs are run
    Passing,        \* the pairs of code and rest on which all tests pass
    VectorsOf,      \* what run_vectors writes, for each version of the code
    MaxWork, MaxKills   \* bounds: edits and scripts together, and kills

Programs == {"demos", "vectors", "tests", "packet", "coverage", "clean", "gate", "generate",
             "manifest", "verify", "build", "bound", "check"}
Builds == {"build", "bound"}

Later(s, i, program) == \E j \in DOMAIN s : j > i /\ s[j] = program

(* Whatever writes vectors or metadata comes before the gate and the       *)
(* verification of the manifest, a build second to last, and the           *)
(* verification of what was built last.                                    *)
Orderly(s) ==
    /\ s \in Seq(Programs)
    /\ \A i \in DOMAIN s :
          /\ s[i] \in {"vectors", "generate"} => Later(s, i, "gate") /\ Later(s, i, "verify")
          /\ s[i] = "manifest" => Later(s, i, "verify")
          /\ i = Len(s) => s[i] = "check"
          /\ i + 1 = Len(s) => s[i] \in Builds

(* The scripts are orderly and leave out no gate, and the tests pass on    *)
(* what the repository has.                                                *)
ASSUME ScriptsAssumption ==
    \A s \in Scripts : /\ Orderly(s)
                       /\ \A p \in {"vectors", "gate", "verify"} : Later(s, 0, p)
ASSUME PassingAssumption == <<0, 0>> \in Passing

Edited == {"code", "lock", "rest"}
Kinds == {"hybrid", "packet", "coverage"}
Materials == {"manifest", "sbom", "lock"}

(* The files in the order of their paths *)
Order == <<"stray", "dotfiles", "manifest", "source", "attestation", "vectors",
           "code", "lock", "sbom", "rest">>

Position(f) == CHOOSE i \in DOMAIN Order : Order[i] = f
IsFirst(f, files) == \A g \in files : Position(f) <= Position(g)

VARIABLES
    tree,       \* the files of the release slice
    reports,    \* PASS reports under checks/ and ietf126/results, and the
                \* version of the code each is about
    commits,    \* what Git has, HEAD last
    tag,        \* the commit the release tag names
    todo,       \* the programs of the running script still to run
    at,         \* where the running program is
    entries,    \* source_entries of the running build
    left,       \* the files the running pass of the build has yet to read
    dist,       \* the assets in the output directory
    result,     \* of the script: "running", "passed" or "failed"
    changed,    \* files edited since the script began
    touched,    \* files edited since the build began
    instant,    \* the tree between the two passes of the build
    torn,       \* the lock file was edited between the SBOM and the attestation
    kills, begun

toolVars == <<todo, at, entries, left, dist, result, changed, touched, instant,
              torn, kills, begun>>
buildVars == <<entries, left, dist, touched, instant>>
vars == <<tree, reports, commits, tag, toolVars>>

----------------------------------------------------------------------------
(* What goes into which inventory *)

(* make_public_manifest.included_paths, verify_manifest.included_paths *)
Listed(t) == Restrict(t, DOMAIN t \ {"manifest", "dotfiles"})

(* source_entries for source_provenance.json, which leaves itself out *)
Sourced(t) == Restrict(t, DOMAIN t \ {"manifest", "source"})

With(t, file, content) ==
    [f \in DOMAIN t \cup {file} |-> IF f = file THEN content ELSE t[f]]

(* observed_release_metrics and the digests of the synthetic attestation *)
Attestation(t) ==
    [code |-> t.code, vectors |-> t.vectors, lock |-> t.lock, sbom |-> t.sbom,
     measured |-> reports["coverage"], evaluated |-> reports["hybrid"]]

Checkout ==
    LET base == [code |-> 0, lock |-> 0, rest |-> 0, vectors |-> VectorsOf[0], sbom |-> 0]
        att == With(base, "attestation",
                   [code |-> 0, vectors |-> VectorsOf[0], lock |-> 0, sbom |-> 0,
                    measured |-> 0, evaluated |-> 0])
        src == With(att, "source", Sourced(att))
    IN  With(src, "manifest", Listed(src))

(* The four assets of an undisturbed build that was not bound to a commit *)
Assets(t) ==
    LET m == [asset |-> t, entries |-> t] IN
    [zip |-> t, sidecar |-> t, manifest |-> m,
     provenance |-> [subject |-> t, source |-> t, materials |-> Restrict(t, Materials),
                     commit |-> 0, byproducts |-> <<t, m>>]]

(* A checkout with or without the optional dotfiles, clean, or after work  *)
(* that left the reports and the assets of the very tree.                  *)
Init ==
    /\ tree \in {Checkout, With(Checkout, "dotfiles", 0)}
    /\ \/ reports = << >> /\ dist = << >> /\ instant = << >>
       \/ reports = [k \in Kinds |-> 0] /\ dist = Assets(tree) /\ instant = tree
    /\ commits = <<tree>> /\ tag = 1
    /\ todo = << >> /\ at = "start" /\ result = "passed"
    /\ entries = << >> /\ left = {}
    /\ changed = {} /\ touched = {}
    /\ torn = FALSE /\ kills = 0 /\ begun = 0

----------------------------------------------------------------------------
(* People *)

Work == tree.code + tree.lock + tree.rest + begun

Edit(f) ==
    /\ Work < MaxWork
    /\ tree' = [tree EXCEPT ![f] = @ + 1]
    /\ changed' = IF todo # << >> THEN changed \cup {f} ELSE changed
    /\ touched' = IF at # "start" /\ Head(todo) \in Builds
                  THEN touched \cup {f} ELSE touched
    /\ torn' = (torn \/ (f = "lock" /\ at = "attest"))
    /\ UNCHANGED <<reports, commits, tag, todo, at, entries, left, dist, result, instant, kills, begun>>

(* An editor or an operating system leaves a file behind. *)
Litter ==
    /\ todo = << >> /\ "stray" \notin DOMAIN tree
    /\ tree' = With(tree, "stray", 0)
    /\ UNCHANGED <<reports, commits, tag, toolVars>>

(* materialize_github_files *)
Materialize ==
    /\ todo = << >> /\ "dotfiles" \notin DOMAIN tree
    /\ tree' = With(tree, "dotfiles", 0)
    /\ UNCHANGED <<reports, commits, tag, toolVars>>

Tracked == Restrict(tree, DOMAIN tree \ {"stray"})

Commit(tagged) ==
    /\ todo = << >> /\ Tracked # commits[Len(commits)]
    /\ commits' = Append(commits, Tracked)
    /\ tag' = IF tagged THEN Len(commits) + 1 ELSE tag
    /\ UNCHANGED <<tree, reports, toolVars>>

Begin(script) ==
    /\ todo = << >> /\ Work < MaxWork
    /\ todo' = script /\ result' = "running" /\ changed' = {} /\ begun' = begun + 1
    /\ UNCHANGED <<tree, reports, commits, tag, at, buildVars, torn, kills>>

----------------------------------------------------------------------------
(* A program ends: make and the workflow stop at the first that fails. *)

Runs(program, step) == todo # << >> /\ Head(todo) = program /\ at = step

Exit(ok) ==
    /\ todo' = IF ok THEN Tail(todo) ELSE << >>
    /\ at' = "start"
    /\ result' = IF ~ok THEN "failed" ELSE IF Len(todo) = 1 THEN "passed" ELSE "running"
    /\ UNCHANGED <<commits, tag, changed, torn, kills, begun>>

GoTo(step) == at' = step /\ UNCHANGED <<todo, result, commits, tag, changed, torn, kills, begun>>

Kill ==
    /\ todo # << >> /\ kills < MaxKills
    /\ todo' = << >> /\ at' = "start" /\ result' = "failed" /\ kills' = kills + 1
    /\ UNCHANGED <<tree, reports, commits, tag, buildVars, changed, torn, begun>>

----------------------------------------------------------------------------
(* Tests and reports *)

TestsPass == <<tree.code, tree.rest>> \in Passing

Report(kind) ==
    reports' = IF TestsPass THEN With(reports, kind, tree.code)
               ELSE Restrict(reports, DOMAIN reports \ {kind})

(* hybrid_demo exits with 0 whatever it has found. *)
Demos ==
    /\ Runs("demos", "start") /\ Report("hybrid") /\ Exit(TRUE)
    /\ UNCHANGED <<tree, buildVars>>

(* run_vectors writes the vectors, then answers whether they passed. *)
Vectors ==
    /\ Runs("vectors", "start") /\ Exit(TestsPass)
    /\ tree' = [tree EXCEPT !.vectors = VectorsOf[tree.code]]
    /\ UNCHANGED <<reports, buildVars>>

Tests ==
    /\ Runs("tests", "start") /\ Exit(TestsPass)
    /\ UNCHANGED <<tree, reports, buildVars>>

Packet ==
    /\ Runs("packet", "start") /\ Report("packet") /\ Exit(TestsPass)
    /\ UNCHANGED <<tree, buildVars>>

Coverage ==
    /\ Runs("coverage", "start") /\ Report("coverage") /\ Exit(TestsPass)
    /\ UNCHANGED <<tree, buildVars>>

(* make clean *)
Clean ==
    /\ Runs("clean", "start") /\ reports' = << >> /\ Exit(TRUE)
    /\ UNCHANGED <<tree, buildVars>>

(* check_sbom and check_attestation; the sources themselves are clean.     *)
(* Mutant: the digests of the validators are not compared.                 *)
GatePassesUnbound ==
    LET a == tree.attestation IN
    a.vectors = tree.vectors /\ a.lock = tree.lock /\ a.sbom = tree.sbom

GatePasses ==
    LET a == tree.attestation IN
    /\ a.code = tree.code
    /\ a.vectors = tree.vectors /\ a.lock = tree.lock /\ a.sbom = tree.sbom

Gate ==
    /\ Runs("gate", "start") /\ Exit(GatePasses)
    /\ UNCHANGED <<tree, reports, buildVars>>

----------------------------------------------------------------------------
(* generate_supply_chain_metadata: three files, the second of them only if *)
(* every report is there; then the static manifest                         *)

BuildSbom ==
    /\ Runs("generate", "start") /\ at' = "attest"
    /\ tree' = [tree EXCEPT !.sbom = tree.lock]
    /\ torn' = FALSE
    /\ UNCHANGED <<reports, buildVars, todo, result, commits, tag, changed, kills, begun>>

Attest ==
    /\ Runs("generate", "attest")
    /\ IF DOMAIN reports = Kinds
       THEN tree' = [tree EXCEPT !.attestation = Attestation(tree)] /\ GoTo("source")
       ELSE UNCHANGED tree /\ Exit(FALSE)
    /\ UNCHANGED <<reports, buildVars>>

BuildSource ==
    /\ Runs("generate", "source") /\ Exit(TRUE)
    /\ tree' = [tree EXCEPT !.source = Sourced(tree)]
    /\ UNCHANGED <<reports, buildVars>>

MakeManifest ==
    /\ Runs("manifest", "start") /\ Exit(TRUE)
    /\ tree' = [tree EXCEPT !.manifest = Listed(tree)]
    /\ UNCHANGED <<reports, buildVars>>

VerifyManifest ==
    /\ Runs("verify", "start") /\ Exit(tree.manifest = Listed(tree))
    /\ UNCHANGED <<tree, reports, buildVars>>

----------------------------------------------------------------------------
(* build_release_asset: every file is read twice, once for its digest and  *)
(* once into the archive                                                   *)

Unignored == IF "dotfiles" \in DOMAIN tree THEN Tracked ELSE tree

(* verify_source_revision_binding; without a .gitignore the reports are    *)
(* untracked files, too.  Mutant: the worktree need not be clean.          *)
BoundToHead == tag = Len(commits)

Bound ==
    /\ tag = Len(commits)
    /\ Unignored = commits[Len(commits)]
    /\ "dotfiles" \notin DOMAIN tree => reports = << >>

Building(step) == todo # << >> /\ Head(todo) \in Builds /\ at = step

(* The assets of an earlier build are removed and the files listed. *)
StartBuild ==
    /\ Building("start")
    /\ IF Head(todo) = "bound" /\ ~Bound
       THEN Exit(FALSE) /\ UNCHANGED buildVars
       ELSE /\ dist' = << >>
            /\ entries' = << >> /\ left' = DOMAIN tree
            /\ touched' = {} /\ instant' = << >>
            /\ GoTo("entries")
    /\ UNCHANGED <<tree, reports>>

ReadEntry ==
    /\ Building("entries")
    /\ \E f \in left :
          /\ IsFirst(f, left)
          /\ entries' = With(entries, f, tree[f])
          /\ left' = left \ {f}
    /\ UNCHANGED <<tree, reports, commits, tag, todo, at, dist, result, changed, touched,
                   instant, torn, kills, begun>>

OpenZip ==
    /\ Building("entries") /\ left = {}
    /\ dist' = With(dist, "zip", << >>)
    /\ left' = DOMAIN entries
    /\ instant' = tree
    /\ GoTo("zip")
    /\ UNCHANGED <<tree, reports, entries, touched>>

WriteEntry ==
    /\ Building("zip")
    /\ \E f \in left :
          /\ IsFirst(f, left)
          /\ dist' = [dist EXCEPT !["zip"] = With(@, f, tree[f])]
          /\ left' = left \ {f}
    /\ UNCHANGED <<tree, reports, commits, tag, todo, at, entries, result, changed, touched,
                   instant, torn, kills, begun>>

WriteSidecar ==
    /\ Building("zip") /\ left = {}
    /\ dist' = With(dist, "sidecar", dist["zip"])
    /\ GoTo("manifest")
    /\ UNCHANGED <<tree, reports, entries, left, touched, instant>>

WriteAssetManifest ==
    /\ Building("manifest")
    /\ dist' = With(dist, "manifest", [asset |-> dist["sidecar"], entries |-> entries])
    /\ GoTo("provenance")
    /\ UNCHANGED <<tree, reports, entries, left, touched, instant>>

WriteProvenance ==
    /\ Building("provenance")
    /\ dist' = With(dist, "provenance",
           [subject |-> dist["sidecar"], source |-> entries,
            materials |-> Restrict(tree, Materials),
            commit |-> IF Head(todo) = "bound" THEN Len(commits) ELSE 0,
            byproducts |-> <<dist["sidecar"], dist["manifest"]>>])
    /\ Exit(TRUE)
    /\ UNCHANGED <<tree, reports, entries, left, touched, instant>>

----------------------------------------------------------------------------
(* verify_release_artifact *)

(* Mutant: the digests of the entries are not compared with the archive.   *)
ManifestAcceptedByPaths(d) ==
    d["manifest"].asset = d["zip"] /\ DOMAIN d["manifest"].entries = DOMAIN d["zip"]

ManifestAccepted(d) ==
    /\ d["manifest"].asset = d["zip"]
    /\ d["manifest"].entries = d["zip"]

ProvenanceAccepted(d) ==
    LET p == d["provenance"] IN
    /\ p.subject = d["zip"]
    /\ p.source = d["manifest"].entries
    /\ p.byproducts = <<d["sidecar"], d["manifest"]>>

Accepted(d) ==
    /\ DOMAIN d = {"zip", "sidecar", "manifest", "provenance"}
    /\ d["sidecar"] = d["zip"]
    /\ ManifestAccepted(d)
    /\ ProvenanceAccepted(d)

(* with --require-source-revision and an expected commit *)
AcceptedFor(d, c) == Accepted(d) /\ d["provenance"].commit = c

VerifyArtifact ==
    /\ Runs("check", "start") /\ Exit(Accepted(dist))
    /\ UNCHANGED <<tree, reports, buildVars>>

----------------------------------------------------------------------------

Next ==
    \/ \E f \in Edited : Edit(f)
    \/ Litter \/ Materialize \/ (\E t \in BOOLEAN : Commit(t))
    \/ \E s \in Scripts : Begin(s)
    \/ Kill
    \/ Demos \/ Vectors \/ Tests \/ Packet \/ Coverage \/ Clean \/ Gate
    \/ BuildSbom \/ Attest \/ BuildSource \/ MakeManifest \/ VerifyManifest
    \/ StartBuild \/ OpenZip \/ WriteSidecar \/ WriteAssetManifest \/ WriteProvenance
    \/ ReadEntry \/ WriteEntry \/ VerifyArtifact

Spec == Init /\ [][Next]_vars
----------------------------------------------------------------------------

(* An archive that verifies is the tree of one instant, and of the build   *)
(* that ran last in its directory, although its files are read one by one, *)
(* twice, while the tree may change.  The materials its provenance names   *)
(* are those in the archive, but for files edited during the build.        *)
AcceptedIsOneInstant ==
    Accepted(dist) =>
        LET z == dist["zip"]  m == dist["provenance"].materials IN
        /\ DOMAIN z \subseteq DOMAIN instant
        /\ \A f \in DOMAIN z : z[f] = instant[f]
        /\ \A f \in Materials \ touched : m[f] = z[f]

(* An archive that verifies as the build of a commit holds the files of    *)
(* that commit, but for those edited after the worktree was found clean,   *)
(* and for stray files Git was told to ignore.                             *)
BoundIsCommitted ==
    \A c \in DOMAIN commits : AcceptedFor(dist, c) =>
        LET z == dist["zip"] IN
        /\ DOMAIN z \ {"stray"} = DOMAIN commits[c]
        /\ \A f \in DOMAIN commits[c] \ touched : z[f] = commits[c][f]

(* When a script has passed that nobody disturbed by an edit, what it      *)
(* built is consistent: the tests passed on that very code, the            *)
(* attestation is about the files next to it, the SBOM about the lock      *)
(* file, and the manifest lists everything but itself and the dotfiles.    *)
(* Files edited before the script began without the metadata being made    *)
(* again are noticed, but for one: no program compares the SBOM with the   *)
(* lock file, so that one edited between the two digests of an earlier     *)
(* generate_supply_chain_metadata passes for ever.                         *)
PassedIsConsistent ==
    result = "passed" /\ changed = {} /\ dist # << >> =>
        LET z == dist["zip"] IN
        /\ Accepted(dist)
        /\ <<z.code, z.rest>> \in Passing
        /\ z.attestation.code = z.code /\ z.attestation.vectors = z.vectors
        /\ z.vectors = VectorsOf[z.code]
        /\ ~torn => z.sbom = z.lock
        /\ z.manifest = Listed(z)

(* From a clean checkout that nobody edits, every script passes.           *)
CleanScriptsPass == tree.code + tree.lock + tree.rest = 0 /\ kills = 0 => result # "failed"
============================================================================
