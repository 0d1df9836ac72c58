--------------------------- MODULE ReleaseProofs ---------------------------
(***************************************************************************)
(* What a release archive that verifies is, for any scripts run any number *)
(* of times, any tests, edits, commits and kills: the tree of one instant  *)
(* of the build, and the commit it is bound to.                            *)
(*                                                                         *)
(* A build reads every file twice.  While it runs the tree changes by      *)
(* edits only, and no edit goes back: what the first pass read of a file,  *)
(* what the file was between the passes, and what the second pass wrote    *)
(* into the archive come in that order.  When the verifier finds the first *)
(* and the last equal, the one between them is the same.                   *)
(***************************************************************************)
EXTENDS Release, SequenceTheorems, TLAPS

BuildSteps == {"entries", "zip", "manifest", "provenance"}

(* A program is between its steps only while it is running. *)
AtFits ==
    \/ at = "start"
    \/ todo # << >> /\ Head(todo) = "generate" /\ at \in {"attest", "source"}
    \/ todo # << >> /\ Head(todo) \in Builds /\ at \in BuildSteps

(* The tree has its files, and what people edit has numbers for versions. *)
TreeFits ==
    /\ {"manifest", "sbom", "vectors", "attestation", "source"} \cup Edited \subseteq DOMAIN tree
    /\ \A f \in Edited : tree[f] \in Nat

IsSequence(s) == \E S : s \in Seq(S)

(* Git has at least one commit, and in none a file it is told to ignore. *)
CommitsFit ==
    /\ IsSequence(commits)
    /\ Len(commits) > 0
    /\ \A c \in DOMAIN commits : "stray" \notin DOMAIN commits[c]

(* What a file was, and what it has become while the build ran. *)
Became(f, old, new) ==
    \/ old = new
    \/ f \in Edited /\ f \in touched /\ old \in Nat /\ new \in Nat /\ old < new

(* The first pass. *)
EntriesFit ==
    /\ DOMAIN dist = {}
    /\ DOMAIN entries \cup left = DOMAIN tree
    /\ \A f \in DOMAIN entries : Became(f, entries[f], tree[f])

(* The second pass, and the files that are written after it. *)
ArchiveFits ==
    /\ DOMAIN entries = DOMAIN tree /\ DOMAIN instant = DOMAIN tree
    /\ \A f \in DOMAIN tree : /\ Became(f, entries[f], instant[f])
                              /\ Became(f, instant[f], tree[f])
    /\ DOMAIN dist["zip"] \subseteq DOMAIN tree
    /\ \A f \in DOMAIN dist["zip"] : /\ Became(f, instant[f], dist["zip"][f])
                                     /\ Became(f, dist["zip"][f], tree[f])
    /\ at = "zip" => DOMAIN dist = {"zip"} /\ DOMAIN dist["zip"] \cup left = DOMAIN tree
    /\ at = "manifest" => DOMAIN dist = {"zip", "sidecar"} /\ DOMAIN dist["zip"] = DOMAIN tree
    /\ at = "provenance" => /\ DOMAIN dist = {"zip", "sidecar", "manifest"}
                            /\ DOMAIN dist["zip"] = DOMAIN tree

(* A build of a commit began with the files of HEAD. *)
BindingFits ==
    Head(todo) = "bound" =>
        LET head == commits[Len(commits)] IN
        /\ DOMAIN tree \ {"stray"} = DOMAIN head
        /\ \A f \in DOMAIN head : Became(f, head[f], tree[f])

BuildFits ==
    /\ at = "entries" => EntriesFit
    /\ at \in BuildSteps \ {"entries"} => ArchiveFits
    /\ at \in BuildSteps => BindingFits

(* The assets a build has left. *)
AssetsFit ==
    "provenance" \in DOMAIN dist =>
        LET z == dist["zip"]  p == dist["provenance"] IN
        /\ DOMAIN z = DOMAIN p.source /\ DOMAIN z = DOMAIN instant
        /\ \A f \in DOMAIN z : /\ Became(f, p.source[f], instant[f])
                               /\ Became(f, instant[f], z[f])
        /\ Materials \subseteq DOMAIN z
        /\ \A f \in Materials \ touched : p.materials[f] = z[f]
        /\ p.commit \in 0 .. Len(commits)
        /\ p.commit # 0 =>
              /\ DOMAIN z \ {"stray"} = DOMAIN commits[p.commit]
              /\ \A f \in DOMAIN commits[p.commit] \ touched : z[f] = commits[p.commit][f]

IInv == AtFits /\ TreeFits /\ CommitsFit /\ BuildFits /\ AssetsFit

----------------------------------------------------------------------------
(* Files and commits *)

(* A tree without some of its files. *)
LEMMA RestrictFacts ==
    ASSUME NEW t, NEW S
    PROVE  DOMAIN Restrict(t, S) = S /\ \A f \in S : Restrict(t, S)[f] = t[f]
  BY DEF Restrict

(* Commits are added, and stay what they are. *)
LEMMA AppendFacts ==
    ASSUME NEW s, IsSequence(s), NEW x
    PROVE  /\ IsSequence(Append(s, x))
           /\ Len(s) \in Nat /\ Len(Append(s, x)) = Len(s) + 1
           /\ DOMAIN s = 1 .. Len(s) /\ DOMAIN Append(s, x) = 1 .. Len(s) + 1
           /\ \A i \in 1 .. Len(s) : Append(s, x)[i] = s[i]
           /\ Append(s, x)[Len(s) + 1] = x
<1>1. PICK S : s \in Seq(S)
  BY DEF IsSequence
<1> DEFINE T == S \cup {x}
<1>2. s \in Seq(T)
  BY <1>1, SeqMonotonic
<1> HIDE DEF T
<1>3. x \in T
  BY DEF T
<1>4. QED
  BY <1>2, <1>3, AppendProperties, LenProperties DEF IsSequence

(* The length and the numbers of the commits.                              *)
LEMMA CommitFacts ==
    ASSUME CommitsFit
    PROVE  Len(commits) \in Nat \ {0} /\ DOMAIN commits = 1 .. Len(commits)
  BY AppendFacts DEF CommitsFit

(* An edit carries what a file has become one further. *)
LEMMA EditedFurther ==
    ASSUME TreeFits, NEW f \in Edited, tree' = [tree EXCEPT ![f] = @ + 1],
           touched' = touched \cup {f},
           NEW g \in DOMAIN tree, NEW old, Became(g, old, tree[g])
    PROVE  Became(g, old, tree[g])'
  BY DEF TreeFits, Became

----------------------------------------------------------------------------
(* The invariant *)

(* At first no build is running; what an earlier one has left is of the    *)
(* very tree.                                                              *)
LEMMA InvInit == Init => IInv
<1> SUFFICES ASSUME Init PROVE IInv
  OBVIOUS
<1> DEFINE base == [code |-> 0, lock |-> 0, rest |-> 0, vectors |-> VectorsOf[0], sbom |-> 0]
           att == With(base, "attestation",
                       [code |-> 0, vectors |-> VectorsOf[0], lock |-> 0, sbom |-> 0,
                        measured |-> 0, evaluated |-> 0])
           src == With(att, "source", Sourced(att))
<1>1. /\ DOMAIN base = {"code", "lock", "rest", "vectors", "sbom"}
      /\ base["code"] = 0 /\ base["lock"] = 0 /\ base["rest"] = 0
  OBVIOUS
<1> HIDE DEF base
<1>2. /\ DOMAIN att = DOMAIN base \cup {"attestation"}
      /\ att["code"] = 0 /\ att["lock"] = 0 /\ att["rest"] = 0
  BY <1>1 DEF With
<1> HIDE DEF att
<1>3. /\ DOMAIN src = DOMAIN att \cup {"source"}
      /\ src["code"] = 0 /\ src["lock"] = 0 /\ src["rest"] = 0
  BY <1>1, <1>2 DEF With
<1> HIDE DEF src
<1>4. Checkout = With(src, "manifest", Listed(src))
  BY DEF Checkout, src, att, base
<1>5. /\ DOMAIN Checkout = {"code", "lock", "rest", "vectors", "sbom", "attestation",
                            "source", "manifest"}
      /\ Checkout["code"] = 0 /\ Checkout["lock"] = 0 /\ Checkout["rest"] = 0
  BY <1>1, <1>2, <1>3, <1>4 DEF With
<1>6. /\ DOMAIN Checkout \subseteq DOMAIN tree /\ DOMAIN tree \subseteq DOMAIN Checkout \cup {"dotfiles"}
      /\ tree["code"] = 0 /\ tree["lock"] = 0 /\ tree["rest"] = 0
  BY <1>5 DEF Init, With
<1>7. TreeFits
  BY <1>5, <1>6 DEF TreeFits, Edited
<1>8. AtFits /\ BuildFits
  BY DEF Init, AtFits, BuildFits, BuildSteps
<1>9. CommitsFit
  <2>1. commits = <<tree>> /\ "stray" \notin DOMAIN tree
    BY <1>5, <1>6 DEF Init
  <2>2. <<tree>> \in Seq({tree}) /\ Len(<<tree>>) = 1 /\ DOMAIN <<tree>> = {1} /\ <<tree>>[1] = tree
    OBVIOUS
  <2>3. IsSequence(commits)
    BY <2>1, <2>2 DEF IsSequence
  <2>4. QED
    BY <2>1, <2>2, <2>3 DEF CommitsFit
<1>10. AssetsFit
  <2>1. CASE dist = << >>
    BY <2>1 DEF AssetsFit
  <2>2. CASE dist = Assets(tree) /\ instant = tree
    <3>1. /\ dist["zip"] = tree /\ dist["provenance"].source = tree
          /\ dist["provenance"].materials = Restrict(tree, Materials)
          /\ dist["provenance"].commit = 0
      BY <2>2 DEF Assets
    <3>2. Materials \subseteq DOMAIN tree
      BY <1>5, <1>6 DEF Materials
    <3>3. QED
      BY <1>9, <2>2, <3>1, <3>2, RestrictFacts, CommitFacts DEF AssetsFit, Became
  <2>3. QED
    BY <2>1, <2>2 DEF Init
<1>11. QED
  BY <1>7, <1>8, <1>9, <1>10 DEF IInv

(* A step that leaves the commits and the assets alone, outside a build.   *)
LEMMA OutsideBuild ==
    ASSUME IInv, UNCHANGED <<commits, buildVars>>, at' \notin BuildSteps, AtFits', TreeFits'
    PROVE  IInv'
<1>1. CommitsFit'
  BY DEF IInv, CommitsFit
<1>2. BuildFits'
  BY DEF BuildFits, BuildSteps
<1>3. AssetsFit'
  BY DEF IInv, AssetsFit, Became, buildVars
<1>4. QED
  BY <1>1, <1>2, <1>3 DEF IInv

(* The programs that read, test and report. *)
LEMMA ReportersPreserve ==
    ASSUME IInv,
           Demos \/ Tests \/ Packet \/ Coverage \/ Clean \/ Gate \/ VerifyManifest \/ VerifyArtifact
    PROVE  IInv'
<1>1. UNCHANGED <<tree, commits, buildVars>> /\ at' = "start"
  BY DEF Demos, Tests, Packet, Coverage, Clean, Gate, VerifyManifest, VerifyArtifact, Exit
<1>2. AtFits' /\ TreeFits' /\ at' \notin BuildSteps
  BY <1>1 DEF IInv, AtFits, TreeFits, BuildSteps
<1>3. QED
  BY <1>1, <1>2, OutsideBuild

(* The programs that write vectors, metadata and the manifest. *)
LEMMA WritersPreserve ==
    ASSUME IInv, Vectors \/ BuildSbom \/ Attest \/ BuildSource \/ MakeManifest
    PROVE  IInv'
<1>1. UNCHANGED <<commits, buildVars>>
  BY DEF Vectors, BuildSbom, Attest, BuildSource, MakeManifest, Exit, GoTo
<1>2. \/ at' = "start"
      \/ todo' = todo /\ Runs("generate", at) /\ at' \in {"attest", "source"}
  BY DEF Vectors, BuildSbom, Attest, BuildSource, MakeManifest, Exit, GoTo, Runs
<1>3. AtFits' /\ at' \notin BuildSteps
  BY <1>2 DEF AtFits, Runs, BuildSteps
<1>4. \/ tree' = tree
      \/ \E x : \E f \in {"vectors", "sbom", "attestation", "source", "manifest"} :
             tree' = [tree EXCEPT ![f] = x]
  BY DEF Vectors, BuildSbom, Attest, BuildSource, MakeManifest
<1>5. TreeFits'
  BY <1>4 DEF IInv, TreeFits, Edited
<1>6. QED
  BY <1>1, <1>3, <1>5, OutsideBuild

(* People who leave files behind, unpack the dotfiles, commit, begin a     *)
(* script or kill it.                                                      *)
LEMMA PeoplePreserve ==
    ASSUME IInv,
           \/ Litter \/ Materialize \/ Kill
           \/ \E t \in BOOLEAN : Commit(t)
           \/ \E s \in Scripts : Begin(s)
    PROVE  IInv'
<1>1. CASE Litter \/ Materialize
  <2>1. UNCHANGED <<commits, buildVars, todo, at>> /\ todo = << >>
    BY <1>1 DEF Litter, Materialize, toolVars, buildVars
  <2>2. at' \notin BuildSteps /\ AtFits'
    BY <2>1 DEF IInv, AtFits, BuildSteps
  <2>3. TreeFits'
    <3>1. PICK f \in {"stray", "dotfiles"} : tree' = With(tree, f, 0)
      BY <1>1 DEF Litter, Materialize
    <3>2. QED
      BY <3>1 DEF IInv, TreeFits, Edited, With
  <2>4. QED
    BY <2>1, <2>2, <2>3, OutsideBuild
<1>2. CASE Kill
  <2>1. UNCHANGED <<commits, buildVars, tree>> /\ at' = "start"
    BY <1>2 DEF Kill
  <2>2. at' \notin BuildSteps /\ AtFits' /\ TreeFits'
    BY <2>1 DEF IInv, AtFits, BuildSteps, TreeFits
  <2>3. QED
    BY <2>1, <2>2, OutsideBuild
<1>3. ASSUME NEW s \in Scripts, Begin(s) PROVE IInv'
  <2>1. UNCHANGED <<commits, buildVars, tree, at>> /\ todo = << >>
    BY <1>3 DEF Begin
  <2>2. at' \notin BuildSteps /\ AtFits' /\ TreeFits'
    BY <2>1 DEF IInv, AtFits, BuildSteps, TreeFits
  <2>3. QED
    BY <2>1, <2>2, OutsideBuild
<1>4. ASSUME NEW t \in BOOLEAN, Commit(t) PROVE IInv'
  <2>1. /\ UNCHANGED <<tree, todo, at, buildVars>> /\ todo = << >>
        /\ commits' = Append(commits, Tracked)
    BY <1>4 DEF Commit, toolVars, buildVars
  <2>2. AtFits' /\ TreeFits' /\ BuildFits'
    BY <2>1 DEF IInv, AtFits, TreeFits, BuildFits, BuildSteps
  <2>3. /\ CommitsFit /\ Len(commits) \in Nat /\ Len(commits)' = Len(commits) + 1
        /\ DOMAIN commits' = 1 .. Len(commits) + 1
        /\ DOMAIN commits = 1 .. Len(commits)
        /\ \A i \in 1 .. Len(commits) : commits'[i] = commits[i]
        /\ commits'[Len(commits) + 1] = Tracked
        /\ IsSequence(commits')
    BY <2>1, AppendFacts DEF IInv, CommitsFit
  <2>4. "stray" \notin DOMAIN Tracked
    BY RestrictFacts DEF Tracked
  <2>5. CommitsFit'
    BY <2>3, <2>4 DEF CommitsFit
  <2>6. AssetsFit'
    BY <2>1, <2>3 DEF IInv, AssetsFit, Became, buildVars
  <2>7. QED
    BY <2>2, <2>5, <2>6 DEF IInv
<1>5. QED
  BY <1>1, <1>2, <1>3, <1>4

(* An edit, which a running build may or may not notice. *)
LEMMA EditPreserves ==
    ASSUME IInv, NEW f \in Edited, Edit(f)
    PROVE  IInv'
<1>1. /\ tree' = [tree EXCEPT ![f] = @ + 1] /\ DOMAIN tree' = DOMAIN tree
      /\ UNCHANGED <<commits, todo, at, entries, left, dist, instant>>
      /\ touched \subseteq touched'
      /\ at \in BuildSteps => touched' = touched \cup {f}
  BY DEF Edit, IInv, AtFits, BuildSteps, Builds
<1>2. AtFits' /\ CommitsFit'
  BY <1>1 DEF IInv, AtFits, CommitsFit
<1>3. TreeFits'
  BY <1>1 DEF IInv, TreeFits, Edited
<1>4. AssetsFit'
  BY <1>1 DEF IInv, AssetsFit, Became
<1>5. \A g, old, new : Became(g, old, new) => Became(g, old, new)'
  BY <1>1 DEF Became
<1>6. ASSUME at \in BuildSteps, NEW g \in DOMAIN tree, NEW old, Became(g, old, tree[g])
      PROVE  Became(g, old, tree[g])'
  BY <1>1, <1>6, EditedFurther DEF IInv
<1>7. ASSUME at = "entries" PROVE EntriesFit'
  <2>1. EntriesFit /\ at \in BuildSteps
    BY <1>7 DEF IInv, BuildFits, BuildSteps
  <2>2. QED
    BY <1>1, <1>6, <2>1 DEF EntriesFit
<1>8. ASSUME at \in BuildSteps \ {"entries"} PROVE ArchiveFits'
  <2>1. ArchiveFits /\ at \in BuildSteps
    BY <1>8 DEF IInv, BuildFits
  <2>2. QED
    BY <1>1, <1>5, <1>6, <2>1 DEF ArchiveFits
<1>9. ASSUME at \in BuildSteps PROVE BindingFits'
  <2>1. BindingFits
    BY <1>9 DEF IInv, BuildFits
  <2>2. QED
    BY <1>1, <1>6, <1>9, <2>1 DEF BindingFits
<1>10. BuildFits'
  BY <1>1, <1>7, <1>8, <1>9 DEF BuildFits
<1>11. QED
  BY <1>2, <1>3, <1>4, <1>10 DEF IInv

(* A build begins with an empty directory; one that is bound to a commit   *)
(* only with the files of HEAD.                                            *)
LEMMA StartPreserves == ASSUME IInv, StartBuild PROVE IInv'
<1>0. at = "start" /\ todo # << >> /\ Head(todo) \in Builds /\ UNCHANGED <<tree, commits>>
  BY DEF StartBuild, Building, Builds, Exit, GoTo
<1>1. CASE Head(todo) = "bound" /\ ~Bound
  <2>1. UNCHANGED buildVars /\ at' = "start"
    BY <1>1 DEF StartBuild, Exit
  <2>2. at' \notin BuildSteps /\ AtFits' /\ TreeFits'
    BY <1>0, <2>1 DEF IInv, BuildSteps, AtFits, TreeFits
  <2>3. QED
    BY <1>0, <2>1, <2>2, OutsideBuild
<1>2. CASE ~(Head(todo) = "bound" /\ ~Bound)
  <2>1. /\ dist' = << >> /\ entries' = << >> /\ left' = DOMAIN tree
        /\ at' = "entries" /\ todo' = todo
    BY <1>2 DEF StartBuild, GoTo
  <2>2. AtFits' /\ TreeFits' /\ CommitsFit'
    BY <1>0, <2>1 DEF IInv, AtFits, BuildSteps, TreeFits, CommitsFit
  <2>3. AssetsFit'
    BY <2>1 DEF AssetsFit
  <2>4. EntriesFit'
    BY <1>0, <2>1 DEF EntriesFit
  <2>5. ASSUME Head(todo) = "bound" PROVE BindingFits'
    <3> DEFINE head == commits[Len(commits)]
    <3>1. Unignored = head /\ "stray" \notin DOMAIN head
      BY <1>2, <2>5, CommitFacts DEF Bound, IInv, CommitsFit
    <3>2. /\ DOMAIN tree \ {"stray"} = DOMAIN head
          /\ \A f \in DOMAIN head : head[f] = tree[f]
      <4>1. CASE "dotfiles" \in DOMAIN tree
        BY <3>1, <4>1, RestrictFacts DEF Unignored, Tracked
      <4>2. CASE "dotfiles" \notin DOMAIN tree
        BY <3>1, <4>2 DEF Unignored
      <4>3. QED
        BY <4>1, <4>2
    <3>3. QED
      BY <1>0, <3>2 DEF BindingFits, Became
  <2>6. BindingFits'
    BY <2>1, <2>5 DEF BindingFits
  <2>7. BuildFits'
    BY <2>1, <2>4, <2>6 DEF BuildFits, BuildSteps
  <2>8. QED
    BY <2>2, <2>3, <2>7 DEF IInv
<1>3. QED
  BY <1>1, <1>2

(* What all the steps of a running build have in common. *)
LEMMA InsideBuild ==
    ASSUME IInv, at \in BuildSteps, at' \in BuildSteps,
           UNCHANGED <<tree, commits, todo, touched>>,
           "provenance" \notin DOMAIN dist',
           at' = "entries" => EntriesFit',
           at' # "entries" => ArchiveFits'
    PROVE  IInv'
<1>1. AtFits' /\ TreeFits' /\ CommitsFit'
  BY DEF IInv, AtFits, BuildSteps, TreeFits, CommitsFit
<1>2. AssetsFit'
  BY DEF AssetsFit
<1>3. BindingFits
  BY DEF IInv, BuildFits
<1>4. BindingFits'
  BY <1>3 DEF BindingFits, Became
<1>5. BuildFits'
  BY <1>4 DEF BuildFits
<1>6. QED
  BY <1>1, <1>2, <1>5 DEF IInv

(* The first pass reads files, one at a time. *)
LEMMA ReadPreserves == ASSUME IInv, ReadEntry PROVE IInv'
<1>1. /\ at = "entries" /\ at' = "entries"
      /\ UNCHANGED <<tree, commits, todo, dist, touched>>
  BY DEF ReadEntry, Building
<1>2. EntriesFit
  BY <1>1 DEF IInv, BuildFits
<1>3. PICK f \in left : entries' = With(entries, f, tree[f]) /\ left' = left \ {f}
  BY DEF ReadEntry
<1>4. EntriesFit'
  BY <1>1, <1>2, <1>3 DEF EntriesFit, Became, With
<1>5. "provenance" \notin DOMAIN dist'
  BY <1>1, <1>2 DEF EntriesFit
<1>6. QED
  BY <1>1, <1>4, <1>5, InsideBuild DEF BuildSteps

(* Between the passes the tree is what it is at one instant. *)
LEMMA OpenPreserves == ASSUME IInv, OpenZip PROVE IInv'
<1>1. /\ at = "entries" /\ at' = "zip" /\ left = {}
      /\ UNCHANGED <<tree, commits, todo, entries, touched>>
      /\ dist' = With(dist, "zip", << >>) /\ left' = DOMAIN entries /\ instant' = tree
  BY DEF OpenZip, Building, GoTo
<1>2. EntriesFit
  BY <1>1 DEF IInv, BuildFits
<1>3. DOMAIN dist' = {"zip"} /\ dist'["zip"] = << >> /\ DOMAIN << >> = {}
  BY <1>1, <1>2 DEF EntriesFit, With
<1>4. DOMAIN entries = DOMAIN tree
  BY <1>1, <1>2 DEF EntriesFit
<1>5. ArchiveFits'
  BY <1>1, <1>2, <1>3, <1>4 DEF EntriesFit, ArchiveFits, Became
<1>6. QED
  BY <1>1, <1>3, <1>5, InsideBuild DEF BuildSteps

(* The second pass writes files into the archive. *)
LEMMA WritePreserves == ASSUME IInv, WriteEntry PROVE IInv'
<1> DEFINE z == dist["zip"]
<1>1. /\ at = "zip" /\ at' = "zip"
      /\ UNCHANGED <<tree, commits, todo, entries, touched, instant>>
  BY DEF WriteEntry, Building
<1>2. ArchiveFits
  BY <1>1 DEF IInv, BuildFits, BuildSteps
<1>3. PICK f \in left : /\ dist' = [dist EXCEPT !["zip"] = With(@, f, tree[f])]
                        /\ left' = left \ {f}
  BY DEF WriteEntry
<1> DEFINE y == With(z, f, tree[f])
<1>4. DOMAIN dist' = {"zip"} /\ dist'["zip"] = y
  BY <1>1, <1>2, <1>3 DEF ArchiveFits
<1>5. /\ DOMAIN y = DOMAIN z \cup {f} /\ f \in DOMAIN tree
      /\ \A g \in DOMAIN y : y[g] = IF g = f THEN tree[f] ELSE z[g]
  BY <1>1, <1>2, <1>3 DEF With, ArchiveFits
<1> HIDE DEF y, z
<1>6. /\ DOMAIN z \subseteq DOMAIN tree /\ DOMAIN z \cup left = DOMAIN tree
      /\ DOMAIN entries = DOMAIN tree /\ DOMAIN instant = DOMAIN tree
      /\ \A g \in DOMAIN tree : Became(g, entries[g], instant[g]) /\ Became(g, instant[g], tree[g])
      /\ \A g \in DOMAIN z : Became(g, instant[g], z[g]) /\ Became(g, z[g], tree[g])
  BY <1>1, <1>2 DEF ArchiveFits, z
<1>7. Became(f, tree[f], tree[f])
  BY DEF Became
<1>8. \A g \in DOMAIN y : Became(g, instant[g], y[g]) /\ Became(g, y[g], tree[g])
  BY <1>5, <1>6, <1>7
<1>9. \A g, old, new : Became(g, old, new) => Became(g, old, new)'
  BY <1>1 DEF Became
<1>10. ArchiveFits'
  BY <1>1, <1>3, <1>4, <1>5, <1>6, <1>8, <1>9 DEF ArchiveFits
<1>11. QED
  BY <1>1, <1>4, <1>10, InsideBuild DEF BuildSteps

(* The sidecar and the asset manifest. *)
LEMMA SidecarsPreserve == ASSUME IInv, WriteSidecar \/ WriteAssetManifest PROVE IInv'
<1>1. /\ at \in BuildSteps \ {"entries"} /\ at' \in BuildSteps \ {"entries"}
      /\ UNCHANGED <<tree, commits, todo, entries, touched, instant>>
  BY DEF WriteSidecar, WriteAssetManifest, Building, GoTo, BuildSteps
<1>2. ArchiveFits
  BY <1>1 DEF IInv, BuildFits
<1>3. /\ dist'["zip"] = dist["zip"]
      /\ \/ /\ at' = "manifest" /\ DOMAIN dist' = {"zip", "sidecar"}
            /\ DOMAIN dist["zip"] = DOMAIN tree
         \/ /\ at' = "provenance" /\ DOMAIN dist' = {"zip", "sidecar", "manifest"}
            /\ DOMAIN dist["zip"] = DOMAIN tree
  <2>1. CASE WriteSidecar
    BY <1>2, <2>1 DEF WriteSidecar, Building, GoTo, ArchiveFits, With
  <2>2. CASE WriteAssetManifest
    BY <1>2, <2>2 DEF WriteAssetManifest, Building, GoTo, ArchiveFits, With
  <2>3. QED
    BY <2>1, <2>2
<1>4. ArchiveFits'
  BY <1>1, <1>2, <1>3 DEF ArchiveFits, Became
<1>5. QED
  BY <1>1, <1>3, <1>4, InsideBuild

(* The provenance ends the build. *)
LEMMA ProvenancePreserves == ASSUME IInv, WriteProvenance PROVE IInv'
<1> DEFINE p == [subject |-> dist["sidecar"], source |-> entries,
                 materials |-> Restrict(tree, Materials),
                 commit |-> IF Head(todo) = "bound" THEN Len(commits) ELSE 0,
                 byproducts |-> <<dist["sidecar"], dist["manifest"]>>]
           z == dist["zip"]
<1>1. /\ at = "provenance" /\ at' = "start"
      /\ UNCHANGED <<tree, commits, entries, touched, instant>>
      /\ dist' = With(dist, "provenance", p)
  BY DEF WriteProvenance, Building, Exit
<1>2. ArchiveFits /\ BindingFits /\ TreeFits /\ CommitsFit
  BY <1>1 DEF IInv, BuildFits, BuildSteps
<1>3. dist'["zip"] = z /\ dist'["provenance"] = p
  BY <1>1, <1>2 DEF With, ArchiveFits
<1>4. /\ p.source = entries /\ p.materials = Restrict(tree, Materials)
      /\ p.commit = IF Head(todo) = "bound" THEN Len(commits) ELSE 0
  OBVIOUS
<1> HIDE DEF p, z
<1>5. /\ DOMAIN z = DOMAIN entries /\ DOMAIN z = DOMAIN instant /\ DOMAIN z = DOMAIN tree
      /\ \A f \in DOMAIN z : /\ Became(f, entries[f], instant[f])
                             /\ Became(f, instant[f], z[f])
                             /\ Became(f, z[f], tree[f])
  BY <1>1, <1>2 DEF ArchiveFits, z
<1>6. Materials \subseteq DOMAIN z /\ \A f \in Materials \ touched : p.materials[f] = z[f]
  BY <1>2, <1>4, <1>5, RestrictFacts DEF TreeFits, Materials, Edited, Became
<1>7. ASSUME p.commit # 0
      PROVE  /\ DOMAIN z \ {"stray"} = DOMAIN commits[p.commit]
             /\ \A f \in DOMAIN commits[p.commit] \ touched : z[f] = commits[p.commit][f]
  <2>1. Head(todo) = "bound" /\ p.commit = Len(commits)
    BY <1>4, <1>7
  <2>2. /\ DOMAIN tree \ {"stray"} = DOMAIN commits[p.commit]
        /\ \A f \in DOMAIN commits[p.commit] :
               Became(f, commits[p.commit][f], tree[f])
    BY <1>2, <2>1 DEF BindingFits
  <2>3. QED
    BY <1>5, <2>2 DEF Became
<1>8. p.commit \in 0 .. Len(commits)
  <2>1. Len(commits) \in Nat
    BY <1>2, CommitFacts
  <2>2. p.commit = Len(commits) \/ p.commit = 0
    BY <1>4
  <2>3. QED
    BY <2>1, <2>2
<1>9. AssetsFit'
  <2> DEFINE src == p.source
             m == p.materials
             c == p.commit
             own == commits[c]
  <2>1. /\ DOMAIN z = DOMAIN src /\ DOMAIN z = DOMAIN instant
        /\ \A f \in DOMAIN z : Became(f, src[f], instant[f]) /\ Became(f, instant[f], z[f])
        /\ Materials \subseteq DOMAIN z /\ \A f \in Materials \ touched : m[f] = z[f]
        /\ c \in 0 .. Len(commits)
        /\ c # 0 => /\ DOMAIN z \ {"stray"} = DOMAIN own
                    /\ \A f \in DOMAIN own \ touched : z[f] = own[f]
    BY <1>4, <1>5, <1>6, <1>7, <1>8
  <2>2. \A f, old, new : Became(f, old, new) => Became(f, old, new)'
    BY <1>1 DEF Became
  <2>3. QED
    BY <1>1, <1>3, <2>1, <2>2 DEF AssetsFit
<1>10. AtFits' /\ TreeFits' /\ CommitsFit' /\ BuildFits'
  BY <1>1, <1>2 DEF AtFits, TreeFits, CommitsFit, BuildFits, BuildSteps
<1>11. QED
  BY <1>9, <1>10 DEF IInv

(* Every step keeps the invariant. *)
LEMMA InvStep == IInv /\ [Next]_vars => IInv'
<1> SUFFICES ASSUME IInv, [Next]_vars PROVE IInv'
  OBVIOUS
<1>1. CASE UNCHANGED vars
  <2>1. UNCHANGED <<tree, commits, todo, at, entries, left, dist, touched, instant>>
    BY <1>1 DEF vars, toolVars
  <2>2. AtFits' /\ TreeFits' /\ CommitsFit' /\ AssetsFit'
    BY <2>1 DEF IInv, AtFits, TreeFits, CommitsFit, AssetsFit, Became
  <2>3. BuildFits'
    BY <2>1 DEF IInv, BuildFits, EntriesFit, ArchiveFits, BindingFits, Became
  <2>4. QED
    BY <2>2, <2>3 DEF IInv
<1>2. CASE Next
  BY <1>2, EditPreserves, PeoplePreserve, ReportersPreserve, WritersPreserve, StartPreserves,
     ReadPreserves, OpenPreserves, WritePreserves, SidecarsPreserve, ProvenancePreserves
  DEF Next
<1>3. QED
  BY <1>1, <1>2

(* What is known of a build at each of its steps, and of what it leaves.   *)
THEOREM Invariance == Spec => []IInv
  BY InvInit, InvStep, PTL DEF Spec

----------------------------------------------------------------------------
(* What the verifier's acceptance means *)

(* However the tree is edited while a build reads its files one by one and *)
(* twice: an archive that verify_release_artifact accepts is the tree of   *)
(* one instant, and the materials its provenance names are those in it.    *)
THEOREM AcceptedArchivesAreOneInstant == Spec => []AcceptedIsOneInstant
<1>1. IInv => AcceptedIsOneInstant
  <2> SUFFICES ASSUME AssetsFit, Accepted(dist) PROVE AcceptedIsOneInstant
    BY DEF IInv, AcceptedIsOneInstant
  <2> DEFINE z == dist["zip"]
             p == dist["provenance"]
  <2>1. p.source = z
    BY DEF Accepted, ManifestAccepted, ProvenanceAccepted
  <2>2. /\ DOMAIN z = DOMAIN instant
        /\ \A f \in DOMAIN z : Became(f, p.source[f], instant[f]) /\ Became(f, instant[f], z[f])
        /\ \A f \in Materials \ touched : p.materials[f] = z[f]
    BY DEF Accepted, AssetsFit
  <2>3. \A f \in DOMAIN z : z[f] = instant[f]
    BY <2>1, <2>2 DEF Became
  <2>4. QED
    BY <2>2, <2>3 DEF AcceptedIsOneInstant
<1>2. QED
  BY <1>1, Invariance, PTL

(* An archive accepted as the build of a commit holds its files, but for   *)
(* those edited after the worktree was found clean (build_release_asset,   *)
(* verify_source_revision_binding) and for files Git was told to ignore.   *)
THEOREM BoundArchivesAreCommitted == Spec => []BoundIsCommitted
<1>1. IInv => BoundIsCommitted
  <2> SUFFICES ASSUME IInv, NEW c \in DOMAIN commits, AcceptedFor(dist, c)
               PROVE  /\ DOMAIN dist["zip"] \ {"stray"} = DOMAIN commits[c]
                      /\ \A f \in DOMAIN commits[c] \ touched :
                             dist["zip"][f] = commits[c][f]
    BY DEF BoundIsCommitted
  <2>1. AssetsFit /\ "provenance" \in DOMAIN dist /\ dist["provenance"].commit = c
    BY DEF IInv, AcceptedFor, Accepted
  <2>2. c # 0
    BY CommitFacts DEF IInv
  <2>3. QED
    BY <2>1, <2>2 DEF AssetsFit
<1>2. QED
  BY <1>1, Invariance, PTL

----------------------------------------------------------------------------
(***************************************************************************)
(* What a script that passes has made sure of.  While it runs undisturbed, *)
(* the programs it has yet to run tell what those before have established: *)
(* whatever makes vectors or metadata is followed by the gate and by the   *)
(* verification of the manifest, so that with none of them to come all     *)
(* that they look at holds.                                                *)
(***************************************************************************)

ToRun(program) == \E i \in DOMAIN todo : todo[i] = program

Tested == <<tree.code, tree.rest>> \in Passing /\ tree.vectors = VectorsOf[tree.code]
Manifested == tree.manifest = Listed(tree)

Established ==
    /\ ~ToRun("vectors") => Tested
    /\ ~ToRun("vectors") /\ ~ToRun("generate") /\ ~ToRun("gate") => GatePasses
    /\ ~ToRun("vectors") /\ ~ToRun("generate") /\ ~ToRun("manifest") /\ ~ToRun("verify")
         => Manifested

(* The lock file of an attestation is never ahead of the tree's, and where *)
(* both it and the SBOM are those of the tree they belong together.        *)
MetadataFits ==
    LET a == tree.attestation IN
    /\ a.lock \in Nat /\ a.lock <= tree.lock
    /\ ~torn /\ at = "attest" => tree.sbom = tree.lock
    /\ ~torn /\ a.lock = tree.lock /\ a.sbom = tree.sbom => tree.sbom = tree.lock

(* The archive next to the last program is the tree. *)
Archived ==
    /\ DOMAIN dist["zip"] = DOMAIN tree
    /\ \A f \in DOMAIN tree : dist["zip"][f] = tree[f]

RunFits ==
    /\ todo # << >> => result = "running" /\ Orderly(todo)
    /\ at \in BuildSteps => touched \subseteq changed
    /\ todo # << >> /\ changed = {} => Established
    /\ todo # << >> /\ changed = {} /\ Len(todo) = 1 => Archived

PassInv == IInv /\ MetadataFits /\ RunFits /\ PassedIsConsistent

(* The next program and those after it. *)
LEMMA NextProgram ==
    ASSUME todo # << >>, Orderly(todo)
    PROVE  /\ Len(todo) \in Nat \ {0} /\ DOMAIN todo = 1 .. Len(todo)
           /\ Head(todo) = todo[1]
           /\ Tail(todo) \in Seq(Programs) /\ Len(Tail(todo)) = Len(todo) - 1
           /\ DOMAIN Tail(todo) = 1 .. Len(todo) - 1
           /\ \A i \in DOMAIN Tail(todo) : Tail(todo)[i] = todo[i + 1]
<1>1. todo \in Seq(Programs)
  BY DEF Orderly
<1>2. QED
  BY <1>1, HeadTailProperties, LenProperties, EmptySeq

(* What is left of an orderly script when a program has ended well.        *)
LEMMA OrderStays ==
    ASSUME todo # << >>, Orderly(todo), todo' = Tail(todo)
    PROVE  /\ todo' # << >> => Orderly(todo')
           /\ \A p : ToRun(p) => p = Head(todo) \/ ToRun(p)'
           /\ Head(todo) \in {"vectors", "generate"} => ToRun("gate")' /\ ToRun("verify")'
           /\ Head(todo) = "manifest" => ToRun("verify")'
           /\ todo' = << >> => Head(todo) = "check" /\ Len(todo) = 1
           /\ todo' # << >> /\ Len(todo)' = 1 => Head(todo) \in Builds
<1> DEFINE n == Len(todo)
           rest == Tail(todo)
<1>1. /\ n \in Nat \ {0} /\ DOMAIN todo = 1 .. n /\ Head(todo) = todo[1]
      /\ rest \in Seq(Programs) /\ Len(rest) = n - 1 /\ DOMAIN rest = 1 .. n - 1
      /\ \A i \in 1 .. n - 1 : rest[i] = todo[i + 1]
      /\ todo' = rest /\ Len(todo) = n
  BY NextProgram
<1> HIDE DEF n, rest
<1>2. ASSUME NEW i \in 1 .. n, NEW p, Later(todo, i, p)
      PROVE  \E j \in 1 .. n - 1 : j > i - 1 /\ rest[j] = p
  <2>1. PICK j \in 1 .. n : j > i /\ todo[j] = p
    BY <1>1, <1>2 DEF Later
  <2>2. j - 1 \in 1 .. n - 1 /\ j - 1 > i - 1 /\ (j - 1) + 1 = j
    BY <1>1, <2>1
  <2>3. QED
    BY <1>1, <2>1, <2>2
<1>3. Orderly(rest)
  <2> SUFFICES ASSUME NEW i \in 1 .. n - 1
               PROVE  /\ rest[i] \in {"vectors", "generate"} =>
                            Later(rest, i, "gate") /\ Later(rest, i, "verify")
                      /\ rest[i] = "manifest" => Later(rest, i, "verify")
                      /\ i = n - 1 => rest[i] = "check"
                      /\ i + 1 = n - 1 => rest[i] \in Builds
    BY <1>1 DEF Orderly
  <2>1. i + 1 \in 1 .. n /\ rest[i] = todo[i + 1]
    BY <1>1
  <2>2. ASSUME NEW p, Later(todo, i + 1, p) PROVE Later(rest, i, p)
    <3>1. PICK j \in 1 .. n - 1 : j > (i + 1) - 1 /\ rest[j] = p
      BY <1>2, <2>1, <2>2
    <3>2. j \in DOMAIN rest /\ j > i
      BY <1>1, <3>1
    <3>3. QED
      BY <3>1, <3>2 DEF Later
  <2>3. i + 1 = n - 1 => (i + 1) + 1 = n
    BY <1>1
  <2>4. QED
    BY <1>1, <2>1, <2>2, <2>3 DEF Orderly
<1>4. ASSUME NEW p, ToRun(p) PROVE p = Head(todo) \/ ToRun(p)'
  <2>1. PICK j \in 1 .. n : todo[j] = p
    BY <1>1, <1>4 DEF ToRun
  <2>2. CASE j = 1
    BY <1>1, <2>1, <2>2
  <2>3. CASE j # 1
    <3>1. j - 1 \in 1 .. n - 1 /\ (j - 1) + 1 = j
      BY <1>1, <2>3
    <3>2. QED
      BY <1>1, <2>1, <3>1 DEF ToRun
  <2>4. QED
    BY <2>2, <2>3
<1>5. 1 \in 1 .. n
  BY <1>1
<1>6. ASSUME NEW p, Later(todo, 1, p) PROVE ToRun(p)'
  BY <1>1, <1>2, <1>5, <1>6 DEF ToRun
<1>7. /\ Head(todo) \in {"vectors", "generate"} => ToRun("gate")' /\ ToRun("verify")'
      /\ Head(todo) = "manifest" => ToRun("verify")'
  BY <1>1, <1>5, <1>6 DEF Orderly
<1>8. todo' = << >> => Head(todo) = "check" /\ n = 1
  <2>1. ASSUME todo' = << >> PROVE n = 1
    <3>1. Len(rest) = 0
      BY <1>1, <2>1
    <3>2. QED
      BY <1>1, <3>1
  <2>2. QED
    BY <1>1, <1>5, <2>1 DEF Orderly
<1>9. todo' # << >> /\ Len(todo)' = 1 => Head(todo) \in Builds
  BY <1>1, <1>5 DEF Orderly
<1>10. (todo' # << >> => Orderly(todo')) /\ Len(todo) = n
  BY <1>1, <1>3
<1>11. QED
  BY <1>4, <1>7, <1>8, <1>9, <1>10

(* How a program ends: it fails, or it was the last, or the next follows.  *)
LEMMA ProgramEnds ==
    ASSUME todo # << >>, Orderly(todo), NEW ok \in BOOLEAN, Exit(ok)
    PROVE  /\ at' = "start" /\ changed' = changed /\ torn' = torn
           /\ \/ todo' = << >> /\ result' = "failed" /\ ~ok
              \/ todo' = << >> /\ result' = "passed" /\ ok /\ Head(todo) = "check" /\ Len(todo) = 1
              \/ /\ todo' # << >> /\ result' = "running" /\ ok /\ Orderly(todo')
                 /\ todo' = Tail(todo)
                 /\ \A p : ToRun(p) => p = Head(todo) \/ ToRun(p)'
                 /\ Len(todo)' = 1 => Head(todo) \in Builds
<1>1. /\ at' = "start" /\ changed' = changed /\ torn' = torn
      /\ todo' = IF ok THEN Tail(todo) ELSE << >>
      /\ result' = IF ~ok THEN "failed" ELSE IF Len(todo) = 1 THEN "passed" ELSE "running"
  BY DEF Exit
<1>2. CASE ~ok
  BY <1>1, <1>2
<1>3. CASE ok
  <2>1. todo' = Tail(todo)
    BY <1>1, <1>3
  <2>2. todo' = << >> <=> Len(todo) = 1
    <3>1. /\ Tail(todo) \in Seq(Programs) /\ Len(Tail(todo)) = Len(todo) - 1
          /\ Len(todo) \in Nat \ {0}
      BY NextProgram
    <3>2. Tail(todo) = << >> <=> Len(Tail(todo)) = 0
      BY <3>1, EmptySeq
    <3>3. QED
      BY <2>1, <3>1, <3>2
  <2>3. CASE Len(todo) = 1
    BY <1>1, <1>3, <2>1, <2>2, <2>3, OrderStays
  <2>4. CASE Len(todo) # 1
    BY <1>1, <1>3, <2>1, <2>2, <2>4, OrderStays
  <2>5. QED
    BY <2>3, <2>4
<1>4. QED
  BY <1>2, <1>3

(* The last program has nothing to run after it, and any other something.  *)
LEMMA LastProgram ==
    ASSUME todo # << >>, Orderly(todo), Len(todo) = 1
    PROVE  Head(todo) = "check" /\ \A p : ToRun(p) => p = "check"
<1>1. Len(todo) \in Nat \ {0} /\ DOMAIN todo = 1 .. Len(todo) /\ Head(todo) = todo[1]
  BY NextProgram
<1>2. DOMAIN todo = {1} /\ todo[1] = "check"
  BY <1>1 DEF Orderly
<1>3. QED
  BY <1>1, <1>2 DEF ToRun

(* The program that runs is one to run. *)
LEMMA RunningProgram ==
    ASSUME todo # << >>, Orderly(todo)
    PROVE  ToRun(Head(todo))
  BY NextProgram DEF ToRun

(* When the verifier accepts an archive of the tree, after all that the    *)
(* tree has gone through, the archive is consistent.                       *)
LEMMA ArchiveConsistent ==
    ASSUME TreeFits, MetadataFits, Tested, GatePasses, Manifested, Archived, Accepted(dist)
    PROVE  LET z == dist["zip"] IN
           /\ <<z.code, z.rest>> \in Passing
           /\ z.attestation.code = z.code /\ z.attestation.vectors = z.vectors
           /\ z.vectors = VectorsOf[z.code]
           /\ ~torn => z.sbom = z.lock
           /\ z.manifest = Listed(z)
<1> DEFINE z == dist["zip"]
<1>1. /\ z["code"] = tree["code"] /\ z["rest"] = tree["rest"] /\ z["vectors"] = tree["vectors"]
      /\ z["attestation"] = tree["attestation"] /\ z["manifest"] = tree["manifest"]
      /\ z["sbom"] = tree["sbom"] /\ z["lock"] = tree["lock"]
  BY DEF TreeFits, Archived, Edited
<1>2. Listed(z) = Listed(tree)
  BY DEF Archived, Listed, Restrict
<1> HIDE DEF z
<1>3. /\ <<z["code"], z["rest"]>> \in Passing /\ z["vectors"] = VectorsOf[z["code"]]
      /\ z["manifest"] = Listed(z)
  BY <1>1, <1>2 DEF Tested, Manifested
<1>4. /\ z["attestation"].code = z["code"] /\ z["attestation"].vectors = z["vectors"]
      /\ ~torn => z["sbom"] = z["lock"]
  BY <1>1 DEF GatePasses, MetadataFits
<1>5. QED
  BY <1>3, <1>4 DEF z

(* The programs that read, test and report. *)
LEMMA ReportersPass ==
    ASSUME PassInv,
           Demos \/ Tests \/ Packet \/ Coverage \/ Clean \/ Gate \/ VerifyManifest \/ VerifyArtifact
    PROVE  (MetadataFits /\ RunFits /\ PassedIsConsistent)'
<1>1. PICK ok \in BOOLEAN :
          /\ Exit(ok)
          /\ todo # << >> /\ UNCHANGED <<tree, buildVars>>
          /\ Head(todo) \in {"demos", "tests", "packet", "coverage", "clean", "gate",
                             "verify", "check"}
          /\ ok /\ Head(todo) = "gate" => GatePasses
          /\ ok /\ Head(todo) = "verify" => Manifested
          /\ ok /\ Head(todo) = "check" => Accepted(dist)
  <2>1. CASE Demos \/ Coverage \/ Clean \/ Packet \/ Tests
    <3>1. /\ Exit(TRUE) \/ Exit(TestsPass)
          /\ todo # << >> /\ UNCHANGED <<tree, buildVars>>
          /\ Head(todo) \in {"demos", "tests", "packet", "coverage", "clean"}
      BY <2>1 DEF Demos, Coverage, Clean, Packet, Tests, Runs
    <3>2. TestsPass \in BOOLEAN
      BY DEF TestsPass
    <3>3. QED
      BY <3>1, <3>2
  <2>2. CASE Gate
    <3>1. GatePasses \in BOOLEAN
      BY DEF GatePasses
    <3>2. /\ Exit(GatePasses) /\ todo # << >> /\ UNCHANGED <<tree, buildVars>>
          /\ Head(todo) = "gate"
      BY <2>2 DEF Gate, Runs
    <3>3. QED
      BY <3>1, <3>2
  <2>3. CASE VerifyManifest
    <3>1. Manifested \in BOOLEAN
      BY DEF Manifested
    <3>2. /\ Exit(Manifested) /\ todo # << >> /\ UNCHANGED <<tree, buildVars>>
          /\ Head(todo) = "verify"
      BY <2>3 DEF VerifyManifest, Runs, Manifested
    <3>3. QED
      BY <3>1, <3>2
  <2>4. CASE VerifyArtifact
    <3>1. Accepted(dist) \in BOOLEAN
      BY DEF Accepted
    <3>2. /\ Exit(Accepted(dist)) /\ todo # << >> /\ UNCHANGED <<tree, buildVars>>
          /\ Head(todo) = "check"
      BY <2>4 DEF VerifyArtifact, Runs
    <3>3. QED
      BY <3>1, <3>2
  <2>5. QED
    BY <2>1, <2>2, <2>3, <2>4
<1>2. Orderly(todo) /\ RunFits /\ MetadataFits /\ TreeFits
  BY <1>1 DEF PassInv, RunFits, IInv
<1>3. at' = "start" /\ UNCHANGED <<tree, torn, changed, dist, touched>>
  BY <1>1, <1>2, ProgramEnds DEF buildVars
<1>4. MetadataFits'
  BY <1>2, <1>3 DEF MetadataFits
<1>5. (GatePasses <=> GatePasses') /\ (Manifested <=> Manifested') /\ (Tested <=> Tested')
  BY <1>3 DEF GatePasses, Manifested, Tested, Listed
<1>6. CASE todo' = << >> /\ result' = "failed"
  BY <1>3, <1>4, <1>6 DEF RunFits, PassedIsConsistent, BuildSteps
<1>7. CASE todo' = << >> /\ ok /\ Head(todo) = "check" /\ Len(todo) = 1
  <2>1. RunFits'
    BY <1>3, <1>7 DEF RunFits, BuildSteps
  <2>2. ASSUME changed = {} PROVE PassedIsConsistent'
    <3>1. Archived /\ Established
      BY <1>1, <1>2, <1>7, <2>2 DEF RunFits
    <3>2. Tested /\ GatePasses /\ Manifested
      BY <1>1, <1>2, <1>7, <3>1, LastProgram DEF Established
    <3>3. Accepted(dist)
      BY <1>1, <1>7
    <3>4. QED
      BY <1>2, <1>3, <3>1, <3>2, <3>3, ArchiveConsistent
      DEF PassedIsConsistent, Accepted, ManifestAccepted, ProvenanceAccepted
  <2>3. QED
    BY <1>3, <1>4, <2>1, <2>2 DEF PassedIsConsistent
<1>8. CASE /\ todo' # << >> /\ result' = "running" /\ ok /\ Orderly(todo')
           /\ \A p : ToRun(p) => p = Head(todo) \/ ToRun(p)'
           /\ Len(todo)' = 1 => Head(todo) \in Builds
  <2>1. ASSUME changed = {} PROVE Established'
    <3>1. Established
      BY <1>1, <1>2, <2>1 DEF RunFits
    <3>2. QED
      BY <1>1, <1>5, <1>8, <3>1 DEF Established
  <2>2. Len(todo)' # 1
    BY <1>1, <1>8 DEF Builds
  <2>3. RunFits'
    BY <1>3, <1>8, <2>1, <2>2 DEF RunFits, BuildSteps
  <2>4. QED
    BY <1>4, <1>8, <2>3 DEF PassedIsConsistent
<1>9. QED
  BY <1>1, <1>2, <1>6, <1>7, <1>8, ProgramEnds

(* The programs that write vectors, metadata and the manifest. *)
LEMMA WritersPass ==
    ASSUME PassInv, Vectors \/ BuildSbom \/ Attest \/ BuildSource \/ MakeManifest
    PROVE  (MetadataFits /\ RunFits /\ PassedIsConsistent)'
<1>1. todo # << >> /\ Head(todo) \in {"vectors", "generate", "manifest"}
  BY DEF Vectors, BuildSbom, Attest, BuildSource, MakeManifest, Runs
<1>2. Orderly(todo) /\ RunFits /\ MetadataFits /\ TreeFits /\ result = "running"
  BY <1>1 DEF PassInv, RunFits, IInv
<1>3. Len(todo) # 1
  BY <1>1, <1>2, LastProgram
<1>4. UNCHANGED <<changed, dist, touched>> /\ at' \notin BuildSteps
  BY DEF Vectors, BuildSbom, Attest, BuildSource, MakeManifest, Exit, GoTo, buildVars, BuildSteps
<1>5. MetadataFits'
  <2>1. CASE BuildSbom
    <3>1. tree' = [tree EXCEPT !.sbom = tree.lock] /\ at' = "attest"
      BY <2>1 DEF BuildSbom
    <3>2. /\ tree'["sbom"] = tree["lock"] /\ tree'["lock"] = tree["lock"]
          /\ tree'["attestation"] = tree["attestation"]
      BY <1>2, <3>1 DEF TreeFits, Edited
    <3>3. QED
      BY <1>2, <3>2 DEF MetadataFits
  <2>2. CASE Attest /\ tree' = [tree EXCEPT !.attestation = Attestation(tree)]
    <3>1. torn' = torn /\ at' # "attest" /\ at = "attest"
      BY <2>2 DEF Attest, Runs, GoTo, Exit
    <3>2. /\ tree'["attestation"] = Attestation(tree)
          /\ tree'["lock"] = tree["lock"] /\ tree'["sbom"] = tree["sbom"]
          /\ tree["lock"] \in Nat
      BY <1>2, <2>2 DEF TreeFits, Edited
    <3>3. Attestation(tree).lock = tree["lock"]
      BY DEF Attestation
    <3>4. QED
      BY <1>2, <3>1, <3>2, <3>3 DEF MetadataFits
  <2>3. CASE \/ Attest /\ tree' = tree
             \/ \E x : \E f \in {"vectors", "source", "manifest"} :
                    /\ Vectors \/ BuildSource \/ MakeManifest
                    /\ tree' = [tree EXCEPT ![f] = x]
    <3>1. torn' = torn /\ at' # "attest"
      BY <2>3 DEF Attest, Vectors, BuildSource, MakeManifest, Exit, GoTo
    <3>2. /\ tree'["attestation"] = tree["attestation"]
          /\ tree'["lock"] = tree["lock"] /\ tree'["sbom"] = tree["sbom"]
      BY <1>2, <2>3 DEF TreeFits, Edited
    <3>3. QED
      BY <1>2, <3>1, <3>2 DEF MetadataFits
  <2>4. QED
    BY <2>1, <2>2, <2>3 DEF Vectors, Attest, BuildSource, MakeManifest
<1>6. CASE todo' = todo
  <2>1. Head(todo) = "generate" /\ result' = result
    BY <1>1, <1>6 DEF Vectors, BuildSbom, Attest, BuildSource, MakeManifest, Exit, GoTo, Runs
  <2>2. ToRun("generate")'
    BY <1>1, <1>2, <1>6, <2>1, RunningProgram DEF ToRun
  <2>3. UNCHANGED <<tree["code"], tree["rest"], tree["vectors"]>>
    BY <1>2, <1>6, <2>1 DEF BuildSbom, Attest, BuildSource, Vectors, MakeManifest, Runs, TreeFits, Edited
  <2>4. ASSUME changed = {} PROVE Established'
    <3>1. Established
      BY <1>1, <1>2, <2>4 DEF RunFits
    <3>2. QED
      BY <1>6, <2>2, <2>3, <3>1 DEF Established, Tested, ToRun
  <2>5. RunFits'
    BY <1>1, <1>2, <1>3, <1>4, <1>6, <2>1, <2>4 DEF RunFits
  <2>6. QED
    BY <1>2, <1>5, <2>1, <2>5 DEF PassedIsConsistent
<1>7. ASSUME NEW ok \in BOOLEAN, Exit(ok) PROVE (RunFits /\ PassedIsConsistent)'
  <2>1. CASE todo' = << >> /\ result' = "failed"
    BY <1>4, <2>1 DEF RunFits, PassedIsConsistent
  <2>2. CASE /\ todo' # << >> /\ result' = "running" /\ ok /\ Orderly(todo')
             /\ todo' = Tail(todo)
             /\ \A p : ToRun(p) => p = Head(todo) \/ ToRun(p)'
             /\ Len(todo)' = 1 => Head(todo) \in Builds
    <3>1. Len(todo)' # 1
      BY <1>1, <2>2 DEF Builds
    <3>2. ASSUME changed = {} PROVE Established'
      <4>1. Established
        BY <1>1, <1>2, <3>2 DEF RunFits
      <4>2. CASE Head(todo) = "vectors"
        <5>1. ToRun("gate")' /\ ToRun("verify")'
          BY <1>1, <1>2, <2>2, <4>2, OrderStays
        <5>2. TestsPass /\ tree' = [tree EXCEPT !.vectors = VectorsOf[tree.code]]
          BY <1>7, <2>2, <4>2 DEF Vectors, BuildSbom, Attest, BuildSource, MakeManifest, Runs, Exit
        <5>3. Tested'
          BY <1>2, <5>2 DEF Tested, TestsPass, TreeFits, Edited
        <5>4. QED
          BY <5>1, <5>3 DEF Established
      <4>3. CASE Head(todo) = "generate"
        <5>1. ToRun("gate")' /\ ToRun("verify")'
          BY <1>1, <1>2, <2>2, <4>3, OrderStays
        <5>2. UNCHANGED <<tree["code"], tree["rest"], tree["vectors"]>>
          BY <1>2, <4>3 DEF BuildSbom, Attest, BuildSource, Vectors, MakeManifest, Runs, TreeFits, Edited
        <5>3. QED
          BY <2>2, <4>1, <4>3, <5>1, <5>2 DEF Established, Tested
      <4>4. CASE Head(todo) = "manifest"
        <5>1. ToRun("verify")'
          BY <1>1, <1>2, <2>2, <4>4, OrderStays
        <5>2. tree' = [tree EXCEPT !.manifest = Listed(tree)]
          BY <4>4 DEF Vectors, BuildSbom, Attest, BuildSource, MakeManifest, Runs
        <5>3. /\ UNCHANGED <<tree["code"], tree["rest"], tree["vectors"], tree["attestation"],
                             tree["lock"], tree["sbom"]>>
          BY <1>2, <5>2 DEF TreeFits, Edited
        <5>4. (Tested => Tested') /\ (GatePasses => GatePasses')
          BY <5>3 DEF Tested, GatePasses
        <5>5. QED
          BY <2>2, <4>1, <4>4, <5>1, <5>4 DEF Established
      <4>5. QED
        BY <1>1, <4>2, <4>3, <4>4
    <3>3. RunFits'
      BY <1>4, <2>2, <3>1, <3>2 DEF RunFits
    <3>4. QED
      BY <2>2, <3>3 DEF PassedIsConsistent
  <2>3. QED
    BY <1>1, <1>2, <1>7, <2>1, <2>2, ProgramEnds
<1>8. TestsPass \in BOOLEAN
  BY DEF TestsPass
<1>9. todo' = todo \/ Exit(TRUE) \/ Exit(FALSE) \/ Exit(TestsPass)
  BY DEF Vectors, BuildSbom, Attest, BuildSource, MakeManifest, GoTo
<1>10. QED
  BY <1>5, <1>6, <1>7, <1>8, <1>9

(* A build, from its start to its provenance. *)
LEMMA BuildsPass ==
    ASSUME PassInv,
           \/ StartBuild \/ ReadEntry \/ OpenZip \/ WriteEntry
           \/ WriteSidecar \/ WriteAssetManifest \/ WriteProvenance
    PROVE  (MetadataFits /\ RunFits /\ PassedIsConsistent)'
<1>1. todo # << >> /\ Head(todo) \in Builds
  BY DEF StartBuild, ReadEntry, OpenZip, WriteEntry, WriteSidecar, WriteAssetManifest,
         WriteProvenance, Building
<1>2. Orderly(todo) /\ RunFits /\ MetadataFits /\ result = "running"
  BY <1>1 DEF PassInv, RunFits
<1>3. UNCHANGED <<tree, changed, torn>> /\ at' # "attest"
  BY DEF StartBuild, ReadEntry, OpenZip, WriteEntry, WriteSidecar, WriteAssetManifest,
         WriteProvenance, Building, Exit, GoTo
<1>4. MetadataFits'
  BY <1>2, <1>3 DEF MetadataFits
<1>5. CASE WriteProvenance
  <2>1. Exit(TRUE) /\ at = "provenance" /\ at' = "start"
    BY <1>5 DEF WriteProvenance, Building, Exit
  <2>2. /\ todo' # << >> /\ result' = "running" /\ Orderly(todo')
        /\ \A p : ToRun(p) => p = Head(todo) \/ ToRun(p)'
    BY <1>1, <1>2, <2>1, ProgramEnds DEF Builds
  <2>3. ASSUME changed = {} PROVE Established'
    <3>1. Established
      BY <1>1, <1>2, <2>3 DEF RunFits
    <3>2. (GatePasses => GatePasses') /\ (Manifested => Manifested') /\ (Tested => Tested')
      BY <1>3 DEF GatePasses, Manifested, Tested, Listed
    <3>3. QED
      BY <1>1, <2>2, <3>1, <3>2 DEF Established, Builds
  <2>4. ASSUME changed = {} PROVE Archived'
    <3>1. ArchiveFits /\ touched = {}
      BY <1>2, <2>1, <2>4 DEF PassInv, IInv, BuildFits, BuildSteps, RunFits
    <3>2. /\ DOMAIN dist["zip"] = DOMAIN tree
          /\ \A f \in DOMAIN tree : dist["zip"][f] = tree[f]
      BY <2>1, <3>1 DEF ArchiveFits, Became
    <3>3. dist'["zip"] = dist["zip"]
      BY <1>5, <2>1, <3>1 DEF WriteProvenance, With, ArchiveFits
    <3>4. QED
      BY <1>3, <3>2, <3>3 DEF Archived
  <2>5. RunFits'
    BY <1>3, <2>1, <2>2, <2>3, <2>4 DEF RunFits, BuildSteps
  <2>6. QED
    BY <1>4, <2>2, <2>5 DEF PassedIsConsistent
<1>6. CASE StartBuild /\ Exit(FALSE)
  <2>1. todo' = << >> /\ result' = "failed" /\ at' = "start"
    BY <1>6 DEF Exit
  <2>2. QED
    BY <1>4, <2>1 DEF RunFits, PassedIsConsistent, BuildSteps
<1>7. CASE UNCHANGED <<todo, result>>
  <2>1. Len(todo) # 1
    BY <1>1, <1>2, LastProgram DEF Builds
  <2>2. at' \in BuildSteps => touched' \subseteq changed
    <3>1. touched' = {} \/ (touched' = touched /\ at \in BuildSteps)
      BY <1>1, <1>2, <1>7, NextProgram
      DEF StartBuild, ReadEntry, OpenZip, WriteEntry, WriteSidecar, WriteAssetManifest,
          WriteProvenance, Building, Exit, GoTo, BuildSteps
    <3>2. QED
      BY <1>2, <3>1 DEF RunFits
  <2>3. ASSUME changed = {} PROVE Established'
    <3>1. Established
      BY <1>1, <1>2, <2>3 DEF RunFits
    <3>2. QED
      BY <1>3, <1>7, <3>1 DEF Established, GatePasses, Manifested, Tested, Listed, ToRun
  <2>4. RunFits'
    BY <1>1, <1>2, <1>3, <1>7, <2>1, <2>2, <2>3 DEF RunFits
  <2>5. QED
    BY <1>2, <1>4, <1>7, <2>4 DEF PassedIsConsistent
<1>8. QED
  BY <1>5, <1>6, <1>7 DEF StartBuild, ReadEntry, OpenZip, WriteEntry, WriteSidecar,
                          WriteAssetManifest, WriteProvenance, GoTo

(* People: whoever edits while a script runs has disturbed it; whoever     *)
(* begins one finds all its gates ahead.                                   *)
LEMMA PeoplePass ==
    ASSUME PassInv,
           \/ \E f \in Edited : Edit(f)
           \/ Litter \/ Materialize \/ Kill
           \/ \E t \in BOOLEAN : Commit(t)
           \/ \E s \in Scripts : Begin(s)
    PROVE  (MetadataFits /\ RunFits /\ PassedIsConsistent)'
<1>1. RunFits /\ MetadataFits /\ TreeFits /\ AtFits /\ PassedIsConsistent
  BY DEF PassInv, IInv
<1>2. ASSUME NEW f \in Edited, Edit(f) PROVE (MetadataFits /\ RunFits /\ PassedIsConsistent)'
  <2>1. /\ tree' = [tree EXCEPT ![f] = @ + 1]
        /\ UNCHANGED <<todo, at, result, dist>>
        /\ changed' = IF todo # << >> THEN changed \cup {f} ELSE changed
        /\ touched' \subseteq touched \cup {f}
        /\ torn' = (torn \/ (f = "lock" /\ at = "attest"))
    BY <1>2 DEF Edit
  <2>2. /\ tree'["attestation"] = tree["attestation"] /\ tree'["sbom"] = tree["sbom"]
        /\ tree["lock"] \in Nat
        /\ tree'["lock"] = IF f = "lock" THEN tree["lock"] + 1 ELSE tree["lock"]
    BY <1>1, <2>1 DEF TreeFits, Edited
  <2>3. MetadataFits'
    <3>1. ~torn' => ~torn /\ ~(f = "lock" /\ at = "attest")
      BY <2>1
    <3>2. CASE f = "lock"
      BY <1>1, <2>1, <2>2, <3>1, <3>2 DEF MetadataFits
    <3>3. CASE f # "lock"
      BY <1>1, <2>1, <2>2, <3>1, <3>3 DEF MetadataFits
    <3>4. QED
      BY <3>2, <3>3
  <2>4. CASE todo = << >>
    <3>1. at = "start" /\ torn' = (torn \/ FALSE) /\ changed' = changed
      BY <1>1, <2>1, <2>4 DEF AtFits
    <3>2. RunFits'
      BY <2>1, <2>4, <3>1 DEF RunFits, BuildSteps
    <3>3. PassedIsConsistent'
      BY <1>1, <2>1, <3>1 DEF PassedIsConsistent, Accepted, ManifestAccepted,
                              ProvenanceAccepted, Listed
    <3>4. QED
      BY <2>3, <3>2, <3>3
  <2>5. CASE todo # << >>
    <3>1. changed' = changed \cup {f}
      BY <2>1, <2>5
    <3>2. RunFits'
      BY <1>1, <2>1, <2>5, <3>1 DEF RunFits
    <3>3. PassedIsConsistent'
      BY <1>1, <2>1, <2>5 DEF PassedIsConsistent, RunFits
    <3>4. QED
      BY <2>3, <3>2, <3>3
  <2>6. QED
    BY <2>4, <2>5
<1>3. CASE Litter \/ Materialize \/ \E t \in BOOLEAN : Commit(t)
  <2>1. todo = << >> /\ UNCHANGED toolVars
    BY <1>3 DEF Litter, Materialize, Commit
  <2>2. tree' = tree \/ \E f \in {"stray", "dotfiles"} : tree' = With(tree, f, 0)
    BY <1>3 DEF Litter, Materialize, Commit
  <2>3. /\ tree'["attestation"] = tree["attestation"] /\ tree'["sbom"] = tree["sbom"]
        /\ tree'["lock"] = tree["lock"]
    BY <1>1, <2>2 DEF TreeFits, Edited, With
  <2>4. MetadataFits'
    BY <1>1, <2>1, <2>3 DEF MetadataFits, toolVars
  <2>5. at = "start"
    BY <1>1, <2>1 DEF AtFits
  <2>6. RunFits'
    BY <2>1, <2>5 DEF RunFits, BuildSteps, toolVars
  <2>7. PassedIsConsistent'
    BY <1>1, <2>1 DEF PassedIsConsistent, Accepted, ManifestAccepted, ProvenanceAccepted,
                      Listed, toolVars
  <2>8. QED
    BY <2>4, <2>6, <2>7
<1>4. CASE Kill
  <2>1. todo' = << >> /\ at' = "start" /\ result' = "failed" /\ UNCHANGED <<tree, torn>>
    BY <1>4 DEF Kill
  <2>2. QED
    BY <1>1, <2>1 DEF MetadataFits, RunFits, PassedIsConsistent, BuildSteps
<1>5. ASSUME NEW s \in Scripts, Begin(s) PROVE (MetadataFits /\ RunFits /\ PassedIsConsistent)'
  <2>1. /\ todo' = s /\ result' = "running" /\ todo = << >>
        /\ UNCHANGED <<tree, at, torn>>
    BY <1>5 DEF Begin
  <2>2. at' = "start"
    BY <1>1, <2>1 DEF AtFits
  <2>3. /\ Orderly(s) /\ \A p \in {"vectors", "gate", "verify"} : Later(s, 0, p)
    BY ScriptsAssumption
  <2>4. Established'
    BY <2>1, <2>3 DEF Established, ToRun, Later
  <2>5. Len(s) # 1
    BY <2>3 DEF Later, Orderly
  <2>6. RunFits'
    BY <2>1, <2>2, <2>3, <2>4, <2>5 DEF RunFits, BuildSteps
  <2>7. QED
    BY <1>1, <2>1, <2>2, <2>6 DEF MetadataFits, PassedIsConsistent
<1>6. QED
  BY <1>2, <1>3, <1>4, <1>5

(* The repository as it is cloned, and what an earlier build of it left.   *)
LEMMA PassInit == Init => MetadataFits /\ RunFits /\ PassedIsConsistent
<1> SUFFICES ASSUME Init PROVE MetadataFits /\ RunFits /\ PassedIsConsistent
  OBVIOUS
<1> DEFINE base == [code |-> 0, lock |-> 0, rest |-> 0, vectors |-> VectorsOf[0], sbom |-> 0]
           written == [code |-> 0, vectors |-> VectorsOf[0], lock |-> 0, sbom |-> 0,
                       measured |-> 0, evaluated |-> 0]
           att == With(base, "attestation", written)
           src == With(att, "source", Sourced(att))
<1>1. /\ base["code"] = 0 /\ base["lock"] = 0 /\ base["rest"] = 0
      /\ base["vectors"] = VectorsOf[0] /\ base["sbom"] = 0
      /\ DOMAIN base = {"code", "lock", "rest", "vectors", "sbom"}
      /\ written.code = 0 /\ written.lock = 0 /\ written.sbom = 0
      /\ written.vectors = VectorsOf[0]
  OBVIOUS
<1> HIDE DEF base, written
<1>2. /\ att["code"] = 0 /\ att["lock"] = 0 /\ att["rest"] = 0
      /\ att["vectors"] = VectorsOf[0] /\ att["sbom"] = 0 /\ att["attestation"] = written
      /\ DOMAIN att = DOMAIN base \cup {"attestation"}
  BY <1>1 DEF With
<1> HIDE DEF att
<1>3. /\ src["code"] = 0 /\ src["lock"] = 0 /\ src["rest"] = 0
      /\ src["vectors"] = VectorsOf[0] /\ src["sbom"] = 0 /\ src["attestation"] = written
      /\ DOMAIN src = DOMAIN att \cup {"source"}
  BY <1>1, <1>2 DEF With
<1> HIDE DEF src
<1>4. Checkout = With(src, "manifest", Listed(src))
  BY DEF Checkout, src, att, base, written
<1>5. /\ DOMAIN Checkout = DOMAIN src \cup {"manifest"}
      /\ Checkout["manifest"] = Listed(src)
      /\ \A f \in DOMAIN src : Checkout[f] = src[f]
      /\ {"manifest", "dotfiles"} \cap DOMAIN src = {}
  BY <1>1, <1>2, <1>3, <1>4 DEF With
<1>6. /\ tree["code"] = 0 /\ tree["lock"] = 0 /\ tree["rest"] = 0
      /\ tree["vectors"] = VectorsOf[0] /\ tree["sbom"] = 0 /\ tree["attestation"] = written
      /\ tree["manifest"] = Listed(src)
      /\ DOMAIN tree \ {"manifest", "dotfiles"} = DOMAIN src
      /\ \A f \in DOMAIN src : tree[f] = src[f]
  BY <1>1, <1>2, <1>3, <1>5 DEF Init, With
<1>7. Listed(tree) = Listed(src)
  BY <1>5, <1>6 DEF Listed, Restrict
<1>8. MetadataFits
  BY <1>1, <1>6 DEF MetadataFits
<1>9. RunFits
  BY DEF Init, RunFits, BuildSteps
<1>10. PassedIsConsistent
  <2>1. CASE dist = << >>
    BY <2>1 DEF PassedIsConsistent
  <2>2. CASE dist = Assets(tree)
    <3>1. /\ dist["zip"] = tree /\ dist["sidecar"] = tree
          /\ dist["manifest"] = [asset |-> tree, entries |-> tree]
          /\ DOMAIN dist = {"zip", "sidecar", "manifest", "provenance"}
          /\ dist["provenance"].subject = tree /\ dist["provenance"].source = tree
          /\ dist["provenance"].byproducts = <<tree, [asset |-> tree, entries |-> tree]>>
      BY <2>2 DEF Assets
    <3>2. Accepted(dist)
      BY <3>1 DEF Accepted, ManifestAccepted, ProvenanceAccepted
    <3>3. /\ <<tree["code"], tree["rest"]>> \in Passing
          /\ tree["attestation"].code = tree["code"]
          /\ tree["attestation"].vectors = tree["vectors"]
          /\ tree["vectors"] = VectorsOf[tree["code"]]
          /\ tree["sbom"] = tree["lock"] /\ tree["manifest"] = Listed(tree)
      BY <1>1, <1>6, <1>7, PassingAssumption
    <3>4. QED
      BY <3>1, <3>2, <3>3 DEF PassedIsConsistent
  <2>3. QED
    BY <2>1, <2>2 DEF Init
<1>11. QED
  BY <1>8, <1>9, <1>10

(* A script that passes undisturbed, after any edits, commits, kills and   *)
(* scripts before it: the archive it leaves is accepted and consistent,    *)
(* whatever order its programs run in, as long as what writes vectors or   *)
(* metadata comes before the gate and the verification of the manifest,    *)
(* and these before the build (release_gate, verify_manifest).             *)
THEOREM PassedScriptsAreConsistent == Spec => []PassedIsConsistent
<1>1. Init => PassInv
  BY InvInit, PassInit DEF PassInv
<1>2. PassInv /\ [Next]_vars => PassInv'
  <2> SUFFICES ASSUME PassInv, [Next]_vars PROVE PassInv'
    OBVIOUS
  <2>1. IInv'
    BY InvStep DEF PassInv
  <2>2. CASE UNCHANGED vars
    BY <2>1, <2>2 DEF PassInv, vars, toolVars, MetadataFits, RunFits, PassedIsConsistent,
       Established, Archived, Tested, GatePasses, Manifested, ToRun, Listed,
       Accepted, ManifestAccepted, ProvenanceAccepted
  <2>3. CASE Next
    <3>1. (MetadataFits /\ RunFits /\ PassedIsConsistent)'
      BY <2>3, PeoplePass, ReportersPass, WritersPass, BuildsPass DEF Next
    <3>2. QED
      BY <2>1, <3>1 DEF PassInv
  <2>4. QED
    BY <2>2, <2>3
<1>3. QED
  BY <1>1, <1>2, PTL DEF Spec, PassInv
=============================================================================
