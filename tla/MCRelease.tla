----------------------------- MODULE MCRelease -----------------------------
(* Three scripts of the repository, each up to the programs that read or   *)
(* write something of the model.                                           *)
EXTENDS Release, TLC

(* docs/RELEASE_PUBLISHING_PROTOCOL_v2_2_6.md *)
Publishing == <<"clean", "vectors", "packet", "tests", "coverage", "manifest", "verify",
                "gate", "build", "check">>

(* make qa-full, and a build bound to the commit *)
Preflight == <<"demos", "vectors", "tests", "packet", "gate", "verify", "coverage",
               "bound", "check">>

(* docs/REPRODUCIBILITY.md, github-ui-files/workflows/qa.yml *)
Certified == <<"generate", "manifest", "clean">> \o Preflight

AllScripts == {Publishing, Preflight, Certified}
OnlyCertified == {Certified}
Sound == {<<0, 0>>, <<1, 0>>, <<1, 1>>, <<2, 0>>}
Written == 0 :> 0 @@ 1 :> 0 @@ 2 :> 2
============================================================================
