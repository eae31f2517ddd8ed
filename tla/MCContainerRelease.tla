------------------------- MODULE MCContainerRelease -------------------------
(***************************************************************************)
(* Small instances of the image release: two runs, two platforms.          *)
(***************************************************************************)
EXTENDS ContainerRelease

CONSTANTS r1, r2
Runs == {r1, r2}

How(on, c, push, hub) == [on |-> on, commit |-> c, push |-> push, hub |-> hub]

(* A push to the default branch beside another one, which publishes to     *)
(* both registries or has a Dockerfile that names its base by a tag; or    *)
(* beside the release of a tag, of the same commit but refused Docker Hub, *)
(* or of another one; or beside a pull request (c3 is its merge commit)    *)
(* whose caller asks for a push.                                           *)
Mixed == [r \in Runs |->
  IF r = r1 THEN {How("branch", "c2", TRUE, "missing")}
  ELSE {How("branch", "c1", TRUE, "on"), How("branch", "c4", TRUE, "off"),
        How("tag", "c2", TRUE, "refused"), How("tag", "c5", TRUE, "off"),
        How("pull_request", "c3", TRUE, "off")}]

TwoPushes == [r \in Runs |-> {How("branch", IF r = r1 THEN "c1" ELSE "c2", TRUE, "off")}]

(* On the newer base commit c4 does not pass its checks on one of the      *)
(* platforms.                                                              *)
NotOnArm == [x \in Commit \X Platform \X (0..MaxBase) |-> x # <<"c4", "arm", 1>>]
AllPass  == [x \in Commit \X Platform \X (0..MaxBase) |-> TRUE]
=============================================================================
