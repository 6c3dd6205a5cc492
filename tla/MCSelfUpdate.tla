---------------------------- MODULE MCSelfUpdate ----------------------------
(* Instances of SelfUpdate for TLC; sets of releases for the .cfg files. *)
EXTENDS SelfUpdate

V1 == <<1, "final">>
V2 == <<2, "final">>
V3 == <<3, "final">>
V2rc == <<2, "rc">>

TwoReleases == {V1, V2}
FourReleases == {V1, V2rc, V2, V3}
NextSick == {V2}
LastCrashes == {V3}
NextCrashes == {V2}
NoReleases == {}

=============================================================================
