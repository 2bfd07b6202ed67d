------------------------------ MODULE MCDedupe ------------------------------
(* Instances of Dedupe for TLC.                                            *)
EXTENDS Dedupe, TLC

CONSTANTS inbox, home, work, m1, m2, p1, p2, p3, c1, c2

ThreeFolders == {inbox, home, work}
TwoFolders == {inbox, home}
ByType == (inbox :> "inbox") @@ (home :> "custom") @@ (work :> "custom")

\* Three rows of one mail, which only together are seen to be one, and a row of another
\* mail that has the same UID as one of them in its own folder.
MixedIds == <<m1, m1, None, None>>
MixedUids == <<1, 2, 3, 3>>
MixedPrints == <<p1, p2, p2, p3>>
MixedMails == <<c1, c1, c1, c2>>

\* Two drafts, scheduled with the same subject and recipients and different bodies.
NoIds == <<None, None>>
SamePrints == <<p1, p1>>
TwoMails == <<c1, c2>>

RunSymmetry == Permutations(Runs)
=============================================================================
