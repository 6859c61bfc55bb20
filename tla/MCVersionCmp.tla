---------------------------- MODULE MCVersionCmp ----------------------------
(***************************************************************************)
(* debcmp() on all version strings up to a length over digits, a colon, a  *)
(* tilde, a letter and "+", against the order of deb-version(5).           *)
(***************************************************************************)
EXTENDS VersionOrder

\* versioncmp.c, lines 20 and 33-35: "See deb-version(5) for the full details of
\* comparing Debian version strings"; "The numerical values of these two parts are
\* compared, and any difference found is returned".  The code counts the digits, zeros
\* in front included, and finds "00" newer than "0" and "01" newer than "2"; it finds a
\* version with an epoch of 0 newer than any without an epoch.
FollowsPolicy == Legal(x) /\ Legal(y) => Agrees
=============================================================================
