----------------------------- MODULE MCLauncher -----------------------------
(* Instances of Launcher for TLC. *)
EXTENDS Launcher

TheVersion == <<1, 2, 3>>

Package(name, size) == [name |-> name, urlName |-> name, size |-> size, package |-> TRUE]
Notes == [name |-> "notes", urlName |-> "notes", size |-> Bytes, package |-> FALSE]

\* Tags of a later revision, minor and major version, of the installed one, of
\* an earlier one with a greater part, of its candidate "3-rc1", of a number that
\* is no int, with two segments, with an empty one and with text.
Tags ==
  {<<1, 2, 4>>, <<1, 3, 0>>, <<2, 0, 0>>, <<1, 2, 3, NoDigits>>, <<0, 9, 0>>, <<1, 2, 31>>,
   <<1, 2, MaxInt + 1>>, <<2, 0>>, <<1, Empty, 2, 4>>, <<NoDigits, 2, 3>>}

\* Releases with no package, with one after other files, and with one whose
\* size is no number.
AssetLists ==
  {<<Notes>>, <<Notes, Package("a", Bytes)>>, <<Package("b", Bytes), Notes>>,
   <<Package("c", NoSize)>>}

TheReleases == [tag : Tags, assets : AssetLists]
=============================================================================
