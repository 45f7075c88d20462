-------------------------- MODULE MCCollectionSync --------------------------
(***************************************************************************)
(* Small instances of CollectionSync for TLC.  The largest has two folders,*)
(* f1 with two pages and f2 with one, an instance of a different release   *)
(* on each page; an instance i4 that its owner has parted with; on page 1  *)
(* of f1 an instance i5 with no release id, and in f2 a second one, i6.    *)
(* The others leave folders or instances out.                              *)
(***************************************************************************)
EXTENDS CollectionSync, TLC

CONSTANTS p1, c1, c2, f1, f2, i1, i2, i3, i4, i5, i6, r1, r2, r3

MCReleaseOf ==
  [i \in Item |-> CASE i = i2 -> r2 [] i = i3 -> r3 [] OTHER -> r1]
MCCollection ==
  [i \in Item |-> CASE i \in {i3, i6} -> f2 [] i = i4 -> NoFolder [] OTHER -> f1]
MCPageOf == [i \in Item |-> IF i = i2 THEN 2 ELSE 1]
MCLastPage == [f \in Folder |-> IF f = f1 THEN 2 ELSE 1]

NoRows == {{}}
AllRows == {Release}
AllOrFewRows == {Release, {r1}}
AllFolders == {Folder}
StoredFolders == {{f1}, Folder}

\* The user's rows: none, those of the collection at Discogs, or those an
\* earlier sync left: i1 in a wrong folder, i2 and i3 right, i4 gone since, i6 unknown.
NothingOwned == {[i \in Item |-> NoFolder]}
AllOwned == {MCCollection}
EarlierSync ==
  {[i \in Item |-> CASE i = i6 -> NoFolder [] i \in {i2, i4} -> f1 [] OTHER -> f2]}
EarlierOrNothing == EarlierSync \cup NothingOwned
=============================================================================
