----------------------------- MODULE MCUserData -----------------------------
(* Small instances of UserData for TLC. *)
EXTENDS UserData, TLC

CONSTANTS r1, r2, r3, p1, p2, c1, c2, s1, s2, Crate

MCFolder == {All, Crate}
MCExisting == {"account", "collection", All, p1, c1, s1}

Readers == {GetUser, ListStyluses}
Profile ==
  {HandleOIDCCallback, LogoutUser(TRUE), UpdateDiscogsToken, UpdateSelectedFolder(Crate),
   UpdateUserPreferences(1), ProcessFoldersResponse(<<All, Crate>>), ProcessFoldersResponse(<<Crate>>)}
History ==
  {LogPlay(p2), UpdatePlay(p1), DeletePlay(p1), LogCleaning(c2), UpdateCleaning(c1), DeleteCleaning(c1),
   LogBoth(p2, c2), ExecuteSyncOperations,
   CreateUserStylus(s2, TRUE), CreateUserStylus(s2, FALSE), UpdateUserStylus(s1, TRUE),
   UpdateUserStylus(s1, FALSE), DeleteUserStylus(s1)}
Handlers == Readers \cup Profile \cup History

\* Any two requests, and three at a time of those that meet in one entry.
MCWorkload ==
  LET Mix(a, b, c) == [r \in Req |-> CASE r = r1 -> a [] r = r2 -> b [] r = r3 -> c] IN
  {Mix(a, b, <<>>) : a \in Handlers, b \in Handlers} \cup
  {Mix(GetUser, UpdateUserPreferences(1), b) :
     b \in {UpdateSelectedFolder(Crate), HandleOIDCCallback, UpdateDiscogsToken}} \cup
  {Mix(GetUser, a, b) : a \in {LogBoth(p2, c2), UpdatePlay(p1)},
                        b \in {DeletePlay(p1), ExecuteSyncOperations}} \cup
  {Mix(CreateUserStylus(s2, TRUE), UpdateUserStylus(s1, TRUE), b) :
     b \in {ListStyluses, DeleteUserStylus(s1)}} \cup
  {Mix(GetUser, ProcessFoldersResponse(<<All>>), UpdateSelectedFolder(Crate))}

Symmetric == Permutations(Req)

=============================================================================
