--------------------------- MODULE MCLocalSource ---------------------------
(***************************************************************************)
(* Instance for TLC: a source under a private and a public prefix, one     *)
(* that names the repository, and names that no mapping, or none of the    *)
(* probing ones, matches.                                                  *)
(***************************************************************************)
EXTENDS LocalSource, TLC

CONSTANTS r1, r2, alice, guest, repository, elsewhere

Prefix(origin, path) == [origin |-> origin, path |-> path]
Mapping(prefix, ocfl, probe) == [prefix |-> prefix, ocfl |-> ocfl, probe |-> probe]

\* /fedora is an OCFL root, /fedora/files a directory, and the second of them public.
ProbedThenPublic ==
  << Mapping(Prefix(None, <<"fedora">>), TRUE, TRUE),
     Mapping(Prefix(None, <<"private">>), FALSE, TRUE),
     Mapping(Prefix(repository, <<"fedora", "files">>), FALSE, FALSE) >>

Names ==
  { Prefix(repository, <<"fedora", "files", "a">>),
    Prefix(repository, <<"private", "a">>),
    Prefix(elsewhere, <<"private", "a">>),
    Prefix(None, <<"a">>) }

Symmetry == Permutations({r1, r2})
============================================================================
