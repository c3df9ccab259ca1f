----------------------------- MODULE MCRegistry -----------------------------
(***************************************************************************)
(* Registry with two threads; the level specifications name a logger, the  *)
(* global level or both, with blanks, in capitals, twice and misspelt.     *)
(***************************************************************************)
EXTENDS Registry

MCLevelSpecs == {<<"n", "=", "debug">>,
                 <<"n", "=", "DEBUG", ",", "info">>,
                 <<" ", "n", " ", "=", "debug", ",", "n", "=", "junk", ",", ",", "debug">>,
                 <<"debug", ",", " ">>}
=============================================================================
