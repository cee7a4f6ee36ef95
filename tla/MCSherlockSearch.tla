-------------------------- MODULE MCSherlockSearch --------------------------
(***************************************************************************)
(* Two searches for one username, a reader of it, and a reader of another,  *)
(* over a pool of one connection and one more in overflow.                  *)
(***************************************************************************)
EXTENDS SherlockSearch, TLC

CONSTANTS first, second, reader, stranger, alice, bob

MCSearchers == {first, second}
MCReaders   == {reader, stranger}
MCRequests  == MCSearchers \cup MCReaders
MCUserOf    == first :> alice @@ second :> alice @@ reader :> alice @@ stranger :> bob
=============================================================================
