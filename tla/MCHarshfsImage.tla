-------------------------- MODULE MCHarshfsImage --------------------------
(* TLC instance of HarshfsImage: four nodes make each shape of up to three  *)
(* children or levels; three names collide with a parent and with siblings; *)
(* data of 0 and of 3 bytes, none, and invalid data.  A node has 10 bytes,  *)
(* more than a file's two magic numbers.                                    *)
EXTENDS HarshfsImage

MCSizes == {0, 3}
===========================================================================
