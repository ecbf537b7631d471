--------------------------- MODULE MCFragReadTest --------------------------
(* Disks of up to 20 small files, and one of 15: with the file that finds   *)
(* no space, 16 files.  Calls with and without clean-up, and wrong ones.    *)
EXTENDS FragReadTest
MCCapacities == {0, 1, 2, 5, 7, 10, 12, 19}
MCSixteen == {15}
MCArgVectors == {<<>>, <<"-h">>, <<"--no-clean", "/mnt">>, <<"/mnt">>, <<"--no-cleanup", "/mnt">>, <<"/mnt", "/mnt">>}
\* Where it draws for ever there are 2^30 states that differ in the draws only.
NotInVain == ~DrawsInVain
MCOneCall == {<<"/mnt">>}
=============================================================================
