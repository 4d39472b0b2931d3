------------------------------ MODULE MCJobLease -------------------------------
(* A small instance of JobLease for TLC.                                    *)
EXTENDS JobLease

(* Two rows for a first pass, one for a second. *)
ThreeRows == {<<1, 1>>, <<1, 2>>, <<2, 1>>}

================================================================================
