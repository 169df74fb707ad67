------------------------------- MODULE Absent -------------------------------
(***************************************************************************)
(* The value that stands for Rust's Option::None, and for a key that is    *)
(* not in a file, in the modules of the stores.                            *)
(***************************************************************************)
CONSTANT None
=============================================================================
