------------------------------ MODULE MCFileIO ------------------------------
(* A small instance of FileIO: two file operations and standard output.    *)
EXTENDS FileIO
=============================================================================
