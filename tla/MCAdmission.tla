---------------------------- MODULE MCAdmission -----------------------------
(* Small instances of Admission: connections of every kind of header, and  *)
(* one with two transfers only.                                            *)
EXTENDS Admission

MCHeader == <<"transfer", "silent", "transfer", "health">>
MCTransfers == <<"transfer", "transfer">>
=============================================================================
