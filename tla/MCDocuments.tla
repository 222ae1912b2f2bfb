---------------------------- MODULE MCDocuments ----------------------------
(* Documents of up to four lines, in chunks of two lines or two bytes, and *)
(* lines that alone exceed that.                                           *)
EXTENDS Documents
============================================================================
