------------------------------ MODULE MCPaging ------------------------------
(* TLC instance of Paging: tables of five entries; the image's header and    *)
(* footer anywhere in the window, also before IMAGE_START (not found) and    *)
(* the footer before the header.                                            *)
EXTENDS Paging
=============================================================================
