------------------------------ MODULE MCOnlineRun ------------------------------
(***************************************************************************)
(* Two lifecycles on one port and device, two requests each, one server    *)
(* that dies by itself and one runner that is killed.                      *)
(***************************************************************************)
EXTENDS OnlineRun, Sequences

MCLoad == <<1, 2>>
===============================================================================
