--------------------------- MODULE MCPromptAdapters ---------------------------
(***************************************************************************)
(* Two tasks; two requests in one context show a leak from one into the    *)
(* next, two prompts of one request a shift between them.                  *)
(***************************************************************************)
EXTENDS PromptAdapters, TLC

TaskSymmetry == Permutations(Tasks)
===============================================================================
