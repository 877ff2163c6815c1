------------------------------ MODULE MCChunking ------------------------------
(***************************************************************************)
(* Instance of Chunking for TLC: files of up to three parts, so that a      *)
(* Markdown file can repeat a heading; sections of no word, of fewer words  *)
(* than a window, of exactly a window, and of several windows with and      *)
(* without a shorter last one; every sort of valid and refused setting.     *)
(***************************************************************************)
EXTENDS Chunking

MCWordCounts      == {0, 2, 5}
MCMaxParts        == 3
MCSizeSettings    == {Unset, NotANumber, 0, 1, 2, 4}
MCOverlapSettings == {Unset, NotANumber, -1, 0, 2}
MCDefaultSize     == 3
MCDefaultOverlap  == 1
==============================================================================
