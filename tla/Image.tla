-------------------------------- MODULE Image --------------------------------
(****************************************************************************)
(* The program memory.  A test loads one program, its image, before the     *)
(* reset ends; the modules of the programs extend this one, so that one     *)
(* specification can run them all, each in a behaviour of its own.          *)
(****************************************************************************)

VARIABLE image   \* the name of the program that is loaded

Runs(name) == image = name

(* A program that is not loaded chooses nothing.                            *)
Choice(name, S) == IF Runs(name) THEN S ELSE {CHOOSE x \in S : TRUE}

==============================================================================
