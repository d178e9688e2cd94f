------------------------------- MODULE Patch --------------------------------
(***************************************************************************)
(* The trait Patchable of the model classes.  A field holds a value or     *)
(* None; an empty list is None too.                                        *)
(***************************************************************************)
CONSTANT None

reduceLeft(x, y) == IF x = None THEN y ELSE x

reduceRight(x, y) == IF y = None THEN x ELSE y

\* "Every field of the current instance is replaced with the corresponding
\* field of the diff, if the current instance's field is None or Nil."
patchLeft(current, diff) ==
    [f \in DOMAIN current |-> reduceLeft(current[f], diff[f])]

\* "... except when the diff's field is None or Nil."
patchRight(current, diff) ==
    [f \in DOMAIN current |-> reduceRight(current[f], diff[f])]
=============================================================================
