--------------------------- MODULE MCJavaBindings ----------------------------
(* Values for model checking JavaBindings: an archive with one article, a  *)
(* redirect to it and a redirect to itself.  "lower" has to be searched    *)
(* for in the titles, where both of its variants find the same entry; for  *)
(* "upper" the title index has an answer.                                  *)
EXTENDS JavaBindings, TLC

CONSTANTS article, redirect, loop, lower, upper

AnItem(norm, path) == [norm |-> norm, path |-> path]

MCItem == {AnItem(1, article), AnItem(1, loop), AnItem(2, article)}
MCByTitle ==
    NoPrefix :> <<>>
    @@ lower :> <<AnItem(2, article)>>
    @@ upper :> <<AnItem(2, article), AnItem(1, article), AnItem(1, loop)>>
MCFullText ==
    NoPrefix :> <<>> @@ lower :> <<>> @@ upper :> <<AnItem(2, article), AnItem(1, loop)>>
MCVariants ==
    NoPrefix :> <<NoPrefix>> @@ lower :> <<lower, upper>> @@ upper :> <<upper, lower>>

MCRedirect == redirect :> article @@ loop :> loop
MCSize == article :> 2
=============================================================================
