--------------------------- MODULE MCLoaderUpdate ---------------------------
(* The loader update on small instances.                                   *)
EXTENDS LoaderUpdate

CONSTANTS old, new

TwoVersions == {old, new}

(* One update; a list with a line that is no command; two updates.         *)
UpdateLists ==
    {<<"update-bootloader">>, <<"other", "update-bootloader">>,
     <<"update-bootloader", "update-bootloader">>}
OneUpdate == {<<"update-bootloader">>}
=============================================================================
