------------------------- MODULE MCClientInventory --------------------------
(* ClientInventory with two programs, one of them in two versions.          *)
EXTENDS ClientInventory

CONSTANTS Editor, Runtime, V1, V2

\* Nothing; one program; another version of it beside a second program; two
\* versions side by side.
Versioned ==
    {{<<Runtime, V1>>}, {<<Runtime, V2>>, <<Editor, V1>>}, {<<Runtime, V1>>, <<Runtime, V2>>}}

\* And a program that reports no version.
WithBlank == Versioned \cup {{<<Runtime, V1>>, <<Editor, Blank>>}}

=============================================================================
