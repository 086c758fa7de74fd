----------------------------- MODULE MCExplorer -----------------------------
EXTENDS Explorer
MCTree == (<<>> :> Dir) @@ (Trash :> Dir) @@ (<<3>> :> Dir) @@ (<<1>> :> "x1") @@ (<<2>> :> "x2") @@ (<<3, 1>> :> "x3")
MCTyped == {<<1>>, <<4>>, <<3, 2>>}
Careful == ~rash /\ ~failed
=============================================================================
