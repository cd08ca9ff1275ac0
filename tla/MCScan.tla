------------------------------- MODULE MCScan -------------------------------
(***************************************************************************)
(* Model-checking instances of Scan: a root with a directory and an entry  *)
(* of any kind in it, links to every path there is, to nowhere, to where   *)
(* they are, and out of the root, and a second source with an entry of the *)
(* same name.                                                              *)
(***************************************************************************)
EXTENDS Scan

R == <<"r">>    \* the first source
O == <<"o">>    \* outside of it, or the second source
MCPath == {R, <<"r", "d">>, <<"r", "d", "x">>, <<"r", "x">>, O, <<"o", "x">>}

Is(k) == [kind |-> k, to |-> NoPath]
Link(p) == [kind |-> "link", to |-> p]
LinksTo(targets) == {Link(p) : p \in targets}

\* r/d is a directory or a link, r/d/x and r/x are anything.
MCAllTrees ==
  {[p \in MCPath |-> CASE p = <<"r", "d">> -> d [] p = <<"r", "d", "x">> -> dx
                       [] p = <<"r", "x">> -> x [] p = <<"o", "x">> -> Is("file")
                       [] OTHER -> Is("dir")] :
     d \in {Is("dir")} \cup LinksTo({O}),
     dx \in {Missing, Is("file")} \cup LinksTo({R, <<"r", "x">>}),
     x \in {Is("file"), Is("special"), Missing}
           \cup LinksTo({<<"r", "d">>, <<"r", "d", "x">>, <<"o", "x">>, <<"r", "x">>})}

\* No child of a link.
MCTrees == {t \in MCAllTrees : IsTree(t)}

MCSources == {<<R>>, <<R, O>>, <<(<<"r", "x">>)>>}
MCOneSource == {<<R>>}
MCOptions == {o \in [symlinks : {"preserve", "follow", "skip"}, escape : BOOLEAN] :
                o.escape => o.symlinks = "follow"}
MCFollow == [symlinks : {"follow"}, escape : {FALSE}]
=============================================================================
