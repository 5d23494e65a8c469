----------------------------- MODULE MCRendering -----------------------------
(* An instance for TLC: three texts, of which two come out alike when set, and
   two versions of the tool that the step admits, of which one
   contains the other's name and alone can provision. *)
EXTENDS Rendering

MCShows       == <<1, 1, 3>>
MCToolVersion == {<<1, 0>>, <<1, 0, 2>>}
MCPin         == <<1, 0, 2>>
MCRequires    == [form |-> "caret", parts |-> <<1>>]
MCHost        == [form |-> "minimum", parts |-> <<1, 0, 1>>]
=============================================================================
