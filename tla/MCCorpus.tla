------------------------------ MODULE MCCorpus ------------------------------
(***************************************************************************)
(* Two tractates of two chapters, the text and one commentary.             *)
(***************************************************************************)
EXTENDS Corpus

MCSlugs == <<"berakhot", "peah">>
MCTitles == <<"mishnah", "bartenura">>
First == <<1, 1>>
Second == <<2, 1>>
MCPlaces == {First, Second}

\* The first mishnah has a comment of the second chapter too.
MCLinks == [m \in MCPlaces |-> IF m = First THEN MCPlaces ELSE {Second}]

\* A tractate whose editions overlap and are more than are asked for, without a
\* commentary; or a complete one, with a commentary on one chapter.
MCLibraries ==
    {[mishnah |-> <<{Second}, MCPlaces, {First}>>, bartenura |-> <<>>],
     [mishnah |-> <<MCPlaces>>, bartenura |-> <<{First}>>]}

=============================================================================
