------------------------------- MODULE Corpus -------------------------------
(***************************************************************************)
(* The texts: scripts/fetch_texts.py downloads each tractate from Sefaria  *)
(* into a file of its own, layering editions and reassembling books that   *)
(* the gateway refuses, and services/texts.py serves the files from a      *)
(* cache.  Sefaria answers a request, refuses it, or says that the book    *)
(* does not exist.  Runs of the script crash and are started again.        *)
(*                                                                         *)
(* A body of text is known by the edition it comes from.                   *)
(***************************************************************************)
EXTENDS Naturals, SequencesExt, FiniteSetsExt

CONSTANTS Slugs,         \* tractates.json, in order
          Titles,        \* the books of a tractate: its own, then commentaries
          Places,        \* addresses <<chapter, number>> in any of the books
          Links,         \* the comments that the link graph anchors at a mishnah
          Libraries,     \* what Sefaria may hold
          Served,        \* the tractates that learners read
          MaxAlternates, \* MAX_ALTERNATES
          MaxRuns,       \* bound: runs of the script
          MaxCrashes     \* bound: crashes of a run

ASSUME CorpusAssumption ==
    /\ Slugs \in Seq(ToSet(Slugs)) /\ IsInjective(Slugs)
    /\ Titles \in Seq(ToSet(Titles)) /\ IsInjective(Titles)
    /\ Titles # <<>>
    /\ Libraries \subseteq [ToSet(Titles) -> Seq(SUBSET Places)]
    /\ Served \subseteq ToSet(Slugs)
    /\ \A place \in Places : place[1] \in Nat
    /\ Links \in [Places -> SUBSET Places]
    /\ MaxAlternates \in Nat

Chapters == {place[1] : place \in Places}

VARIABLES
    library,  \* of each title: its editions, the primary first, each the places
              \* it holds; no edition if the book does not exist
    disk,     \* of each tractate: its file
    cache,    \* of each tractate: what the application has read
    pc,       \* where the script is
    asked,    \* the tractates of this run
    position, \* how far it has come in tractates.json
    failed,   \* those it could not fetch
    linked,   \* the chapters of the tractate whose links came
    built,    \* the books of the tractate it has, one after the other
    found,    \* of the present book: the edition the body of each place is from
    used,     \* the editions that filled a gap
    tried,    \* how many alternates it has asked for
    layers,   \* what came of the book, the primary first
    runs, crashes

book == <<found, used, tried, layers>>
tractate == <<linked, built, book>>
vars == <<library, disk, cache, pc, asked, position, failed, tractate, runs,
          crashes>>

NoFile == [kind |-> "none"]
Unread == [kind |-> "unread"]
NoText == 0
NoBodies == [p \in Places |-> NoText]

Init ==
    /\ library \in Libraries
    /\ disk = [s \in ToSet(Slugs) |-> NoFile]
    /\ cache = [s \in Served |-> Unread]
    /\ pc = "off"
    /\ asked = {} /\ position = 1 /\ failed = {}
    /\ linked = {} /\ built = <<>>
    /\ found = NoBodies /\ used = {} /\ tried = 0 /\ layers = <<>>
    /\ runs = 0 /\ crashes = 0

-----------------------------------------------------------------------------
\* What fetch_edition returns when `answers` came: a layer names the edition of
\* the first chapter that came, and of each place holds the body, by the edition
\* it is from.  A book that comes whole is one whose chapters all come.
Assembled(title, answers) ==
    LET came == {c \in Chapters : answers[c] # NoText}
    IN  [edition |-> answers[Min(came)],
         bodies |-> [p \in Places |->
                        IF p[1] \in came /\ p \in library[title][answers[p[1]]]
                        THEN answers[p[1]] ELSE NoText]]

\* A book that is refused whole is asked for by chapters, each in one of the
\* editions asked for, and a chapter that is refused is empty.  Nothing comes if
\* every chapter is, or if there is no such book.
Came(title, editions) ==
    {Assembled(title, answers) :
        answers \in {a \in [Chapters -> {NoText} \cup editions] :
                        \E c \in Chapters : a[c] # NoText}}

\* The comments that the links of a tractate point at, chapters whose links did
\* not come left out.
Anchored(m) == IF m[1] \in linked THEN Links[m] ELSE {}

Book == Len(built) + 1
Title == Titles[Book]
Needed == IF Book = 1 THEN Places ELSE UNION {Anchored(m) : m \in Places}

Filled(bodies) == {p \in Places : bodies[p] # NoText}

Gaps(layer) == (Needed \cap Filled(layer.bodies)) \ Filled(found)

\* Fault: a later edition replaces what an earlier one held.
Overwrite(layer) ==
    /\ found' = [p \in Places |-> IF p \in Needed \cap Filled(layer.bodies)
                                  THEN layer.bodies[p] ELSE found[p]]
    /\ used' = used \cup {layer.edition}
    /\ layers' = Append(layers, layer)

\* Fault: the source of a book is that of its primary edition.
AbsorbUnnamed(layer) ==
    /\ found' = [p \in Places |-> IF p \in Gaps(layer) THEN layer.bodies[p]
                                  ELSE found[p]]
    /\ used' = IF used = {} THEN {layer.edition} ELSE used
    /\ layers' = Append(layers, layer)

\* Each edition fills only the gaps left by the ones before it, and is named in
\* the source if it filled one.
Absorb(layer) ==
    /\ found' = [p \in Places |-> IF p \in Gaps(layer) THEN layer.bodies[p]
                                  ELSE found[p]]
    /\ used' = used \cup {e \in {layer.edition} : Gaps(layer) # {}}
    /\ layers' = Append(layers, layer)

\* History: the editions of the chapters that the primary was put together from,
\* if it does not name them.
Pieces == UNION {ToSet(layers[i].bodies) \ {NoText, layers[i].edition} :
                    i \in {1} \cap DOMAIN layers}

\* The file of a tractate: for each mishnah its text, and the pieces of each
\* commentary that are anchored at it.
Payload ==
    [kind |-> "whole",
     text |-> built[1].bodies,
     comments |-> [m \in Places |->
        [i \in 2..Len(Titles) |->
            {built[i].bodies[p] :
                p \in Anchored(m) \cap Filled(built[i].bodies)}]],
     sources |-> [i \in DOMAIN Titles |-> built[i].source],
     pieces |-> [i \in DOMAIN Titles |-> built[i].pieces]]

-----------------------------------------------------------------------------
Slug == Slugs[position]

NewBook == found' = NoBodies /\ used' = {} /\ tried' = 0 /\ layers' = <<>>
NewTractate == linked' = {} /\ built' = <<>> /\ NewBook

\* python fetch_texts.py [slug ...]
Start ==
    /\ pc = "off"
    /\ runs < MaxRuns
    /\ asked' \in SUBSET ToSet(Slugs) \ {{}}
    /\ pc' = "entry"
    /\ runs' = runs + 1
    /\ position' = 1 /\ failed' = {}
    /\ UNCHANGED <<library, disk, cache, tractate, crashes>>

\* A tractate that the run was not asked for.
PassOver ==
    /\ pc = "entry"
    /\ position <= Len(Slugs)
    /\ Slug \notin asked
    /\ position' = position + 1
    /\ UNCHANGED <<library, disk, cache, pc, asked, failed, tractate, runs,
                   crashes>>

\* A chapter whose links are refused has none.
CollectLinks ==
    /\ pc = "entry"
    /\ position <= Len(Slugs)
    /\ Slug \in asked
    /\ \E chapters \in SUBSET Chapters : linked' = chapters
    /\ pc' = "primary"
    /\ UNCHANGED <<library, disk, cache, asked, position, failed, built, book,
                   runs, crashes>>

\* The book is done.
EndBook ==
    /\ built' = Append(built, [bodies |-> found, source |-> used,
                              pieces |-> Pieces])
    /\ NewBook
    /\ pc' = IF Book = Len(Titles) THEN "write" ELSE "primary"
    /\ UNCHANGED <<library, disk, cache, asked, position, failed, linked, runs,
                   crashes>>

\* version=source leaves the edition to Sefaria, chapter by chapter.
FetchPrimary ==
    /\ pc = "primary"
    /\ Needed # {}
    /\ library[Title] # <<>>
    /\ \E layer \in Came(Title, DOMAIN library[Title]) : Absorb(layer)
    /\ pc' = "alternates"
    /\ UNCHANGED <<library, disk, cache, asked, position, failed, linked, built,
                   tried, runs, crashes>>

\* A commentary that nothing points at, that does not exist, or did not come.
NoComments ==
    /\ pc = "primary"
    /\ Book > 1
    /\ EndBook

\* Fault: the tractate after one that failed is skipped.
SkipsAfterFailure ==
    /\ pc = "primary"
    /\ Book = 1
    /\ failed' = failed \cup {Slug}
    /\ position' = position + 2
    /\ pc' = "entry"
    /\ NewTractate
    /\ UNCHANGED <<library, disk, cache, asked, runs, crashes>>

\* Fault: a tractate that failed is tried again at once.
BookTriedAgain ==
    /\ pc = "primary"
    /\ Book = 1
    /\ failed' = failed \cup {Slug}
    /\ pc' = "entry"
    /\ NewTractate
    /\ UNCHANGED <<library, disk, cache, asked, position, runs, crashes>>

\* The text itself did not come: the tractate is left as it was.
BookFailed ==
    /\ pc = "primary"
    /\ Book = 1
    /\ failed' = failed \cup {Slug}
    /\ position' = position + 1
    /\ pc' = "entry"
    /\ NewTractate
    /\ UNCHANGED <<library, disk, cache, asked, runs, crashes>>

MoreAlternates ==
    /\ tried < Min({MaxAlternates, Len(library[Title]) - 1})
    /\ ~(Needed \subseteq Filled(found))

\* The next edition that is not the one the primary names.
Alternate == IF tried + 1 < layers[1].edition THEN tried + 1 ELSE tried + 2

FetchAlternate ==
    /\ pc = "alternates"
    /\ MoreAlternates
    /\ tried' = tried + 1
    /\ \/ \E layer \in Came(Title, {Alternate}) : Absorb(layer)
       \/ UNCHANGED <<found, used, layers>>  \* it did not come
    /\ UNCHANGED <<library, disk, cache, pc, asked, position, failed, linked,
                   built, runs, crashes>>

EndAlternates ==
    /\ pc = "alternates"
    /\ ~MoreAlternates
    /\ EndBook

\* The file is truncated when it is opened.
OpenFile ==
    /\ pc = "write"
    /\ disk' = [disk EXCEPT ![Slug] = [kind |-> "empty"]]
    /\ pc' = "writing"
    /\ UNCHANGED <<library, cache, asked, position, failed, tractate, runs,
                   crashes>>

\* What a file nobody reads holds is left out.
CloseFile ==
    /\ pc = "writing"
    /\ disk' = [disk EXCEPT ![Slug] = IF Slug \in Served THEN Payload
                                     ELSE [kind |-> "whole"]]
    /\ position' = position + 1
    /\ pc' = "entry"
    /\ NewTractate
    /\ UNCHANGED <<library, cache, asked, failed, runs, crashes>>

\* The run has been through all the tractates, and reports those that failed.
EndRun ==
    /\ pc = "entry"
    /\ position > Len(Slugs)
    /\ pc' = "off"
    /\ UNCHANGED <<library, disk, cache, asked, position, failed, tractate, runs,
                   crashes>>

\* A file that was being written is empty or cut short.
Crash ==
    /\ pc # "off"
    /\ crashes < MaxCrashes
    /\ crashes' = crashes + 1
    /\ pc' = "off"
    /\ asked' = {} /\ position' = 1 /\ failed' = {}
    /\ NewTractate
    /\ \/ UNCHANGED disk
       \/ /\ pc = "writing"
          /\ disk' = [disk EXCEPT ![Slug] = [kind |-> "cut"]]
    /\ UNCHANGED <<library, cache, runs>>

-----------------------------------------------------------------------------
\* _load: no file and an empty one are remembered as no text; one that is cut
\* short raises EOFError, which nothing catches, and is not remembered.
Load(s) ==
    /\ cache[s] = Unread
    /\ cache' = [cache EXCEPT ![s] = CASE disk[s].kind = "whole" -> disk[s]
                                       [] disk[s].kind = "cut" -> Unread
                                       [] OTHER -> NoFile]
    /\ UNCHANGED <<library, disk, pc, asked, position, failed, tractate, runs,
                   crashes>>

\* lru_cache lets go of a tractate for another, or the process is restarted.
Forget(s) ==
    /\ cache' = [cache EXCEPT ![s] = Unread]
    /\ UNCHANGED <<library, disk, pc, asked, position, failed, tractate, runs,
                   crashes>>

\* get_mishnah: the passages of one mishnah, each with the source it shows.
Passages(s, m) ==
    IF cache[s].kind # "whole" THEN {}
    ELSE LET file == cache[s]
         IN  {[edition |-> e, book |-> 1] : e \in {file.text[m]} \ {NoText}}
             \cup UNION {{[edition |-> e, book |-> i] :
                             e \in file.comments[m][i]} : i \in 2..Len(Titles)}

-----------------------------------------------------------------------------
Script ==
    \/ PassOver \/ CollectLinks \/ FetchPrimary \/ NoComments \/ BookFailed
    \/ FetchAlternate \/ EndAlternates \/ OpenFile \/ CloseFile \/ EndRun

Next ==
    \/ Start \/ Script \/ Crash
    \/ \E s \in Served : Load(s) \/ Forget(s)

\* The script goes on: get() gives up on a request after four attempts.
Spec == Init /\ [][Next]_vars /\ WF_vars(Script)

-----------------------------------------------------------------------------
\* The source of a book names the edition of every passage of it that is shown,
\* also when gaps were filled from several, or a run crashed and another went on
\* (texts.py: each passage carries its licence and version; some must be
\* attributed).  The one exception is a primary put together from chapters that
\* Sefaria took from several editions: it names the first of them only.
Attributed ==
    \A s \in Served, m \in Places : \A passage \in Passages(s, m) :
        passage.edition \in cache[s].sources[passage.book]
                            \cup cache[s].pieces[passage.book]

\* A place is empty only if nothing that came held it, and is otherwise from the
\* first that did: a book is never mixed more than its gaps require
\* (fetch_texts.py: editions are layered).
GapsFilledInOrder ==
    pc = "alternates" =>
        \A p \in Needed :
            LET holding == {i \in DOMAIN layers : layers[i].bodies[p] # NoText}
            IN  found[p] = IF holding = {} THEN NoText
                           ELSE layers[Min(holding)].bodies[p]

\* When a run has reported, every tractate it was asked for and does not name
\* as failed has a whole file, whatever crashed before it or failed in it.
ReportIsTrue ==
    pc = "off" => \A s \in asked \ failed : disk[s].kind = "whole"

\* A run ends, whatever Sefaria answers.
RunEnds == pc # "off" ~> pc = "off"

=============================================================================
