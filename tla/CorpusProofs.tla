---------------------------- MODULE CorpusProofs ----------------------------
(***************************************************************************)
(* The texts are attributed, their gaps are filled in order, and a run     *)
(* reports the truth, for every list of tractates and titles, every        *)
(* library, link graph and bound.                                          *)
(***************************************************************************)
EXTENDS Corpus, WellFoundedInduction, TLAPS

Bodies == [Places -> Nat]
Layer == [edition : Nat \ {0}, bodies : Bodies]
BuiltBook == [bodies : Bodies, source : SUBSET Nat, pieces : SUBSET Nat]

TypeOK ==
    /\ library \in [ToSet(Titles) -> Seq(SUBSET Places)]
    /\ disk = [s \in ToSet(Slugs) |-> disk[s]]
    /\ cache = [s \in Served |-> cache[s]]
    /\ pc \in {"off", "entry", "primary", "alternates", "write", "writing"}
    /\ asked \in SUBSET ToSet(Slugs)
    /\ position \in Nat \ {0}
    /\ built \in Seq(BuiltBook)
    /\ found \in Bodies
    /\ used \in SUBSET Nat
    /\ tried \in Nat
    /\ layers \in Seq(Layer)

\* The script's place in a tractate: the book it is at, the books it has.
Progress ==
    /\ pc \in {"primary", "alternates"} => Len(built) < Len(Titles)
    /\ pc \in {"write", "writing"} => Len(built) = Len(Titles)
    /\ pc \in {"entry", "off"} => built = <<>>
    /\ pc \in {"primary", "alternates", "write", "writing"} =>
          position <= Len(Slugs)
    /\ pc = "alternates" => layers # <<>>
    /\ pc # "alternates" => found = NoBodies /\ used = {} /\ layers = <<>>

\* Every body is from one of the editions of `source`.
Named(bodies, source) ==
    \A p \in Places : bodies[p] # NoText => bodies[p] \in source

BooksNamed ==
    /\ Named(found, used \cup Pieces)
    /\ \A i \in DOMAIN built :
          Named(built[i].bodies, built[i].source \cup built[i].pieces)

\* A file whose every body is named by the source of its book, or is one of the
\* pieces of its primary.
Credited(file) ==
    \A m \in Places :
        /\ file.text[m] # NoText =>
              file.text[m] \in file.sources[1] \cup file.pieces[1]
        /\ \A i \in 2..Len(Titles) :
              file.comments[m][i] \subseteq file.sources[i] \cup file.pieces[i]

FilesCredited ==
    \A s \in Served :
        /\ disk[s].kind = "whole" => Credited(disk[s])
        /\ cache[s].kind = "whole" => Credited(cache[s])

\* The editions that came and hold a place, and the first of them.
Holding(p) == {i \in DOMAIN layers : layers[i].bodies[p] # NoText}

Layered ==
    pc = "alternates" =>
        \A p \in Needed :
            \/ Holding(p) = {} /\ found[p] = NoText
            \/ \E i \in Holding(p) :
                  /\ \A j \in Holding(p) : i <= j
                  /\ found[p] = layers[i].bodies[p]

\* A tractate behind the script was fetched or is named.
Accounted ==
    /\ \A i \in DOMAIN Slugs :
          i < position /\ Slugs[i] \in asked =>
              Slugs[i] \in failed \/ disk[Slugs[i]].kind = "whole"
    /\ pc = "off" => asked = {} \/ position > Len(Slugs)

CInv ==
    TypeOK /\ Progress /\ BooksNamed /\ FilesCredited /\ Layered /\ Accounted

\* The start: nothing was fetched, and nothing is claimed.
LEMMA InitCInv == Init => CInv
  <1> SUFFICES ASSUME Init PROVE CInv
    OBVIOUS
  <1>1. TypeOK
    BY CorpusAssumption
       DEF Init, TypeOK, NoBodies, NoText, Bodies, BuiltBook, Layer
  <1>2. Progress
    BY DEF Init, Progress
  <1>3. BooksNamed
    BY DEF Init, BooksNamed, Named, Pieces, NoBodies
  <1>4. FilesCredited
    BY CorpusAssumption DEF Init, FilesCredited, NoFile, Unread
  <1>5. Layered /\ Accounted
    BY CorpusAssumption DEF Init, Layered, Accounted
  <1> QED
    BY <1>1, <1>2, <1>3, <1>4, <1>5 DEF CInv

\* A set of natural numbers that is not empty has a least member.
LEMMA MinIsMember ==
    ASSUME NEW S \in SUBSET Nat, S # {}
    PROVE  Min(S) \in S
  <1>1. \E x \in S : \A y \in S : ~ (<<y, x>> \in OpToRel(<, Nat))
    BY NatLessThanWellFounded, WFMin, Zenon
  <1>2. PICK x \in S : \A y \in S : ~ (<<y, x>> \in OpToRel(<, Nat))
    BY <1>1
  <1>3. \A y \in S : ~ (y < x)
    BY <1>2 DEF OpToRel
  <1>4. x \in S /\ \A y \in S : x <= y
    BY <1>3
  <1> QED
    BY <1>4 DEF Min

\* What came is a layer, of the editions that were asked for.
LEMMA CameIsLayer ==
    ASSUME TypeOK, Progress, pc \in {"primary", "alternates"},
           NEW editions \in SUBSET DOMAIN library[Title],
           NEW layer \in Came(Title, editions)
    PROVE  /\ layer \in Layer
           /\ layer.edition \in editions
           /\ ToSet(layer.bodies) \subseteq {NoText} \cup editions
  <1>1. Book \in DOMAIN Titles
    BY CorpusAssumption DEF TypeOK, Progress, Book
  <1>2. Title \in ToSet(Titles)
    BY <1>1 DEF Title, ToSet
  <1>3. library[Title] \in Seq(SUBSET Places)
    BY <1>2 DEF TypeOK
  <1>4. editions \subseteq Nat \ {0}
    BY <1>3
  <1>5. PICK answers \in [Chapters -> {NoText} \cup editions] :
           /\ \E c \in Chapters : answers[c] # NoText
           /\ layer = Assembled(Title, answers)
    BY DEF Came
  <1> DEFINE came == {c \in Chapters : answers[c] # NoText}
  <1>6. came \in SUBSET Nat /\ came # {}
    BY <1>5, CorpusAssumption DEF Chapters
  <1>7. Min(came) \in came
    BY <1>6, MinIsMember
  <1>8. answers[Min(came)] \in editions
    BY <1>5, <1>7
  <1>9. /\ layer.edition = answers[Min(came)]
        /\ layer.bodies =
              [p \in Places |->
                  IF p[1] \in came /\ p \in library[Title][answers[p[1]]]
                  THEN answers[p[1]] ELSE NoText]
        /\ layer = [edition |-> layer.edition, bodies |-> layer.bodies]
    BY <1>5 DEF Assembled
  <1>10. \A p \in Places : layer.bodies[p] \in {NoText} \cup editions
    BY <1>5, <1>9
  <1>11. layer.bodies \in Bodies /\ DOMAIN layer.bodies = Places
    BY <1>4, <1>9, <1>10 DEF Bodies, NoText
  <1> QED
    BY <1>4, <1>8, <1>9, <1>10, <1>11 DEF Layer, ToSet

\* Absorbing a layer names it if it filled a gap, and keeps what was there; what
\* it does not name are pieces of the primary.
LEMMA AbsorbNamed ==
    ASSUME TypeOK, NEW layer \in Layer, Absorb(layer),
           Named(found, used \cup Pieces),
           \/ layers = <<>>
           \/ ToSet(layer.bodies) \subseteq {NoText, layer.edition}
    PROVE  /\ found' \in Bodies /\ used' \in SUBSET Nat
           /\ layers' \in Seq(Layer) /\ layers' # <<>>
           /\ Named(found', used' \cup Pieces')
  <1>1. /\ layer.edition \in Nat
        /\ layer.bodies \in Bodies
        /\ \A p \in Places : layer.bodies[p] \in ToSet(layer.bodies)
    BY DEF Layer, Bodies, ToSet
  <1>2. found' \in Bodies
    BY <1>1 DEF TypeOK, Bodies, Absorb
  <1>3. /\ used' \in SUBSET Nat /\ layers' \in Seq(Layer) /\ layers' # <<>>
        /\ layers' = Append(layers, layer) /\ layers \in Seq(Layer)
    BY <1>1 DEF TypeOK, Absorb
  <1>4. Pieces \subseteq Pieces'
    <2>1. \A i \in {1} \cap DOMAIN layers :
             i \in {1} \cap DOMAIN layers' /\ layers'[i] = layers[i]
      BY <1>3
    <2> QED
      BY <2>1 DEF Pieces
  <1>5. layers = <<>> =>
           ToSet(layer.bodies) \subseteq {NoText, layer.edition} \cup Pieces'
    <2>1. layers = <<>> => 1 \in {1} \cap DOMAIN layers' /\ layers'[1] = layer
      BY <1>3
    <2> QED
      BY <2>1 DEF Pieces
  <1>6. ASSUME NEW p \in Places, found'[p] # NoText
        PROVE  found'[p] \in used' \cup Pieces'
    <2>1. CASE p \in Gaps(layer)
      <3>1. found'[p] = layer.bodies[p] /\ Gaps(layer) # {}
        BY <2>1 DEF Absorb
      <3>2. found'[p] \in {layer.edition} \cup Pieces'
        BY <1>1, <1>5, <1>6, <3>1
      <3> QED
        BY <3>1, <3>2 DEF Absorb
    <2>2. CASE p \notin Gaps(layer)
      <3>1. found'[p] = found[p]
        BY <2>2 DEF Absorb
      <3> QED
        BY <1>4, <1>6, <3>1 DEF Absorb, Named
    <2> QED
      BY <2>1, <2>2
  <1> QED
    BY <1>2, <1>3, <1>6 DEF Named

\* What Layered says of one place.
OfFirst(p) ==
    \/ Holding(p) = {} /\ found[p] = NoText
    \/ \E i \in Holding(p) :
          /\ \A j \in Holding(p) : i <= j
          /\ found[p] = layers[i].bodies[p]

\* A layer fills a place that none before it held, and no other.
LEMMA AbsorbOfFirst ==
    ASSUME TypeOK, NEW layer \in Layer, Absorb(layer),
           NEW p \in Needed \cap Places, OfFirst(p)
    PROVE  OfFirst(p)'
  <1> DEFINE n == Len(layers)
  <1>1. /\ layers \in Seq(Layer) /\ n \in Nat
        /\ layers' = Append(layers, layer)
    BY DEF TypeOK, Absorb
  <1>2. /\ DOMAIN layers = 1..n /\ DOMAIN layers' = 1..(n + 1)
        /\ \A i \in 1..n : layers'[i] = layers[i]
        /\ layers'[n + 1] = layer
    BY <1>1
  <1>3. Holding(p)' = Holding(p)
                       \cup (IF layer.bodies[p] # NoText THEN {n + 1} ELSE {})
    BY <1>1, <1>2 DEF Holding
  <1>4. Holding(p) \subseteq 1..n
    BY <1>2 DEF Holding
  <1> HIDE DEF n
  <1>5. CASE Holding(p) = {} /\ found[p] = NoText
    <2>1. CASE layer.bodies[p] # NoText
      <3>1. p \in Gaps(layer)
        BY <1>5, <2>1 DEF Gaps, Filled
      <3>2. found'[p] = layer.bodies[p]
        BY <3>1 DEF Absorb
      <3>3. Holding(p)' = {n + 1} /\ layers'[n + 1].bodies = layer.bodies
        BY <1>2, <1>3, <1>5, <2>1
      <3>4. /\ n + 1 \in Holding(p)'
            /\ \A j \in Holding(p)' : n + 1 <= j
        <4>1. n + 1 <= n + 1
          BY <1>1
        <4> QED
          BY <3>3, <4>1
      <3> QED
        BY <3>2, <3>3, <3>4 DEF OfFirst
    <2>2. CASE layer.bodies[p] = NoText
      <3>1. found'[p] = found[p]
        BY <2>2 DEF Absorb, Gaps, Filled
      <3> QED
        BY <1>3, <1>5, <2>2, <3>1 DEF OfFirst
    <2> QED
      BY <2>1, <2>2
  <1>6. ASSUME NEW i \in Holding(p), \A j \in Holding(p) : i <= j,
               found[p] = layers[i].bodies[p]
        PROVE  OfFirst(p)'
    <2>1. i \in 1..n /\ layers[i] \in Layer
      BY <1>1, <1>2, <1>4, <1>6
    <2>2. found[p] # NoText
      BY <1>6 DEF Holding
    <2>3. found'[p] = found[p]
      BY <2>2 DEF Absorb, Gaps, Filled
    <2>4. layers'[i].bodies = layers[i].bodies
      BY <1>2, <2>1
    <2>5. i \in Holding(p)'
      BY <1>3, <1>6
    <2>6. \A j \in Holding(p)' : i <= j
      <3>1. i <= n + 1
        BY <1>1, <2>1
      <3>2. \A j \in Holding(p)' : j \in Holding(p) \/ j = n + 1
        BY <1>3
      <3> QED
        BY <1>6, <3>1, <3>2
    <2> QED
      BY <1>6, <2>3, <2>4, <2>5, <2>6 DEF OfFirst
  <1> QED
    BY <1>5, <1>6 DEF OfFirst

\* Files and the tractates behind the script are as they were when neither the
\* disk nor the script's place changes.
LEMMA SameFiles ==
    ASSUME CInv, UNCHANGED <<disk, cache>>
    PROVE  FilesCredited'
  BY DEF CInv, FilesCredited, Credited

LEMMA SameAccount ==
    ASSUME CInv, UNCHANGED <<disk, asked, position, failed>>, pc' # "off"
    PROVE  Accounted'
  BY DEF CInv, Accounted

\* The file that is written credits every body it holds.
LEMMA PayloadCredited ==
    ASSUME TypeOK, Progress, BooksNamed, pc = "writing"
    PROVE  Credited(Payload) /\ Payload.kind = "whole"
  <1>1. /\ DOMAIN Titles = 1..Len(Titles) /\ Len(Titles) \in Nat \ {0}
        /\ DOMAIN built = DOMAIN Titles
    BY CorpusAssumption DEF TypeOK, Progress
  <1>2. \A i \in DOMAIN Titles : /\ Payload.sources[i] = built[i].source
                                /\ Payload.pieces[i] = built[i].pieces
    BY DEF Payload
  <1>3. ASSUME NEW m \in Places, Payload.text[m] # NoText
        PROVE  Payload.text[m] \in Payload.sources[1] \cup Payload.pieces[1]
    <2>1. 1 \in DOMAIN Titles /\ Payload.text = built[1].bodies
      BY <1>1 DEF Payload
    <2> QED
      BY <1>1, <1>2, <1>3, <2>1 DEF BooksNamed, Named, Pieces
  <1>4. ASSUME NEW m \in Places, NEW i \in 2..Len(Titles)
        PROVE  Payload.comments[m][i]
                  \subseteq Payload.sources[i] \cup Payload.pieces[i]
    <2>1. i \in DOMAIN Titles
      BY <1>1
    <2>2. Payload.comments[m][i] =
             {built[i].bodies[p] :
                 p \in Anchored(m) \cap Filled(built[i].bodies)}
      BY DEF Payload
    <2>3. ASSUME NEW p \in Filled(built[i].bodies)
          PROVE  built[i].bodies[p] \in built[i].source \cup built[i].pieces
      BY <1>1, <2>1, <2>3 DEF Filled, BooksNamed, Named, Pieces
    <2> QED
      BY <1>2, <2>1, <2>2, <2>3
  <1> QED
    BY <1>3, <1>4 DEF Credited, Payload

\* The script drops what it holds of a tractate.
LEMMA DroppedTractate ==
    ASSUME NewTractate
    PROVE  /\ built' \in Seq(BuiltBook) /\ found' \in Bodies
           /\ used' \in SUBSET Nat /\ tried' \in Nat
           /\ layers' \in Seq(Layer)
           /\ built' = <<>> /\ found' = NoBodies /\ used' = {}
           /\ layers' = <<>>
           /\ BooksNamed'
  BY DEF NewTractate, NewBook, NoBodies, NoText, Bodies, BuiltBook, Layer,
         BooksNamed, Named, Pieces

\* An edition fills the gaps of the present book.
LEMMA FetchCInv ==
    ASSUME CInv, pc \in {"primary", "alternates"},
           NEW editions \in SUBSET DOMAIN library[Title],
           pc = "primary" \/ \E e \in editions : editions = {e},
           NEW layer \in Came(Title, editions), Absorb(layer),
           pc' = "alternates",
           tried' \in Nat,
           UNCHANGED <<library, disk, cache, asked, position, failed, linked,
                       built>>
    PROVE  CInv'
  <1>0. /\ layer \in Layer /\ layer.edition \in editions
        /\ ToSet(layer.bodies) \subseteq {NoText} \cup editions
    BY CameIsLayer DEF CInv
  <1>1. /\ layer \in Layer
        /\ \/ layers = <<>>
           \/ ToSet(layer.bodies) \subseteq {NoText, layer.edition}
    BY <1>0 DEF CInv, Progress
  <1>2. /\ found' \in Bodies /\ used' \in SUBSET Nat
        /\ layers' \in Seq(Layer) /\ layers' # <<>>
        /\ Named(found', used' \cup Pieces')
    BY <1>1, AbsorbNamed DEF CInv, BooksNamed
  <1>3. TypeOK'
    BY <1>2 DEF CInv, TypeOK
  <1>4. Progress'
    BY <1>2 DEF CInv, Progress
  <1>5. BooksNamed'
    BY <1>2 DEF CInv, BooksNamed, Named, Pieces
  <1>6. Layered'
    <2>1. Needed' = Needed /\ Needed \subseteq Places
      BY CorpusAssumption DEF Needed, Anchored, Book
    <2>2. ASSUME NEW p \in Needed PROVE OfFirst(p)
      <3>1. CASE pc = "primary"
        BY <2>1, <3>1 DEF CInv, Progress, OfFirst, Holding, NoBodies
      <3>2. CASE pc = "alternates"
        BY <3>2 DEF CInv, Layered, OfFirst
      <3> QED
        BY <3>1, <3>2
    <2>3. \A p \in Needed : OfFirst(p)'
      BY <1>1, <2>1, <2>2, AbsorbOfFirst DEF CInv
    <2> QED
      BY <2>1, <2>3 DEF Layered, OfFirst
  <1> QED
    BY <1>3, <1>4, <1>5, <1>6, SameFiles, SameAccount DEF CInv

LEMMA PiecesAreEditions ==
    ASSUME TypeOK
    PROVE  Pieces \in SUBSET Nat
  <1>1. \A i \in DOMAIN layers : layers[i] \in Layer
    BY DEF TypeOK
  <1>2. \A layer \in Layer : ToSet(layer.bodies) \subseteq Nat
    BY DEF Layer, Bodies, ToSet
  <1> QED
    BY <1>1, <1>2 DEF Pieces

\* A book that is done is named by its source.
LEMMA EndBookCInv ==
    ASSUME CInv, pc \in {"primary", "alternates"}, EndBook
    PROVE  CInv'
  <1> DEFINE done == [bodies |-> found, source |-> used, pieces |-> Pieces]
  <1>1. /\ built \in Seq(BuiltBook) /\ done \in BuiltBook
        /\ built' = Append(built, done) /\ Len(built) < Len(Titles)
    BY PiecesAreEditions DEF CInv, TypeOK, BuiltBook, EndBook, Progress
  <1>2. /\ found' = NoBodies /\ used' = {} /\ layers' = <<>> /\ tried' = 0
        /\ pc' = IF Len(built) + 1 = Len(Titles) THEN "write" ELSE "primary"
        /\ UNCHANGED <<library, disk, cache, asked, position, failed>>
    BY DEF EndBook, NewBook, Book
  <1>3. TypeOK'
    BY <1>1, <1>2 DEF CInv, TypeOK, NoBodies, NoText, Bodies, Layer
  <1>4. Progress'
    <2>1. /\ Len(built') = Len(built) + 1 /\ Len(built) \in Nat
          /\ Len(Titles) \in Nat
      BY <1>1, CorpusAssumption
    <2> QED
      BY <1>1, <1>2, <2>1 DEF CInv, Progress
  <1>5. BooksNamed'
    <2>1. \A i \in DOMAIN built' :
             \/ i \in DOMAIN built /\ built'[i] = built[i]
             \/ built'[i] = done
      BY <1>1
    <2> QED
      BY <1>2, <2>1 DEF CInv, BooksNamed, Named, Pieces, NoBodies
  <1>6. Layered'
    BY <1>2 DEF Layered
  <1> QED
    BY <1>2, <1>3, <1>4, <1>5, <1>6, SameFiles, SameAccount DEF CInv

\* The file of the present tractate is the only one that changes.
LEMMA WriteFile ==
    ASSUME CInv, NEW file, pc = "write" \/ pc = "writing",
           disk' = [disk EXCEPT ![Slug] = file]
    PROVE  /\ disk' = [s \in ToSet(Slugs) |-> disk'[s]]
           /\ Slug \in ToSet(Slugs) /\ disk'[Slug] = file
           /\ \A s \in ToSet(Slugs) \ {Slug} : disk'[s] = disk[s]
           /\ \A i \in DOMAIN Slugs : i < position =>
                 Slugs[i] \in ToSet(Slugs) \ {Slug}
  <1>1. position \in DOMAIN Slugs
    BY CorpusAssumption DEF CInv, TypeOK, Progress
  <1>2. /\ Slug \in ToSet(Slugs)
        /\ \A i \in DOMAIN Slugs : Slugs[i] \in ToSet(Slugs)
    BY <1>1 DEF Slug, ToSet
  <1>3. disk = [s \in ToSet(Slugs) |-> disk[s]]
    BY DEF CInv, TypeOK
  <1>4. \A i \in DOMAIN Slugs : i < position => Slugs[i] # Slug
    <2>1. \A i \in DOMAIN Slugs : i < position => i # position
      BY <1>1, CorpusAssumption
    <2> QED
      BY <1>1, <2>1, CorpusAssumption DEF Slug, IsInjective
  <1> QED
    BY <1>2, <1>3, <1>4

-----------------------------------------------------------------------------
\* Every step of the script, of its operator and of the application keeps it.
LEMMA NextCInv == CInv /\ [Next]_vars => CInv'
  <1> SUFFICES ASSUME CInv, [Next]_vars PROVE CInv'
    OBVIOUS
  <1> USE DEF tractate, book
  <1>1. CASE Start
    <2>1. /\ pc = "off" /\ pc' = "entry" /\ position' = 1 /\ failed' = {}
          /\ asked' \in SUBSET ToSet(Slugs)
          /\ UNCHANGED <<library, disk, cache, tractate>>
      BY <1>1 DEF Start
    <2>2. TypeOK' /\ Progress' /\ BooksNamed' /\ Layered'
      BY <2>1 DEF CInv, TypeOK, Progress, BooksNamed, Named, Pieces, Layered
    <2>3. Accounted'
      BY <2>1, CorpusAssumption DEF Accounted
    <2> QED
      BY <2>1, <2>2, <2>3, SameFiles DEF CInv
  <1>2. CASE PassOver
    <2>1. /\ pc = "entry" /\ position' = position + 1 /\ Slug \notin asked
          /\ UNCHANGED <<library, disk, cache, pc, asked, failed, tractate>>
      BY <1>2 DEF PassOver
    <2>2. TypeOK' /\ Progress' /\ BooksNamed' /\ Layered'
      BY <2>1 DEF CInv, TypeOK, Progress, BooksNamed, Named, Pieces, Layered
    <2>3. Accounted'
      <3>1. \A i \in DOMAIN Slugs :
               i < position + 1 => i < position \/ i = position
        BY CorpusAssumption DEF CInv, TypeOK
      <3> QED
        BY <2>1, <3>1 DEF CInv, Accounted, Slug
    <2> QED
      BY <2>1, <2>2, <2>3, SameFiles DEF CInv
  <1>3. CASE CollectLinks
    <2>1. /\ pc = "entry" /\ pc' = "primary" /\ position <= Len(Slugs)
          /\ UNCHANGED <<library, disk, cache, asked, position, failed, built,
                         book>>
      BY <1>3 DEF CollectLinks
    <2>2. TypeOK' /\ BooksNamed' /\ Layered'
      BY <2>1 DEF CInv, TypeOK, BooksNamed, Named, Pieces, Layered
    <2>3. Progress'
      <3>1. Len(Titles) > 0 /\ Len(<<>>) = 0
        BY CorpusAssumption
      <3> QED
        BY <2>1, <3>1 DEF CInv, Progress
    <2> QED
      BY <2>1, <2>2, <2>3, SameFiles, SameAccount DEF CInv
  <1>4. CASE FetchPrimary
    <2>1. Book \in DOMAIN Titles /\ pc = "primary" /\ library[Title] # <<>>
      BY <1>4, CorpusAssumption DEF CInv, TypeOK, Progress, Book, FetchPrimary
    <2>2. library[Title] \in Seq(SUBSET Places)
      BY <2>1 DEF CInv, TypeOK, Title, ToSet
    <2>4. PICK layer \in Came(Title, DOMAIN library[Title]) : Absorb(layer)
      BY <1>4 DEF FetchPrimary
    <2>5. /\ pc' = "alternates" /\ tried' \in Nat
          /\ UNCHANGED <<library, disk, cache, asked, position, failed, linked,
                         built>>
      BY <1>4 DEF FetchPrimary, CInv, TypeOK
    <2> QED
      BY <2>1, <2>4, <2>5, FetchCInv
  <1>5. CASE NoComments
    BY <1>5, EndBookCInv DEF NoComments
  <1>6. CASE BookFailed
    <2>1. /\ pc = "primary" /\ pc' = "entry" /\ position' = position + 1
          /\ failed' = failed \cup {Slug} /\ NewTractate
          /\ UNCHANGED <<library, disk, cache, asked>>
      BY <1>6 DEF BookFailed
    <2>2. TypeOK' /\ Progress' /\ BooksNamed' /\ Layered'
      BY <2>1, DroppedTractate DEF CInv, TypeOK, Progress, Layered
    <2>3. Accounted'
      <3>1. \A i \in DOMAIN Slugs :
               i < position + 1 => i < position \/ i = position
        BY CorpusAssumption DEF CInv, TypeOK
      <3> QED
        BY <2>1, <3>1 DEF CInv, Accounted, Slug
    <2> QED
      BY <2>1, <2>2, <2>3, SameFiles DEF CInv
  <1>7. CASE FetchAlternate
    <2>1. /\ pc = "alternates" /\ pc' = "alternates" /\ tried' = tried + 1
          /\ MoreAlternates
          /\ UNCHANGED <<library, disk, cache, asked, position, failed, linked,
                         built>>
      BY <1>7 DEF FetchAlternate
    <2>2. tried' \in Nat
      BY <2>1 DEF CInv, TypeOK
    <2>3. CASE UNCHANGED <<found, used, layers>>
      <3>1. TypeOK' /\ Progress' /\ BooksNamed'
        BY <2>1, <2>2, <2>3 DEF CInv, TypeOK, Progress, BooksNamed, Named,
                                Pieces
      <3>2. Layered'
        BY <2>1, <2>3 DEF CInv, Layered, Holding, Needed, Anchored, Book
      <3> QED
        BY <2>1, <3>1, <3>2, SameFiles, SameAccount DEF CInv
    <2>4. ASSUME NEW layer \in Came(Title, {Alternate}), Absorb(layer)
          PROVE  CInv'
      <3>1. Book \in DOMAIN Titles
        BY <2>1, CorpusAssumption DEF CInv, TypeOK, Progress, Book
      <3>2. library[Title] \in Seq(SUBSET Places)
        BY <3>1 DEF CInv, TypeOK, Title, ToSet
      <3>3. Alternate \in DOMAIN library[Title]
        <4> DEFINE n == Len(library[Title]) - 1
        <4>1. n \in Int /\ MaxAlternates \in Int /\ tried \in Nat
          BY <3>2, CorpusAssumption DEF CInv, TypeOK
        <4>2. Min({MaxAlternates, n}) <= n
          <5> HIDE DEF n
          <5>1. \E m \in {MaxAlternates, n} :
                   \A k \in {MaxAlternates, n} : m <= k
            BY <4>1
          <5> QED
            BY <5>1 DEF Min
        <4>3. Min({MaxAlternates, n}) \in Int
          <5> HIDE DEF n
          <5>1. \E m \in {MaxAlternates, n} :
                   \A k \in {MaxAlternates, n} : m <= k
            BY <4>1
          <5> QED
            BY <4>1, <5>1 DEF Min
        <4>4. tried < n
          BY <2>1, <4>1, <4>2, <4>3 DEF MoreAlternates
        <4>5. tried + 1 \in 1..(n + 1) /\ tried + 2 \in 1..(n + 1)
          BY <4>1, <4>4
        <4>6. DOMAIN library[Title] = 1..(n + 1)
          BY <3>2
        <4> QED
          BY <4>5, <4>6 DEF Alternate
      <3> QED
        BY <2>1, <2>2, <2>4, <3>3, FetchCInv
    <2> QED
      BY <1>7, <2>3, <2>4 DEF FetchAlternate
  <1>8. CASE EndAlternates
    BY <1>8, EndBookCInv DEF EndAlternates
  <1>9. CASE OpenFile
    <2> DEFINE file == [kind |-> "empty"]
    <2>1. /\ pc = "write" /\ pc' = "writing"
          /\ disk' = [disk EXCEPT ![Slug] = file]
          /\ UNCHANGED <<library, cache, asked, position, failed, tractate>>
      BY <1>9 DEF OpenFile
    <2> HIDE DEF file
    <2>2. /\ disk' = [s \in ToSet(Slugs) |-> disk'[s]]
          /\ Slug \in ToSet(Slugs) /\ disk'[Slug] = file
          /\ \A s \in ToSet(Slugs) \ {Slug} : disk'[s] = disk[s]
          /\ \A i \in DOMAIN Slugs : i < position =>
                Slugs[i] \in ToSet(Slugs) \ {Slug}
      BY <2>1, WriteFile
    <2>3. TypeOK'
      BY <2>1, <2>2 DEF CInv, TypeOK
    <2>4. Progress' /\ BooksNamed' /\ Layered'
      BY <2>1 DEF CInv, Progress, BooksNamed, Named, Pieces, Layered
    <2>5. FilesCredited'
      <3>1. disk'[Slug].kind # "whole"
        BY <2>2 DEF file
      <3>2. \A s \in Served : s # Slug => disk'[s] = disk[s]
        BY <2>2, CorpusAssumption
      <3> QED
        BY <2>1, <3>1, <3>2 DEF CInv, FilesCredited, Credited
    <2>6. Accounted'
      BY <2>1, <2>2 DEF CInv, Accounted
    <2> QED
      BY <2>3, <2>4, <2>5, <2>6 DEF CInv
  <1>10. CASE CloseFile
    <2> DEFINE file == IF Slug \in Served THEN Payload ELSE [kind |-> "whole"]
    <2>1. /\ pc = "writing" /\ pc' = "entry" /\ NewTractate
          /\ disk' = [disk EXCEPT ![Slug] = file] /\ position' = position + 1
          /\ UNCHANGED <<library, cache, asked, failed>>
      BY <1>10 DEF CloseFile
    <2>2. /\ file.kind = "whole"
          /\ Slug \in Served => Credited(file)
      BY <2>1, PayloadCredited DEF CInv
    <2> HIDE DEF file
    <2>3. /\ disk' = [s \in ToSet(Slugs) |-> disk'[s]]
          /\ Slug \in ToSet(Slugs) /\ disk'[Slug] = file
          /\ \A s \in ToSet(Slugs) \ {Slug} : disk'[s] = disk[s]
          /\ \A i \in DOMAIN Slugs : i < position =>
                Slugs[i] \in ToSet(Slugs) \ {Slug}
      BY <2>1, WriteFile
    <2>4. TypeOK'
      BY <2>1, <2>3, DroppedTractate DEF CInv, TypeOK
    <2>5. Progress' /\ BooksNamed' /\ Layered'
      BY <2>1, DroppedTractate DEF CInv, Progress, Layered
    <2>6. FilesCredited'
      <3>1. \A s \in Served : s # Slug => disk'[s] = disk[s]
        BY <2>3, CorpusAssumption
      <3> QED
        BY <2>1, <2>2, <2>3, <3>1 DEF CInv, FilesCredited, Credited
    <2>7. Accounted'
      <3>1. \A i \in DOMAIN Slugs :
               i < position + 1 => i < position \/ i = position
        BY CorpusAssumption DEF CInv, TypeOK
      <3>2. disk'[Slug].kind = "whole"
        BY <2>2, <2>3
      <3> QED
        BY <2>1, <2>3, <3>1, <3>2 DEF CInv, Accounted, Slug
    <2> QED
      BY <2>4, <2>5, <2>6, <2>7 DEF CInv
  <1>11. CASE EndRun
    <2>1. /\ pc = "entry" /\ position > Len(Slugs) /\ pc' = "off"
          /\ UNCHANGED <<library, disk, cache, asked, position, failed,
                         tractate>>
      BY <1>11 DEF EndRun
    <2>2. TypeOK' /\ Progress' /\ BooksNamed' /\ Layered' /\ Accounted'
      BY <2>1 DEF CInv, TypeOK, Progress, BooksNamed, Named, Pieces, Layered,
                  Accounted
    <2> QED
      BY <2>1, <2>2, SameFiles DEF CInv
  <1>12. CASE Crash
    <2>1. /\ pc' = "off" /\ asked' = {} /\ position' = 1 /\ NewTractate
          /\ UNCHANGED <<library, cache>>
      BY <1>12 DEF Crash
    <2>2. /\ disk' = [s \in ToSet(Slugs) |-> disk'[s]]
          /\ \A s \in ToSet(Slugs) :
                disk'[s] = disk[s] \/ disk'[s].kind # "whole"
      <3>1. CASE UNCHANGED disk
        BY <3>1 DEF CInv, TypeOK
      <3>2. CASE /\ pc = "writing"
                 /\ disk' = [disk EXCEPT ![Slug] = [kind |-> "cut"]]
        <4> DEFINE file == [kind |-> "cut"]
        <4>1. file.kind # "whole"
          OBVIOUS
        <4> HIDE DEF file
        <4>2. disk' = [disk EXCEPT ![Slug] = file]
          BY <3>2 DEF file
        <4> QED
          BY <3>2, <4>1, <4>2, WriteFile
      <3> QED
        BY <1>12, <3>1, <3>2 DEF Crash
    <2>3. TypeOK'
      BY <2>1, <2>2, DroppedTractate DEF CInv, TypeOK
    <2>4. Progress' /\ BooksNamed' /\ Layered' /\ Accounted'
      BY <2>1, DroppedTractate DEF CInv, Progress, Layered, Accounted
    <2>5. FilesCredited'
      BY <2>1, <2>2, CorpusAssumption DEF CInv, FilesCredited, Credited
    <2> QED
      BY <2>3, <2>4, <2>5 DEF CInv
  <1>13. ASSUME NEW s \in Served, Load(s) \/ Forget(s)
         PROVE  CInv'
    <2>1. UNCHANGED <<library, disk, pc, asked, position, failed, tractate>>
      BY <1>13 DEF Load, Forget
    <2>2. /\ cache' = [r \in Served |-> cache'[r]]
          /\ \A r \in Served : \/ cache'[r] = cache[r]
                               \/ cache'[r].kind # "whole"
                               \/ cache'[r] = disk[r]
      BY <1>13 DEF CInv, TypeOK, Load, Forget, Unread, NoFile
    <2>3. TypeOK' /\ Progress' /\ Accounted'
      BY <2>1, <2>2 DEF CInv, TypeOK, Progress, Accounted
    <2>6. BooksNamed'
      BY <2>1 DEF CInv, BooksNamed, Named, Pieces
    <2>4. Layered'
      BY <2>1 DEF CInv, Layered, Holding, Needed, Anchored, Book
    <2>5. FilesCredited'
      BY <2>1, <2>2 DEF CInv, FilesCredited, Credited
    <2> QED
      BY <2>3, <2>4, <2>5, <2>6 DEF CInv
  <1>14. CASE UNCHANGED vars
    <2>1. TypeOK' /\ Progress' /\ BooksNamed' /\ Accounted'
      BY <1>14 DEF vars, CInv, TypeOK, Progress, BooksNamed, Named, Pieces,
                   Accounted
    <2>2. Layered'
      BY <1>14 DEF vars, CInv, Layered, Holding, Needed, Anchored, Book
    <2> QED
      BY <1>14, <2>1, <2>2, SameFiles DEF vars, CInv
  <1> QED
    BY <1>1, <1>2, <1>3, <1>4, <1>5, <1>6, <1>7, <1>8, <1>9, <1>10, <1>11,
       <1>12, <1>13, <1>14 DEF Next, Script

LEMMA InductiveC == Spec => []CInv
  BY InitCInv, NextCInv, PTL DEF Spec

\* The edition of every passage the reader is shown is named by the source of
\* its book, whatever gaps were filled and whatever crashed, unless the primary of
\* the book was put together from chapters of several editions (texts.py: the
\* sources of a tractate).
THEOREM PassagesAttributed == Spec => []Attributed
  <1>1. CInv => Attributed
    <2> DEFINE Sources(s, i) == cache[s].sources[i] \cup cache[s].pieces[i]
    <2> SUFFICES ASSUME CInv, NEW s \in Served, NEW m \in Places,
                        NEW passage \in Passages(s, m)
                 PROVE  passage.edition \in Sources(s, passage.book)
      BY DEF Attributed
    <2>1. cache[s].kind = "whole" /\ Credited(cache[s])
      BY DEF Passages, CInv, FilesCredited
    <2>2. ASSUME NEW e \in {cache[s].text[m]} \ {NoText},
                 passage = [edition |-> e, book |-> 1]
          PROVE  passage.edition \in Sources(s, passage.book)
      BY <2>1, <2>2 DEF Credited
    <2>3. ASSUME NEW i \in 2..Len(Titles), NEW e \in cache[s].comments[m][i],
                 passage = [edition |-> e, book |-> i]
          PROVE  passage.edition \in Sources(s, passage.book)
      BY <2>1, <2>3 DEF Credited
    <2> HIDE DEF Sources
    <2> QED
      BY <2>1, <2>2, <2>3 DEF Passages
  <1> QED
    BY <1>1, InductiveC, PTL

\* The body of a place is from the first layer that came and held it, and the
\* place is empty only if none did (fetch_texts.py, fetch_segments).
THEOREM GapsAreFilledInOrder == Spec => []GapsFilledInOrder
  <1>1. CInv => GapsFilledInOrder
    <2> SUFFICES ASSUME CInv, pc = "alternates", NEW p \in Needed
                 PROVE  found[p] = IF Holding(p) = {} THEN NoText
                                   ELSE layers[Min(Holding(p))].bodies[p]
      BY DEF GapsFilledInOrder, Holding
    <2>1. Holding(p) \subseteq Nat
      BY DEF CInv, TypeOK, Holding
    <2>2. ASSUME NEW i \in Holding(p), \A j \in Holding(p) : i <= j
          PROVE  Min(Holding(p)) = i
      BY <2>1, <2>2 DEF Min
    <2> QED
      BY <2>2 DEF CInv, Layered
  <1> QED
    BY <1>1, InductiveC, PTL

\* A run that has ended names every tractate it was asked for and has no whole
\* file of, whatever was refused and whatever run crashed before (fetch_texts.py,
\* main: FAILED).
THEOREM ReportsAreTrue == Spec => []ReportIsTrue
  <1>1. CInv => ReportIsTrue
    <2> SUFFICES ASSUME CInv, pc = "off", NEW s \in asked \ failed
                 PROVE  disk[s].kind = "whole"
      BY DEF ReportIsTrue
    <2>1. position > Len(Slugs)
      BY DEF CInv, Accounted
    <2>2. PICK i \in DOMAIN Slugs : s = Slugs[i]
      BY DEF CInv, TypeOK, ToSet
    <2>3. i < position
      BY <2>1, <2>2, CorpusAssumption DEF CInv, TypeOK
    <2> QED
      BY <2>2, <2>3 DEF CInv, Accounted
  <1> QED
    BY <1>1, InductiveC, PTL

=============================================================================
