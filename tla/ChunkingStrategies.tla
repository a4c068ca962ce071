-------------------------- MODULE ChunkingStrategies --------------------------
(* How a strategy (nexora_knowledge/chunking) cuts the blocks of a canonical  *)
(* document into chunk candidates: fixed_window slides a window over the      *)
(* flattened text, structural packs whole blocks section by section.  Each    *)
(* step is one turn of the strategy's loop.  A text is a sequence of kinds of *)
(* character; a chunk is a sequence of pieces, which name the characters they *)
(* take from their block.  A document has at least one block; the hints of    *)
(* relations between chunks, provenance fields and hashes are left out.       *)
EXTENDS CanonicalDocuments

CONSTANTS
    Documents,       \* the documents chunked, each a file's format, its source blocks, title and filename
    ChunkConfigurations,  \* the chunk configurations
    MaxChunks        \* bound on the chunks cut; the strategies cut fewer

VARIABLES document, blocks, configuration,
    pc,          \* "cutting", "done" or "failed"
    candidates,  \* the candidates so far
    flat, mappings,                 \* fixed_window: the flattened text, where blocks start in it
    start, previousEnd,             \* fixed_window: the loop's variables
    expanded, current, currentSize  \* structural: the loop's variables

input == <<document, blocks, configuration, flat, mappings>>
cuttingVars == <<input, pc, candidates, start, previousEnd, expanded, current, currentSize>>

-----------------------------------------------------------------------------
ContentTypes == {"section", "paragraph", "code", "table"}
CharacterKinds == {"word", "stop", "space"}

(* Where a row of a table ends in its text: lines are separated.              *)
RowEnd(block, r) ==
    LET end[n \in 0..Len(block.rows)] ==
          IF n = 0 THEN block.prefix
          ELSE end[n - 1] + block.rows[n] + (IF n = 1 /\ block.prefix = 0 THEN 0 ELSE 1) IN end[r]

(* What a parser finds has a text, which for a table with rows is that of its *)
(* lines; a row that is empty has a header above it.                          *)
SourceBlocks == [type : ContentTypes, text : Seq(CharacterKinds) \ {<< >>}, level : Nat,
                 title : STRING, prefix : Nat, rows : Seq(Nat)]
HasTableText(block) ==
    /\ block.rows # << >> => block.type = "table" /\ Len(block.text) = RowEnd(block, Len(block.rows))
    /\ \A r \in DOMAIN block.rows :
        /\ block.prefix > 0 \/ block.rows[r] > 0
        /\ block.prefix > 0 \/ r > 1 => block.text[RowEnd(block, r - 1) + 1] = "space"

ASSUME DocumentsAssumption ==
    \A d \in Documents :
        /\ d.format \in Formats
        /\ d.source \in Seq(SourceBlocks) \ {<< >>}
        /\ {d.given, d.filename} \subseteq Seq(SourceBlocks)
        /\ \A i \in DOMAIN d.source : HasTableText(d.source[i])

(* The configurations that pass the model's validation, which puts            *)
(* "character" at the end of preferences that lack it.                        *)
ValidSizes(target, maximum, minimum, overlap) ==
    target > 0 /\ maximum >= target /\ minimum <= target /\ overlap < target

ASSUME ConfigurationsAssumption ==
    \A k \in ChunkConfigurations :
        /\ {k.target, k.maximum, k.minimum, k.overlap} \subseteq Nat
        /\ ValidSizes(k.target, k.maximum, k.minimum, k.overlap)
        /\ k.boundary_preference \in Seq({"section", "paragraph", "sentence", "whitespace", "character"})
        /\ \E i \in DOMAIN k.boundary_preference : k.boundary_preference[i] = "character"

AtMost(x, y) == IF x <= y THEN x ELSE y

(* The ends of the runs of white space in a window, cut off where it ends,    *)
(* and of those that follow a full stop.                                      *)
WhitespaceEnds(s, from, to) ==
    {e \in (from + 1)..to : s[e] = "space" /\ (e = to \/ s[e + 1] # "space")}
SentenceEnds(s, from, to) ==
    {e \in WhitespaceEnds(s, from, to) : \E stop \in (from + 1)..e :
        s[stop] = "stop" /\ \A between \in (stop + 1)..e : s[between] = "space"}

(* A piece takes the characters at some places of its block; a candidate's    *)
(* text joins its pieces by separators, <<0, 0>> in the list of characters.   *)
Piece(b, places) == [block |-> b, places |-> places]
Slice(b, from, to) == Piece(b, [i \in 1..(to - from) |-> from + i])

CharactersOf(piece) == [i \in DOMAIN piece.places |-> <<piece.block, piece.places[i]>>]
CandidateText(pieces) ==
    FlattenSeq([i \in DOMAIN pieces |->
        (IF i = 1 THEN << >> ELSE <<<<0, 0>>, <<0, 0>>>>) \o CharactersOf(pieces[i])])

Candidate(pieces, overlap) == [pieces |-> pieces, overlap |-> overlap]
Places(b) == [i \in DOMAIN blocks[b].text |-> i]

-----------------------------------------------------------------------------
(* fixed_window: _flatten puts the blocks one after the other, a blank line   *)
(* between them.                                                              *)
Flatten ==
    /\ flat = FlattenSeq([b \in DOMAIN blocks |-> (IF b = 1 THEN << >> ELSE Separator) \o blocks[b].text])
    /\ mappings = [b \in DOMAIN blocks |-> Len(FlattenSeq([a \in 1..(b - 1) |-> blocks[a].text \o Separator]))]

BlockStart(b) == mappings[b]
BlockEnd(b) == mappings[b] + Len(blocks[b].text)

Boundaries(section) == {BlockEnd(b) : b \in {c \in DOMAIN blocks : (blocks[c].type = "section") = section}}

Preferred == AtMost(Len(flat), start + configuration.target)
Points(preference, maximum) ==
    CASE preference = "section" -> Boundaries(TRUE)
      [] preference = "paragraph" -> Boundaries(FALSE)
      [] preference = "sentence" -> SentenceEnds(flat, start, maximum)
      [] preference = "whitespace" -> WhitespaceEnds(flat, start, maximum)
      [] preference = "character" -> {Preferred}

(* The end of the window that starts at start.  A boundary at the start       *)
(* itself is no end: the window is then cut hard.                             *)
ChooseEnd ==
    LET maximum == start + configuration.maximum
        Usable(preference) ==
            {p \in Points(preference, maximum) : start + configuration.minimum <= p /\ p <= maximum}
        first == SelectInSeq(configuration.boundary_preference, LAMBDA f : Usable(f) # {})
        usable == Usable(configuration.boundary_preference[first])
        before == {p \in usable : p <= Preferred}
        end == IF before # {} THEN Max(before) ELSE Min(usable) IN
    IF maximum >= Len(flat) THEN Len(flat)
    ELSE IF end <= start THEN maximum ELSE end

PiecesFor(from, to) ==
    LET inside(b) == BlockStart(b) < to /\ from < BlockEnd(b)
        piece(b) == Slice(b, (IF from > BlockStart(b) THEN from - BlockStart(b) ELSE 0),
                             AtMost(to, BlockEnd(b)) - BlockStart(b)) IN
    FlattenSeq([b \in DOMAIN blocks |-> IF inside(b) THEN <<piece(b)>> ELSE << >>])

(* A window reaches back over the end of the last one by the overlap, and     *)
(* starts after it.                                                           *)
NextStartInPlace(end) == end - AtMost(configuration.overlap, end - start)  \* bug: a window may start where the last one did
NextStartSkips(end) == end + configuration.overlap  \* bug: the overlap is added
NextStart(end) ==
    LET back == end - AtMost(configuration.overlap, end - start) IN
    IF back <= start THEN start + 1 ELSE back

(* A window with no character of any block makes an empty candidate, which is *)
(* refused.                                                                   *)
CutWindow ==
    /\ configuration.strategy_name = "fixed_window" /\ pc = "cutting" /\ Len(candidates) < MaxChunks
    /\ start < Len(flat)
    /\ LET end == ChooseEnd
           overlap == IF AtMost(end, previousEnd) > start THEN AtMost(end, previousEnd) - start ELSE 0 IN
       IF PiecesFor(start, end) = << >>
       THEN pc' = "failed" /\ UNCHANGED <<candidates, start, previousEnd>>
       ELSE /\ candidates' = Append(candidates, Candidate(PiecesFor(start, end), overlap))
            /\ pc' = IF end >= Len(flat) THEN "done" ELSE pc
            /\ previousEnd' = end
            /\ start' = NextStart(end)
    /\ UNCHANGED <<input, expanded, current, currentSize>>

-----------------------------------------------------------------------------
(* structural: a block that is too long is split, a table between rows.       *)
SplitEnd(s, from, maximum) ==
    LET hard_end == from + maximum
        late == {e \in WhitespaceEnds(s, from, hard_end) :
                   e - from > (IF maximum \div 3 > 1 THEN maximum \div 3 ELSE 1)} IN
    IF hard_end >= Len(s) THEN Len(s) ELSE IF late # {} THEN Max(late) ELSE hard_end

SafeSplitPoints(s, maximum) ==
    LET cuts[from \in 0..Len(s)] ==
          IF from = Len(s) THEN << >>
          ELSE <<<<from, SplitEnd(s, from, maximum)>>>> \o cuts[SplitEnd(s, from, maximum)] IN
    cuts[0]

(* The places of rows first to last, and of the caption and header line,      *)
(* which every group of rows repeats.                                         *)
Render(block, first, last) ==
    LET title == [i \in 1..block.prefix |-> i]
        rows == [i \in 1..(RowEnd(block, last) - RowEnd(block, first - 1)) |-> RowEnd(block, first - 1) + i] IN
    title \o (IF block.prefix = 0 /\ first > 1 THEN Tail(rows) ELSE rows)

(* Rows are grouped as long as they fit; a row that does not fit on its own   *)
(* is split like a text.  A table without rows stays whole.                   *)
SplitTable(b, maximum) ==
    LET rows == 1..Len(blocks[b].rows)
        Fits(first, last) == Len(Render(blocks[b], first, last)) <= maximum
        LastOf(first) == Max({first} \cup {last \in rows : last >= first /\ \A l \in first..last : Fits(first, l)})
        Split(r) == LET places == Render(blocks[b], r, r)
                        raw == [i \in DOMAIN places |-> blocks[b].text[places[i]]]
                        cuts == SafeSplitPoints(raw, maximum) IN
                    [c \in DOMAIN cuts |-> Piece(b, SubSeq(places, cuts[c][1] + 1, cuts[c][2]))]
        groups[r \in 1..(Len(blocks[b].rows) + 1)] ==
          IF r > Len(blocks[b].rows) THEN << >>
          ELSE IF Fits(r, r) THEN <<Piece(b, Render(blocks[b], r, LastOf(r)))>> \o groups[LastOf(r) + 1]
          ELSE Split(r) \o groups[r + 1] IN
    IF blocks[b].rows = << >> THEN <<Piece(b, Places(b))>>
    ELSE groups[1]

Expand(b) ==
    LET maximum == configuration.maximum
        cuts == SafeSplitPoints(blocks[b].text, maximum) IN
    IF Len(blocks[b].text) <= maximum THEN <<Piece(b, Places(b))>>
    ELSE IF blocks[b].type = "table" /\ configuration.preserve_tables THEN SplitTable(b, maximum)
    ELSE [c \in DOMAIN cuts |-> Slice(b, cuts[c][1], cuts[c][2])]

PathOf(piece) == blocks[piece.block].heading_context

Flushed(pieces) == IF pieces = << >> THEN candidates ELSE Append(candidates, Candidate(pieces, 0))

SectionNeverChanges(piece) == FALSE  \* bug: a chunk runs on into the next section
SectionChanged(piece) ==
    LET first == PathOf(current[1])
        section == PathOf(piece) IN
    /\ section # first
    /\ ~(blocks[piece.block].type = "section" /\ IsPrefix(first, section))

SeparatorUncounted(piece) ==  \* bug: the separator is not counted
    currentSize + Len(piece.places) > configuration.maximum
Overflows(piece) == currentSize + 2 + Len(piece.places) > configuration.maximum

(* The pieces gathered so far are flushed when the next one does not belong   *)
(* or does not fit, and again once the target is reached.                     *)
PackPiece ==
    /\ configuration.strategy_name = "structural" /\ pc = "cutting" /\ expanded # << >>
    /\ LET piece == Head(expanded)
           flush == current # << >> /\ (SectionChanged(piece) \/ Overflows(piece))
           kept == IF flush THEN << >> ELSE current
           size == Len(piece.places) + (IF kept = << >> THEN 0 ELSE currentSize + 2)
           full == size >= configuration.target \/ Len(piece.places) >= configuration.maximum
           before == IF flush THEN Flushed(current) ELSE candidates IN
       /\ candidates' = IF full THEN Append(before, Candidate(Append(kept, piece), 0)) ELSE before
       /\ current' = IF full THEN << >> ELSE Append(kept, piece)
       /\ currentSize' = IF full THEN 0 ELSE size
    /\ expanded' = Tail(expanded)
    /\ UNCHANGED <<input, pc, start, previousEnd>>

FlushRest ==
    /\ configuration.strategy_name = "structural" /\ pc = "cutting" /\ expanded = << >>
    /\ candidates' = Flushed(current)
    /\ pc' = "done"
    /\ current' = << >> /\ currentSize' = 0
    /\ UNCHANGED <<input, start, previousEnd, expanded>>

-----------------------------------------------------------------------------
(* What the parser refuses has no elements.                                   *)
TitleOf(d) == MetadataTitle(d.format, d.source, d.given, d.filename)
ElementsOf(d) == Elements(d.format, d.source, TitleOf(d))

CuttingInit ==
    /\ document \in Documents
    /\ configuration \in ChunkConfigurations
    /\ ElementsOf(document) # << >>
    /\ blocks = CanonicalBlocks(ElementsOf(document), TitleOf(document), configuration) /\ blocks # << >>
    /\ Flatten
    /\ pc = "cutting"
    /\ candidates = << >>
    /\ start = 0 /\ previousEnd = 0
    /\ expanded = IF configuration.strategy_name = "structural" THEN FlattenSeq([b \in DOMAIN blocks |-> Expand(b)]) ELSE << >>
    /\ current = << >> /\ currentSize = 0

CuttingNext == CutWindow \/ PackPiece \/ FlushRest

CuttingSpec == CuttingInit /\ [][CuttingNext]_cuttingVars

-----------------------------------------------------------------------------
KeptOf(candidate) == UNION {Range(CharactersOf(candidate.pieces[i])) : i \in DOMAIN candidate.pieces}

(* The blocks are those of the file, each once, under its headings, behind    *)
(* the document's title and in the order of the file; of TXT and PDF, in the  *)
(* order of the numbers they give, which is another one.                      *)
BlocksFollowSource ==
    (\E i \in DOMAIN document.source : document.source[i].type \in {"paragraph", "code"}) =>
        blocks = BlocksOf(document.format, document.source, TitleOf(document), configuration)

(* A set that is done holds every character of every block but the line       *)
(* breaks between the rows of a table, whatever the boundaries, the overlap   *)
(* and the splits.                                                            *)
BlocksAreKept ==
    pc = "done" =>
        LET kept == UNION {KeptOf(candidates[c]) : c \in DOMAIN candidates} IN
        \A b \in DOMAIN blocks : \A i \in DOMAIN blocks[b].text :
            <<b, i>> \in kept \/ (blocks[b].rows # << >> /\ blocks[b].text[i] = "space")

(* No passage of the file is lost between reading and chunking it, and none   *)
(* is moved where the parser gives places.                                    *)
NothingIsLost == BlocksFollowSource /\ BlocksAreKept

(* A candidate is not empty and not longer than maximum_size, separators      *)
(* included, and no more than overlap_size of it repeats the window before:   *)
(* what the pipeline's validation asks of sizes.  The one exception is the    *)
(* header of a table that has no rows, which structural does not split.       *)
IsBareHeader(pieces) ==
    /\ configuration.strategy_name = "structural" /\ configuration.preserve_tables
    /\ Len(pieces) = 1 /\ blocks[pieces[1].block].type = "table" /\ blocks[pieces[1].block].rows = << >>

ChunksFit ==
    \A c \in DOMAIN candidates :
        LET size == Len(CandidateText(candidates[c].pieces)) IN
        /\ size > 0
        /\ size <= configuration.maximum \/ IsBareHeader(candidates[c].pieces)
        /\ candidates[c].overlap <= configuration.overlap

(* structural: a chunk with text has one section.  All that it holds lies     *)
(* under the headings of its text or further down, and the headings stored    *)
(* with it begin with those.  (Two sections of one heading path are one.)     *)
HeadingContext(pieces) ==
    LET named == {i \in DOMAIN pieces : PathOf(pieces[i]) # << >>}
    IN IF named = {} THEN << >> ELSE PathOf(pieces[Max(named)])

SectionsStayApart ==
    configuration.strategy_name = "structural" =>
        \A c \in DOMAIN candidates : \A i \in DOMAIN candidates[c].pieces :
            LET pieces == candidates[c].pieces IN
            blocks[pieces[i].block].type # "section" =>
                /\ \A j \in DOMAIN pieces : IsPrefix(PathOf(pieces[i]), PathOf(pieces[j]))
                /\ IsPrefix(PathOf(pieces[i]), HeadingContext(pieces))

(* However the boundaries fall, a window leaves at least one character behind *)
(* for good, so that the loop ends: no document is cut into more windows than *)
(* it has characters, its blank lines counted.                                *)
ChunkingEnds == configuration.strategy_name = "fixed_window" => Len(candidates) <= Len(flat)
=============================================================================
