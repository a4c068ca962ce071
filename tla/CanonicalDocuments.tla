-------------------------- MODULE CanonicalDocuments --------------------------
(* What nexora_knowledge's parsers make of a file (parsers/markdown.py,       *)
(* html.py, docx.py, txt.py, pdf.py) and what the chunking strategies read    *)
(* from it (canonical_blocks): headings, paragraphs, code and tables become   *)
(* sections with paragraphs, and tables apart; canonical_blocks puts them     *)
(* back in one sequence by the places the parser gave them, behind the title  *)
(* of the document.  The reading of the file itself (tokens, tags, styles,    *)
(* heuristics for headings) is what makes a source block; references, images  *)
(* and metadata other than the title are left out.  A page break of a PDF is  *)
(* a heading of the page's own.                                               *)
EXTENDS Naturals, Sequences, FiniteSets, SequencesExt

Formats == {"markdown", "html", "docx", "txt", "pdf"}
Sectioned == {"markdown", "html", "docx"}   \* sections nest, and what is found has a place in the source

(* A block of the file: a heading with its level and title, a paragraph, code *)
(* or a table, with its text; a table also has the length of its caption and  *)
(* header line, and those of its rows.                                        *)
SourceBlock(type, text) ==
    [type |-> type, text |-> text, level |-> 0, title |-> "", prefix |-> 0, rows |-> << >>]
Heading(level, title, text) == [SourceBlock("section", text) EXCEPT !.level = level, !.title = title]

(* A block as the strategies see it: a content type, a heading context and a  *)
(* text.                                                                      *)
Block(type, heading_context, text) ==
    [type |-> type, heading_context |-> heading_context, text |-> text, prefix |-> 0, rows |-> << >>]
WithRows(block, b) == [block EXCEPT !.prefix = b.prefix, !.rows = b.rows]

Separator == <<"space", "space">>  \* the blank line between two blocks

(* metadata.title: the one given in the file (front matter, title tag, core   *)
(* property), a heading of the file, or its filename made readable; it may be *)
(* missing.  A title is << >> or <<heading>>, and may well be a heading's own *)
(* text.                                                                      *)
MetadataTitle(format, source, given, filename) ==
    LET headings == {i \in DOMAIN source : source[i].type = "section"}
        first == CASE format = "markdown" /\ headings # {} -> <<source[Min(headings)]>>
                   [] format = "txt" /\ 1 \in headings -> <<source[1]>>
                   [] OTHER -> << >>
        titles == (IF format = "txt" THEN << >> ELSE given) \o first \o filename
    IN IF titles = << >> THEN << >> ELSE <<Head(titles)>>

(* The heading put over text that has none.                                   *)
DocumentTitle(title) ==
    IF title = << >> THEN Heading(1, "Document", <<"word">>) ELSE Heading(1, title[1].title, title[1].text)

Element(order, block) == [order |-> order, block |-> block]
Titles(stack) == [i \in DOMAIN stack |-> stack[i].title]

-----------------------------------------------------------------------------
(* markdown, html, docx.  section_stack holds the open sections, of which a   *)
(* heading closes those down to the last of a level above its own; elements   *)
(* are in the order in which canonical_blocks visits them, tables apart.      *)
Unparsed(title) ==
    [title |-> title, section_stack |-> << >>, elements |-> << >>, tables |-> << >>, source_index |-> 0]

AddSection(parsed, heading, order) ==
    LET lower == {i \in DOMAIN parsed.section_stack : parsed.section_stack[i].level < heading.level}
        stack == Append(SubSeq(parsed.section_stack, 1, Max({0} \cup lower)), heading)
    IN [parsed EXCEPT !.section_stack = stack,
                      !.elements = Append(@, Element(order, Block("section", Titles(stack), heading.text)))]

(* Text before the first heading is put in a section of its own: at the place *)
(* of that text (docx) or at the beginning.                                   *)
EnsureSection(parsed, format) ==
    IF parsed.section_stack # << >> THEN parsed
    ELSE AddSection(parsed, DocumentTitle(parsed.title), IF format = "docx" THEN parsed.source_index ELSE 0)

AddParagraph(parsed, type, text, order) ==
    [parsed EXCEPT !.elements = Append(@, Element(order, Block(type, Titles(parsed.section_stack), text)))]

AddTable(parsed, b) ==
    [parsed EXCEPT !.tables = Append(@, Element(parsed.source_index,
                                          WithRows(Block("table", Titles(parsed.section_stack), b.text), b)))]

ParseBlock(parsed, b, format) ==
    LET added == CASE b.type = "section" -> AddSection(parsed, b, parsed.source_index)
                   [] b.type = "table" -> AddTable(parsed, b)
                   [] OTHER -> AddParagraph(EnsureSection(parsed, format), b.type, b.text, parsed.source_index)
    IN [added EXCEPT !.source_index = @ + 1]

(* A document without paragraphs gets one that repeats its whole content, in  *)
(* the section open last and at the first place.                              *)
HasParagraphs(elements) == \E i \in DOMAIN elements : elements[i].block.type \in {"paragraph", "code"}
Flattened(source) == FlattenSeq([i \in DOMAIN source |-> (IF i = 1 THEN << >> ELSE Separator) \o source[i].text])
WithFallback(parsed, source, format) ==
    IF HasParagraphs(parsed.elements) THEN parsed
    ELSE AddParagraph(EnsureSection([parsed EXCEPT !.source_index = 0], format), "paragraph", Flattened(source), 0)

SectionedElements(format, source, title) ==
    LET parsed[i \in 0..Len(source)] ==
          IF i = 0 THEN Unparsed(title) ELSE ParseBlock(parsed[i - 1], source[i], format)
        complete == WithFallback(parsed[Len(source)], source, format)
    IN complete.elements \o complete.tables

-----------------------------------------------------------------------------
(* txt, pdf.  Sections are numbered, and paragraphs within their section;     *)
(* neither has a place in the source, and a section without paragraphs is     *)
(* dropped with its heading.  Text before the first heading is under the      *)
(* document's title, if it has one, or the page's number.  A table's lines    *)
(* are those of a paragraph.                                                  *)
FlushSection(parsed) ==
    LET path == Titles(parsed.heading)
        headings == [i \in DOMAIN parsed.heading |->
                       Element(parsed.sections, Block("section", path, parsed.heading[i].text))]
        paragraphs == [i \in DOMAIN parsed.paragraphs |->
                         Element(i - 1, Block("paragraph", path, parsed.paragraphs[i]))]
    IN IF paragraphs = << >> THEN parsed
       ELSE [parsed EXCEPT !.elements = @ \o headings \o paragraphs,
                           !.sections = @ + 1,
                           !.paragraphs = << >>]

BuildSections(parsed, b) ==
    IF b.type = "section" THEN [FlushSection(parsed) EXCEPT !.heading = <<b>>]
    ELSE [parsed EXCEPT !.paragraphs = Append(@, b.text)]

FirstHeading(format, title) == IF format = "pdf" THEN <<Heading(1, "Page 1", <<"word">>)>> ELSE title
Unbuilt(heading) == [heading |-> heading, paragraphs |-> << >>, sections |-> 0, elements |-> << >>]
NumberedElements(source, heading) ==
    LET built[i \in 0..Len(source)] == IF i = 0 THEN Unbuilt(heading) ELSE BuildSections(built[i - 1], source[i])
    IN FlushSection(built[Len(source)]).elements

Elements(format, source, title) ==
    IF format \in Sectioned THEN SectionedElements(format, source, title)
    ELSE NumberedElements(source, FirstHeading(format, title))

-----------------------------------------------------------------------------
(* canonical_blocks visits the headings and paragraphs section by section,    *)
(* then the tables, and sorts what it found by place; what was visited first  *)
(* comes first where two places are equal.                                    *)
\* bug: tables stay where they were visited, behind the sections
VisitingOrder(elements) == [n \in DOMAIN elements |-> elements[n].block]
SourceOrder(elements) ==
    LET Before(i, j) == \/ elements[i].order < elements[j].order
                        \/ elements[i].order = elements[j].order /\ i < j
        Rank(i) == Cardinality({j \in DOMAIN elements : Before(j, i)}) + 1
    IN [n \in DOMAIN elements |-> elements[CHOOSE i \in DOMAIN elements : Rank(i) = n].block]

(* Headings may be left out; the title comes first, unless it is left out.    *)
TitleBlock(title, configuration) ==
    IF title = << >> \/ ~configuration.include_document_title THEN << >>
    ELSE <<Block("section", <<title[1].title>>, title[1].text)>>

Included(element, configuration) ==
    IF element.block.type = "section" /\ ~configuration.include_headings THEN << >> ELSE <<element>>

CanonicalBlocks(elements, title, configuration) ==
    TitleBlock(title, configuration)
      \o SourceOrder(FlattenSeq([i \in DOMAIN elements |-> Included(elements[i], configuration)]))

-----------------------------------------------------------------------------
(* What the blocks of a file are, said without a stack and without sorting.   *)
(* A block lies under the headings before it that no later heading of their   *)
(* level or above ends, and under the document's title as long as there was   *)
(* text before the first heading.                                             *)
Governs(source, h, i) ==
    /\ source[h].type = "section" /\ h <= i
    /\ \A k \in (h + 1)..i : source[k].type = "section" => source[k].level > source[h].level
Preface(source) == {k \in DOMAIN source : /\ source[k].type \in {"paragraph", "code"}
                                          /\ \A h \in 1..k : source[h].type # "section"}
Context(source, title, i) ==
    LET open == SelectSeq([k \in 1..i |-> k], LAMBDA h : Governs(source, h, i))
        titled == /\ Preface(source) \cap (1..i) # {}
                  /\ \A h \in 1..i : source[h].type = "section" => source[h].level > 1
    IN (IF titled THEN <<DocumentTitle(title).title>> ELSE << >>) \o [k \in DOMAIN open |-> source[open[k]].title]

(* Where the parser gives places: the blocks of the file in its order, with   *)
(* the title over text that has no heading.                                   *)
PlacedBlocksOf(format, source, title) ==
    LET ensured == DocumentTitle(title)
        place == IF Preface(source) = {} THEN 0 ELSE IF format = "docx" THEN Min(Preface(source)) ELSE 1
    IN FlattenSeq([i \in DOMAIN source |->
           (IF i = place THEN <<Block("section", <<ensured.title>>, ensured.text)>> ELSE << >>)
             \o <<WithRows(Block(source[i].type, Context(source, title, i), source[i].text), source[i])>>])

(* Where it gives none: the first paragraphs of all sections, then the second *)
(* ones, and so on; section n has its heading among the paragraphs number n.  *)
NumberedBlocksOf(source, heading) ==
    LET sections == {h \in 0..(Len(source) - 1) :
                       (h = 0 \/ source[h].type = "section") /\ source[h + 1].type # "section"}
        HeadingOf(h) == IF h = 0 THEN heading ELSE <<source[h]>>
        Number(h) == Cardinality({g \in sections : g < h})
        Reaches(h, i) == \A k \in (h + 1)..i : k \in DOMAIN source /\ source[k].type # "section"
        Nth(n, h) ==
          (IF Number(h) = n - 1
           THEN [i \in DOMAIN HeadingOf(h) |-> Block("section", Titles(HeadingOf(h)), HeadingOf(h)[i].text)]
           ELSE << >>)
          \o (IF Reaches(h, h + n) THEN <<Block("paragraph", Titles(HeadingOf(h)), source[h + n].text)>> ELSE << >>)
    IN FlattenSeq([n \in DOMAIN source |->
           FlattenSeq([k \in DOMAIN source |-> IF k - 1 \in sections THEN Nth(n, k - 1) ELSE << >>])])

BlocksOf(format, source, title, configuration) ==
    LET found == IF format \in Sectioned THEN PlacedBlocksOf(format, source, title)
                 ELSE NumberedBlocksOf(source, FirstHeading(format, title))
    IN TitleBlock(title, configuration)
         \o SelectSeq(found, LAMBDA b : b.type # "section" \/ configuration.include_headings)
=============================================================================
