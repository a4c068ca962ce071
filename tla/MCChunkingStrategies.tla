------------------------ MODULE MCChunkingStrategies ------------------------
(* Files of up to three short blocks, and some of several sections, in       *)
(* formats that keep places and in those that do not: headings of two        *)
(* levels, paragraphs with and without white space to cut at, code and       *)
(* tables; a title that is also a heading's, a filename's, or none.  Windows *)
(* of four to six characters that overlap by up to three, and of two         *)
(* characters, which may hold nothing but the blank between two blocks.      *)
EXTENDS ChunkingStrategies

Words(n) == [i \in 1..n |-> "word"]
Blank == <<"space">>
MCTable(prefix, lengths) ==
    [SourceBlock("table", Words(prefix) \o FlattenSeq([r \in DOMAIN lengths |-> Blank \o Words(lengths[r])]))
       EXCEPT !.prefix = prefix, !.rows = lengths]

MCTexts == {Words(1), Words(3), Words(7), Words(2) \o Blank \o Words(3),
            Words(1) \o <<"stop">> \o Blank \o Words(1) \o Blank \o Words(1)}
MCHeadings == {Heading(1, "a", Words(2)), Heading(2, "b", Words(2)), Heading(1, "c", Words(2))}
MCSourceBlocks == {SourceBlock("paragraph", text) : text \in MCTexts} \cup MCHeadings
                  \cup {SourceBlock("code", Words(7)), MCTable(1, <<2, 1, 5>>), MCTable(2, <<1, 1>>),
                    MCTable(8, << >>)}
MCSources == {<<b>> : b \in MCSourceBlocks} \cup {<<b, c>> : b, c \in MCSourceBlocks}
             \cup {<<b, c, d>> : b \in {SourceBlock("paragraph", Words(1)), Heading(1, "a", Words(2))}, c, d \in MCSourceBlocks \ {MCTable(2, <<1, 1>>), SourceBlock("paragraph", Words(3))}}

MCWords(n) == SourceBlock("paragraph", Words(n))
MCSections == {<<MCWords(1), MCWords(2), h, MCWords(3)>> : h \in MCHeadings}
              \cup {<<h, MCWords(1), MCTable(1, <<1>>), g, MCWords(2), MCWords(3)>> : g, h \in MCHeadings}

(* Where the title matters: one block, or a heading before or after another.  *)
MCTitled == {s \in MCSources : Len(s) = 1 \/ (Len(s) = 2 /\ {s[1], s[2]} \cap MCHeadings # {})}
MCFilename == <<Heading(1, "file", Words(1))>>
MCTitles == {<< >>, <<Heading(1, "a", Words(2))>>}
MCDocuments ==
    [format : {"markdown", "docx", "txt"}, source : MCSources \cup MCSections, given : {<< >>},
     filename : {MCFilename}]
    \cup [format : Formats \ {"html"}, source : MCTitled \cup MCSections, given : MCTitles,
          filename : {<< >>}]

MCPreferences == {<<"section", "paragraph", "sentence", "whitespace", "character">>,
                  <<"whitespace", "character">>, <<"character">>}
MCChunkConfigurations ==
    {k \in [strategy_name : {"fixed_window"}, target : {4}, maximum : {4, 6}, minimum : {0, 3},
            overlap : {0, 2, 3}, boundary_preference : MCPreferences, preserve_tables : {TRUE},
            include_headings : {TRUE}, include_document_title : {TRUE}] :
       ValidSizes(k.target, k.maximum, k.minimum, k.overlap)}
    \cup [strategy_name : {"fixed_window"}, target : {2}, maximum : {2}, minimum : {0}, overlap : {0, 1},
          boundary_preference : {<<"character">>}, preserve_tables : {TRUE},
          include_headings : {TRUE}, include_document_title : BOOLEAN]
    \cup [strategy_name : {"structural"}, target : {4, 6}, maximum : {6, 7}, minimum : {0}, overlap : {0},
          boundary_preference : {<<"character">>}, preserve_tables : BOOLEAN,
          include_headings : {TRUE}, include_document_title : {TRUE}]
    \cup [strategy_name : {"structural"}, target : {6}, maximum : {7}, minimum : {0}, overlap : {0},
          boundary_preference : {<<"character">>}, preserve_tables : {TRUE},
          include_headings : BOOLEAN, include_document_title : {FALSE}]
=============================================================================
