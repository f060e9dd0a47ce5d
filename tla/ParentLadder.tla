---------------------------- MODULE ParentLadder ----------------------------
(***************************************************************************)
(* DoclingParser.parse of parsers/docling_parser.py: the elements Docling  *)
(* yields, the quality gate, the ladder of parent strategies, the dialogue *)
(* with the heading classifier, and the assembly of the sections.          *)
(*                                                                         *)
(* A text is the sequence of its lines; a line is its place in the         *)
(* document and what the code can tell of it (its shape).  Tokens and      *)
(* characters are counted in lines.                                        *)
(***************************************************************************)
EXTENDS Integers, FiniteSets, Sequences, SequencesExt, FiniteSetsExt, Subsequences

CONSTANTS
  FileTypes,        \* the types to parse, among "pdf", "docx", "pptx"
  ClassifierModes,  \* "off", "injected" by the caller, or "default": built from the settings
  Patterns,         \* the texts of paragraphs, as sequences of shapes
  Levels,           \* the levels Docling gives to section headers
  RawLevels,        \* the levels the classifier may answer
  MinHeadings, MinCoverage,         \* min_headings_for_structure, min_heading_page_coverage in percent
  MaxCandidates,                    \* max_heading_candidates
  MinCharsPerPage, MinChildTokens,  \* min_chars_per_page, min_child_tokens, in lines
  MaxElements, MaxPages, MaxConfirmed  \* bounds: of the document, and of the classifier's answers

Shapes == {"blank", "title", "prose", "long"}

ASSUME LadderAssumption ==
  /\ FileTypes \subseteq {"pdf", "docx", "pptx"}
  /\ Patterns \subseteq Seq(Shapes)
  /\ Levels \subseteq Nat /\ RawLevels \subseteq Int
  /\ MaxPages \in Nat

NoPage      == 0
Unsubmitted == <<0, 0>>  \* a line_id that the classifier made up

VARIABLES
  fileType, classifier,
  pageCount,  \* as Docling counts; 0 if it cannot
  elements,   \* the normalised document
  seenFirst,  \* seen_page_first
  phase,      \* where parse() stands
  strategy,   \* the tier under way or, at the end, raw_metadata["parent_strategy"]
  attempt,    \* of _classify_candidates
  confirmed,  \* the level of each line the classifier confirmed
  todo,       \* what build_sections_heading has not read yet
  stack,      \* its stack of headings
  sections

input == <<fileType, classifier, pageCount, elements, seenFirst>>
vars  == <<input, phase, strategy, attempt, confirmed, todo, stack, sections>>

----------------------------------------------------------------------------
\* Lines, elements, blocks.

Visible(lines) == Only(lines, {l \in ToSet(lines) : l.shape # "blank"})
IsTable(e)     == e.kind = "table"
HasText(e)     == Visible(e.lines) # <<>>
PageOf(e)      == IF e.page = NoPage THEN 1 ELSE e.page

\* The text blocks of some elements, numbered in the order of their section.
BlocksOf(es) ==
  LET texts == Only(es, {e \in ToSet(es) : ~IsTable(e) /\ HasText(e)})
  IN  [k \in DOMAIN texts |->
         [order |-> k - 1, page |-> texts[k].page, lines |-> Visible(texts[k].lines)]]
TablesOf(es) == Only(es, {e \in ToSet(es) : IsTable(e)})

Section(path, blocks, tables, start, end) ==
  [path |-> path, blocks |-> blocks, tables |-> tables, start |-> start, end |-> end]

\* What the chunker reads: the blocks of a section sorted by their order.
InOrder(blocks) ==
  LET before(i) == {j \in DOMAIN blocks : \/ blocks[j].order < blocks[i].order
                                          \/ (blocks[j].order = blocks[i].order /\ j < i)}
  IN  [k \in DOMAIN blocks |-> blocks[CHOOSE i \in DOMAIN blocks : Cardinality(before(i)) = k - 1]]

----------------------------------------------------------------------------
\* _extract: one action per kind of item.  Items come in page order; only a
\* docx has no pages.

Init ==
  /\ fileType \in FileTypes /\ classifier \in ClassifierModes
  /\ pageCount = 0 /\ elements = <<>> /\ seenFirst = {}
  /\ phase = "extract" /\ strategy = "none"
  /\ attempt = 0 /\ confirmed = <<>>
  /\ todo = <<>> /\ stack = <<>> /\ sections = <<>>

Pages == IF fileType = "docx" THEN {NoPage}
         ELSE {p \in 1..MaxPages : \A i \in DOMAIN elements : elements[i].page <= p}

\* _extract never sets end_page, so it keeps the default of ParsedElement.
Extract(kind, page, level, first, shapes) ==
  /\ phase = "extract" /\ Len(elements) < MaxElements
  /\ LET id == Len(elements) + 1
     IN  elements' = Append(elements,
           [id |-> id, kind |-> kind, page |-> page, endPage |-> NoPage,
            level |-> level, first |-> first,
            lines |-> [j \in DOMAIN shapes |-> [at |-> <<id, j>>, shape |-> shapes[j]]]])
  /\ UNCHANGED <<fileType, classifier, pageCount, phase, strategy, attempt, confirmed, todo, stack, sections>>

ExtractTable(p)     == Extract("table", p, 1, FALSE, <<>>) /\ UNCHANGED seenFirst
ExtractHeader(p, l) == Extract("heading", p, l, FALSE, <<"title">>) /\ UNCHANGED seenFirst

\* A text item labelled as a title is a heading, one that counts as the first on its page.
Seen(p) == seenFirst' = seenFirst \cup ({p} \ {NoPage})
ExtractTitle(p) == Extract("heading", p, 1, FALSE, <<"title">>) /\ Seen(p)
ExtractText(p, shapes) ==
  Extract("text", p, 1, p # NoPage /\ p \notin seenFirst, shapes) /\ Seen(p)

ExtractNext ==
  \E p \in Pages :
    \/ ExtractTable(p) \/ ExtractTitle(p)
    \/ \E l \in Levels : ExtractHeader(p, l)
    \/ \E shapes \in Patterns : ExtractText(p, shapes)

\* The quality gate of parse(), for a pdf: too few characters per page.
TextLength == Len(FlattenSeq([i \in DOMAIN elements |-> elements[i].lines]))
TooLittle(pages) ==
  fileType = "pdf" /\ TextLength < MinCharsPerPage * (IF pages = 0 THEN 1 ELSE pages)

Converted(count, next) ==
  /\ phase = "extract"
  /\ pageCount' = count
  /\ phase' = next
  /\ UNCHANGED <<fileType, classifier, elements, seenFirst, strategy, attempt, confirmed, todo, stack, sections>>

PageCounts == {0} \cup (Max({1} \cup {elements[i].page : i \in DOMAIN elements}))..MaxPages
Refuse == \E n \in PageCounts : TooLittle(n) /\ Converted(n, "refused")
Accept == \E n \in PageCounts : ~TooLittle(n) /\ Converted(n, "resolve")

----------------------------------------------------------------------------
\* resolve_strategy_and_build.

Covers(pages) == Cardinality(pages) * 100 >= MinCoverage * pageCount

HeadingsOf(es) == Only(es, {e \in ToSet(es) : e.kind = "heading"})

HeadingTier ==
  LET headings == HeadingsOf(elements)
      pages == {headings[i].page : i \in DOMAIN headings} \ {NoPage}
  IN  /\ Len(headings) >= MinHeadings
      /\ fileType = "pdf" => IF pageCount = 0 THEN MinCoverage = 0 ELSE Covers(pages)

\* parse() builds the default classifier before the ladder: with bad settings or
\* a missing library that raises, whatever tier would have won.
ClassifierUnavailable ==
  /\ phase = "resolve" /\ fileType = "pdf" /\ classifier = "default"
  /\ phase' = "raised"
  /\ UNCHANGED <<input, strategy, attempt, confirmed, todo, stack, sections>>

Built(tier, secs) ==
  /\ phase' = "built"
  /\ strategy' = tier
  /\ sections' = secs

\* build_sections_slides: one section per slide, empty ones included.
SlideSection(slide) ==
  LET els == Only(elements, {e \in ToSet(elements) : PageOf(e) = slide})
      headings == HeadingsOf(els)
      titled == IF headings # <<>> THEN headings ELSE els
      title == IF titled = <<>> THEN <<>> ELSE Visible(titled[1].lines)
      body == Only(els, {e \in ToSet(els) : ~(e.kind = "heading" /\ Visible(e.lines) = title)})
  IN  Section(IF title = <<>> THEN <<>> ELSE <<[level |-> 1, text |-> title]>>,
              BlocksOf(body), TablesOf(els), slide, slide)

BuildSlides ==
  /\ phase = "resolve" /\ fileType = "pptx"
  /\ LET total == Max({pageCount} \cup {PageOf(elements[i]) : i \in DOMAIN elements})
     IN  Built("SLIDE", [slide \in 1..total |-> SlideSection(slide)])
  /\ UNCHANGED <<input, attempt, confirmed, todo, stack>>

\* build_sections_flat: one section without a heading.
BuildFlat ==
  /\ phase = "resolve" /\ fileType = "docx" /\ ~HeadingTier
  /\ Built("FLAT", <<Section(<<>>, BlocksOf(elements), TablesOf(elements), NoPage, NoPage)>>)
  /\ UNCHANGED <<input, attempt, confirmed, todo, stack>>

\* build_sections_heading starts with a synthetic root.
Assemble(tier, es) ==
  /\ phase' = "assemble"
  /\ strategy' = tier
  /\ todo' = es
  /\ stack' = <<>>
  /\ sections' = <<Section(<<>>, <<>>, <<>>, NoPage, NoPage)>>

StartHeadings ==
  /\ phase = "resolve" /\ fileType # "pptx" /\ HeadingTier
  /\ Assemble("HEADING", elements)
  /\ UNCHANGED <<input, attempt, confirmed>>

----------------------------------------------------------------------------
\* The loop of build_sections_heading, one element at a time.

MutPopTo(level) ==  \* a bug: pops only what is below the level
  SubSeq(stack, 1, Max({0} \cup {k \in DOMAIN stack : stack[k].level <= level}))

\* The stack after popping from its top while that is not above the level.
PopTo(level) == SubSeq(stack, 1, Max({0} \cup {k \in DOMAIN stack : stack[k].level < level}))

Reading(kind) ==
  /\ phase = "assemble" /\ todo # <<>> /\ Head(todo).kind = kind
  /\ todo' = Tail(todo)
  /\ UNCHANGED <<input, phase, strategy, attempt, confirmed>>

ReadHeading ==
  /\ Reading("heading")
  /\ LET e == Head(todo)
         h == [level |-> e.level, text |-> Visible(e.lines)]
     IN  /\ stack' = Append(PopTo(e.level), h)
         /\ sections' = Append(sections, Section(stack', <<>>, <<>>, NoPage, NoPage))

ReadTable ==
  /\ Reading("table")
  /\ sections' = [sections EXCEPT ![Len(sections)].tables = Append(@, Head(todo))]
  /\ UNCHANGED stack

ReadText ==
  /\ Reading("text")
  /\ LET e == Head(todo)
         s == Last(sections)
         block == [order |-> Len(s.blocks), page |-> e.page, lines |-> Visible(e.lines)]
         filled == [s EXCEPT !.blocks = Append(@, block),
                             !.start = IF @ = NoPage THEN e.page ELSE @,
                             !.end = IF e.page = NoPage THEN @ ELSE e.page]
     IN  sections' = IF HasText(e) THEN [sections EXCEPT ![Len(sections)] = filled] ELSE sections
  /\ UNCHANGED stack

\* The synthetic root goes if it stayed empty and is not the only section.
Assembled ==
  IF Len(sections) > 1 /\ sections[1].blocks = <<>> /\ sections[1].tables = <<>>
  THEN Tail(sections) ELSE sections

FinishHeadings ==
  /\ phase = "assemble" /\ todo = <<>> /\ strategy = "HEADING"
  /\ Built("HEADING", Assembled)
  /\ UNCHANGED <<input, attempt, confirmed, todo, stack>>

----------------------------------------------------------------------------
\* Tier 3: candidates, dialogue, promotion.

\* _is_heading_candidate: a "title" ends without punctuation or is numbered, "prose"
\* ends with punctuation, a "long" line is over max_heading_chars.
IsCandidate(line, isPageStart) == line.shape = "title" \/ (line.shape = "prose" /\ isPageStart)

\* _extract_candidates numbers the lines of an element that are not blank.
Candidates ==
  {c \in (DOMAIN elements) \X (1..Max({1} \cup {Len(elements[i].lines) : i \in DOMAIN elements})) :
     /\ elements[c[1]].kind = "text"
     /\ LET lines == Visible(elements[c[1]].lines)
        IN  c[2] \in DOMAIN lines /\ IsCandidate(lines[c[2]], elements[c[1]].first /\ c[2] = 1)}

ToPages(from) ==
  /\ phase = from /\ phase' = "page"
  /\ UNCHANGED <<input, strategy, confirmed, todo, stack, sections>>

LadderLeft == phase = "resolve" /\ fileType = "pdf" /\ ~HeadingTier
Askable    == Candidates # {} /\ Cardinality(Candidates) <= MaxCandidates

SkipLlm ==
  /\ LadderLeft /\ (classifier = "off" \/ ~Askable)
  /\ ToPages("resolve")
  /\ UNCHANGED attempt

StartLlm ==
  /\ LadderLeft /\ classifier # "off" /\ Askable
  /\ phase' = "ask" /\ attempt' = 1
  /\ UNCHANGED <<input, strategy, confirmed, todo, stack, sections>>

MutPromote(e, j, levels) ==  \* a bug: one line off
  [e EXCEPT !.lines = <<e.lines[j]>>,
            !.endPage = NoPage,
            !.kind = IF <<e.id, j + 1>> \in DOMAIN levels THEN "heading" ELSE "text",
            !.level = IF <<e.id, j + 1>> \in DOMAIN levels THEN levels[<<e.id, j + 1>>] ELSE 1]

\* The rebuilt stream: lines at a confirmed position become headings, the others
\* that are not blank texts of their own.  Here all lines are numbered.
Promote(e, j, levels) ==
  [e EXCEPT !.lines = <<e.lines[j]>>,
            !.endPage = NoPage,
            !.kind = IF <<e.id, j>> \in DOMAIN levels THEN "heading" ELSE "text",
            !.level = IF <<e.id, j>> \in DOMAIN levels THEN levels[<<e.id, j>>] ELSE 1]

MutExpand(e, levels) ==  \* a bug: the paragraph stays beside its lines
  IF e.kind # "text" THEN <<e>>
  ELSE LET pieces == [j \in DOMAIN e.lines |-> Promote(e, j, levels)]
       IN  Append(Only(pieces, {l \in ToSet(pieces) : l.kind = "heading" \/ HasText(l)}), e)

Expand(e, levels) ==
  IF e.kind # "text" THEN <<e>>
  ELSE LET pieces == [j \in DOMAIN e.lines |-> Promote(e, j, levels)]
       IN  Only(pieces, {l \in ToSet(pieces) : l.kind = "heading" \/ HasText(l)})
Promoted(levels) == FlattenSeq([i \in DOMAIN elements |-> Expand(elements[i], levels)])

MutClamp(level) == Min({4, level})  \* a bug: no lower bound

Clamp(level) == Max({1, Min({4, level})})

\* A JSON array came back: entries that were not submitted are discarded, levels
\* clamped.  Without a confirmed line the tier gives up.
Answers == UNION {[s -> RawLevels] :
             s \in UNION {kSubset(k, Candidates \cup {Unsubmitted}) : k \in 0..MaxConfirmed}}
ModelAnswers(answer) ==
  /\ phase = "ask"
  /\ LET levels == [c \in (DOMAIN answer) \cap Candidates |-> Clamp(answer[c])]
     IN  /\ confirmed' = levels
         /\ \/ /\ DOMAIN levels # {}
               /\ Assemble("LLM_INFERRED", Promoted(levels))
            \/ /\ DOMAIN levels = {}
               /\ phase' = "page"
               /\ UNCHANGED <<strategy, todo, stack, sections>>
  /\ UNCHANGED <<input, attempt>>

\* Not a JSON array of objects: ask once more, then give up.
ModelBabbles ==
  \/ /\ phase = "ask" /\ attempt < 2
     /\ attempt' = attempt + 1
     /\ UNCHANGED <<input, phase, strategy, confirmed, todo, stack, sections>>
  \/ /\ attempt = 2
     /\ ToPages("ask")
     /\ UNCHANGED attempt

\* The model cannot be reached: no except clause names that error.
ModelFails ==
  /\ phase = "ask" /\ phase' = "raised"
  /\ UNCHANGED <<input, strategy, attempt, confirmed, todo, stack, sections>>

\* Sections of which enough pages start under a heading win, others are dropped.
Outlined ==
  LET headed == {i \in DOMAIN Assembled : Assembled[i].path # <<>>}
  IN  pageCount = 0 \/ Covers({Assembled[i].start : i \in headed} \ {NoPage})

FinishLlm ==
  /\ phase = "assemble" /\ todo = <<>> /\ strategy = "LLM_INFERRED"
  /\ \/ /\ Outlined
        /\ Built("LLM_INFERRED", Assembled)
        /\ UNCHANGED <<input, attempt, confirmed, todo, stack>>
     \/ /\ ~Outlined
        /\ ToPages("assemble")
        /\ UNCHANGED attempt

----------------------------------------------------------------------------
\* Tier 2: build_sections_page.

\* A paragraph that ends on a later page belongs to all the pages it spans.
OnPage(e, p) ==
  \/ p = PageOf(e)
  \/ e.kind # "table" /\ HasText(e) /\ e.endPage # NoPage /\ p \in PageOf(e)..e.endPage

PageSections ==
  LET on(p) == Only(elements, {e \in ToSet(elements) : OnPage(e, p) /\ (IsTable(e) \/ HasText(e))})
      pages == Only([p \in 1..MaxPages |-> p], {p \in 1..MaxPages : on(p) # <<>>})
  IN  [k \in DOMAIN pages |->
         Section(<<>>, BlocksOf(on(pages[k])), TablesOf(on(pages[k])), pages[k], pages[k])]

SectionTokens(s) == Len(FlattenSeq([k \in DOMAIN s.blocks |-> s.blocks[k].lines]))
IsShort(s) == SectionTokens(s) < MinChildTokens /\ s.tables = <<>>

MutMergeForward(merged, s) ==  \* a bug: only pages without text are carried
  LET carry == merged.carry
      sec == IF carry = <<>> THEN s
             ELSE [s EXCEPT !.blocks = carry[1].blocks \o @, !.start = carry[1].start]
  IN  IF SectionTokens(sec) = 0 /\ sec.tables = <<>> THEN [merged EXCEPT !.carry = <<sec>>]
      ELSE [done |-> Append(merged.done, sec), carry |-> <<>>]

\* A short page is carried into the next one; the last is kept.
MergeForward(merged, s) ==
  LET carry == merged.carry
      sec == IF carry = <<>> THEN s
             ELSE [s EXCEPT !.blocks = carry[1].blocks \o @,
                            !.tables = carry[1].tables \o @,
                            !.start = carry[1].start]
  IN  IF IsShort(sec) THEN [merged EXCEPT !.carry = <<sec>>]
      ELSE [done |-> Append(merged.done, sec), carry |-> <<>>]

Merged(pages) ==
  LET merged[k \in 0..Len(pages)] ==
        IF k = 0 THEN [done |-> <<>>, carry |-> <<>>] ELSE MergeForward(merged[k - 1], pages[k])
  IN  merged[Len(pages)]

MutBuildPages ==  \* a bug: a trailing short page is dropped
  /\ phase = "page"
  /\ Built("PAGE", Merged(PageSections).done)
  /\ UNCHANGED <<input, attempt, confirmed, todo, stack>>

BuildPages ==
  /\ phase = "page"
  /\ LET merged == Merged(PageSections) IN Built("PAGE", merged.done \o merged.carry)
  /\ UNCHANGED <<input, attempt, confirmed, todo, stack>>

----------------------------------------------------------------------------
ParserNext ==
  \/ ExtractNext \/ Refuse \/ Accept
  \/ BuildSlides \/ BuildFlat \/ StartHeadings \/ SkipLlm \/ StartLlm
  \/ ReadHeading \/ ReadTable \/ ReadText \/ FinishHeadings \/ FinishLlm
  \/ BuildPages

\* The classifier, a function of the caller or a model behind HTTP.
ModelNext ==
  /\ phase = "ask"
  /\ (\E answer \in Answers : ModelAnswers(answer)) \/ ModelBabbles \/ ModelFails

Next == ParserNext \/ ModelNext \/ ClassifierUnavailable
Spec == Init /\ [][Next]_vars

----------------------------------------------------------------------------
\* Properties.

Tiers == {"HEADING", "PAGE", "LLM_INFERRED", "FLAT", "SLIDE"}

TypeOK ==
  /\ phase \in {"extract", "resolve", "ask", "assemble", "page", "built", "refused", "raised"}
  /\ strategy \in Tiers \cup {"none"}
  /\ pageCount \in 0..MaxPages /\ seenFirst \subseteq 1..MaxPages
  /\ attempt \in 0..2
  /\ \A c \in DOMAIN confirmed : confirmed[c] \in 1..4
  /\ \A k \in DOMAIN sections : sections[k].start \in 0..MaxPages /\ sections[k].end \in 0..MaxPages

Won(tiers) == phase = "built" /\ strategy \in tiers
LinesOf(es) == FlattenSeq([i \in DOMAIN es |-> Visible(es[i].lines)])
BlockLines(s) == LET blocks == InOrder(s.blocks)
                 IN  FlattenSeq([k \in DOMAIN blocks |-> blocks[k].lines])
Title(s) == IF s.path = <<>> THEN <<>> ELSE Last(s.path).text
Lines(seq) == {seq[i] : i \in DOMAIN seq}

\* Whatever the tier, every line of the document ends up under some heading or in
\* some block, and every table in exactly one section (all build_sections_*).
NothingLost ==
  phase = "built" =>
    /\ Lines(LinesOf(elements)) \subseteq
         UNION {Lines(Title(sections[k])) \cup Lines(BlockLines(sections[k])) : k \in DOMAIN sections}
    /\ FlattenSeq([k \in DOMAIN sections |-> sections[k].tables]) = TablesOf(elements)

\* Headings and blocks, read section by section as the chunker does, are the
\* document word by word: nothing doubled, nothing displaced.
ReadingOrder ==
  LinesOf(elements) =
    FlattenSeq([k \in DOMAIN sections |-> Title(sections[k]) \o BlockLines(sections[k])])

\* ... in the tiers that build on headings and in the flat one.
ReadingOrderKept == Won({"HEADING", "LLM_INFERRED", "FLAT"}) => ReadingOrder

\* The claim for pages too: the order of a block is its "document reading order"
\* (models.py TextBlock).
PagesInReadingOrder == Won({"PAGE"}) => ReadingOrder

\* The stream the headed tiers read, and the headings that enclose its element i:
\* those before it that no later heading of the same or a higher rank has closed.
Source == IF strategy = "LLM_INFERRED" THEN Promoted(confirmed) ELSE elements
Enclosing(es, i) ==
  LET opens(h) == es[h].kind = "heading" /\ \A g \in (h + 1)..i :
                    es[g].kind = "heading" => es[g].level > es[h].level
      chain == Only([h \in 1..i |-> h], {h \in 1..i : opens(h)})
  IN  [k \in DOMAIN chain |-> [level |-> es[chain[k]].level, text |-> Visible(es[chain[k]].lines)]]

\* The stack of build_sections_heading files every text and every table under
\* exactly the headings that enclose it in the document.
FiledUnderItsHeadings ==
  Won({"HEADING", "LLM_INFERRED"}) =>
    \A k \in DOMAIN sections, i \in DOMAIN Source :
      (\/ Source[i] \in Lines(sections[k].tables)
       \/ \E b \in DOMAIN sections[k].blocks :
            Visible(Source[i].lines) = sections[k].blocks[b].lines)
      => sections[k].path = Enclosing(Source, i)

\* Exactly the lines the classifier confirmed are promoted ("promoting confirmed
\* lines to heading elements", build_sections_llm).
PromotedAreConfirmed ==
  Won({"LLM_INFERRED"}) =>
    {l \in UNION {Lines(Title(sections[k])) : k \in DOMAIN sections} :
       elements[l.at[1]].kind = "text"}
    = {Visible(elements[c[1]].lines)[c[2]] : c \in DOMAIN confirmed}

\* It holds of a document in whose paragraphs no line follows a blank one.
BlankInside ==
  \E i \in DOMAIN elements : \E j \in DOMAIN elements[i].lines : \E k \in 1..(j - 1) :
    elements[i].lines[k].shape = "blank" /\ elements[i].lines[j].shape # "blank"
PromotedUnlessBlank == ~BlankInside => PromotedAreConfirmed

\* A page's section holds the text of the pages it stands for, those merged into it
\* included, and no other, and none but the last is too short for a child (the
\* grouping by page and the merge in build_sections_page).
PagesHoldTheirText ==
  Won({"PAGE"}) =>
    /\ \A k \in DOMAIN sections, i \in DOMAIN elements :
         ~IsTable(elements[i]) /\ HasText(elements[i]) =>
           (elements[i].page \in sections[k].start..sections[k].end
              <=> Lines(Visible(elements[i].lines)) \subseteq Lines(BlockLines(sections[k])))
    /\ \A k \in 1..(Len(sections) - 1) : ~IsShort(sections[k])
=============================================================================
