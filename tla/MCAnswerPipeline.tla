-------------------------- MODULE MCAnswerPipeline --------------------------
(* Instances of AnswerPipeline: a statute section and the version that       *)
(* replaces it, a commentary of another source on each of the two, and a     *)
(* repeal note that only the fallback bundle holds.                          *)
EXTENDS AnswerPipeline, TLC

CONSTANTS none, w1, w2, oldText, newText, noteText, otherText, helloText

MCSymmetry == Permutations(Workers)

MCTexts == {oldText, newText, noteText, otherText, helloText}

Fact(source, version, subject, text, periods, observed) ==
  [source |-> source, version |-> version, subject |-> subject, text |-> text,
   size |-> 2, periods |-> periods, decided |-> NoDate,
   supersededAt |-> NoDate, status |-> "IN_FORCE", supersedes |-> {},
   supersededBy |-> {}, intact |-> TRUE, official |-> TRUE,
   observed |-> observed, mentions |-> {}]

MCInfo ==
  << Fact("code", 1, "section", oldText, {<<2, 0>>}, 5),
     [Fact("code", 2, "section", newText, {<<4, 0>>}, 5) EXCEPT !.supersedes = {1},
                                                          !.size = 3],
     [Fact("commentary", 3, "section", oldText, {<<2, 5>>}, 5)
        EXCEPT !.official = FALSE],
     Fact("gazette", 4, "notice", noteText, {<<1, 0>>}, 2),
     Fact("gazette", 5, "section", newText, {<<3, 0>>}, 5) >>

MCChunks == 1..5

Result(ranking) == [ranking |-> ranking, cut |-> FALSE]
Cut(ranking)    == [ranking |-> ranking, cut |-> TRUE]

MCRequested == {"EXACT_IDENTIFIER", "FULL_TEXT", "VECTOR"}
MCAnswers ==
  [EXACT_IDENTIFIER |-> {Result(<< >>), Result(<< 2, 1 >>)},
   FULL_TEXT        |-> {Result(<< >>), Result(<< 3, 1 >>), Cut(<< 1 >>)},
   VECTOR           |-> {Result(<< 3 >>), Result(<< 4, 2 >>)}]

MCKind == [t \in MCTexts |-> IF t = helloText THEN "NON_FACTUAL"
                             ELSE IF t = noteText THEN "SOURCE" ELSE "FACT"]
MCOpposes  == {<< oldText, newText >>, << newText, oldText >>}
MCRelated  == {<< otherText, oldText >>, << otherText, noteText >>}
MCMentions == [t \in MCTexts |-> IF t = otherText THEN {"date"} ELSE {}]

Bare(t, cites) == [text |-> t, hedged |-> FALSE, cites |-> cites]
Hedged(t)      == [text |-> t, hedged |-> TRUE, cites |-> {}]

MCFirstDrafts == {{oldText, helloText}, {newText, otherText}}
MCSecondDrafts ==
  {{Bare(oldText, {})},
   {Bare(newText, {<< oldText, 5 >>}), Bare(helloText, {})},
   {Bare(newText, {<< newText, 2 >>}), Hedged(otherText)},
   {Bare(helloText, {<< noteText, 4 >>})}}

Hat(name, m) == [hat |-> name, registered |-> TRUE, usable |-> TRUE,
                 ours |-> TRUE, trusted |-> TRUE, scope |-> "FITS",
                 mandatory |-> m]
MCCandidateSets == {{}, {Hat("law", TRUE), Hat("tax", FALSE)},
                    {Hat("law", TRUE), [Hat("tax", TRUE) EXCEPT !.usable = FALSE]}}

MCContexts  == {[scopeAllowed |-> TRUE, ceiling |-> "ALLOW_ANSWER"],
                [scopeAllowed |-> TRUE, ceiling |-> "REQUIRE_CONFIRMATION"]}
MCQuestions == {[asOf |-> 4, now |-> 6, available |-> TRUE],
                [asOf |-> 6, now |-> 6, available |-> TRUE]}
MCFallbacks == {[given |-> TRUE, items |-> {5}, partial |-> FALSE]}

\* A section, the one that replaced it and the one that replaced that under
\* another number, where the identity of the middle version sorts first.
MCChain ==
  << [Fact("code", 1, "section", newText, {<<3, 0>>}, 5) EXCEPT !.supersedes = {2}],
     Fact("code", 2, "section", oldText, {<<1, 0>>}, 5),
     [Fact("code", 3, "renumbered", noteText, {<<4, 0>>}, 5) EXCEPT !.supersedes = {1}] >>

MCChainChunks == 1..3
MCChainAnswers ==
  [EXACT_IDENTIFIER |-> {Result(<< >>)}, FULL_TEXT |-> {Result(<< 1, 2, 3 >>)},
   VECTOR           |-> {Result(<< >>)}]
MCChainFallbacks == {[given |-> FALSE, items |-> {}, partial |-> FALSE]}
MCChainDrafts == {{Bare(helloText, {})}}
=============================================================================
