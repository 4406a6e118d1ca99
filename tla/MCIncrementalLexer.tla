------------------------- MODULE MCIncrementalLexer -------------------------
(***************************************************************************)
(* Texts of up to two characters, and longer ones: of one line and of      *)
(* several, comments before and behind an edit, and tabs.  Other is a      *)
(* character that no lexical rule knows.                                   *)
(***************************************************************************)
EXTENDS IncrementalLexer

CONSTANT Other

Short == BoundedSeq({Letter, Opener, LineFeed}, 2)

Long == { <<Letter, Other, LineFeed>>,
          <<Letter, Letter, Letter, LineFeed>>,
          <<Letter, Opener, LineFeed, Letter, LineFeed>>,
          <<Letter, LineFeed, Opener, LineFeed, Letter, LineFeed>>,
          <<Tab, Letter, LineFeed, Blank, Tab, Tab>> }

MCTexts == Short \cup Long

MCReplacements == { << >>, <<Letter>>, <<Opener>>, <<LineFeed>>, <<Blank, Other>>,
                    <<Opener, LineFeed, Letter>> }
=============================================================================
