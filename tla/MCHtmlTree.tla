----------------------------- MODULE MCHtmlTree -----------------------------
(***************************************************************************)
(* An instance of HtmlTree for TLC: the pages of three of the elements of  *)
(* the round-trip test of html_mvp (src/lib.rs), each with its end tag,    *)
(* three deep and around a text at the innermost.                          *)
(***************************************************************************)
EXTENDS HtmlTree

Around(tags, inner) ==
  {<< <<"<">>, <<tag>>, <<">">> >> \o text \o << <<"<">>, <<"/">>, <<tag>>, <<">">> >> : tag \in tags, text \in inner}
TestTags == {"ul", "span", "li"}
TestPages == Around(TestTags, Around(TestTags, Around(TestTags, {<< <<"x">> >>})))

HtmlSpec == HtmlInit /\ [][HtmlNext]_html

(* As prop_round_trip has it: a page written out is read back as it was. *)
SavedPagesRoundTrip == html.phase = "again" => DomEq(html.document, html.again)
=============================================================================
