------------------------ MODULE NavigationController ------------------------
(***************************************************************************)
(* The back/forward list of one tab                                        *)
(* (crates/app/src/browser/navigation.rs).  A controller is the list of    *)
(* entries and the position of the current one; positions start at 1 here  *)
(* and at 0 in the code.                                                   *)
(***************************************************************************)
EXTENDS Integers, Sequences

CONSTANT Urls      \* the normalised URLs in play

Controller == [entries : Seq(Urls), current : Nat]

NewController(url) == [entries |-> <<url>>, current |-> 1]

\* The code falls back to about:blank when current_index is out of range;
\* WellFormed states that it never is.
CurrentUrl(nav) == nav.entries[nav.current]

CanGoBack(nav) == nav.current > 1

CanGoForward(nav) == nav.current < Len(nav.entries)

\* A navigation to the URL already shown changes nothing; any other one
\* drops the forward entries and becomes the last entry.
NavigateTo(nav, url) ==
  IF CurrentUrl(nav) = url
    THEN nav
    ELSE [entries |-> Append(SubSeq(nav.entries, 1, nav.current), url),
          current |-> nav.current + 1]

\* go_back and go_forward are called through CanGoBack and CanGoForward.
StepBack(nav) == [nav EXCEPT !.current = @ - 1]

StepForward(nav) == [nav EXCEPT !.current = @ + 1]

-----------------------------------------------------------------------------

WellFormed(nav) ==
  /\ nav \in Controller
  /\ nav.current \in 1 .. Len(nav.entries)

=============================================================================
