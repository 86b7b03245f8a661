---------------------------- MODULE ScriptSource ----------------------------
(***************************************************************************)
(* The text of a page's script as app/js scans it.  The app runs no engine *)
(* over a page's scripts: it looks in the text for the names of the calls  *)
(* and assignments it knows.  A script is a sequence of statements         *)
(*                                                                         *)
(*   [name |-> << <<"window">>, <<"location">>, <<"href">> >>,             *)
(*    form |-> "call" | "assign" | "read", args |-> <<"/next">>,           *)
(*    cut |-> FALSE, commented |-> FALSE]                                  *)
(*                                                                         *)
(* whose name is written as a path, whose args are its string literals,    *)
(* and which is cut when a literal of it holds the two slashes of an       *)
(* absolute URL.  Only the last statement of a script is cut here: what    *)
(* follows an open quote on the lines below is data this model leaves out. *)
(* It is commented when it stands in a block comment. A literal that means *)
(* a URL means the one of UrlLiterals.                                     *)
(***************************************************************************)
EXTENDS SequencesExt, Collections

CONSTANT UrlLiterals \* literal -> [url |-> a URL, relative |-> its host is the base's]

Statement ==
  [name: Seq(Seq(STRING)), form: {"call", "assign", "read"}, args: Seq(STRING), cut: BOOLEAN, commented: BOOLEAN]

CanResolve(literal) == UrlLiterals[literal].url.scheme \in {"http", "https"}
Join(base, literal) ==
  IF UrlLiterals[literal].relative THEN [base EXCEPT !.path = UrlLiterals[literal].url.path] ELSE UrlLiterals[literal].url

Path(names) == [i \in DOMAIN names |-> <<names[i]>>]

Names(name, needle) ==
  \E from \in DOMAIN name : Len(name) >= from + Len(needle) - 1
                              /\ SubSeq(name, from, from + Len(needle) - 1) = needle

(* The runtime takes comments out before it looks; the scan for service    *)
(* workers reads the text as it came, without its line comments.           *)
StripJsComments(source) == Picked(source, {i \in DOMAIN source : ~source[i].commented})

(* strip_line_comments drops the rest of a line from any two slashes on,   *)
(* those of a URL in a literal too; the name before them stays.            *)
StripLineComments(source) ==
  [i \in DOMAIN source |-> IF source[i].cut THEN [source[i] EXCEPT !.form = "read", !.args = <<>>] ELSE source[i]]

(* A needle is found wherever its text is: location.href inside            *)
(* window.location.href, fetch inside window.fetch.                        *)
Found(source, needle, form, least) ==
  Picked(source, {i \in DOMAIN source : /\ source[i].form = form /\ IsSuffix(needle, source[i].name)
                                        /\ Len(source[i].args) >= least})
Calls(source, needle, least) == Found(source, needle, "call", least)
Assignments(source, needle) == Found(source, needle, "assign", 1)

(* The scans of document.cookie and location.href take the first equals    *)
(* sign after the name, however far it is, and the literal behind it: an   *)
(* assignment to something else, if the name itself is only read.  The     *)
(* next scan starts behind that.                                           *)
TakenFor(source, marker) ==
  {i \in DOMAIN source :
     /\ source[i].form = "assign"
     /\ \E at \in 1 .. i : /\ Names(source[at].name, marker)
                          /\ \A j \in at .. i - 1 : source[j].form # "assign"}
LateAssignments(source, marker) ==
  LET taken == Picked(source, {i \in TakenFor(source, marker) : source[i].args # <<>>})
  IN  [n \in DOMAIN taken |-> taken[n].args[1]]
=============================================================================
