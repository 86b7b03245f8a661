--------------------------- MODULE BrowserHistory ---------------------------
(***************************************************************************)
(* The visit list of BrowserHistory (crates/app/src/browser/history.rs):   *)
(* what record_visit appends, merges and evicts.  A visit is a record with  *)
(* a url and a title; its time stamp is left out.                          *)
(***************************************************************************)
EXTENDS Integers, Sequences

CONSTANTS Blank,          \* about:blank
          MaxEntries      \* max_entries (1000 in the code)

ASSUME MaxEntriesAssumption == MaxEntries \in Nat \ {0}

Visit(url, title) == [url |-> url, title |-> title]

IsRepeat(visits, visit) ==
  visits # <<>> /\ visits[Len(visits)] = visit

\* record_visit: about:blank and a repeat of the last visit are not
\* recorded; the oldest visits go when the list is over its bound.
RecordVisit(visits, visit) ==
  IF visit.url = Blank \/ IsRepeat(visits, visit)
    THEN visits
    ELSE LET longer == Append(visits, visit)
             excess == Len(longer) - MaxEntries
         IN  IF excess > 0 THEN SubSeq(longer, excess + 1, Len(longer)) ELSE longer
=============================================================================
