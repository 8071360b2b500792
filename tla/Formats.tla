------------------------------- MODULE Formats -------------------------------
(***************************************************************************)
(* What the exporter writes of an entry and what the importer makes of it. *)
(*                                                                         *)
(* A text is one of a few classes, by the characters the conversions look  *)
(* at.  The formats are the encrypted JSON of the program, its CSV and the *)
(* CSV of LastPass.                                                        *)
(***************************************************************************)
EXTENDS Integers, Sequences

CONSTANT Entries  \* the entries of the vaults, by their texts

Fields == {"title", "username", "password", "url", "notes", "category", "created", "tags"}

\* listed: has a comma and a quote        quotes: nothing but quotes
\* dashed: has "--" (a reason to be       marked: has one of < > ' ; `
\*   sanitized)                           risky: dashed and marked
\* lines, rows: two lines, of which the second has no comma, or two commas
Texts == {"empty", "plain", "listed", "quotes", "dashed", "marked", "risky", "lines", "rows"}

\* What is left of a text: without its marks, its first line, the cells of its
\* second line, or its quotes and one more.
Remains == {"stripped", "first", "tail", "doubled"}

Entry == [Fields -> Texts \cup Remains]

Lines == {"lines", "rows"}
Quoted == {"listed", "quotes"} \cup Lines

\* Only the notes are a text of several lines in the entry dialog.  What comes
\* after them is then free of quotes.
ASSUME EntriesAssumption ==
  /\ Entries \subseteq [Fields -> Texts]
  /\ \A e \in Entries, f \in Fields : e[f] \in Lines =>
       f = "notes" /\ \A g \in {"title", "category", "created", "tags"} : e[g] \notin Quoted

(***************************************************************************)
(* Sanitizing                                                              *)
(***************************************************************************)
sanitize(t) ==
  CASE t \in {"marked", "listed"} -> "stripped"
    [] t = "risky"                -> "dashed"
    [] t \in {"quotes", "doubled"} -> "empty"
    [] OTHER                      -> t

containsMaliciousContent(t) == t \in {"dashed", "risky"}

\* One suspicious text among the checked ones has all texts sanitized.
Sanitized(e, checked) ==
  IF \E f \in checked : containsMaliciousContent(e[f])
    THEN [f \in Fields |-> IF f = "created" THEN e[f] ELSE sanitize(e[f])]
    ELSE e

(***************************************************************************)
(* Encrypted JSON and share files                                          *)
(***************************************************************************)
\* Mutant of Serialized: the notes are left out as well.
SerializedWithoutNotes(e) == [e EXCEPT !["tags"] = "empty", !["notes"] = "empty"]

\* to_json has no tags.
Serialized(e) == [e EXCEPT !["tags"] = "empty"]

FromEncryptedJSON(e) ==
  Sanitized(Serialized(e), {"title", "username", "password", "url", "notes"})

(***************************************************************************)
(* CSV                                                                     *)
(***************************************************************************)
CSVOrder == <<"title", "username", "password", "url", "notes", "category", "created", "tags">>

CSVRow(e) == [i \in 1 .. 8 |-> e[CSVOrder[i]]]

\* url, username, password, totp, extra, name, grouping, fav
LastPassRow(e) ==
  <<e["url"], e["username"], e["password"], "empty", e["notes"], e["title"], e["category"], "plain">>

\* A quoted cell of quotes alone looks like pairs of them to the reader.
Unquoted(t) == IF t = "quotes" THEN "doubled" ELSE t

EntryOf(cells) ==
  [f \in Fields |->
    LET i == CHOOSE j \in 1 .. 8 : CSVOrder[j] = f
    IN  IF i <= Len(cells) THEN Unquoted(cells[i]) ELSE "empty"]

\* The reader splits the file into lines before it looks at the quotes: a row
\* whose notes have two lines ends in them, and what follows is a row of its own.
LinesOf(row) ==
  CASE row[5] = "lines" -> <<SubSeq(row, 1, 4) \o <<"first">>, <<"tail">> >>
    [] row[5] = "rows"  -> <<SubSeq(row, 1, 4) \o <<"first">>, <<"tail", "tail", "tail">> >>
    [] OTHER            -> <<row>>

\* A row of fewer than three cells is skipped.  Only the last one can be so
\* short: what is read is a sequence.
FromCSV(row) ==
  LET lines    == LinesOf(row)
      complete == {i \in DOMAIN lines : Len(lines[i]) >= 3}
  IN  [i \in complete |-> Sanitized(EntryOf(lines[i]), {"title", "username", "password"})]

(***************************************************************************)
(* Files                                                                   *)
(***************************************************************************)
\* The importer knows .csv files of this program only: one of LastPass is read
\* by the order of the columns.
RowOf(kind, e) == IF kind = "csv" THEN CSVRow(e) ELSE LastPassRow(e)

\* The program `bw` writes a .csv of what it got; the importer skips a row that
\* ends before its last column, as one with two lines does.
FromBitwarden(e) ==
  IF e["notes"] \in Lines
    THEN <<>>
    ELSE <<[e EXCEPT !["category"] = "empty", !["created"] = "plain", !["tags"] = "empty"]>>

\* What the importer makes of one entry of the file.
ReadEntry(kind, e) ==
  CASE kind = "native"              -> <<FromEncryptedJSON(e)>>
    [] kind \in {"csv", "lastpass"} -> FromCSV(RowOf(kind, e))
    [] kind = "json"                -> FromBitwarden(e)

FromFile(kind, entries) ==
  LET upTo[n \in 0 .. Len(entries)] ==
        IF n = 0 THEN <<>> ELSE upTo[n - 1] \o ReadEntry(kind, entries[n])
  IN  upTo[Len(entries)]

\* Nothing an importer would change, in the fields that the file keeps.
Untouched(e) == \A f \in Fields : e[f] \in {"empty", "plain", "listed", "marked"}

\* An entry without the field that the encrypted JSON leaves out.
Kept(kind, e) == IF kind = "native" THEN [e EXCEPT !["tags"] = "empty"] ELSE e
=============================================================================
