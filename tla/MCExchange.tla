----------------------------- MODULE MCExchange -----------------------------
(* Two users, half a day apart, of which one exports to the program's own      *)
(* formats.  Of the entries, one is plain, one has what the .csv has to        *)
(* escape, and one has notes of two lines and a dash in its password.          *)
EXTENDS Exchange, TLC

CONSTANTS ann, bob

Plain ==
  [f \in Fields |-> CASE f = "tags" -> "plain" [] f = "url" -> "empty" [] OTHER -> "plain"]
Listed == [Plain EXCEPT !["title"] = "listed", !["password"] = "marked"]
Odd == [Plain EXCEPT !["notes"] = "rows", !["password"] = "risky"]

MCEntries == {Plain, Listed, Odd}
MCBatches == {<<Odd, Plain, Listed>>, <<Plain>>}
MCOffered == ann :> {<<Odd, Plain, Listed>>} @@ bob :> {}
MCSelected == {Plain}
MCMaxContacts == ann :> 2 @@ bob :> 0
MCZone == ann :> 0 @@ bob :> 1
=============================================================================
