---------------------------- MODULE MCEntryTable ----------------------------
\* Values for the constants of EntryTable that a configuration cannot write.
EXTENDS EntryTable
CONSTANTS oldPassword, newPassword

\* Two logins under one title; two titles.
TwoLogins == {<<1, "ann">>, <<1, "bob">>}
TwoTitles == {<<1, "ann">>, <<2, "ann">>}

\* Up to two entries: below one of them a rowid may be free.
StoredIn(names) ==
  {[i \in Rowids |-> CASE i = 1 -> e [] i = 2 -> f [] OTHER -> NoEntry] :
     e \in [name : {<<1, "ann">>}, password : {oldPassword}] \cup {NoEntry},
     f \in [name : names, password : {oldPassword}]}
LoginVaults == StoredIn(TwoLogins)
TitleVaults == StoredIn(TwoTitles)

TypedLogins == [name : {<<1, "ann">>}, password : {newPassword}]

\* Every file of two rows.
FilesOf(names) == {<<e, f>> : e, f \in [name : names, password : {newPassword}]}
LoginFiles == FilesOf(TwoLogins)
TitleFiles == FilesOf(TwoTitles)
=============================================================================
