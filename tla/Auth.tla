--------------------------------- MODULE Auth ---------------------------------
(***************************************************************************)
(* auth.cpp as the daemon uses it: main loads the accounts once, before    *)
(* the web server starts, and every request is matched against them.       *)
(* users.conf is a sequence of fields, since fscanf takes a line break for *)
(* any white space.  A salted hash is the pair of the salt and the         *)
(* password: SHA-1 is taken to be free of collisions.                      *)
(***************************************************************************)
EXTENDS Base64

CONSTANTS
  DefaultUser, DefaultPassword,   \* the account main adds without users.conf
  NoFile                          \* users.conf cannot be opened

Colon == 58

\* The groups auth::auth sets up: full and read-only permissions.
Groups == 0 .. 1

Account(hash, salt, group) == [hash |-> hash, salt |-> salt, group |-> group]

\* A field of the file: a name, a hash, a salt (both hexadecimal) or a number.
Field(kind, value) == [kind |-> kind, value |-> value]

\* m_accounts[name] = account.
Store(accounts, name, account) ==
  [user \in DOMAIN accounts \cup {name} |-> IF user = name THEN account ELSE accounts[user]]

\* Mutant: a record that cannot be used ends the loading.
LoadAccountsStops(fields) ==
  LET load[n \in 0 .. Len(fields) \div 4] ==
        IF n = 0 THEN [stopped |-> FALSE, accounts |-> <<>>]
        ELSE LET l == load[n - 1]
                 f(k) == fields[4 * (n - 1) + k]
             IN  IF l.stopped \/ f(4).kind # "number" \/ f(2).kind # "hash" \/ f(3).kind # "salt" \/ f(4).value < 0
                   THEN [l EXCEPT !.stopped = TRUE]
                 ELSE [l EXCEPT !.accounts = Store(@, f(1).value, Account(f(2).value, f(3).value, f(4).value))]
  IN  load[Len(fields) \div 4].accounts

\* load_accounts: records of four fields, as long as the fourth is a number; one
\* whose hash or salt is not hexadecimal, or whose group is negative, is passed
\* over; a later record for a name replaces an earlier one.
LoadAccounts(fields) ==
  LET load[n \in 0 .. Len(fields) \div 4] ==
        IF n = 0 THEN [stopped |-> FALSE, accounts |-> <<>>]
        ELSE LET l == load[n - 1]
                 f(k) == fields[4 * (n - 1) + k]
             IN  IF l.stopped \/ f(4).kind # "number" THEN [l EXCEPT !.stopped = TRUE]
                 ELSE IF f(2).kind # "hash" \/ f(3).kind # "salt" \/ f(4).value < 0 THEN l
                 ELSE [l EXCEPT !.accounts = Store(@, f(1).value, Account(f(2).value, f(3).value, f(4).value))]
  IN  load[Len(fields) \div 4].accounts

\* add_account for a name that is not in the list.
AddAccount(user, pwd, group) == Store(<<>>, user, Account(<<"salt", pwd>>, "salt", group))

\* main: the accounts of users.conf, or the default one if it cannot be opened.
AccountsAtStart(file) ==
  IF file = NoFile THEN AddAccount(DefaultUser, DefaultPassword, 0) ELSE LoadAccounts(file)

\* find_user returns permissions and not NULL.
FindUser(accounts, user, pwd) ==
  /\ user \in DOMAIN accounts
  /\ accounts[user].hash = <<accounts[user].salt, pwd>>
  /\ accounts[user].group \in Groups

\* The Authorization header: whether it says Basic, and the rest of it.
NoHeader == [basic |-> FALSE, code |-> <<>>]

\* parse_http_auth: "throws" when there is no colon to cut the credentials at.
ParseHttpAuth(accounts, header, past) ==
  LET cred == Base64Decode(header.code, past)
      colons == {k \in DOMAIN cred : cred[k] = Colon}
      c == CHOOSE k \in colons : \A j \in colons : k <= j
      found == IF header.basic
                 THEN FindUser(accounts, SubSeq(cred, 1, c - 1), SubSeq(cred, c + 1, Len(cred)))
                 ELSE FindUser(accounts, <<>>, <<>>)
  IN  IF header.basic /\ colons = {} THEN "throws"
      ELSE IF found THEN "granted" ELSE "denied"
===============================================================================
