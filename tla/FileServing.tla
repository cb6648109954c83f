------------------------------ MODULE FileServing ------------------------------
(***************************************************************************)
(* handle_request of mongoose.c: how a URI becomes a path and what is done *)
(* about it, with the options the daemon starts the server with (document  *)
(* root ".", no SSL, no file of passwords for PUT and DELETE).             *)
(*                                                                         *)
(* A URI is a sequence of characters; "rpc" and other words count as one.  *)
(* The functions work in place: a shorter result leaves the end of the old *)
(* text behind its terminating zero, where handle_request still looks.     *)
(***************************************************************************)
EXTENDS Integers, Sequences, FiniteSetsExt

CONSTANT HexPairs   \* HexPairs[<<a, b>>] is the character that %ab stands for

Zero == "zero"

ASSUME FileServingAssumption == \A pair \in DOMAIN HexPairs : HexPairs[pair] \in STRING

Slashes == {"/", "\\"}

\* The text at the start of a buffer.
Text(buf) == SubSeq(buf, 1, Min({k \in DOMAIN buf : buf[k] = Zero}) - 1)

\* The buffer after s has been written over its beginning.
Over(buf, s) == s \o <<Zero>> \o SubSeq(buf, Len(s) + 2, Len(buf))

\* mg_url_decode with is_form_url_encoded = 0.
mg_url_decode(src) ==
  LET code(i) == src[i] = "%" /\ i + 2 <= Len(src) /\ <<src[i + 1], src[i + 2]>> \in DOMAIN HexPairs
      from[i \in 1 .. Len(src) + 1] ==
        IF i > Len(src) THEN <<>>
        ELSE IF code(i) THEN <<HexPairs[<<src[i + 1], src[i + 2]>>]>> \o from[i + 3]
        ELSE <<src[i]>> \o from[i + 1]
  IN  from[1]

\* remove_double_dots_and_double_slashes.
RemoveDots(s) ==
  LET skip[i \in 1 .. Len(s) + 1] ==
        IF i <= Len(s) /\ s[i] \in Slashes THEN skip[i + 1]
        ELSE IF i < Len(s) /\ s[i] = "." /\ s[i + 1] = "." THEN skip[i + 2]
        ELSE i
      from[i \in 1 .. Len(s) + 1] ==
        IF i > Len(s) THEN <<>>
        ELSE <<s[i]>> \o from[IF s[i] \in Slashes THEN skip[i + 1] ELSE i + 1]
  IN  from[1]

\* Mutant: dots are removed before the URI is decoded.
CleanUriFirst(uri) ==
  LET raw == uri \o <<Zero>>
      clean == Over(raw, RemoveDots(uri))
  IN  Over(clean, mg_url_decode(Text(clean)))

\* The buffer of the URI when handle_request has decoded and cleaned it.
CleanUri(uri) ==
  LET raw == uri \o <<Zero>>
      decoded == Over(raw, mg_url_decode(uri))
  IN  Over(decoded, RemoveDots(Text(decoded)))

IsPutOrDelete(method) == method \in {"PUT", "DELETE"}

\* What the path names when it is looked up, and again when it is opened: size is
\* its size then, actual what can be read of it.
\* index is the kind of the index file of a directory, or "none".
FileStates(sizes) ==
  [kind : {"absent", "directory", "plain", "cgi", "ssi"}, index : {"none", "plain", "cgi", "ssi"},
   hidden : BOOLEAN, notModified : BOOLEAN, gzipped : BOOLEAN, opens : BOOLEAN,
   size : sizes, actual : sizes]

\* The kind of what is served: substitute_index_file replaces a directory.
Served(file) == IF file.kind = "directory" /\ file.index # "none" THEN file.index ELSE file.kind

\* The order of the decisions of handle_request once begin_request has declined.
\* last is the character of the URI's buffer at the length of the URI as received.
Decide(method, last, file) ==
  CASE method = "OPTIONS"                           -> "options"
    [] IsPutOrDelete(method)                        -> "digest"
    [] file.kind = "absent" \/ file.hidden          -> "404"
    [] file.kind = "directory" /\ last # "/" -> "301"
    [] method = "PROPFIND"                          -> "propfind"
    [] Served(file) = "directory"                   -> "listing"
    [] Served(file) = "cgi"                         ->
         IF method \in {"POST", "HEAD", "GET"} THEN "cgi" ELSE "501"
    [] Served(file) = "ssi"                         -> "ssi"
    [] file.notModified                             -> "304"
    [] OTHER                                        -> "file"

\* A Range header: the number of fields parse_range_header finds and their values.
ByteRange(n, r1, r2) == [n |-> n, r1 |-> r1, r2 |-> r2]

InForce(range) == range.n > 0 /\ range.r1 >= 0 /\ range.r2 >= 0

\* The Content-Length handle_file_request announces.
ContentLength(size, range) ==
  IF ~ InForce(range) THEN size
  ELSE IF range.n = 2 THEN (IF range.r2 > size THEN size ELSE range.r2) - range.r1 + 1
  ELSE size - range.r1

\* Mutant: the file is sent to its end whatever the length.
SendFileDataToEnd(file, offset, len) ==
  LET at == Min({file.size, Max({0, offset})})
  IN  IF len > 0 THEN Max({0, file.actual - at}) ELSE 0

\* send_file_data: the number of bytes sent, from a file that may have changed.
SendFileData(file, offset, len) ==
  LET at == Min({file.size, Max({0, offset})})
  IN  IF len > 0 THEN Max({0, Min({len, file.actual - at})}) ELSE 0

\* handle_file_request: status, the length announced and the length sent.
HandleFileRequest(method, file, range) ==
  LET cl == ContentLength(file.size, range)
      r1 == IF range.n > 0 THEN range.r1 ELSE 0
  IN  CASE ~ file.opens                        -> [status |-> 500, length |-> 0, sent |-> 0]
        [] file.opens /\ InForce(range) /\ file.gzipped ->
             [status |-> 501, length |-> 0, sent |-> 0]
        [] OTHER -> [status |-> IF InForce(range) THEN 206 ELSE 200,
                     length |-> cl,
                     sent |-> IF method = "HEAD" THEN 0 ELSE SendFileData(file, r1, cl)]
===============================================================================
