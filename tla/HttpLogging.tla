----------------------------- MODULE HttpLogging -----------------------------
(***************************************************************************)
(* What src/jwt.rs shows of its HTTP exchanges in the log: URIs, headers   *)
(* and the beginning of the body.                                          *)
(*                                                                         *)
(* A URI is the record of its parts, or Unparsable.  The name of a header  *)
(* is its text and the words that occur in it; its value may be visible    *)
(* ASCII or not.  A body is the sequence of the widths of its characters   *)
(* in bytes.                                                               *)
(***************************************************************************)
EXTENDS Naturals, Sequences, SequencesExt

CONSTANT Unparsable  \* a text that is no URI

(* User info, port, query and fragment are left out. *)
sanitize_uri(uri) ==
  IF uri = Unparsable THEN <<"<invalid-jwks-uri>">> ELSE <<uri.scheme, uri.host, uri.path>>

SENSITIVE_PATTERNS ==
  {"token", "secret", "password", "credential", "authorization", "cookie", "api-key",
   "apikey", "session", "jwt", "bearer", "csrf", "xsrf"}

(* Mutant: the names of well-known headers, not patterns. *)
is_sensitive_header_name_exact(name) == name.text \in {"authorization", "cookie", "set-cookie"}

is_sensitive_header_name(name) == name.words \cap SENSITIVE_PATTERNS # {}

sanitized_header_value(header) ==
  IF is_sensitive_header_name(header.name) THEN "<redacted>"
  ELSE IF header.visible THEN header.value ELSE "<non-utf8>"

(* Mutant: only two values of a header are kept. *)
with_value_last(shown, value) ==
  IF shown.kind = "string"
    THEN [kind |-> "array", items |-> <<shown.text, value>>]
    ELSE [kind |-> "array", items |-> <<shown.items[1], value>>]

(* A second value of a header turns the one shown into an array. *)
with_value(shown, value) ==
  IF shown.kind = "string"
    THEN [kind |-> "array", items |-> <<shown.text, value>>]
    ELSE [kind |-> "array", items |-> Append(shown.items, value)]

(* The values of a header under its name, in the order they came. *)
sanitized_headers(headers) ==
  LET add(shown, header) ==
        LET value == sanitized_header_value(header) IN
        [text \in DOMAIN shown \cup {header.name.text} |->
           IF text # header.name.text THEN shown[text]
           ELSE IF text \in DOMAIN shown THEN with_value(shown[text], value)
           ELSE [kind |-> "string", text |-> value]]
  IN FoldLeft(add, <<>>, headers)

Bytes(body) == FoldLeft(LAMBDA n, width : n + width, 0, body)

(* How many characters the first `at` bytes of body are, if they end one. *)
Characters(body, at) == {n \in 0..Len(body) : Bytes(SubSeq(body, 1, n)) = at}
is_char_boundary(body, at) == Characters(body, at) # {}

(* Mutant: no backing up, the character at the limit is taken whole. *)
boundary_after(body, max_bytes) ==
  LET end[e \in 0..Bytes(body)] == IF is_char_boundary(body, e) THEN e ELSE end[e + 1]
  IN end[max_bytes]

(* The loop of body_preview: from the limit back to a boundary. *)
boundary(body, max_bytes) ==
  LET end[e \in 0..max_bytes] == IF is_char_boundary(body, e) THEN e ELSE end[e - 1]
  IN end[max_bytes]

body_preview(body, max_bytes) ==
  IF Bytes(body) <= max_bytes
    THEN [preview |-> body, truncated |-> FALSE]
    ELSE [preview |-> SubSeq(body, 1, CHOOSE n \in Characters(body, boundary(body, max_bytes)) : TRUE),
          truncated |-> TRUE]

==============================================================================
