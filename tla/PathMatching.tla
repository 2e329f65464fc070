---------------------------- MODULE PathMatching ----------------------------
(***************************************************************************)
(* path_matches of src/policy.rs: how the patterns of a configuration are  *)
(* matched against request paths.                                          *)
(*                                                                         *)
(* A segment is a sequence of characters; what distinguishes characters is *)
(* only whether they are Star.  A path or pattern is the sequence of       *)
(* segments between its slashes, empty ones included, so "/a//b" is        *)
(* <<empty, a, empty, b>>.                                                 *)
(***************************************************************************)
EXTENDS Integers, Sequences, SequencesExt

CONSTANT Star  \* the character '*'

ANY == <<Star>>         \* the segment "*"
ANY_DEPTH == <<Star, Star>>  \* the segment "**"

(* str::split('*'): the stretches between the stars. *)
split(pattern) ==
  FoldLeft(LAMBDA parts, ch :
             IF ch = Star THEN Append(parts, <<>>)
             ELSE Front(parts) \o << Append(Last(parts), ch) >>,
           << <<>> >>, pattern)

(* Where part occurs in text, as numbers of characters before it. *)
Occurrences(part, text) ==
  {i \in 0..(Len(text) - Len(part)) : SubSeq(text, i + 1, i + Len(part)) = part}

(* Mutant: the stretch before the first star may be found anywhere. *)
may_start_anywhere(pattern, acc, i) == TRUE

(* The stretch before the first star must begin the segment (policy.rs:171). *)
may_start(pattern, acc, i) == acc.first /\ Head(pattern) # Star => i = 0

(* Mutant: str::rfind. *)
rfind(places) == Max(places)

(* str::find. *)
find(places) == Min(places)

(* One turn of the loop of segment_matches: a stretch is taken where it      *)
(* occurs first in what remains, for good.                                 *)
take(pattern, acc, part) ==
  LET places == {i \in Occurrences(part, acc.remainder) : may_start(pattern, acc, i)} IN
  IF part = <<>> \/ ~acc.ok THEN acc
  ELSE IF places = {} THEN [acc EXCEPT !.ok = FALSE]
  ELSE [ok |-> TRUE, first |-> FALSE,
        remainder |-> SubSeq(acc.remainder, find(places) + Len(part) + 1, Len(acc.remainder))]

segment_matches(pattern, segment) ==
  \/ pattern = ANY \/ pattern = segment
  \/ /\ Contains(pattern, Star)
     /\ LET end == FoldLeft(LAMBDA acc, part : take(pattern, acc, part),
                            [ok |-> TRUE, first |-> TRUE, remainder |-> segment],
                            split(pattern))
        IN end.ok /\ (Last(pattern) = Star \/ end.remainder = <<>>)

split_path(path) ==
  FoldLeft(LAMBDA parts, part : IF part = <<>> THEN parts ELSE Append(parts, part), <<>>, path)

Failed == [matched |-> FALSE, calls |-> 0]
Further(result, calls) == [result EXCEPT !.calls = calls + @]

(* Mutant: "**" stands for one or more segments. *)
any_depth_nonempty(match, i, j, m) ==
  IF j > m THEN Failed
  ELSE LET past == match[<<i + 1, j + 1>>] IN
       IF past.matched THEN past ELSE Further(match[<<i, j + 1>>], past.calls)

(* Mutant: past it, past it with one segment, or past one more segment. *)
any_depth_redundant(match, i, j, m) ==
  LET past == match[<<i + 1, j>>] IN
  IF past.matched \/ j > m THEN past
  ELSE LET one == Further(match[<<i + 1, j + 1>>], past.calls) IN
       IF one.matched THEN one ELSE Further(match[<<i, j + 1>>], one.calls)

(* At a "**" matching goes on past it and, if that does not succeed, past   *)
(* one more segment.                                                       *)
any_depth(match, i, j, m) ==
  LET past == match[<<i + 1, j>>] IN
  IF past.matched \/ j > m THEN past ELSE Further(match[<<i, j + 1>>], past.calls)

(* Whether the segments of pattern from the i-th on match those of path     *)
(* from the j-th on, and in how many calls of matches_parts that is found  *)
(* out.                                                                    *)
match_at(match, i, j, pattern, path) ==
  IF i > Len(pattern) THEN [matched |-> j > Len(path), calls |-> 1]
  ELSE IF pattern[i] = ANY_DEPTH
    THEN Further(any_depth(match, i, j, Len(path)), 1)
  ELSE IF j <= Len(path) /\ segment_matches(pattern[i], path[j])
    THEN Further(match[<<i + 1, j + 1>>], 1)
  ELSE Further(Failed, 1)

search(pattern, path) ==
  LET match[at \in (1..(Len(pattern) + 1)) \X (1..(Len(path) + 1))] ==
        match_at(match, at[1], at[2], pattern, path)
  IN match[<<1, 1>>]

matches_parts(pattern, path) == search(pattern, path).matched

path_matches(pattern, path) ==
  \/ pattern \in {path, << <<>>, ANY_DEPTH >>, << ANY_DEPTH >>}
  \/ matches_parts(split_path(pattern), split_path(path))

------------------------------------------------------------------------------
(* What the documentation of path_matches describes. *)

(* A star within a segment stands for any stretch of its characters. *)
Glob(pattern, segment) ==
  LET n == Len(pattern)
      m == Len(segment)
      glob[at \in (1..(n + 1)) \X (1..(m + 1))] ==
        LET i == at[1]
            j == at[2]
        IN IF i > n THEN j > m
           ELSE IF pattern[i] = Star THEN \E k \in j..(m + 1) : glob[<<i + 1, k>>]
           ELSE j <= m /\ pattern[i] = segment[j] /\ glob[<<i + 1, j + 1>>]
  IN glob[<<1, 1>>]

(* Every segment of the path is given to a segment of the pattern, in       *)
(* order: "**" takes any number of them, any other exactly one it globs.   *)
Denotes(pattern, path) ==
  LET patterns == split_path(pattern)
      segments == split_path(path)
  IN \E owner \in [DOMAIN segments -> DOMAIN patterns] :
       /\ \A j, k \in DOMAIN segments : j <= k => owner[j] <= owner[k]
       /\ \A i \in DOMAIN patterns : patterns[i] # ANY_DEPTH =>
            \E j \in DOMAIN segments :
              /\ Glob(patterns[i], segments[j])
              /\ \A k \in DOMAIN segments : owner[k] = i <=> k = j

==============================================================================
